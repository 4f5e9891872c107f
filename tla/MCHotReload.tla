------------------------------ MODULE MCHotReload ------------------------------
(* A small instance of HotReload for TLC: a request and a command that may   *)
(* overlap every reload between two generations.                             *)
EXTENDS HotReload

CONSTANTS r1, h1

OneRequest == {r1}
OneHandler == {h1}
TwoGenerations == {1, 2}
=============================================================================
