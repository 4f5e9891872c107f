-------------------------- MODULE MCMutationPlanner --------------------------
(* Instances of MutationPlanner for TLC. *)
EXTENDS MutationPlanner

CONSTANTS a, b, c, b1, b2, m644

PlainFiles == [bytes : {b1, b2}, mode : {m644}]
TwoHeads == {[q \in Paths |-> [bytes |-> b1, mode |-> m644]],
             [q \in Paths |-> None]}
=============================================================================
