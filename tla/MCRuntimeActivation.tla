------------------------ MODULE MCRuntimeActivation ------------------------
(* The activator with two generations. *)
EXTENDS RuntimeActivation
=============================================================================
