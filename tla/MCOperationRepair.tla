------------------------- MODULE MCOperationRepair -------------------------
(* One operation, two workers and the operator. *)
EXTENDS OperationRepair, TLC

OneGeneration == [p \in Procs |-> 1]

Interchangeable == Permutations(Workers)

SameRequest == [o \in Ops |-> 1]
=============================================================================
