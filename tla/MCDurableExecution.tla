------------------------- MODULE MCDurableExecution -------------------------
(***************************************************************************)
(* Instances of DurableExecution for TLC.                                  *)
(***************************************************************************)
EXTENDS DurableExecution, TLC

(* One configuration generation. *)
OneGeneration == [p \in Procs |-> 1]

(* A roll-back overlaps a reload: the work is admitted for generation 2,   *)
(* and workers of the generations before and after it come and go too.     *)
CONSTANTS w1, w2, w3

RollingGeneration ==
    [p \in Procs |-> IF p = w1 THEN 1 ELSE IF p = w3 THEN 3 ELSE 2]

(* Every operation id stands for the same request. *)
SameRequest == [o \in Ops |-> 1]
=============================================================================
