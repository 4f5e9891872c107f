-------------------------- MODULE MCFileTransaction --------------------------
(* Instances of FileTransaction for TLC. *)
EXTENDS FileTransaction, TLC

CONSTANTS p1, p2, p3, d1, d2

\* The plans _MutationPlanner.transaction_actions can build over three paths:
\* moves first, then at most one action for each other path.
PlannerPlans ==
    {<<>>,
     <<Write(p1, d2)>>,
     <<Create(p3, d1)>>,
     <<Write(p1, d2), Write(p2, d1)>>,
     <<Create(p1, d1), Delete(p2)>>,
     <<Delete(p1), Write(p2, d2)>>,
     <<Move(p1, p2), Create(p3, d2)>>,
     <<Move(p1, p3), Write(p2, d1)>>}

\* The pointwise effect agrees with applying the actions one after another.
ASSUME \A p \in PlannerPlans, t \in Trees :
           Valid(p, t) => DisjointPaths(p) /\ Effect(p, t) = Steps(p, t)[Len(p)]
=============================================================================
