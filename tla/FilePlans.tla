------------------------------ MODULE FilePlans ------------------------------
(***************************************************************************)
(* Transaction plans: the actions of domain/filesystem_transaction.py, the *)
(* validation a plan passes before anything is written, and the tree that  *)
(* a plan asks for.  A tree gives every path its content, or None where    *)
(* there is no file.  File modes, parent directories and path syntax are   *)
(* not part of the model.                                                  *)
(***************************************************************************)
EXTENDS Integers, Sequences

CONSTANTS Paths,   \* the workspace paths a plan can name
          Data,    \* file contents
          None     \* no file, no saved copy, no idempotency key

ASSUME NoneAssumption == None \notin Data

Content == Data \cup {None}
Trees == [Paths -> Content]

-----------------------------------------------------------------------------
Write(q, d)  == [kind |-> "write",  path |-> q, dest |-> q, data |-> d]
Create(q, d) == [kind |-> "create", path |-> q, dest |-> q, data |-> d]
Delete(q)    == [kind |-> "delete", path |-> q, dest |-> q, data |-> None]
Move(q, r)   == [kind |-> "move",   path |-> q, dest |-> r, data |-> None]

Kinds == {"write", "create", "delete", "move"}
FileActions == [kind : Kinds, path : Paths, dest : Paths, data : Content]

\* A write and a create carry content; every action but a move has one path.
WellFormed(a) ==
    /\ a \in FileActions
    /\ a.kind \in {"write", "create"} => a.data \in Data
    /\ a.kind # "move" => a.dest = a.path
    /\ a.kind = "move" => a.dest # a.path

Touched(a) == {a.path, a.dest}

\* No path is named by two actions of the plan.
DisjointPaths(p) ==
    \A i, j \in DOMAIN p : i # j => Touched(p[i]) \cap Touched(p[j]) = {}

-----------------------------------------------------------------------------
(* What one action does to a tree, and which plans validation lets through. *)

After(a, t) ==
    CASE a.kind = "move"   -> [t EXCEPT ![a.path] = None, ![a.dest] = t[a.path]]
      [] a.kind = "delete" -> [t EXCEPT ![a.path] = None]
      [] OTHER             -> [t EXCEPT ![a.path] = a.data]

\* Whether an action leaves a file at a path it touches.
Leaves(a, q) == CASE a.kind = "move"   -> q = a.dest
                  [] a.kind = "delete" -> FALSE
                  [] OTHER             -> TRUE

\* _virtual_exists: what the last earlier action on the path left there, or
\* what is on disk.
VirtualExists(p, k, q, t) ==
    LET earlier == {j \in DOMAIN p : j < k /\ q \in Touched(p[j])}
    IN  IF earlier = {} THEN t[q] # None
        ELSE Leaves(p[CHOOSE j \in earlier : \A i \in earlier : i <= j], q)

\* _validate_plan.
Valid(p, t) ==
    \A k \in DOMAIN p :
        CASE p[k].kind = "create" -> ~VirtualExists(p, k, p[k].path, t)
          [] p[k].kind = "move"   -> /\ VirtualExists(p, k, p[k].path, t)
                                     /\ ~VirtualExists(p, k, p[k].dest, t)
          [] OTHER                -> VirtualExists(p, k, p[k].path, t)

\* The trees a plan passes through: Steps(p, t)[k] is the tree after k actions.
Steps(p, t) ==
    LET steps[k \in 0..Len(p)] == IF k = 0 THEN t ELSE After(p[k], steps[k - 1])
    IN  steps

-----------------------------------------------------------------------------
(* The tree a plan with disjoint paths asks for, path by path.             *)

Outcome(a, q, t) ==
    CASE a.kind = "move"   -> IF q = a.path THEN None ELSE t[a.path]
      [] a.kind = "delete" -> None
      [] OTHER             -> a.data

Effect(p, t) ==
    [q \in Paths |->
        LET hits == {k \in DOMAIN p : q \in Touched(p[k])}
        IN  IF hits = {} THEN t[q] ELSE Outcome(p[CHOOSE k \in hits : TRUE], q, t)]
=============================================================================
