------------------------ MODULE FileTransactionProofs ------------------------
(***************************************************************************)
(* Proofs about the journaled file transaction.  For plans that name no    *)
(* path twice, and errors that stop at the commit marker, every behaviour  *)
(* rolls back to the files it found or carries its plan out, and so        *)
(* implements AtomicBatch.                                                 *)
(***************************************************************************)
EXTENDS FileTransaction, TLAPS

\* The two conditions of the theorems: what the planner guarantees of plans,
\* and that removing a committed journal raises no error.
Orderly == /\ \A p \in Plans : DisjointPaths(p)
           /\ LateFaults = FALSE

-----------------------------------------------------------------------------
(* The inductive invariant.                                                *)

Forward == {"apply", "replace", "receipt", "mark"}
Backward == {"undo", "restore"}

\* The plan was valid for the files the transaction found.
Fits(a, t) == CASE a.kind = "create" -> t[a.path] = None
                [] a.kind = "move"   -> t[a.path] # None /\ t[a.dest] = None
                [] OTHER             -> t[a.path] # None

PlanFits == /\ \A k \in DOMAIN plan : Fits(plan[k], base)
            /\ dir => plan \in Plans

\* Which phase the manifest can show at each step of the process.
PhaseFits ==
    /\ pc # "idle" => dir
    /\ ~dir => manifest = "none"
    /\ pc = "stage" => manifest = "none" /\ tree = base /\ saved = Nothing(plan) /\ at = 1
    /\ pc \in Forward \cup Backward \cup {"undo_receipt"} => manifest = "prepared"
    /\ pc = "purge" => manifest # "prepared"

\* The paths a plan names.
Named(p) == UNION {Touched(p[k]) : k \in DOMAIN p}

\* Tree t can be brought back to tree b on the paths of action a, the k-th
\* of the plan, from the saved and the staged files.
UndoableFrom(a, k, t, b, kept, stages) ==
    CASE a.kind = "create" -> k \in stages => t[a.path] = None
      [] a.kind = "move"   -> \/ t[a.path] = b[a.path] /\ t[a.dest] = None
                              \/ t[a.path] = None /\ t[a.dest] = b[a.path]
      [] OTHER             -> \/ kept[k] = None /\ t[a.path] = b[a.path]
                              \/ kept[k] = b[a.path]

\* On the paths of action a, tree t is tree b, or what a makes of b.
SameOn(a, t, b) == \A q \in Touched(a) : t[q] = b[q]
MadeOn(a, t, b) == \A q \in Touched(a) : t[q] = Outcome(a, q, b)

Undoable(k) == UndoableFrom(plan[k], k, tree, base, saved, staged)
Original(k) == SameOn(plan[k], tree, base)
Applied(k) == MadeOn(plan[k], tree, base)

PreparedFits ==
    manifest = "prepared" =>
        /\ \A q \in Paths : q \notin Named(plan) => tree[q] = base[q]
        /\ \A k \in DOMAIN plan : Undoable(k)

ForwardFits ==
    pc \in Forward =>
        /\ at >= 1
        /\ \A k \in DOMAIN plan : (k < at => Applied(k)) /\ (k > at => Original(k))
        /\ pc = "apply" /\ at \in DOMAIN plan => Original(at)
        /\ pc = "replace" => at \in DOMAIN plan /\ plan[at].kind = "write"
                             /\ saved[at] = base[plan[at].path]
        /\ pc \in {"receipt", "mark"} => at = Len(plan) + 1

BackwardFits ==
    pc \in Backward =>
        /\ at <= Len(plan)
        /\ \A k \in DOMAIN plan : k > at => Original(k)
        /\ pc = "restore" => at \in DOMAIN plan /\ plan[at].kind \in {"write", "delete"}
                             /\ saved[at] = base[plan[at].path]

ReceiptFits ==
    /\ named => key # None
    /\ pc \in {"stage", "apply", "replace"} => key \notin receipts /\ ~named
    /\ pc = "receipt" => key \notin receipts /\ named
    /\ pc = "mark" /\ key # None => key \in receipts
    /\ pc \in Backward => key \notin receipts
    /\ manifest = "prepared" /\ ~named => key \notin receipts
    /\ pc = "clear" /\ manifest = "prepared" => key \notin receipts

IInv == /\ TypeOK /\ PlanFits /\ PhaseFits /\ PreparedFits
        /\ ForwardFits /\ BackwardFits /\ ReceiptFits /\ RollbackRestores

-----------------------------------------------------------------------------
(* Types.                                                                  *)

\* The type invariant needs to know that the half-done steps work on an
\* action of the plan, and that a receipt is only written for a key.
TInv == /\ TypeOK
        /\ pc \in {"replace", "restore"} => at \in DOMAIN plan
        /\ pc = "undo" => at <= Len(plan)
        /\ pc = "receipt" => key # None

\* The actions of the current plan are well-formed records.
LEMMA PlanTypes ==
    ASSUME TypeOK
    PROVE  /\ plan \in Seq(FileActions) /\ Len(plan) \in Nat /\ DOMAIN plan = 1..Len(plan)
           /\ \A k \in DOMAIN plan : WellFormed(plan[k]) /\ plan[k] \in FileActions
BY PlansAssumption DEF TypeOK, WellFormed

\* Applying or reversing an action keeps a tree a tree.
LEMMA AfterType ==
    ASSUME NEW a, a.kind \in Kinds, a.path \in Paths, a.dest \in Paths, a.data \in Content,
           NEW t \in Trees
    PROVE  After(a, t) \in Trees
BY DEF After, Trees, Content

\* Every step of the engine keeps the type invariant.
LEMMA TypeStep == TInv /\ [Next]_vars => TInv'
<1> SUFFICES ASSUME TInv, [Next]_vars PROVE TInv'
    OBVIOUS
<1>t. TypeOK
    BY DEF TInv
<1>p. /\ plan \in Seq(FileActions) /\ Len(plan) \in Nat /\ DOMAIN plan = 1..Len(plan)
      /\ \A k \in DOMAIN plan : WellFormed(plan[k]) /\ plan[k] \in FileActions
    BY <1>t, PlanTypes
<1> USE DEF TInv, TypeOK, PCs
<1>1. ASSUME NEW k \in Keys \cup {None}, NEW p \in Plans, Begin(k, p) PROVE TInv'
  <2>1. p \in Seq(FileActions) /\ Len(p) \in Nat
      BY PlansAssumption
  <2>2. saved' \in [DOMAIN plan' -> Content]
      BY <1>1 DEF Begin, Nothing, Content
  <2>3. receipts' \subseteq Keys /\ faults' \in 0..MaxFaults /\ tree' \in Trees /\ base' \in Trees
      BY <1>1 DEF Begin
  <2>4. plan' \in Plans /\ key' \in Keys \cup {None} /\ staged' = {} /\ pc' = "stage"
      BY <1>1 DEF Begin
  <2>5. at' \in 0..(Len(plan') + 1)
    <3>1. plan' = p /\ at' = 1
        BY <1>1 DEF Begin
    <3> QED
        BY <2>1, <3>1
  <2>6. dir' \in BOOLEAN /\ named' \in BOOLEAN /\ manifest' = "none"
      BY <1>1, Zenon DEF Begin
  <2> QED
      BY <2>2, <2>3, <2>4, <2>5, <2>6
<1>2. CASE Prepare
    BY <1>2 DEF Prepare, Carriers
<1>3. CASE PrepareFails
    BY <1>3, FaultsAssumption DEF PrepareFails, Carriers
<1>4. CASE ApplyAction
  <2>1. tree' \in Trees
      BY <1>4, <1>p, AfterType DEF ApplyAction, WellFormed, FileActions
  <2>2. saved' \in [DOMAIN plan -> Content]
      BY <1>4, <1>p DEF ApplyAction, WellFormed, FileActions, Trees, Content
  <2> QED
      BY <1>4, <1>p, <2>1, <2>2 DEF ApplyAction
<1>5. CASE BackUp
    BY <1>5, <1>p DEF BackUp, WellFormed, FileActions, Trees, Content
<1>6. CASE Replace
    BY <1>6, <1>p DEF Replace, WellFormed, FileActions, Trees, Content
<1>7. CASE PrepareReceipt
    BY <1>7, <1>p DEF PrepareReceipt
<1>8. CASE ApplyReceipt
    BY <1>8, <1>p DEF ApplyReceipt
<1>9. CASE MarkCommitted
    BY <1>9, <1>p DEF MarkCommitted
<1>10. CASE StepFails \/ Crash
  <2>1. UNCHANGED <<disk, plan, key, at, base>> /\ faults' = faults + 1 /\ faults < MaxFaults
        /\ pc' \in {"undo_receipt", "idle"}
      BY <1>10 DEF StepFails, Crash
  <2> QED
      BY <2>1, FaultsAssumption DEF disk
<1>11. CASE UndoReceipt
    BY <1>11, <1>p DEF UndoReceipt
<1>12. CASE UndoAction
  <2>1. at \in DOMAIN plan
      BY <1>12, <1>p DEF UndoAction
  <2> DEFINE a == plan[at]
  <2>2. a.path \in Paths /\ a.dest \in Paths
      BY <2>1, <1>p DEF FileActions
  <2>3. After(Move(a.dest, a.path), tree) \in Trees
      BY <2>2, AfterType DEF Move, Kinds, Content
  <2>4. [tree EXCEPT ![a.path] = None] \in Trees
      BY <2>2 DEF Trees, Content
  <2>5. tree' \in Trees
      BY <1>12, <2>3, <2>4 DEF UndoAction
  <2>6. at' \in 0..Len(plan) /\ pc' \in {"undo", "restore"} /\ (pc' = "restore" => at' = at)
      BY <1>12, <2>1, <1>p DEF UndoAction
  <2> QED
      BY <1>12, <1>p, <2>1, <2>5, <2>6 DEF UndoAction
<1>13. CASE Restore
    BY <1>13, <1>p DEF Restore, WellFormed, FileActions, Trees, Content
<1>14. CASE UndoDone
    BY <1>14, <1>p DEF UndoDone, disk
<1>15. CASE RemoveEntry
    BY <1>15, <1>p DEF RemoveEntry, Content
<1>16. CASE RemoveDir
    BY <1>16, <1>p DEF RemoveDir
<1>17. CASE RecoverPending
    BY <1>17, <1>p DEF RecoverPending, disk
<1>18. CASE UNCHANGED vars
    BY <1>18 DEF vars, disk
<1> QED
    BY <1>1, <1>2, <1>3, <1>4, <1>5, <1>6, <1>7, <1>8, <1>9, <1>10, <1>11, <1>12,
       <1>13, <1>14, <1>15, <1>16, <1>17, <1>18 DEF Next, Work
-----------------------------------------------------------------------------
(* The invariant is inductive.                                             *)

\* The invariant covers what the types need.
LEMMA IInvTypes == IInv => TInv
BY DEF IInv, TInv, BackwardFits, ForwardFits, ReceiptFits, Backward, Forward

\* Under the planner's guarantee the current plan names no path twice.
LEMMA PlanDisjoint ==
    ASSUME Orderly, TypeOK
    PROVE  \A i, j \in DOMAIN plan : i # j => Touched(plan[i]) \cap Touched(plan[j]) = {}
BY DEF Orderly, TypeOK, DisjointPaths

\* A valid plan with disjoint paths is valid for the files on disk.
LEMMA ValidFits ==
    ASSUME NEW p \in Plans, NEW t, DisjointPaths(p), Valid(p, t)
    PROVE  \A k \in DOMAIN p : Fits(p[k], t)
<1> TAKE k \in DOMAIN p
<1>1. \A q \in Touched(p[k]) : {j \in DOMAIN p : j < k /\ q \in Touched(p[j])} = {}
  <2>1. p \in Seq(FileActions)
      BY PlansAssumption
  <2>2. \A j \in DOMAIN p : j < k => j # k
      BY <2>1
  <2> QED
      BY <2>2 DEF DisjointPaths
<1>2. \A q \in Touched(p[k]) : VirtualExists(p, k, q, t) <=> t[q] # None
    BY <1>1 DEF VirtualExists
<1>3. p[k].path \in Touched(p[k]) /\ p[k].dest \in Touched(p[k])
    BY DEF Touched
<1>4. CASE p[k].kind = "create"
    BY <1>2, <1>3, <1>4 DEF Valid, Fits
<1>5. CASE p[k].kind = "move"
    BY <1>2, <1>3, <1>5 DEF Valid, Fits
<1>6. CASE p[k].kind # "create" /\ p[k].kind # "move"
    BY <1>2, <1>3, <1>6 DEF Valid, Fits
<1> QED
    BY <1>4, <1>5, <1>6

\* When every path of every action is original, so is the tree.
LEMMA AllOriginal ==
    ASSUME TypeOK, \A q \in Paths : q \notin Named(plan) => tree[q] = base[q],
           \A k \in DOMAIN plan : Original(k)
    PROVE  tree = base
<1>1. \A q \in Paths : tree[q] = base[q]
    BY DEF Named, Original, SameOn
<1> QED
    BY <1>1 DEF TypeOK, Trees

\* A tree that equals the original one can be rolled back whatever the
\* directory holds, as long as nothing in it was saved.
LEMMA OriginalIsUndoable ==
    ASSUME TypeOK, PlanFits, tree = base, \A k \in DOMAIN plan : saved[k] = None
    PROVE  /\ \A q \in Paths : q \notin Named(plan) => tree[q] = base[q]
           /\ \A k \in DOMAIN plan : Undoable(k) /\ Original(k)
<1>1. ASSUME NEW k \in DOMAIN plan PROVE Undoable(k)
  <2>1. Fits(plan[k], base)
      BY <1>1 DEF PlanFits
  <2>2. CASE plan[k].kind = "create"
      BY <2>1, <2>2 DEF Undoable, UndoableFrom, Fits
  <2>3. CASE plan[k].kind = "move"
      BY <2>1, <2>3 DEF Undoable, UndoableFrom, Fits
  <2>4. CASE plan[k].kind \notin {"create", "move"}
      BY <1>1, <2>4 DEF Undoable, UndoableFrom
  <2> QED
      BY <2>2, <2>3, <2>4
<1> QED
    BY <1>1 DEF Original, SameOn

\* The engine starts in a state of the invariant.
LEMMA InitIInv == Init => IInv
<1> SUFFICES ASSUME Init PROVE IInv
    OBVIOUS
<1>1. TypeOK
  <2>1. saved \in [DOMAIN plan -> Content]
      BY DEF Init, Nothing, Content
  <2>2. faults \in 0..MaxFaults /\ at \in 0..(Len(plan) + 1)
      BY FaultsAssumption DEF Init
  <2> QED
      BY <2>1, <2>2 DEF Init, TypeOK, PCs
<1>2. PlanFits /\ PhaseFits /\ PreparedFits
    BY DEF Init, PlanFits, PhaseFits, PreparedFits, Forward, Backward
<1>3. ForwardFits /\ BackwardFits /\ ReceiptFits /\ RollbackRestores
    BY DEF Init, ForwardFits, BackwardFits, ReceiptFits, RollbackRestores, Forward, Backward
<1> QED
    BY <1>1, <1>2, <1>3 DEF IInv

\* Work on one action leaves every path and every record of the others alone.
LEMMA OthersKeep ==
    ASSUME Orderly, TypeOK, NEW k \in DOMAIN plan,
           plan' = plan, base' = base,
           \A q \in Paths \ Touched(plan[k]) : tree'[q] = tree[q],
           \A j \in DOMAIN plan \ {k} : saved'[j] = saved[j] /\ (j \in staged' => j \in staged)
    PROVE  /\ \A q \in Paths : q \notin Named(plan) => tree'[q] = tree[q]
           /\ \A j \in DOMAIN plan \ {k} : Undoable(j) => Undoable(j)'
           /\ \A j \in DOMAIN plan \ {k} : Original(j) => Original(j)'
           /\ \A j \in DOMAIN plan \ {k} : Applied(j) => Applied(j)'
<1>1. /\ \A q \in Paths : q \notin Named(plan) => tree'[q] = tree[q]
    BY DEF Named
<1>2. ASSUME NEW j \in DOMAIN plan \ {k}
      PROVE  /\ Undoable(j) => Undoable(j)'
             /\ Original(j) => Original(j)'
             /\ Applied(j) => Applied(j)'
  <2>1. Touched(plan[j]) \cap Touched(plan[k]) = {}
      BY <1>2, PlanDisjoint
  <2>2. plan[j].path \in Paths /\ plan[j].dest \in Paths
      BY <1>2, PlanTypes DEF FileActions
  <2>3. tree'[plan[j].path] = tree[plan[j].path] /\ tree'[plan[j].dest] = tree[plan[j].dest]
      BY <2>1, <2>2 DEF Touched
  <2>4. saved'[j] = saved[j] /\ (j \in staged' => j \in staged)
      BY <1>2
  <2>5. Original(j) => Original(j)'
      BY <2>3 DEF Original, SameOn, Touched
  <2>6. Applied(j) => Applied(j)'
      BY <2>3 DEF Applied, MadeOn, Touched, Outcome
  <2>7. CASE plan[j].kind = "create"
      BY <2>3, <2>4, <2>5, <2>6, <2>7 DEF Undoable, UndoableFrom
  <2>8. CASE plan[j].kind = "move"
      BY <2>3, <2>4, <2>5, <2>6, <2>8 DEF Undoable, UndoableFrom
  <2>9. CASE plan[j].kind \notin {"create", "move"}
      BY <2>3, <2>4, <2>5, <2>6, <2>9 DEF Undoable, UndoableFrom
  <2> QED
      BY <2>7, <2>8, <2>9
<1> QED
    BY <1>1, <1>2

\* Starting a call.
LEMMA BeginStep ==
    ASSUME Orderly, IInv, TypeOK', NEW k \in Keys \cup {None}, NEW p \in Plans, Begin(k, p)
    PROVE  IInv'
<1>1. PlanFits'
  <2>1. \A j \in DOMAIN p : Fits(p[j], tree)
    <3>1. DisjointPaths(p) /\ Valid(p, tree)
        BY DEF Orderly, Begin
    <3> QED
        BY <3>1, ValidFits
  <2>2. plan' = p /\ base' = tree
      BY DEF Begin
  <2> QED
      BY <2>1, <2>2 DEF PlanFits, Fits
<1>2. PhaseFits' /\ PreparedFits' /\ ForwardFits' /\ BackwardFits' /\ RollbackRestores'
    BY DEF Begin, PhaseFits, PreparedFits, ForwardFits, BackwardFits, RollbackRestores,
           Forward, Backward
<1>3. ReceiptFits'
    BY DEF Begin, ReceiptFits, Forward, Backward
<1> QED
    BY <1>1, <1>2, <1>3 DEF IInv

\* Steps that leave the tree, the plan, the saved and the staged files.
QuietStep == \/ PrepareReceipt \/ ApplyReceipt \/ MarkCommitted \/ StepFails
             \/ UndoReceipt \/ UndoDone \/ RecoverPending \/ Crash

LEMMA QuietKeeps ==
    ASSUME Orderly, IInv, TypeOK', QuietStep \/ UNCHANGED vars
    PROVE  IInv'
<1>1. UNCHANGED <<tree, base, plan, key, staged, saved, dir>>
    BY DEF QuietStep, PrepareReceipt, ApplyReceipt, MarkCommitted, StepFails, UndoReceipt,
           UndoDone, RecoverPending, Crash, disk, vars
<1>2. PlanFits'
    BY <1>1 DEF IInv, PlanFits, Fits
<1>3. /\ \A j : Undoable(j)' <=> Undoable(j)
      /\ \A j : Original(j)' <=> Original(j)
      /\ \A j : Applied(j)' <=> Applied(j)
    BY <1>1 DEF Undoable, Original, Applied, Named
<1>4. PreparedFits'
  <2>1. manifest' = "prepared" => manifest = "prepared"
      BY DEF QuietStep, PrepareReceipt, ApplyReceipt, MarkCommitted, StepFails, UndoReceipt,
             UndoDone, RecoverPending, Crash, disk, vars
  <2> QED
      BY <1>1, <1>3, <2>1 DEF IInv, PreparedFits
<1>5. PhaseFits'
    BY <1>1 DEF Orderly, IInv, PhaseFits, QuietStep, PrepareReceipt, ApplyReceipt, MarkCommitted,
       StepFails, UndoReceipt, UndoDone, RecoverPending, Crash, disk, vars, Forward, Backward
<1>6. ForwardFits'
  <2>1. CASE pc' \notin Forward
      BY <2>1 DEF ForwardFits
  <2>2. CASE pc' \in Forward
    <3>1. /\ pc \in Forward /\ at' = at
          /\ (pc' = "apply" => pc = "apply") /\ (pc' = "replace" => pc = "replace")
          /\ (pc' \in {"receipt", "mark"} => at = Len(plan) + 1)
        BY <2>2 DEF QuietStep, PrepareReceipt, ApplyReceipt, MarkCommitted, StepFails,
           UndoReceipt, UndoDone, RecoverPending, Crash, disk, vars, Forward, IInv, ForwardFits
    <3> QED
        BY <1>1, <1>3, <3>1 DEF IInv, ForwardFits, Forward
  <2> QED
      BY <2>1, <2>2
<1>7. BackwardFits'
  <2>1. CASE pc' \notin Backward
      BY <2>1 DEF BackwardFits
  <2>2. CASE UndoReceipt
      BY <1>1, <2>2, PlanTypes DEF IInv, UndoReceipt, BackwardFits, Backward
  <2>3. CASE pc' \in Backward /\ ~UndoReceipt
    <3>1. pc' = pc /\ at' = at
        BY <2>3 DEF QuietStep, PrepareReceipt, ApplyReceipt, MarkCommitted, StepFails,
           UndoDone, RecoverPending, Crash, disk, vars, Backward
    <3> QED
        BY <1>1, <1>3, <3>1 DEF IInv, BackwardFits, Backward
  <2> QED
      BY <2>1, <2>2, <2>3
<1>8. ReceiptFits'
    BY <1>1, KeysAssumption DEF Orderly, IInv, TypeOK, ReceiptFits, PhaseFits, QuietStep,
       PrepareReceipt, ApplyReceipt, MarkCommitted, StepFails, UndoReceipt, UndoDone, RecoverPending, Crash,
       disk, vars, Forward, Backward
<1>9. RollbackRestores'
  <2>1. CASE UndoDone
    <3>1. \A j \in DOMAIN plan : Original(j)
        BY <2>1, PlanTypes DEF IInv, UndoDone, BackwardFits, Backward
    <3>2. manifest = "prepared"
        BY <2>1 DEF IInv, UndoDone, PhaseFits, Forward, Backward
    <3>3. tree = base
        BY <3>1, <3>2, AllOriginal DEF IInv, PreparedFits
    <3> QED
        BY <3>3, <1>1 DEF RollbackRestores
  <2>2. CASE ~UndoDone
      BY <2>2, <1>1 DEF Orderly, IInv, RollbackRestores, QuietStep, PrepareReceipt, ApplyReceipt,
         MarkCommitted, StepFails, UndoReceipt, RecoverPending, Crash, disk, vars
  <2> QED
      BY <2>1, <2>2
<1> QED
    BY <1>2, <1>4, <1>5, <1>6, <1>7, <1>8, <1>9 DEF IInv

\* Staging, whether or not it fails.
LEMMA PrepareStep ==
    ASSUME Orderly, IInv, TypeOK', Prepare \/ PrepareFails
    PROVE  IInv'
<1>1. /\ UNCHANGED <<tree, receipts, dir, named, saved, plan, key, at, base>>
      /\ pc = "stage" /\ pc' \in {"apply", "clear"} /\ manifest' \in {"none", "prepared"}
      /\ pc' = "apply" => manifest' = "prepared"
    BY DEF Prepare, PrepareFails
<1>2. tree = base /\ saved = Nothing(plan) /\ dir /\ at = 1 /\ key \notin receipts /\ ~named
  <2>1. at = 1
      BY <1>1 DEF IInv, PhaseFits
  <2> QED
      BY <1>1, <2>1 DEF IInv, PhaseFits, ReceiptFits
<1>3. /\ \A q \in Paths : q \notin Named(plan') => tree'[q] = base'[q]
      /\ \A k \in DOMAIN plan : Undoable(k)' /\ Original(k)'
  <2>1. tree' = base' /\ (\A k \in DOMAIN plan : saved'[k] = None) /\ PlanFits'
      BY <1>1, <1>2 DEF IInv, PlanFits, Fits, Nothing
  <2>2. ASSUME NEW k \in DOMAIN plan PROVE Undoable(k)'
    <3>1. Fits(plan'[k], base')
        BY <1>1, <2>1, <2>2 DEF PlanFits, Fits
    <3>2. CASE plan'[k].kind = "create"
        BY <2>1, <3>1, <3>2 DEF Undoable, UndoableFrom, Fits
    <3>3. CASE plan'[k].kind = "move"
        BY <2>1, <3>1, <3>3 DEF Undoable, UndoableFrom, Fits
    <3>4. CASE plan'[k].kind \notin {"create", "move"}
        BY <2>1, <2>2, <3>4 DEF Undoable, UndoableFrom
    <3> QED
        BY <3>2, <3>3, <3>4
  <2> QED
      BY <2>1, <2>2 DEF Original, SameOn
<1>4. PlanFits'
    BY <1>1 DEF IInv, PlanFits, Fits
<1>5. PhaseFits' /\ PreparedFits' /\ BackwardFits' /\ RollbackRestores'
    BY <1>1, <1>2, <1>3 DEF PhaseFits, PreparedFits, BackwardFits, RollbackRestores,
       Forward, Backward
<1>6. ForwardFits'
  <2>1. plan' = plan /\ DOMAIN plan = 1..Len(plan) /\ Len(plan) \in Nat
      BY <1>1, PlanTypes DEF IInv
  <2>2. \A k \in DOMAIN plan : ~(k < at')
      BY <1>1, <1>2, <2>1
  <2> QED
      BY <1>1, <1>2, <1>3, <2>1, <2>2 DEF ForwardFits, Forward
<1>7. ReceiptFits'
    BY <1>1, <1>2 DEF IInv, ReceiptFits, Backward
<1> QED
    BY <1>4, <1>5, <1>6, <1>7 DEF IInv

\* Applying a create, a delete or a move.
LEMMA ApplyStep ==
    ASSUME Orderly, IInv, TypeOK', ApplyAction
    PROVE  IInv'
<1> DEFINE a == plan[at]
<1>1. /\ at \in DOMAIN plan /\ pc = "apply" /\ pc' = "apply" /\ at' = at + 1
      /\ a.kind # "write" /\ manifest = "prepared" /\ Original(at) /\ Fits(a, base)
      /\ UNCHANGED <<receipts, dir, manifest, named, plan, key, base>>
    BY DEF ApplyAction, IInv, PhaseFits, PlanFits, ForwardFits, Forward
<1>n. PICK n \in DOMAIN plan : n = at
    BY <1>1
<1>2. /\ plan \in Seq(FileActions) /\ Len(plan) \in Nat /\ DOMAIN plan = 1..Len(plan)
      /\ WellFormed(a) /\ a \in FileActions
    BY <1>1, PlanTypes DEF IInv
<1>3. a.path \in Paths /\ a.dest \in Paths /\ a.kind \in {"create", "delete", "move"}
    BY <1>1, <1>2 DEF FileActions, Kinds
<1>4. tree[a.path] = base[a.path] /\ tree[a.dest] = base[a.dest]
    BY <1>1 DEF Original, SameOn, Touched
<1>5. tree \in Trees /\ tree' = After(a, tree) /\ staged' = staged \ {at}
      /\ saved' = (IF a.kind = "delete" THEN [saved EXCEPT ![at] = tree[a.path]] ELSE saved)
    BY DEF ApplyAction, IInv, TypeOK
<1>6. \A q \in Paths \ Touched(a) : tree'[q] = tree[q]
    BY <1>3, <1>5 DEF After, Touched, Trees
<1>7. \A j \in DOMAIN plan \ {at} : saved'[j] = saved[j] /\ (j \in staged' => j \in staged)
    BY <1>5 DEF IInv, TypeOK
<1>8. Applied(n)' /\ Undoable(n)'
  <2>1. CASE a.kind = "create"
    <3>1. tree'[a.path] = a.data /\ a.dest = a.path /\ at \notin staged'
        BY <1>2, <1>3, <1>5, <2>1 DEF After, Trees, WellFormed
    <3> QED
        BY <1>1, <1>n, <2>1, <3>1 DEF Applied, MadeOn, Undoable, UndoableFrom, Touched, Outcome
  <2>2. CASE a.kind = "delete"
    <3>1. tree'[a.path] = None /\ a.dest = a.path /\ saved'[at] = base[a.path]
        BY <1>1, <1>2, <1>3, <1>4, <1>5, <2>2 DEF After, Trees, WellFormed, IInv, TypeOK
    <3> QED
        BY <1>1, <1>n, <2>2, <3>1 DEF Applied, MadeOn, Undoable, UndoableFrom, Touched, Outcome
  <2>3. CASE a.kind = "move"
    <3>1. tree'[a.path] = None /\ tree'[a.dest] = base[a.path] /\ a.dest # a.path
        BY <1>2, <1>3, <1>4, <1>5, <2>3 DEF After, Trees, WellFormed
    <3> QED
        BY <1>1, <1>n, <2>3, <3>1 DEF Applied, MadeOn, Undoable, UndoableFrom, Touched, Outcome
  <2> QED
      BY <1>3, <2>1, <2>2, <2>3
<1>9. /\ \A q \in Paths : q \notin Named(plan) => tree'[q] = tree[q]
      /\ \A j \in DOMAIN plan \ {n} : Undoable(j) => Undoable(j)'
      /\ \A j \in DOMAIN plan \ {n} : Original(j) => Original(j)'
      /\ \A j \in DOMAIN plan \ {n} : Applied(j) => Applied(j)'
  <2>1. /\ \A q \in Paths \ Touched(plan[n]) : tree'[q] = tree[q]
        /\ \A j \in DOMAIN plan \ {n} : saved'[j] = saved[j] /\ (j \in staged' => j \in staged)
      BY <1>n, <1>6, <1>7
  <2>2. TypeOK /\ plan' = plan /\ base' = base
      BY <1>1 DEF IInv
  <2> QED
      BY <2>1, <2>2, OthersKeep
<1>10. PreparedFits'
  <2>1. ASSUME NEW k \in DOMAIN plan PROVE Undoable(k)'
    <3>1. CASE k = n
        BY <1>8, <3>1
    <3>2. CASE k # n
      <4>1. k \in DOMAIN plan \ {n} /\ Undoable(k)
          BY <1>1, <3>2 DEF IInv, PreparedFits
      <4> QED
          BY <1>9, <4>1
    <3> QED
        BY <3>1, <3>2
  <2>2. ASSUME NEW q \in Paths, q \notin Named(plan') PROVE tree'[q] = base'[q]
      BY <1>1, <1>9, <2>2 DEF IInv, PreparedFits
  <2> QED
      BY <1>1, <2>1, <2>2 DEF PreparedFits
<1>11. ForwardFits'
  <2>1. ASSUME NEW k \in DOMAIN plan, k < at + 1 PROVE Applied(k)'
    <3>1. CASE k = n
        BY <1>8, <3>1
    <3>2. CASE k # n
      <4>1. k < at
          BY <1>1, <1>n, <1>2, <2>1, <3>2
      <4>2. k \in DOMAIN plan \ {n} /\ Applied(k)
          BY <1>1, <3>2, <4>1 DEF IInv, ForwardFits, Forward
      <4> QED
          BY <1>9, <4>2
    <3> QED
        BY <3>1, <3>2
  <2>2. ASSUME NEW k \in DOMAIN plan, k >= at + 1 PROVE Original(k)'
    <3>1. k > at /\ k # n
        BY <1>1, <1>n, <1>2, <2>2
    <3>2. k \in DOMAIN plan \ {n} /\ Original(k)
        BY <1>1, <3>1 DEF IInv, ForwardFits, Forward
    <3> QED
        BY <1>9, <3>2
  <2>3. \A k \in DOMAIN plan' : (k < at' => Applied(k)') /\ (k > at' => Original(k)')
      BY <1>1, <1>2, <2>1, <2>2
  <2>4. at' >= 1 /\ (at' \in DOMAIN plan' => Original(at)')
      BY <1>1, <1>2, <2>2
  <2> QED
      BY <1>1, <2>3, <2>4 DEF ForwardFits, Forward
<1>12. PlanFits' /\ PhaseFits' /\ BackwardFits' /\ ReceiptFits' /\ RollbackRestores'
    BY <1>1 DEF IInv, PlanFits, Fits, PhaseFits, BackwardFits, ReceiptFits, RollbackRestores,
       Forward, Backward
<1> QED
    BY <1>10, <1>11, <1>12 DEF IInv

\* A write moves its target away, and then puts the staged file there.
LEMMA WriteStep ==
    ASSUME Orderly, IInv, TypeOK', BackUp \/ Replace
    PROVE  IInv'
<1>1. /\ at \in DOMAIN plan /\ manifest = "prepared" /\ plan[at].kind = "write"
      /\ UNCHANGED <<receipts, dir, manifest, named, plan, key, base>>
      /\ pc' \in {"apply", "replace"} /\ pc \in {"apply", "replace"}
    BY DEF BackUp, Replace, IInv, PhaseFits, ForwardFits, Forward
<1>n. PICK n \in DOMAIN plan : n = at
    BY <1>1
<1> DEFINE a == plan[n]
<1>2. /\ Len(plan) \in Nat /\ DOMAIN plan = 1..Len(plan) /\ a.path \in Paths
      /\ a.dest = a.path /\ tree \in Trees /\ saved \in [DOMAIN plan -> Content]
    BY <1>1, <1>n, PlanTypes DEF IInv, TypeOK, FileActions, WellFormed
<1>3. \A q \in Paths \ Touched(a) : tree'[q] = tree[q]
    BY <1>1, <1>n, <1>2 DEF BackUp, Replace, Touched, Trees
<1>4. \A j \in DOMAIN plan \ {n} : saved'[j] = saved[j] /\ (j \in staged' => j \in staged)
    BY <1>1, <1>n, <1>2 DEF BackUp, Replace
<1>5. /\ \A q \in Paths : q \notin Named(plan) => tree'[q] = tree[q]
      /\ \A j \in DOMAIN plan \ {n} : Undoable(j) => Undoable(j)'
      /\ \A j \in DOMAIN plan \ {n} : Original(j) => Original(j)'
      /\ \A j \in DOMAIN plan \ {n} : Applied(j) => Applied(j)'
  <2>1. TypeOK /\ plan' = plan /\ base' = base
      BY <1>1 DEF IInv
  <2> QED
      BY <1>3, <1>4, <2>1, OthersKeep
<1>6. saved'[n] = base[a.path]
  <2>1. CASE BackUp
    <3>1. tree[a.path] = base[a.path]
        BY <1>1, <1>n, <2>1 DEF BackUp, IInv, ForwardFits, Forward, Original, SameOn, Touched
    <3> QED
        BY <1>n, <1>2, <2>1, <3>1 DEF BackUp
  <2>2. CASE Replace
      BY <1>n, <2>2 DEF Replace, IInv, ForwardFits, Forward
  <2> QED
      BY <2>1, <2>2
<1>7. Undoable(n)'
    BY <1>1, <1>n, <1>6 DEF Undoable, UndoableFrom
<1>8. PreparedFits'
  <2>1. ASSUME NEW k \in DOMAIN plan PROVE Undoable(k)'
    <3>1. CASE k = n
        BY <1>7, <3>1
    <3>2. CASE k # n
      <4>1. k \in DOMAIN plan \ {n} /\ Undoable(k)
          BY <1>1, <3>2 DEF IInv, PreparedFits
      <4> QED
          BY <1>5, <4>1
    <3> QED
        BY <3>1, <3>2
  <2>2. ASSUME NEW q \in Paths, q \notin Named(plan') PROVE tree'[q] = base'[q]
      BY <1>1, <1>5, <2>2 DEF IInv, PreparedFits
  <2> QED
      BY <1>1, <2>1, <2>2 DEF PreparedFits
<1>9. ASSUME NEW k \in DOMAIN plan PROVE (k < at => Applied(k)') /\ (k > at => Original(k)')
  <2>1. CASE k < at
    <3>1. k \in DOMAIN plan \ {n} /\ Applied(k)
        BY <1>1, <1>n, <1>2, <2>1 DEF IInv, ForwardFits, Forward
    <3> QED
        BY <1>2, <1>n, <1>5, <2>1, <3>1
  <2>2. CASE k > at
    <3>1. k \in DOMAIN plan \ {n} /\ Original(k)
        BY <1>1, <1>n, <1>2, <2>2 DEF IInv, ForwardFits, Forward
    <3> QED
        BY <1>2, <1>n, <1>5, <2>2, <3>1
  <2> QED
      BY <2>1, <2>2
<1>10. ForwardFits'
  <2>1. CASE BackUp
    <3>1. at' = at /\ pc' = "replace"
        BY <2>1 DEF BackUp
    <3> QED
        BY <1>1, <1>2, <1>n, <1>6, <1>9, <3>1 DEF ForwardFits, Forward
  <2>2. CASE Replace
    <3>1. at' = at + 1 /\ pc' = "apply"
        BY <2>2 DEF Replace
    <3>2. Applied(n)'
      <4>1. tree'[a.path] = a.data
          BY <1>n, <1>2, <2>2 DEF Replace, Trees
      <4> QED
          BY <1>1, <1>n, <1>2, <4>1 DEF Applied, MadeOn, Touched, Outcome
    <3>3. ASSUME NEW k \in DOMAIN plan, k < at' PROVE Applied(k)'
      <4>1. k < at \/ k = n
          BY <1>2, <1>n, <3>1, <3>3
      <4> QED
          BY <1>9, <3>2, <4>1
    <3>4. ASSUME NEW k \in DOMAIN plan, k >= at' PROVE Original(k)'
      <4>1. k > at
          BY <1>2, <1>n, <3>1, <3>4
      <4> QED
          BY <1>9, <4>1
    <3>5. \A k \in DOMAIN plan' : (k < at' => Applied(k)') /\ (k > at' => Original(k)')
        BY <1>1, <1>2, <1>n, <3>1, <3>3, <3>4
    <3>6. at' >= 1 /\ (at' \in DOMAIN plan' => Original(at)')
        BY <1>1, <1>2, <1>n, <3>1, <3>4
    <3> QED
        BY <1>1, <3>1, <3>5, <3>6 DEF ForwardFits, Forward
  <2> QED
      BY <2>1, <2>2
<1>11. PlanFits' /\ PhaseFits' /\ BackwardFits' /\ RollbackRestores'
    BY <1>1 DEF IInv, PlanFits, Fits, PhaseFits, BackwardFits, RollbackRestores, Forward, Backward
<1>12. ReceiptFits'
    BY <1>1 DEF IInv, ReceiptFits, Backward, BackUp, Replace
<1> QED
    BY <1>8, <1>10, <1>11, <1>12 DEF IInv

\* Undoing one action, and putting a saved original back.
LEMMA UndoStep ==
    ASSUME Orderly, IInv, TypeOK', UndoAction \/ Restore
    PROVE  IInv'
<1>0. DOMAIN plan = 1..Len(plan) /\ Len(plan) \in Nat /\ at \in Nat
    BY PlanTypes DEF IInv, TypeOK
<1>1. /\ at \in DOMAIN plan /\ manifest = "prepared" /\ pc \in Backward
      /\ UNCHANGED <<receipts, dir, manifest, named, plan, key, base, staged>>
      /\ pc' \in {"undo", "restore"}
    BY <1>0 DEF UndoAction, Restore, IInv, PhaseFits, BackwardFits, Forward, Backward
<1>n. PICK n \in DOMAIN plan : n = at
    BY <1>1
<1> DEFINE a == plan[n]
<1>2. /\ a.path \in Paths /\ a.dest \in Paths /\ a.kind \in Kinds
      /\ tree \in Trees /\ saved \in [DOMAIN plan -> Content]
      /\ (a.kind # "move" => a.dest = a.path) /\ (a.kind = "move" => a.dest # a.path)
    BY <1>n, PlanTypes DEF IInv, TypeOK, FileActions, WellFormed
<1>3. Undoable(n) /\ Fits(a, base)
    BY <1>1 DEF IInv, PreparedFits, PlanFits
<1> DEFINE restoring == a.kind \in {"write", "delete"} /\ saved[n] # None
<1> DEFINE reversing == a.kind = "move" /\ tree[a.dest] # None /\ tree[a.path] = None
<1> DEFINE unlinking == a.kind = "create" /\ n \notin staged
\* What the step does to the tree and the saved files, and where it stops.
<1>4. CASE UndoAction /\ restoring
  <2>1. tree' = [tree EXCEPT ![a.path] = None] /\ saved' = saved /\ at' = at /\ pc' = "restore"
      BY <1>n, <1>4 DEF UndoAction
  <2>2. saved[n] = base[a.path]
      BY <1>3, <1>4 DEF Undoable, UndoableFrom
  <2>3. Undoable(n)'
      BY <1>1, <1>4, <2>1, <2>2 DEF Undoable, UndoableFrom
  <2> HIDE DEF restoring, reversing, unlinking
  <2>4. \A q \in Paths \ Touched(a) : tree'[q] = tree[q]
      BY <1>2, <2>1 DEF Touched, Trees
  <2>5. \A j \in DOMAIN plan \ {n} : saved'[j] = saved[j] /\ (j \in staged' => j \in staged)
      BY <1>1, <2>1
  <2>6. a.kind \in {"write", "delete"} /\ saved'[n] = base[a.path]
      BY <1>4, <2>1, <2>2 DEF restoring
  <2> QED
    <3>1. /\ \A q \in Paths : q \notin Named(plan) => tree'[q] = tree[q]
          /\ \A j \in DOMAIN plan \ {n} : Undoable(j) => Undoable(j)'
          /\ \A j \in DOMAIN plan \ {n} : Original(j) => Original(j)'
          /\ \A j \in DOMAIN plan \ {n} : Applied(j) => Applied(j)'
      <4>1. TypeOK /\ plan' = plan /\ base' = base
          BY <1>1 DEF IInv
      <4> QED
          BY <2>4, <2>5, <4>1, OthersKeep
    <3>2. PreparedFits'
      <4>1. ASSUME NEW k \in DOMAIN plan PROVE Undoable(k)'
        <5>1. CASE k = n
            BY <2>3, <5>1
        <5>2. CASE k # n
          <6>1. k \in DOMAIN plan \ {n} /\ Undoable(k)
              BY <1>1, <5>2 DEF IInv, PreparedFits
          <6> QED
              BY <3>1, <6>1
        <5> QED
            BY <5>1, <5>2
      <4>2. ASSUME NEW q \in Paths, q \notin Named(plan') PROVE tree'[q] = base'[q]
          BY <1>1, <3>1, <4>2 DEF IInv, PreparedFits
      <4> QED
          BY <1>1, <4>1, <4>2 DEF PreparedFits
    <3>3. ASSUME NEW k \in DOMAIN plan, k > at PROVE Original(k)'
      <4>1. k \in DOMAIN plan \ {n} /\ Original(k)
          BY <1>0, <1>1, <1>n, <3>3 DEF IInv, BackwardFits
      <4> QED
          BY <3>1, <4>1
    <3>4. BackwardFits'
        BY <1>0, <1>1, <1>n, <2>1, <2>6, <3>3 DEF BackwardFits, Backward
    <3>5. PlanFits' /\ PhaseFits' /\ ForwardFits' /\ RollbackRestores'
        BY <1>1, <2>1 DEF IInv, PlanFits, Fits, PhaseFits, ForwardFits, RollbackRestores,
           Forward, Backward
    <3>6. ReceiptFits'
        BY <1>1, <2>1 DEF IInv, ReceiptFits, Backward
    <3> QED
        BY <3>2, <3>4, <3>5, <3>6 DEF IInv
\* In every other case the action is undone and the step moves on.
<1>5. CASE ~(UndoAction /\ restoring)
  <2>1. /\ at' = at - 1 /\ pc' = "undo"
        /\ \A q \in Paths \ Touched(a) : tree'[q] = tree[q]
        /\ \A j \in DOMAIN plan \ {n} : saved'[j] = saved[j]
    <3>1. CASE UndoAction /\ ~restoring
      <4>1. at' = at - 1 /\ pc' = "undo" /\ saved' = saved
          BY <1>n, <3>1 DEF UndoAction
      <4>2. tree' = [tree EXCEPT ![a.path] = None] \/ tree' = After(Move(a.dest, a.path), tree)
            \/ tree' = tree
          BY <1>n, <3>1 DEF UndoAction
      <4>3. \A q \in Paths \ Touched(a) : tree'[q] = tree[q]
          BY <1>2, <4>2 DEF After, Move, Touched, Trees
      <4> QED
          BY <4>1, <4>3
    <3>2. CASE Restore
        BY <1>n, <1>2, <3>2 DEF Restore, Touched, Trees
    <3> QED
        BY <1>5, <3>1, <3>2
  <2>2. Original(n)' /\ Undoable(n)'
    <3>1. CASE Restore
      <4>1. a.kind \in {"write", "delete"} /\ saved[n] = base[a.path]
          BY <1>n, <3>1 DEF IInv, Restore, BackwardFits, Backward
      <4>2. tree'[a.path] = base[a.path] /\ saved'[n] = None
          BY <1>n, <1>2, <3>1, <4>1 DEF Restore, Trees
      <4> QED
          BY <1>1, <1>2, <4>1, <4>2 DEF Original, SameOn, Undoable, UndoableFrom, Touched
    <3>2. CASE UndoAction /\ a.kind \in {"write", "delete"} /\ ~restoring
      <4>1. tree' = tree /\ saved' = saved
          BY <1>n, <3>2 DEF UndoAction
      <4>2. tree[a.path] = base[a.path] /\ saved[n] = None
          BY <1>3, <3>2 DEF Undoable, UndoableFrom, Fits
      <4> QED
          BY <1>1, <1>2, <3>2, <4>1, <4>2 DEF Original, SameOn, Undoable, UndoableFrom, Touched
    <3>3. CASE UndoAction /\ a.kind = "create"
      <4>1. tree'[a.path] = None
        <5>1. CASE unlinking
            BY <1>n, <1>2, <3>3, <5>1 DEF UndoAction, Trees
        <5>2. CASE ~unlinking
          <6>1. tree' = tree
              BY <1>n, <3>3, <5>2 DEF UndoAction
          <6> QED
              BY <1>3, <3>3, <5>2, <6>1 DEF Undoable, UndoableFrom
        <5> QED
            BY <5>1, <5>2
      <4>2. base[a.path] = None
          BY <1>3, <3>3 DEF Fits
      <4> QED
          BY <1>1, <1>2, <3>3, <4>1, <4>2 DEF Original, SameOn, Undoable, UndoableFrom, Touched
    <3>4. CASE UndoAction /\ a.kind = "move"
      <4>1. base[a.path] # None /\ base[a.dest] = None
          BY <1>3, <3>4 DEF Fits
      <4>2. \/ tree[a.path] = base[a.path] /\ tree[a.dest] = None
            \/ tree[a.path] = None /\ tree[a.dest] = base[a.path]
          BY <1>3, <3>4 DEF Undoable, UndoableFrom
      <4>3. tree'[a.path] = base[a.path] /\ tree'[a.dest] = None
        <5>1. CASE reversing
          <6>1. tree' = After(Move(a.dest, a.path), tree)
              BY <1>n, <3>4, <5>1 DEF UndoAction
          <6>2. tree'[a.path] = tree[a.dest] /\ tree'[a.dest] = None
              BY <1>2, <3>4, <6>1 DEF After, Move, Trees
          <6> QED
              BY <4>1, <4>2, <5>1, <6>2
        <5>2. CASE ~reversing
          <6>1. tree' = tree
              BY <1>n, <3>4, <5>2 DEF UndoAction
          <6> QED
              BY <3>4, <4>1, <4>2, <5>2, <6>1
        <5> QED
            BY <5>1, <5>2
      <4> QED
          BY <1>1, <1>2, <3>4, <4>1, <4>3 DEF Original, SameOn, Undoable, UndoableFrom, Touched
    <3> QED
        BY <1>2, <1>5, <3>1, <3>2, <3>3, <3>4 DEF Kinds
  <2>3. /\ \A q \in Paths : q \notin Named(plan) => tree'[q] = tree[q]
        /\ \A j \in DOMAIN plan \ {n} : Undoable(j) => Undoable(j)'
        /\ \A j \in DOMAIN plan \ {n} : Original(j) => Original(j)'
        /\ \A j \in DOMAIN plan \ {n} : Applied(j) => Applied(j)'
    <3>1. TypeOK /\ plan' = plan /\ base' = base
        BY <1>1 DEF IInv
    <3>2. \A j \in DOMAIN plan \ {n} : saved'[j] = saved[j] /\ (j \in staged' => j \in staged)
        BY <1>1, <2>1
    <3>3. \A q \in Paths \ Touched(plan[n]) : tree'[q] = tree[q]
        BY <2>1
    <3> QED
        BY <3>1, <3>2, <3>3, OthersKeep
  <2> HIDE DEF restoring, reversing, unlinking
  <2>4. PreparedFits'
    <3>1. ASSUME NEW k \in DOMAIN plan PROVE Undoable(k)'
      <4>1. CASE k = n
          BY <2>2, <4>1
      <4>2. CASE k # n
        <5>1. k \in DOMAIN plan \ {n} /\ Undoable(k)
            BY <1>1, <4>2 DEF IInv, PreparedFits
        <5> QED
            BY <2>3, <5>1
      <4> QED
          BY <4>1, <4>2
    <3>2. ASSUME NEW q \in Paths, q \notin Named(plan') PROVE tree'[q] = base'[q]
        BY <1>1, <2>3, <3>2 DEF IInv, PreparedFits
    <3> QED
        BY <1>1, <3>1, <3>2 DEF PreparedFits
  <2>5. ASSUME NEW k \in DOMAIN plan, k > at - 1 PROVE Original(k)'
    <3>1. CASE k = n
        BY <2>2, <3>1
    <3>2. CASE k # n
      <4>1. k > at
          BY <1>0, <1>n, <2>5, <3>2
      <4>2. k \in DOMAIN plan \ {n} /\ Original(k)
          BY <1>1, <3>2, <4>1 DEF IInv, BackwardFits
      <4> QED
          BY <2>3, <4>2
    <3> QED
        BY <3>1, <3>2
  <2>6. BackwardFits'
      BY <1>0, <1>1, <2>1, <2>5 DEF BackwardFits, Backward
  <2>7. PlanFits' /\ PhaseFits' /\ ForwardFits' /\ RollbackRestores'
      BY <1>1, <2>1 DEF IInv, PlanFits, Fits, PhaseFits, ForwardFits, RollbackRestores,
         Forward, Backward
  <2>8. ReceiptFits'
      BY <1>1, <2>1 DEF IInv, ReceiptFits, Backward
  <2> QED
      BY <2>4, <2>6, <2>7, <2>8 DEF IInv
<1> QED
    BY <1>4, <1>5

\* Removing the journal, file by file and then its directory.
LEMMA RemoveStep ==
    ASSUME Orderly, IInv, TypeOK', RemoveEntry \/ RemoveDir
    PROVE  IInv'
<1>1. /\ UNCHANGED <<tree, receipts, named, plan, key, at, base>>
      /\ pc \in {"purge", "clear"} /\ pc' \in {pc, "idle"}
      /\ (manifest' = manifest \/ manifest' = "none")
    BY DEF RemoveEntry, RemoveDir
<1>2. manifest' = "prepared" => tree = base /\ pc = "clear" /\ key \notin receipts
    BY <1>1 DEF IInv, RollbackRestores, PhaseFits, ReceiptFits
<1>3. PlanFits'
  <2>1. dir' => dir
      BY DEF RemoveEntry, RemoveDir
  <2> QED
      BY <1>1, <2>1 DEF IInv, PlanFits, Fits
<1>4. PhaseFits'
  <2>1. pc' # "idle" => dir' = dir
      BY DEF RemoveEntry, RemoveDir
  <2>2. ~dir' => manifest' = "none"
      BY DEF RemoveEntry, RemoveDir, IInv, PhaseFits
  <2> QED
      BY <1>1, <2>1, <2>2 DEF IInv, PhaseFits, Forward, Backward
<1>5. PreparedFits'
  <2> SUFFICES ASSUME manifest' = "prepared" PROVE PreparedFits'
      BY DEF PreparedFits
  <2>1. tree' = base' /\ manifest = "prepared"
      BY <1>1, <1>2
  <2>2. \A k \in DOMAIN plan : saved'[k] = saved[k] \/ saved'[k] = None
      BY DEF RemoveEntry, RemoveDir, IInv, TypeOK
  <2>3. staged' \subseteq staged
      BY DEF RemoveEntry, RemoveDir
  <2>4. ASSUME NEW k \in DOMAIN plan PROVE Undoable(k)'
    <3>1. Undoable(k) /\ Fits(plan[k], base)
        BY <2>1 DEF IInv, PreparedFits, PlanFits
    <3>2. CASE plan[k].kind = "create"
        BY <1>1, <2>1, <2>3, <3>1, <3>2 DEF Undoable, UndoableFrom, Fits
    <3>3. CASE plan[k].kind = "move"
        BY <1>1, <2>1, <3>1, <3>3 DEF Undoable, UndoableFrom, Fits
    <3>4. CASE plan[k].kind \notin {"create", "move"}
        BY <1>1, <2>1, <2>2, <3>1, <3>4 DEF Undoable, UndoableFrom
    <3> QED
        BY <3>2, <3>3, <3>4
  <2> QED
      BY <1>1, <2>1, <2>4 DEF PreparedFits
<1>6. ForwardFits' /\ BackwardFits' /\ RollbackRestores'
    BY <1>1, <1>2 DEF ForwardFits, BackwardFits, RollbackRestores, Forward, Backward
<1>7. ReceiptFits'
    BY <1>1, <1>2 DEF IInv, ReceiptFits, Backward
<1> QED
    BY <1>3, <1>4, <1>5, <1>6, <1>7 DEF IInv

\* Every step of the engine preserves the invariant.
LEMMA IInvStep ==
    ASSUME Orderly, IInv, [Next]_vars
    PROVE  IInv'
<1>1. TypeOK'
    BY IInvTypes, TypeStep DEF TInv
<1>2. ASSUME NEW k \in Keys \cup {None}, NEW p \in Plans, Begin(k, p) PROVE IInv'
    BY <1>1, <1>2, BeginStep
<1>3. CASE Prepare \/ PrepareFails
    BY <1>1, <1>3, PrepareStep
<1>4. CASE ApplyAction
    BY <1>1, <1>4, ApplyStep
<1>5. CASE BackUp \/ Replace
    BY <1>1, <1>5, WriteStep
<1>6. CASE UndoAction \/ Restore
    BY <1>1, <1>6, UndoStep
<1>7. CASE RemoveEntry \/ RemoveDir
    BY <1>1, <1>7, RemoveStep
<1>8. CASE QuietStep \/ UNCHANGED vars
    BY <1>1, <1>8, QuietKeeps
<1> QED
    BY <1>2, <1>3, <1>4, <1>5, <1>6, <1>7, <1>8 DEF Next, Work, QuietStep

-----------------------------------------------------------------------------
(* The theorems.                                                           *)

\* The engine's variables keep their types, whatever the plans and the
\* faults: no step works on an action the plan does not have, and a receipt
\* is only ever stored under a key (transaction.py commit, _rollback).
THEOREM TypeCorrect == Spec => []TypeOK
<1>1. Init => TInv
    BY InitIInv, IInvTypes
<1>2. TInv /\ [Next]_vars => TInv'
    BY TypeStep
<1>3. TInv => TypeOK
    BY DEF TInv
<1> QED
    BY <1>1, <1>2, <1>3, PTL DEF Spec

\* A finished rollback has put every file back, however many crashes
\* interrupted it and its recoveries (_rollback, recover_pending): for plans
\* that name no path twice and errors that stop at the commit marker.
THEOREM RollbackIsComplete == ASSUME Orderly PROVE Spec => []RollbackRestores
<1>1. Init => IInv
    BY InitIInv
<1>2. IInv /\ [Next]_vars => IInv'
    BY IInvStep
<1>3. IInv => RollbackRestores
    BY DEF IInv
<1> QED
    BY <1>1, <1>2, <1>3, PTL DEF Spec

\* When every action has been applied, the tree is what the plan asks for.
LEMMA AllApplied ==
    ASSUME Orderly, TypeOK, \A q \in Paths : q \notin Named(plan) => tree[q] = base[q],
           \A k \in DOMAIN plan : Applied(k)
    PROVE  tree = Effect(plan, base)
<1> DEFINE Hits(q) == {k \in DOMAIN plan : q \in Touched(plan[k])}
<1>1. ASSUME NEW q \in Paths PROVE tree[q] = Effect(plan, base)[q]
  <2>1. CASE Hits(q) = {}
    <3>1. q \notin Named(plan)
        BY <2>1 DEF Named
    <3>2. tree[q] = base[q]
        BY <3>1
    <3> QED
        BY <2>1, <3>2 DEF Effect
  <2>2. CASE Hits(q) # {}
    <3>1. PICK k \in DOMAIN plan : k = (CHOOSE j \in Hits(q) : TRUE) /\ q \in Touched(plan[k])
        BY <2>2
    <3>2. tree[q] = Outcome(plan[k], q, base)
        BY <3>1 DEF Applied, MadeOn
    <3> QED
        BY <2>2, <3>1, <3>2 DEF Effect
  <2> QED
      BY <2>1, <2>2
<1>2. tree \in [Paths -> Content] /\ Effect(plan, base) = [q \in Paths |-> Effect(plan, base)[q]]
    BY DEF TypeOK, Trees, Effect
<1> HIDE DEF Hits
<1> QED
    BY <1>1, <1>2

\* Steps that decide nothing keep the files and the keys that count.
LEMMA SameBatches ==
    ASSUME Orderly, IInv, [Next]_vars, ~MarkCommitted
    PROVE  /\ (IF manifest' = "prepared" THEN base' ELSE tree')
                 = (IF manifest = "prepared" THEN base ELSE tree)
           /\ (IF manifest' = "prepared" THEN receipts' \ {key'} ELSE receipts')
                 = (IF manifest = "prepared" THEN receipts \ {key} ELSE receipts)
<1> DEFINE files == IF manifest = "prepared" THEN base ELSE tree
<1> DEFINE done == IF manifest = "prepared" THEN receipts \ {key} ELSE receipts
<1> SUFFICES files' = files /\ done' = done
    OBVIOUS
<1>1. ASSUME NEW k \in Keys \cup {None}, NEW p \in Plans, Begin(k, p)
      PROVE files' = files /\ done' = done
  <2>1. manifest = "none" /\ manifest' = "none" /\ UNCHANGED <<tree, receipts>>
      BY <1>1 DEF Begin, IInv, PhaseFits
  <2> QED
      BY <2>1
<1>2. CASE Prepare \/ PrepareFails
  <2>1. /\ manifest = "none" /\ manifest' \in {"none", "prepared"} /\ tree = base
        /\ key \notin receipts /\ UNCHANGED <<tree, receipts, base, key>>
      BY <1>2 DEF Prepare, PrepareFails, IInv, PhaseFits, ReceiptFits
  <2> QED
      BY <2>1
<1>3. CASE \/ ApplyAction \/ BackUp \/ Replace \/ UndoAction \/ Restore
           \/ PrepareReceipt \/ ApplyReceipt \/ UndoReceipt
  <2>1. /\ manifest = "prepared" /\ manifest' = "prepared" /\ UNCHANGED <<base, key>>
        /\ receipts' \ {key} = receipts \ {key}
      BY <1>3 DEF ApplyAction, BackUp, Replace, UndoAction, Restore, PrepareReceipt,
         ApplyReceipt, UndoReceipt, IInv, PhaseFits, Forward, Backward
  <2> QED
      BY <2>1
<1>4. CASE RemoveEntry \/ RemoveDir
  <2>1. UNCHANGED <<tree, receipts, base, key>> /\ manifest' \in {manifest, "none"}
        /\ (manifest = "prepared" => tree = base /\ key \notin receipts)
      BY <1>4 DEF RemoveEntry, RemoveDir, IInv, PhaseFits, ReceiptFits, RollbackRestores
  <2> QED
      BY <2>1
<1>5. CASE StepFails \/ UndoDone \/ RecoverPending \/ Crash \/ UNCHANGED vars
  <2>1. UNCHANGED <<tree, receipts, base, key, manifest>>
      BY <1>5 DEF StepFails, UndoDone, RecoverPending, Crash, disk, vars
  <2> QED
      BY <2>1
<1> QED
    BY <1>1, <1>2, <1>3, <1>4, <1>5 DEF Next, Work

\* One step of the engine is a step or a stutter of the abstract batch:
\* Begin asks, the commit marker takes effect, an error or a crash before it
\* gives up.
LEMMA AtomicStep ==
    ASSUME Orderly, IInv, [Next]_vars
    PROVE  [Atomic!Next]_(Atomic!vars)
<1> DEFINE files == IF manifest = "prepared" THEN base ELSE tree
<1> DEFINE done == IF manifest = "prepared" THEN receipts \ {key} ELSE receipts
<1> DEFINE Open == {"stage", "apply", "replace", "receipt", "mark"}
<1>1. CASE MarkCommitted
  <2>1. /\ manifest = "prepared" /\ manifest' = "committed" /\ at = Len(plan) + 1
        /\ UNCHANGED <<tree, receipts, plan, key, base>> /\ pc = "mark" /\ pc' = "purge"
        /\ (key # None => key \in receipts)
      BY <1>1 DEF MarkCommitted, IInv, PhaseFits, ForwardFits, ReceiptFits, PlanFits, TypeOK,
         Forward, Backward
  <2>2. tree = Effect(plan, base)
    <3>1. \A k \in DOMAIN plan : k < at
        BY <2>1, PlanTypes DEF IInv
    <3>2. \A k \in DOMAIN plan : Applied(k)
        BY <1>1, <3>1 DEF MarkCommitted, IInv, ForwardFits, Forward
    <3> QED
        BY <2>1, <3>2, AllApplied DEF IInv, PreparedFits
  <2>3. None \notin receipts
      BY KeysAssumption DEF IInv, TypeOK
  <2>4. files' = Effect(plan, files) /\ done' = done \cup ({key} \ {None})
      BY <2>1, <2>2, <2>3
  <2>5. pc \in Open /\ (pc' \in Open) = FALSE
      BY <2>1
  <2>6. Atomic!TakeEffect
      BY <2>1, <2>4, <2>5 DEF Atomic!TakeEffect, Atomic!Effect, Effect, Atomic!Outcome, Outcome,
         Atomic!Touched, Touched
  <2> QED
      BY <2>6 DEF Atomic!Next
<1>2. CASE ~MarkCommitted
  <2>1. files' = files /\ done' = done
      BY <1>2, SameBatches
  <2>2. ASSUME NEW k \in Keys \cup {None}, NEW p \in Plans, Begin(k, p) PROVE Atomic!Ask(k, p)
    <3>1. pc = "idle" /\ pc' = "stage" /\ key' = k /\ plan' = p /\ k \notin receipts
        BY <2>2 DEF Begin
    <3>2. (pc \in Open) = FALSE /\ (pc' \in Open) = TRUE
        BY <3>1
    <3>3. k \notin done
        BY <3>1
    <3> QED
        BY <2>1, <3>1, <3>2, <3>3 DEF Atomic!Ask
  <2>3. CASE UNCHANGED <<key, plan>> /\ pc' \in Open /\ pc \in Open
    <3>1. (pc' \in Open) = (pc \in Open)
        BY <2>3
    <3> QED
        BY <2>1, <2>3, <3>1 DEF Atomic!vars
  <2>4. CASE UNCHANGED <<key, plan>> /\ pc' \notin Open /\ pc \notin Open
    <3>1. (pc' \in Open) = (pc \in Open)
        BY <2>4
    <3> QED
        BY <2>1, <2>4, <3>1 DEF Atomic!vars
  <2>5. CASE UNCHANGED <<key, plan>> /\ pc \in Open /\ pc' \notin Open
    <3>1. (pc \in Open) /\ (pc' \in Open) = FALSE
        BY <2>5
    <3>2. Atomic!GiveUp
        BY <2>1, <2>5, <3>1 DEF Atomic!GiveUp
    <3> QED
        BY <3>2 DEF Atomic!Next
  <2>6. \/ \E k \in Keys \cup {None}, p \in Plans : Begin(k, p)
        \/ UNCHANGED <<key, plan>> /\ (pc' \in Open => pc \in Open)
    <3>1. CASE \/ Prepare \/ PrepareFails \/ ApplyAction \/ BackUp \/ Replace \/ UndoAction
               \/ Restore \/ PrepareReceipt \/ ApplyReceipt \/ UndoReceipt \/ RemoveEntry
               \/ RemoveDir
        BY <3>1 DEF Prepare, PrepareFails, ApplyAction, BackUp, Replace, UndoAction, Restore,
           PrepareReceipt, ApplyReceipt, UndoReceipt, RemoveEntry, RemoveDir
    <3>2. CASE StepFails \/ UndoDone \/ RecoverPending \/ Crash \/ UNCHANGED vars
        BY <3>2 DEF StepFails, UndoDone, RecoverPending, Crash, vars
    <3> QED
        BY <1>2, <3>1, <3>2 DEF Next, Work
  <2> HIDE DEF Open, files, done
  <2> QED
      BY <2>2, <2>3, <2>4, <2>5, <2>6 DEF Atomic!Next
<1> QED
    BY <1>1, <1>2

\* The transaction engine implements AtomicBatch: a batch takes effect in
\* one step, at its commit marker, or not at all, and at most once for an
\* idempotency key, whatever crashes and errors before the marker interrupt
\* commit, rollback and recovery (transaction.py commit, recover_pending).
THEOREM ImplementsAtomicBatch == ASSUME Orderly PROVE Spec => BatchIsAtomic
<1>1. Init => IInv
    BY InitIInv
<1>2. IInv /\ [Next]_vars => IInv'
    BY IInvStep
<1>3. Init => Atomic!Init
  <2> SUFFICES ASSUME Init PROVE Atomic!Init
      OBVIOUS
  <2>1. (pc \in {"stage", "apply", "replace", "receipt", "mark"}) = FALSE
      BY DEF Init
  <2>2. manifest = "none" /\ tree \in Trees /\ receipts = {} /\ key = None /\ plan = <<>>
      BY DEF Init
  <2> QED
      BY <2>1, <2>2 DEF Atomic!Init, Atomic!Trees, Atomic!Content, Trees, Content
<1>4. IInv /\ [Next]_vars => [Atomic!Next]_(Atomic!vars)
    BY AtomicStep
<1> QED
    BY <1>1, <1>2, <1>3, <1>4, PTL DEF Spec, BatchIsAtomic, Atomic!Spec
=============================================================================
