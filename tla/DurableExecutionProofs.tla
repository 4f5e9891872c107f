----------------------- MODULE DurableExecutionProofs -----------------------
(***************************************************************************)
(* Proofs about DurableExecution, for any number of operations, processes, *)
(* spawns and faults.                                                      *)
(***************************************************************************)
EXTENDS OperationRepair, FiniteSetTheorems, TLAPS

-----------------------------------------------------------------------------
(* The record operations return records.                                   *)

LEMMA NewTaskType == NewTask \in TaskRecord
BY DEF NewTask, NoTask, TaskRecord, TaskStates, Owners, Leases

LEMMA TerminalizedType ==
    ASSUME NEW t \in TaskRecord, NEW g \in TerminalStates
    PROVE  Terminalized(t, g) \in TaskRecord
BY DEF Terminalized, TaskRecord, TaskStates, Owners, Leases

LEMMA StartedType ==
    ASSUME NEW t \in TaskRecord, NEW w \in Workers, NEW a \in Nat,
           NEW l \in Leases
    PROVE  Started(t, w, a, l) \in TaskRecord
BY DEF Started, TaskRecord, TaskStates, Owners

LEMMA TaskUpdatesType ==
    ASSUME NEW t \in TaskRecord
    PROVE  /\ Renewed(t) \in TaskRecord
           /\ Requeued(t) \in TaskRecord
           /\ CancelRequested(t) \in TaskRecord
BY DEF Renewed, Requeued, CancelRequested, TaskRecord, TaskStates, Owners,
       Leases

LEMMA ItemUpdatesType ==
    ASSUME NEW i \in ItemRecord
    PROVE  /\ RequeuedItem(i) \in ItemRecord
           /\ ItemStarted(i) \in ItemRecord
           /\ RenewedItem(i) \in ItemRecord
BY DEF RequeuedItem, ItemStarted, RenewedItem, ItemRecord, Owners, Leases

LEMMA ClaimedItemType ==
    ASSUME NEW i \in ItemRecord, NEW w \in Workers
    PROVE  ClaimedItem(i, w) \in ItemRecord
<1>1. i.attempt + 1 \in Nat
  BY DEF ItemRecord
<1>2. \A a \in Nat :
         [i EXCEPT !.state = "claimed", !.attempt = a, !.owner = w,
                   !.lease = "live"] \in ItemRecord
  BY DEF ItemRecord, Owners, Leases
<1> QED BY <1>1, <1>2 DEF ClaimedItem

LEMMA ConstantsType ==
    /\ NoTask \in TaskRecord
    /\ NoItem \in ItemRecord
    /\ \A g \in Nat : NewItem(g) \in ItemRecord
    /\ NoBinding \in BindingRecord
    /\ NoChild \in ChildRecord
    /\ WorkerOff \in WorkerRecord
    /\ RecOff \in RecoveryRecord
<1>1. NoTask \in TaskRecord /\ NoBinding \in BindingRecord
      /\ NoChild \in ChildRecord
  BY DEF NoTask, TaskRecord, TaskStates, Owners, Leases, NoBinding,
         BindingRecord, NoChild, ChildRecord
<1>2. NoItem \in ItemRecord /\ \A g \in Nat : NewItem(g) \in ItemRecord
  BY DEF NoItem, NewItem, ItemRecord, Owners, Leases
<1>3. WorkerOff \in WorkerRecord
  BY <1>1 DEF WorkerOff, WorkerRecord, WorkerPcs, TerminalStates
<1>4. RecOff \in RecoveryRecord
  BY <1>1, <1>2 DEF RecOff, RecoveryRecord, RecPcs, TerminalStates, Owners
<1> QED BY <1>1, <1>2, <1>3, <1>4

(* Writing a record keeps the operation store well typed. *)
LEMMA WriteTaskType ==
    ASSUME TypeOK, NEW p, NEW o \in Ops, NEW t \in TaskRecord,
           WriteTask(p, o, t)
    PROVE  task' \in [Ops -> TaskRecord] /\ raced' \in SUBSET Workers
BY DEF TypeOK, WriteTask

LEMMA KeepTaskType ==
    ASSUME TypeOK, NEW p, KeepTask(p)
    PROVE  task' \in [Ops -> TaskRecord] /\ raced' \in SUBSET Workers
BY DEF TypeOK, KeepTask

LEMMA InitSpawnInv == Init => SpawnInv
<1> SUFFICES ASSUME Init PROVE SpawnInv
  OBVIOUS
<1>1. TypeOK
  BY ConstantsType, NoneIsNoWorker DEF Init, TypeOK, Owners
<1>2. OpsKnown /\ ItemsCreatedOnce /\ BoundaryExclusive
  BY DEF Init, OpsKnown, ItemsCreatedOnce, BoundaryExclusive, WorkerOff,
         RecOff, Engaged, Applying, Untouched, AtBoundary, Admitting, NoItem
<1>3. SpawnedHoldsItem /\ ChildSpawned
  BY DEF Init, SpawnedHoldsItem, ChildSpawned, NoChild
<1> QED BY <1>1, <1>2, <1>3 DEF SpawnInv

-----------------------------------------------------------------------------
(* Type correctness, action by action.                                     *)

LEMMA AdmissionType ==
    ASSUME TypeOK, OpsKnown, NEW c \in Controls, Admission(c)
    PROVE  TypeOK'
<1> USE DEF TypeOK
<1>c. c \in Procs /\ rc[c] \in RecoveryRecord
  BY DEF Procs
<1>1. CASE \E o \in Ops : AdmitCheck(c, o)
  <2>o. PICK o \in Ops : AdmitCheck(c, o)
    BY <1>1
  <2>1. rc' \in [Procs -> RecoveryRecord]
    BY <2>o, <1>c DEF AdmitCheck, RecoveryRecord, RecPcs
  <2> QED BY <2>o, <2>1 DEF AdmitCheck
<1>2. CASE AdmitRecord(c)
  <2>1. rc[c].op \in Ops
    BY <1>2, <1>c DEF AdmitRecord, OpsKnown, Applying
  <2>2. task' \in [Ops -> TaskRecord] /\ raced' \in SUBSET Workers
    BY <1>2, NewTaskType, WriteTaskType, <2>1 DEF AdmitRecord
  <2>3. rc' \in [Procs -> RecoveryRecord]
    BY <1>2, <1>c, <2>1 DEF AdmitRecord, RecoveryRecord, RecPcs
  <2> QED BY <1>2, <2>2, <2>3 DEF AdmitRecord
<1>3. CASE AdmitEnqueue(c)
  <2>1. Generation[c] \in Nat
    BY <1>3, <1>c, ProcsAssumption DEF AdmitEnqueue
  <2>2. work' \in [Ops -> ItemRecord]
    BY <1>3, ConstantsType, <2>1 DEF AdmitEnqueue
  <2>3. rc' \in [Procs -> RecoveryRecord]
    BY <1>3, ConstantsType, <2>1 DEF AdmitEnqueue
  <2> QED BY <1>3, <2>2, <2>3 DEF AdmitEnqueue
<1>4. CASE AdmitFails(c)
  <2>1. rc[c].op \in Ops
    BY <1>4, <1>c DEF AdmitFails, OpsKnown, Applying
  <2>2. Terminalized(task[rc[c].op], "failed") \in TaskRecord
    BY <1>4, TerminalizedType, <2>1 DEF AdmitFails, TerminalStates
  <2>3. task' \in [Ops -> TaskRecord] /\ raced' \in SUBSET Workers
    BY <1>4, WriteTaskType, KeepTaskType, <2>1, <2>2 DEF AdmitFails
  <2>4. rc' \in [Procs -> RecoveryRecord]
    BY <1>4, ConstantsType DEF AdmitFails
  <2> QED BY <1>4, <2>3, <2>4 DEF AdmitFails
<1> QED BY <1>1, <1>2, <1>3, <1>4 DEF Admission

LEMMA CancelType ==
    ASSUME NEW o \in Ops, NEW t \in TaskRecord
    PROVE  [RecOff EXCEPT !.pc = "look", !.op = o, !.goal = "cancelled",
                          !.task[o] = t] \in RecoveryRecord
<1>1. RecOff \in RecoveryRecord
  BY ConstantsType
<1>2. [RecOff.task EXCEPT ![o] = t] \in [Ops -> TaskRecord]
  BY <1>1 DEF RecoveryRecord
<1> QED BY <1>1, <1>2 DEF RecoveryRecord, RecPcs, TerminalStates

LEMMA SettleType ==
    ASSUME NEW r \in RecoveryRecord, NEW b \in BindingRecord,
           NEW w \in Owners
    PROVE  [r EXCEPT !.pc = "settle", !.bnd = b, !.owner = w]
              \in RecoveryRecord
BY DEF RecoveryRecord, RecPcs

LEMMA CancellationType ==
    ASSUME TypeOK, OpsKnown, NEW c \in Controls,
           Cancellation(c) \/ ControlCrash(c)
    PROVE  TypeOK'
<1> USE DEF TypeOK
<1>c. c \in Procs /\ rc[c] \in RecoveryRecord
  BY DEF Procs
<1>1. CASE \E o \in Ops : CancelOperation(c, o)
  <2>o. PICK o \in Ops : CancelOperation(c, o)
    BY <1>1
  <2>1. CancelRequested(task[o]) \in TaskRecord
    BY <2>o, TaskUpdatesType DEF CancelOperation
  <2>2. task' \in [Ops -> TaskRecord] /\ raced' \in SUBSET Workers
    BY <2>o, WriteTaskType, KeepTaskType, <2>1 DEF CancelOperation
  <2>3. rc' \in [Procs -> RecoveryRecord]
    BY <2>o, CancelType, <2>1 DEF CancelOperation
  <2> QED BY <2>o, <2>2, <2>3 DEF CancelOperation, RestUnchanged
<1>2. CASE CancelLooks(c)
  <2>1. rc[c].op \in Ops
    BY <1>2, <1>c DEF CancelLooks, OpsKnown, Applying
  <2>2. rc[c].task[rc[c].op].owner \in Owners
    BY <1>2, <1>c, <2>1 DEF CancelLooks, RecoveryRecord, TaskRecord
  <2>3. binding[rc[c].op] \in BindingRecord
    BY <2>1
  <2>4. None \in Owners
    BY DEF Owners
  <2>5. \/ rc' = [rc EXCEPT ![c] = RecOff]
        \/ \E b \in BindingRecord : \E w \in Owners :
              rc' = [rc EXCEPT ![c] = [rc[c] EXCEPT !.pc = "settle",
                                        !.bnd = b, !.owner = w]]
    BY <1>2, ConstantsType, <2>1, <2>2, <2>3, <2>4 DEF CancelLooks
  <2>6. child' \in [Workers -> ChildRecord]
    BY <1>2, ConstantsType, <2>1, <2>2, <2>3, <2>4 DEF CancelLooks,
       ReapSucceeds
  <2>7. rc' \in [Procs -> RecoveryRecord]
    <3>1. CASE rc' = [rc EXCEPT ![c] = RecOff]
      BY <3>1, ConstantsType
    <3>2. ASSUME NEW b \in BindingRecord, NEW w \in Owners,
                 rc' = [rc EXCEPT ![c] = [rc[c] EXCEPT !.pc = "settle",
                                           !.bnd = b, !.owner = w]]
          PROVE  rc' \in [Procs -> RecoveryRecord]
      BY <3>2, <1>c, SettleType
    <3> QED BY <2>5, <3>1, <3>2
  <2> QED BY <1>2, <2>6, <2>7 DEF CancelLooks, RestUnchanged
<1>3. CASE ControlCrash(c)
  <2>1. rc' \in [Procs -> RecoveryRecord]
    BY <1>3, ConstantsType DEF ControlCrash
  <2>2. faults' \in Nat
    BY <1>3 DEF ControlCrash
  <2> QED BY <1>3, <2>1, <2>2 DEF ControlCrash
<1> QED BY <1>1, <1>2, <1>3 DEF Cancellation

LEMMA WorkerRecordsType ==
    /\ \A w \in Workers : Idle(w) \in WorkerRecord
    /\ [WorkerOff EXCEPT !.pc = "dead"] \in WorkerRecord
BY ConstantsType DEF Idle, WorkerRecord, WorkerPcs

LEMMA ListType ==
    ASSUME TypeOK, NEW b \in BOOLEAN
    PROVE  [RecOff EXCEPT !.pc = "list", !.work = work, !.startup = b]
              \in RecoveryRecord
BY ConstantsType DEF TypeOK, RecoveryRecord, RecPcs

LEMMA UnlockedType ==
    ASSUME TypeOK, NEW w \in Workers
    PROVE  Unlocked(w) \in [Ops -> Owners]
BY DEF TypeOK, Unlocked, Owners

LEMMA DeletesType ==
    ASSUME TypeOK, NEW o, NEW b
    PROVE  /\ DeleteItem(o) => work' \in [Ops -> ItemRecord]
           /\ DeleteBindingIfUnchanged(o, b)
                 => binding' \in [Ops -> BindingRecord]
BY ConstantsType DEF TypeOK, DeleteItem, DeleteBindingIfUnchanged

LEMMA WorkerType ==
    ASSUME TypeOK, OpsKnown, NEW w \in Workers,
           \/ StartWorker(w) \/ WorkerStep(w) \/ Heartbeat(w)
           \/ ChildExits(w) \/ WorkerCrash(w)
    PROVE  TypeOK'
<1> USE DEF TypeOK
<1>w. w \in Procs /\ wk[w] \in WorkerRecord
  BY DEF Procs
<1>1. CASE StartWorker(w)
  <2>1. wk' \in [Workers -> WorkerRecord]
    BY <1>1, <1>w DEF StartWorker, WorkerRecord, WorkerPcs
  <2>2. rc' \in [Procs -> RecoveryRecord]
    BY <1>1, <1>w, ListType DEF StartWorker
  <2> QED BY <1>1, <2>1, <2>2 DEF StartWorker
<1>2. CASE Handoff(w)
  <2>1. child' \in [Workers -> ChildRecord]
    BY <1>2, ConstantsType DEF Handoff
  <2>2. binding' \in [Ops -> BindingRecord]
    BY <1>2, ConstantsType DEF Handoff
  <2>3. wk' \in [Workers -> WorkerRecord]
    BY <1>2, WorkerRecordsType DEF Handoff
  <2> QED BY <1>2, <2>1, <2>2, <2>3 DEF Handoff
<1>3. CASE StartTask(w)
  <2>1. wk[w].op \in Ops
    BY <1>3, <1>w DEF StartTask, OpsKnown, Engaged, WorkerPcs
  <2>2. wk[w].attempt \in Nat
    BY <1>3, <1>w, <2>1 DEF StartTask, WorkerRecord
  <2>3. \E d \in Leases :
           WriteTask(w, wk[w].op,
                     Started(task[wk[w].op], w, wk[w].attempt, d))
    BY <1>3, <2>1 DEF StartTask, ItemRecord, Leases
  <2>4. task' \in [Ops -> TaskRecord] /\ raced' \in SUBSET Workers
    BY <2>1, <2>2, <2>3, StartedType, WriteTaskType
  <2>5. wk' \in [Workers -> WorkerRecord]
    BY <1>3 DEF StartTask, WorkerRecord, WorkerPcs
  <2> QED BY <1>3, <2>4, <2>5 DEF StartTask
<1>4. CASE StartRaises(w)
  <2>1. work' \in [Ops -> ItemRecord]
    BY <1>4, DeletesType DEF StartRaises
  <2>2. task' \in [Ops -> TaskRecord] /\ raced' \in SUBSET Workers
    BY <1>4, KeepTaskType DEF StartRaises
  <2>3. wk' \in [Workers -> WorkerRecord]
    BY <1>4, WorkerRecordsType DEF StartRaises
  <2> QED BY <1>4, <2>1, <2>2, <2>3 DEF StartRaises
<1>5. CASE AcquireLock(w)
  <2>1. lock' \in [Ops -> Owners]
    BY <1>5 DEF AcquireLock, Owners
  <2>2. wk' \in [Workers -> WorkerRecord]
    BY <1>5, <1>w DEF AcquireLock, WorkerRecord, WorkerPcs
  <2> QED BY <1>5, <2>1, <2>2 DEF AcquireLock
<1>6. CASE CrossSpawnBoundary(w)
  <2>1. wk[w].op \in Ops
    BY <1>6, <1>w DEF CrossSpawnBoundary, OpsKnown, Engaged, WorkerPcs
  <2>2. work' \in [Ops -> ItemRecord]
    BY <1>6, ItemUpdatesType, <2>1 DEF CrossSpawnBoundary
  <2>3. lock' \in [Ops -> Owners]
    BY <1>6, UnlockedType, <2>1 DEF CrossSpawnBoundary
  <2>4. wk' \in [Workers -> WorkerRecord]
    BY <1>6, <1>w, <2>1 DEF CrossSpawnBoundary, WorkerRecord, WorkerPcs
  <2> QED BY <1>6, <2>2, <2>3, <2>4 DEF CrossSpawnBoundary
<1>7. CASE Spawn(w)
  <2>1. wk[w].op \in Ops
    BY <1>7, <1>w DEF Spawn, OpsKnown, Engaged, WorkerPcs
  <2>2. wk[w].attempt \in Nat
    BY <1>7, <1>w, <2>1 DEF Spawn, WorkerRecord
  <2>3. child' \in [Workers -> ChildRecord]
    BY <1>7, <2>1 DEF Spawn, ChildRecord
  <2>4. spawned' \in [Ops -> SUBSET (Workers \X Nat)]
    BY <1>7, <2>1, <2>2 DEF Spawn
  <2>5. pids' \in Nat
    BY <1>7 DEF Spawn
  <2>6. wk' \in [Workers -> WorkerRecord]
    BY <1>7 DEF Spawn, WorkerRecord, WorkerPcs
  <2> QED BY <1>7, <2>3, <2>4, <2>5, <2>6 DEF Spawn
<1>8. CASE BindCheck(w)
  <2>1. child' \in [Workers -> ChildRecord]
    BY <1>8, ConstantsType DEF BindCheck
  <2>2. lock' \in [Ops -> Owners]
    BY <1>8, UnlockedType DEF BindCheck
  <2>3. wk' \in [Workers -> WorkerRecord]
    BY <1>8, <1>w DEF BindCheck, WorkerRecord, WorkerPcs
  <2> QED BY <1>8, <2>1, <2>2, <2>3 DEF BindCheck
<1>9. CASE BindPut(w)
  <2>1. [owner |-> w, attempt |-> wk[w].attempt, pid |-> child[w].pid]
           \in BindingRecord
    BY <1>9, <1>w DEF BindPut, WorkerRecord, ChildRecord, BindingRecord,
       Owners
  <2>2. binding' \in [Ops -> BindingRecord]
    BY <1>9, <2>1 DEF BindPut
  <2>3. wk' \in [Workers -> WorkerRecord]
    BY <1>9, <1>w, <2>1 DEF BindPut, WorkerRecord, WorkerPcs
  <2> QED BY <1>9, <2>2, <2>3 DEF BindPut
<1>10. CASE OpenGate(w)
  <2>1. child' \in [Workers -> ChildRecord]
    BY <1>10 DEF OpenGate, ChildRecord
  <2>2. wk' \in [Workers -> WorkerRecord]
    BY <1>10, <1>w DEF OpenGate, WorkerRecord, WorkerPcs
  <2> QED BY <1>10, <2>1, <2>2 DEF OpenGate
<1>11. CASE ChildExits(w)
  <2>1. child' \in [Workers -> ChildRecord]
    BY <1>11, ConstantsType DEF ChildExits
  <2> QED BY <1>11, <2>1 DEF ChildExits
<1>12. CASE NextCommand(w)
  <2>1. wk' \in [Workers -> WorkerRecord]
    BY <1>12, <1>w DEF NextCommand, WorkerRecord, WorkerPcs
  <2> QED BY <1>12, <2>1 DEF NextCommand
<1>13. CASE HandlerReturns(w)
  <2>1. lock' \in [Ops -> Owners]
    BY <1>13, UnlockedType DEF HandlerReturns
  <2>2. wk' \in [Workers -> WorkerRecord]
    BY <1>13, <1>w DEF HandlerReturns, WorkerRecord, WorkerPcs
  <2> QED BY <1>13, <2>1, <2>2 DEF HandlerReturns
<1>14. CASE HandlerRaises(w)
  <2>1. lock' \in [Ops -> Owners]
    BY <1>14, UnlockedType DEF HandlerRaises
  <2>2. wk' \in [Workers -> WorkerRecord]
    BY <1>14, <1>w DEF HandlerRaises, WorkerRecord, WorkerPcs
  <2> QED BY <1>14, <2>1, <2>2 DEF HandlerRaises
<1>15. CASE Heartbeat(w)
  <2>1. wk[w].op \in Ops
    BY <1>15, <1>w DEF Heartbeat, OpsKnown, Engaged, WorkerPcs, Beating,
       Locking
  <2>2. Renewed(task[wk[w].op]) \in TaskRecord
    BY <1>15, TaskUpdatesType, <2>1 DEF Heartbeat
  <2>3. work' \in [Ops -> ItemRecord]
    BY <1>15, ItemUpdatesType DEF Heartbeat
  <2>4. task' \in [Ops -> TaskRecord] /\ raced' \in SUBSET Workers
    BY <1>15, WriteTaskType, KeepTaskType, <2>1, <2>2 DEF Heartbeat
  <2>5. wk' \in [Workers -> WorkerRecord]
    BY <1>15, <1>w DEF Heartbeat, WorkerRecord, WorkerPcs
  <2> QED BY <1>15, <2>3, <2>4, <2>5 DEF Heartbeat
<1>16. CASE StoreResult(w)
  <2>1. wk[w].op \in Ops
    BY <1>16, <1>w DEF StoreResult, OpsKnown, Engaged, WorkerPcs
  <2>2. result' \in SUBSET Ops
    BY <1>16, <2>1 DEF StoreResult
  <2>3. wk' \in [Workers -> WorkerRecord]
    BY <1>16, <1>w, <2>1 DEF StoreResult, WorkerRecord, WorkerPcs,
       TerminalStates
  <2> QED BY <1>16, <2>2, <2>3 DEF StoreResult
<1>17. CASE HandleException(w)
  <2>1. result' \in SUBSET Ops
    BY <1>17 DEF HandleException
  <2>2. wk' \in [Workers -> WorkerRecord]
    BY <1>17, <1>w DEF HandleException, WorkerRecord, WorkerPcs,
       TerminalStates
  <2> QED BY <1>17, <2>1, <2>2 DEF HandleException
<1>18. CASE Commit(w)
  <2>1. wk[w].op \in Ops
    BY <1>18, <1>w DEF Commit, OpsKnown, Engaged, WorkerPcs
  <2>2. Terminalized(task[wk[w].op], wk[w].goal) \in TaskRecord
    BY <1>18, <1>w, TerminalizedType, <2>1 DEF Commit, WorkerRecord
  <2>3. task' \in [Ops -> TaskRecord] /\ raced' \in SUBSET Workers
    BY <1>18, WriteTaskType, KeepTaskType, <2>1, <2>2 DEF Commit
  <2>4. wk' \in [Workers -> WorkerRecord]
    BY <1>18, <1>w DEF Commit, WorkerRecord, WorkerPcs
  <2> QED BY <1>18, <2>3, <2>4 DEF Commit
<1>19. CASE CommitRaises(w)
  <2>1. task' \in [Ops -> TaskRecord] /\ raced' \in SUBSET Workers
    BY <1>19, KeepTaskType DEF CommitRaises
  <2>2. wk' \in [Workers -> WorkerRecord]
    BY <1>19, <1>w DEF CommitRaises, WorkerRecord, WorkerPcs
  <2> QED BY <1>19, <2>1, <2>2 DEF CommitRaises
<1>20. CASE ReleaseBinding(w)
  <2>1. binding' \in [Ops -> BindingRecord]
    BY <1>20, DeletesType DEF ReleaseBinding
  <2>2. wk' \in [Workers -> WorkerRecord]
    BY <1>20, <1>w DEF ReleaseBinding, WorkerRecord, WorkerPcs
  <2> QED BY <1>20, <2>1, <2>2 DEF ReleaseBinding
<1>21. CASE DiscardItem(w)
  <2>1. work' \in [Ops -> ItemRecord]
    BY <1>21, DeletesType DEF DiscardItem
  <2>2. wk' \in [Workers -> WorkerRecord]
    BY <1>21, WorkerRecordsType DEF DiscardItem
  <2> QED BY <1>21, <2>1, <2>2 DEF DiscardItem
<1>22. CASE WorkerCrash(w)
  <2>1. wk' \in [Workers -> WorkerRecord]
    BY <1>22, WorkerRecordsType DEF WorkerCrash
  <2>2. rc' \in [Procs -> RecoveryRecord]
    BY <1>22, ConstantsType DEF WorkerCrash
  <2>3. raced' \in SUBSET Workers
    BY <1>22 DEF WorkerCrash
  <2>4. child' \in [Workers -> ChildRecord]
    BY <1>22, ConstantsType DEF WorkerCrash
  <2> QED BY <1>22, <2>1, <2>2, <2>3, <2>4 DEF WorkerCrash
<1>23. CASE \E o \in Ops : ClaimNext(w, o)
  <2>o. PICK o \in Ops : ClaimNext(w, o)
    BY <1>23
  <2>1. work[o] \in ItemRecord
    BY <2>o DEF ClaimNext
  <2>2. work[o].attempt + 1 \in Nat
    BY <2>o, <2>1 DEF ClaimNext, ItemRecord
  <2>3. work' \in [Ops -> ItemRecord]
    BY <2>o, ClaimedItemType DEF ClaimNext
  <2>4. wk' \in [Workers -> WorkerRecord]
    BY <2>o, WorkerRecordsType, <2>2 DEF ClaimNext, WorkerRecord, WorkerPcs
  <2> QED BY <2>o, <2>3, <2>4 DEF ClaimNext
<1> QED BY <1>1, <1>2, <1>3, <1>4, <1>5, <1>6, <1>7, <1>8, <1>9, <1>10,
   <1>11, <1>12, <1>13, <1>14, <1>15, <1>16, <1>17, <1>18, <1>19, <1>20,
   <1>21, <1>22, <1>23 DEF WorkerStep

LEMMA VisitType ==
    ASSUME TypeOK, NEW p \in Procs, NEW o \in Ops
    PROVE  /\ Visited(p, o) \in RecoveryRecord
           /\ Visit(p, o) => rc' \in [Procs -> RecoveryRecord]
<1>1. rc[p] \in RecoveryRecord
  BY DEF TypeOK
<1>2. /\ [rc[p].work EXCEPT ![o] = NoItem] \in [Ops -> ItemRecord]
      /\ [rc[p].task EXCEPT ![o] = NoTask] \in [Ops -> TaskRecord]
      /\ rc[p].todo \ {o} \in SUBSET Ops
  BY <1>1, ConstantsType DEF RecoveryRecord
<1>3. Visited(p, o) \in RecoveryRecord
  BY <1>1, <1>2 DEF RecoveryRecord, Visited
<1> QED BY <1>3 DEF Visit, TypeOK

LEMMA ResumeType ==
    ASSUME TypeOK, NEW p \in Procs, Resume(p)
    PROVE  rc' \in [Procs -> RecoveryRecord]
<1>1. rc[p] \in RecoveryRecord
  BY DEF TypeOK
<1>2. \A pc \in RecPcs :
         [rc[p] EXCEPT !.pc = pc, !.op = None, !.goal = "failed",
                       !.owner = None, !.bnd = NoBinding, !.back = "off"]
            \in RecoveryRecord
  BY <1>1, ConstantsType DEF RecoveryRecord, TerminalStates, Owners
<1>3. /\ "sweep" \in RecPcs
      /\ rc[p].back \in RecPcs
  BY <1>1 DEF RecoveryRecord, RecPcs
<1> QED BY <1>2, <1>3 DEF Resume, TypeOK

LEMMA GotoType ==
    ASSUME TypeOK, NEW p \in Procs, NEW pc \in RecPcs, Goto(p, pc)
    PROVE  rc' \in [Procs -> RecoveryRecord]
<1>1. rc[p] \in RecoveryRecord
  BY DEF TypeOK
<1>2. [rc[p] EXCEPT !.pc = pc] \in RecoveryRecord
  BY <1>1 DEF RecoveryRecord
<1>3. rc' = [rc EXCEPT ![p] = [rc[p] EXCEPT !.pc = pc]]
  BY DEF Goto
<1> QED BY <1>2, <1>3 DEF TypeOK

LEMMA AbortType ==
    ASSUME TypeOK, NEW p \in Procs, Abort(p)
    PROVE  /\ rc' \in [Procs -> RecoveryRecord]
           /\ wk' \in [Workers -> WorkerRecord]
BY ConstantsType, WorkerRecordsType DEF TypeOK, Abort

LEMMA SettlingType ==
    ASSUME TypeOK, NEW p \in Procs, NEW o \in Ops,
           NEW goal \in TerminalStates, NEW b \in BindingRecord,
           Settling(p, o, goal, b)
    PROVE  rc' \in [Procs -> RecoveryRecord]
<1>1. rc[p].task[o].owner \in Owners /\ None \in Owners
  BY DEF TypeOK, RecoveryRecord, TaskRecord, Owners
<1>2. Visited(p, o) \in RecoveryRecord
  BY VisitType
<1>3. \A w \in Owners :
         [Visited(p, o) EXCEPT !.pc = "settle", !.op = o, !.goal = goal,
             !.bnd = b, !.back = "sweep", !.owner = w] \in RecoveryRecord
  BY <1>2 DEF RecoveryRecord, RecPcs
<1> QED BY <1>1, <1>3 DEF Settling, TypeOK

LEMMA DecisionType ==
    ASSUME NEW p, NEW o,
           Decision(p, o) \in {"cancelled", "orphaned", "failed"}
    PROVE  Decision(p, o) \in TerminalStates
BY DEF TerminalStates

LEMMA RecoveryType ==
    ASSUME TypeOK, OpsKnown, NEW p \in Procs,
           RecoveryBegins(p) \/ RecoveryStep(p)
    PROVE  TypeOK'
<1> USE DEF TypeOK
<1>p. rc[p] \in RecoveryRecord
  OBVIOUS
<1>1. CASE RecoveryBegins(p)
  <2>1. \A b \in BOOLEAN :
           [RecOff EXCEPT !.pc = "list", !.work = work, !.startup = b]
              \in RecoveryRecord
    BY ListType
  <2>2. (p \in Controls) \in BOOLEAN
    BY SMT
  <2>3. [RecOff EXCEPT !.pc = "list", !.work = work,
                       !.startup = p \in Controls] \in RecoveryRecord
    BY <2>1, <2>2, Zenon
  <2>4. rc' \in [Procs -> RecoveryRecord]
    BY <1>1, <2>3 DEF RecoveryBegins
  <2> QED BY <1>1, <2>4 DEF RecoveryBegins, RestUnchanged
<1>2. CASE ListTasks(p)
  <2>1. /\ {o \in Ops : rc[p].work[o].state # "absent"} \in SUBSET Ops
        /\ {o \in aged : /\ task[o].state = "pending"
                         /\ rc[p].work[o].state = "absent"} \in SUBSET Ops
    BY <1>2 DEF ListTasks
  <2>2. rc' \in [Procs -> RecoveryRecord]
    BY <1>2, <1>p, <2>1 DEF ListTasks, RecoveryRecord, RecPcs
  <2> QED BY <1>2, <2>2 DEF ListTasks, RestUnchanged
<1>3. CASE \E o \in Ops : DiscardOrphanItem(p, o)
  <2>o. PICK o \in Ops : DiscardOrphanItem(p, o)
    BY <1>3
  <2>1. work' \in [Ops -> ItemRecord]
    BY <2>o, DeletesType DEF DiscardOrphanItem
  <2>2. rc' \in [Procs -> RecoveryRecord]
    BY <2>o, VisitType DEF DiscardOrphanItem
  <2> QED BY <2>o, <2>1, <2>2 DEF DiscardOrphanItem, RestUnchanged
<1>4. CASE \E o \in Ops : LeaveItem(p, o)
  <2>o. PICK o \in Ops : LeaveItem(p, o)
    BY <1>4
  <2>1. rc' \in [Procs -> RecoveryRecord]
    BY <2>o, VisitType DEF LeaveItem
  <2> QED BY <2>o, <2>1 DEF LeaveItem, RestUnchanged
<1>5. CASE \E o \in Ops : Blocked(p, o)
  <2>o. PICK o \in Ops : Blocked(p, o)
    BY <1>5
  <2>1. rc' \in [Procs -> RecoveryRecord]
    BY <2>o, VisitType DEF Blocked
  <2> QED BY <2>o, <2>1 DEF Blocked, RestUnchanged
<1>6. CASE \E o \in Ops : SettleUnstarted(p, o)
  <2>o. PICK o \in Ops : SettleUnstarted(p, o)
    BY <1>6
  <2>1. rc' \in [Procs -> RecoveryRecord]
    BY <2>o, SettlingType, DecisionType, ConstantsType DEF SettleUnstarted
  <2> QED BY <2>o, <2>1 DEF SettleUnstarted, RestUnchanged
<1>7. CASE \E o \in Ops : Contain(p, o)
  <2>o. PICK o \in Ops : Contain(p, o)
    BY <1>7
  <2>1. Decision(p, o) \in TerminalStates
    BY <2>o, DecisionType DEF Contain, NeedsContainment, TerminalStates
  <2>2. child' \in [Workers -> ChildRecord]
    BY <2>o, ConstantsType, <2>1 DEF Contain, ReapSucceeds
  <2>3. rc' \in [Procs -> RecoveryRecord]
    BY <2>o, SettlingType, <2>1 DEF Contain
  <2> QED BY <2>o, <2>2, <2>3 DEF Contain, RestUnchanged
<1>8. CASE \E o \in Ops : RequeueItem(p, o)
  <2>o. PICK o \in Ops : RequeueItem(p, o)
    BY <1>8
  <2>1. Visited(p, o) \in RecoveryRecord
    BY VisitType
  <2>2. [Visited(p, o) EXCEPT !.op = o, !.pc = "requeue"]
           \in RecoveryRecord
    BY <2>1 DEF RecoveryRecord, RecPcs
  <2>3. work' \in [Ops -> ItemRecord]
    BY <2>o, ItemUpdatesType DEF RequeueItem
  <2>4. rc' \in [Procs -> RecoveryRecord]
    BY <2>o, VisitType, AbortType, <2>2 DEF RequeueItem
  <2>5. wk' \in [Workers -> WorkerRecord]
    BY <2>o, AbortType DEF RequeueItem
  <2> QED BY <2>o, <2>3, <2>4, <2>5 DEF RequeueItem, RestUnchanged
<1>9. CASE \E o \in Ops : FailMissing(p, o)
  <2>o. PICK o \in Ops : FailMissing(p, o)
    BY <1>9
  <2>1. Terminalized(task[o], "failed") \in TaskRecord
    BY <2>o, TerminalizedType DEF FailMissing, TerminalStates
  <2>2. [rc[p] EXCEPT !.miss = @ \ {o}] \in RecoveryRecord
    BY <1>p DEF RecoveryRecord
  <2>3. task' \in [Ops -> TaskRecord] /\ raced' \in SUBSET Workers
    BY <2>o, WriteTaskType, KeepTaskType, <2>1 DEF FailMissing
  <2>4. rc' \in [Procs -> RecoveryRecord]
    BY <2>o, AbortType, <2>2 DEF FailMissing
  <2>5. wk' \in [Workers -> WorkerRecord]
    BY <2>o, AbortType DEF FailMissing
  <2> QED BY <2>o, <2>3, <2>4, <2>5 DEF FailMissing, RestUnchanged
<1>10. CASE RequeueTask(p)
  <2>1. rc[p].op \in Ops
    BY <1>10 DEF RequeueTask, OpsKnown, Applying
  <2>2. Requeued(task[rc[p].op]) \in TaskRecord
    BY <1>10, TaskUpdatesType, <2>1 DEF RequeueTask
  <2>3. task' \in [Ops -> TaskRecord] /\ raced' \in SUBSET Workers
    BY <1>10, WriteTaskType, KeepTaskType, <2>1, <2>2 DEF RequeueTask
  <2>4. rc' \in [Procs -> RecoveryRecord]
    BY <1>10, ResumeType, AbortType DEF RequeueTask
  <2>5. wk' \in [Workers -> WorkerRecord]
    BY <1>10, AbortType DEF RequeueTask
  <2> QED BY <1>10, <2>3, <2>4, <2>5 DEF RequeueTask, RestUnchanged
<1>11. CASE Settle(p)
  <2>1. rc[p].op \in Ops
    BY <1>11 DEF Settle, OpsKnown, Applying
  <2>2. Terminalized(task[rc[p].op], rc[p].goal) \in TaskRecord
    BY <1>11, <1>p, TerminalizedType, <2>1 DEF Settle, RecoveryRecord
  <2>3. task' \in [Ops -> TaskRecord] /\ raced' \in SUBSET Workers
    BY <1>11, WriteTaskType, KeepTaskType, <2>1, <2>2 DEF Settle
  <2>4. rc' \in [Procs -> RecoveryRecord]
    BY <1>11, ResumeType, AbortType, GotoType DEF Settle, RecPcs
  <2>5. wk' \in [Workers -> WorkerRecord]
    BY <1>11, AbortType DEF Settle
  <2> QED BY <1>11, <2>3, <2>4, <2>5 DEF Settle, RestUnchanged
<1>12. CASE Drop(p)
  <2>1. work' \in [Ops -> ItemRecord]
    BY <1>12, DeletesType DEF Drop
  <2>2. binding' \in [Ops -> BindingRecord]
    BY <1>12, DeletesType DEF Drop
  <2>3. rc' \in [Procs -> RecoveryRecord]
    BY <1>12, ResumeType, ConstantsType DEF Drop
  <2> QED BY <1>12, <2>1, <2>2, <2>3 DEF Drop, RestUnchanged
<1>13. CASE PassEnds(p)
  <2>1. [RecOff EXCEPT !.pc = "glist"] \in RecoveryRecord
    BY <1>13, ConstantsType DEF PassEnds, RecoveryRecord, RecPcs
  <2>2. rc' \in [Procs -> RecoveryRecord]
    BY <1>13, ConstantsType, <2>1 DEF PassEnds
  <2> QED BY <1>13, <2>2 DEF PassEnds, RestUnchanged
<1>14. CASE GenericList(p)
  <2>1. rc' \in [Procs -> RecoveryRecord]
    BY <1>14, <1>p DEF GenericList, RecoveryRecord, RecPcs
  <2> QED BY <1>14, <2>1 DEF GenericList, RestUnchanged
<1>15. CASE \E o \in Ops : GenericLeave(p, o)
  <2>o. PICK o \in Ops : GenericLeave(p, o)
    BY <1>15
  <2>1. None \in Owners
    BY <2>o DEF GenericLeave, Owners
  <2>2. lock' \in [Ops -> Owners]
    BY <2>o, <2>1 DEF GenericLeave, Probed
  <2>3. rc' \in [Procs -> RecoveryRecord]
    BY <2>o, VisitType, <2>1 DEF GenericLeave
  <2> QED BY <2>o, <2>2, <2>3 DEF GenericLeave, RestUnchanged
<1>16. CASE \E o \in Ops : GenericReap(p, o)
  <2>o. PICK o \in Ops : GenericReap(p, o)
    BY <1>16
  <2>1. None \in Owners
    BY DEF Owners
  <2>2. Visited(p, o) \in RecoveryRecord
    BY VisitType
  <2>3. \A pc \in RecPcs :
           [Visited(p, o) EXCEPT !.op = o, !.goal = "orphaned",
              !.back = "gsweep", !.owner = None, !.bnd = NoBinding,
              !.pc = pc] \in RecoveryRecord
    BY <2>2, ConstantsType, <2>1 DEF RecoveryRecord, TerminalStates
  <2>4. lock' \in [Ops -> Owners]
    BY <2>o, <2>1, <2>2 DEF GenericReap, Probed
  <2>5. child' \in [Workers -> ChildRecord]
    BY <2>o, ConstantsType, <2>1, <2>2 DEF GenericReap, ReapSucceeds,
       ReapFails
  <2>6. rc' \in [Procs -> RecoveryRecord]
    BY <2>o, <2>3 DEF GenericReap, RecPcs
  <2> QED BY <2>o, <2>4, <2>5, <2>6 DEF GenericReap, RestUnchanged
<1>17. CASE GenericDelete(p)
  <2>1. binding' \in [Ops -> BindingRecord]
    BY <1>17, ConstantsType DEF GenericDelete
  <2>2. rc' \in [Procs -> RecoveryRecord]
    BY <1>17, GotoType DEF GenericDelete, RecPcs
  <2> QED BY <1>17, <2>1, <2>2 DEF GenericDelete, RestUnchanged
<1>18. CASE PruneBindings(p)
  <2>1. binding' \in [Ops -> BindingRecord]
    BY <1>18, ConstantsType DEF PruneBindings
  <2>2. rc' \in [Procs -> RecoveryRecord]
    BY <1>18, ConstantsType DEF PruneBindings
  <2>3. wk' \in [Workers -> WorkerRecord]
    <3>1. CASE p \in Workers
      <4>1. wk[p] \in WorkerRecord
        BY <3>1
      <4>2. [wk[p] EXCEPT !.pc = "handoff"] \in WorkerRecord
        BY <4>1 DEF WorkerRecord, WorkerPcs
      <4>3. wk' = [wk EXCEPT ![p] = [wk[p] EXCEPT !.pc = "handoff"]]
        BY <1>18, <3>1 DEF PruneBindings
      <4> QED BY <4>2, <4>3
    <3>2. CASE p \notin Workers
      BY <1>18, <3>2 DEF PruneBindings
    <3> QED BY <3>1, <3>2
  <2> QED BY <1>18, <2>1, <2>2, <2>3 DEF PruneBindings, RestUnchanged
<1> QED BY <1>1, <1>2, <1>3, <1>4, <1>5, <1>6, <1>7, <1>8, <1>9, <1>10,
   <1>11, <1>12, <1>13, <1>14, <1>15, <1>16, <1>17, <1>18 DEF RecoveryStep

LEMMA ClockType ==
    ASSUME TypeOK, NEW o \in Ops, GraceElapses(o) \/ LeaseExpires(o)
    PROVE  TypeOK'
<1> USE DEF TypeOK
<1>1. CASE GraceElapses(o)
  BY <1>1 DEF GraceElapses
<1>2. CASE LeaseExpires(o)
  <2>1. work' \in [Ops -> ItemRecord]
    BY <1>2 DEF LeaseExpires, ItemRecord, Leases
  <2>2. task' \in [Ops -> TaskRecord]
    BY <1>2 DEF LeaseExpires, TaskRecord, Leases
  <2>3. faults' \in Nat
    BY <1>2 DEF LeaseExpires
  <2> QED BY <1>2, <2>1, <2>2, <2>3 DEF LeaseExpires
<1> QED BY <1>1, <1>2

LEMMA NextType ==
    ASSUME TypeOK, OpsKnown, [Next]_vars
    PROVE  TypeOK'
<1>1. CASE Next
  BY <1>1, AdmissionType, CancellationType, WorkerType, RecoveryType,
     ClockType DEF Next
<1>2. CASE UNCHANGED vars
  BY <1>2 DEF vars, TypeOK
<1> QED BY <1>1, <1>2

-----------------------------------------------------------------------------
(* The spawn boundary.  Most steps are quiet: they create no child and no  *)
(* item, and a claim that crossed the boundary stays as it is or goes.     *)

QuietTasks ==
    \A o \in Ops : task'[o].state = "absent" => task[o].state = "absent"

SameClaim(o) ==
    /\ work'[o].state = work[o].state /\ work'[o].owner = work[o].owner
    /\ work'[o].attempt = work[o].attempt
    /\ work[o].started => work'[o].started

QuietItems ==
    \A o \in Ops :
       \/ work'[o].state = "absent"
       \/ SameClaim(o)
       \/ /\ work[o].state # "absent"
          /\ ~(work[o].state = "claimed" /\ work[o].started)

QuietChildren ==
    \A w \in Workers : child'[w].st # "none" => /\ child[w].st # "none"
                                                /\ child'[w].op = child[w].op

QuietWorkers ==
    \A w \in Workers :
       wk'[w].pc = "spawn" => /\ wk[w].pc = "spawn"
                              /\ wk'[w].op = wk[w].op
                              /\ wk'[w].attempt = wk[w].attempt

QuietAdmissions ==
    \A p \in Procs :
       rc'[p].pc \in {"record", "enqueue"} =>
          /\ rc[p].pc \in {"record", "enqueue"} /\ rc'[p].op = rc[p].op
          /\ \/ rc'[p].pc = "record"
             \/ rc[p].pc = "enqueue"
             \/ task'[rc[p].op].state # "absent"

Quiet ==
    /\ UNCHANGED spawned
    /\ QuietTasks /\ QuietItems /\ QuietChildren /\ QuietWorkers
    /\ QuietAdmissions

(* A quiet step preserves the strengthening. *)
LEMMA QuietPreserves ==
    ASSUME SpawnInv, Quiet, TypeOK', OpsKnown'
    PROVE  SpawnInv'
<1>1. ASSUME NEW o \in Ops, NEW w \in Workers, AtBoundary(w, o)'
      PROVE  AtBoundary(w, o) /\ wk'[w].attempt = wk[w].attempt
  BY <1>1 DEF AtBoundary, Quiet, QuietWorkers
<1>2. ASSUME NEW o \in Ops, Untouched(o)
      PROVE  Untouched(o)'
  BY <1>1, <1>2 DEF Untouched, Quiet, QuietItems, SameClaim
<1>3. ASSUME NEW o \in Ops, NEW p \in Procs, Admitting(p, o)'
      PROVE  /\ Admitting(p, o)
             /\ rc'[p].pc = "enqueue" => \/ rc[p].pc = "enqueue"
                                         \/ task'[o].state # "absent"
  BY <1>3 DEF Admitting, Quiet, QuietAdmissions
<1>4. ItemsCreatedOnce'
  <2>1. ASSUME NEW o \in Ops, (task[o].state = "absent")'
        PROVE  Untouched(o)'
    BY <2>1, <1>2 DEF SpawnInv, ItemsCreatedOnce, Quiet, QuietTasks
  <2>2. ASSUME NEW o \in Ops, NEW p \in Procs, NEW q \in Procs,
               Admitting(p, o)'
        PROVE  /\ p \in Controls /\ Untouched(o)'
               /\ Admitting(q, o)' => p = q
               /\ (rc[p].pc = "enqueue")' => (task[o].state # "absent")'
    BY <2>2, <1>2, <1>3 DEF SpawnInv, ItemsCreatedOnce, Quiet, QuietTasks
  <2> QED BY <2>1, <2>2 DEF ItemsCreatedOnce
<1>5. ASSUME NEW o \in Ops, NEW w, NEW a,
             \/ work[o].state = "absent"
             \/ HoldsClaim(work[o], w, a) /\ work[o].started
      PROVE  \/ work'[o].state = "absent"
             \/ HoldsClaim(work'[o], w, a) /\ work'[o].started
  BY <1>5 DEF Quiet, QuietItems, SameClaim, HoldsClaim
<1>6. BoundaryExclusive'
  <2>1. ASSUME NEW o \in Ops, NEW w \in Workers, AtBoundary(w, o)'
        PROVE  /\ spawned'[o] \subseteq {<<w, wk'[w].attempt>>}
               /\ \/ work'[o].state = "absent"
                  \/ /\ HoldsClaim(work'[o], w, wk'[w].attempt)
                     /\ work'[o].started
               /\ \A v \in Workers : AtBoundary(v, o)' => v = w
    <3>1. AtBoundary(w, o) /\ wk'[w].attempt = wk[w].attempt
      BY <2>1, <1>1
    <3>2. /\ spawned[o] \subseteq {<<w, wk[w].attempt>>}
          /\ \/ work[o].state = "absent"
             \/ HoldsClaim(work[o], w, wk[w].attempt) /\ work[o].started
          /\ \A v \in Workers : AtBoundary(v, o) => v = w
      BY <3>1 DEF SpawnInv, BoundaryExclusive
    <3>3. spawned'[o] \subseteq {<<w, wk'[w].attempt>>}
      BY <3>1, <3>2 DEF Quiet
    <3>4. \/ work'[o].state = "absent"
          \/ HoldsClaim(work'[o], w, wk'[w].attempt) /\ work'[o].started
      BY <3>1, <3>2, <1>5
    <3>5. \A v \in Workers : AtBoundary(v, o)' => v = w
      BY <3>2, <1>1
    <3> QED BY <3>3, <3>4, <3>5
  <2> QED BY <2>1 DEF BoundaryExclusive
<1>7. SpawnedHoldsItem'
  <2>1. ASSUME NEW o \in Ops, NEW x \in spawned'[o]
        PROVE  /\ spawned'[o] = {x}
               /\ \/ work'[o].state = "absent"
                  \/ HoldsClaim(work'[o], x[1], x[2]) /\ work'[o].started
    <3>1. x \in spawned[o] /\ spawned'[o] = spawned[o]
      BY <2>1 DEF Quiet
    <3>2. /\ spawned[o] = {x}
          /\ \/ work[o].state = "absent"
             \/ HoldsClaim(work[o], x[1], x[2]) /\ work[o].started
      BY <3>1 DEF SpawnInv, SpawnedHoldsItem
    <3> QED BY <3>1, <3>2, <1>5
  <2> QED BY <2>1 DEF SpawnedHoldsItem
<1>8. ChildSpawned'
  BY DEF SpawnInv, ChildSpawned, Quiet, QuietChildren
<1> QED BY <1>4, <1>6, <1>7, <1>8 DEF SpawnInv

LEMMA QuietWrite ==
    ASSUME TypeOK, NEW p, NEW o \in Ops, NEW t, WriteTask(p, o, t),
           t.state = "absent" => task[o].state = "absent"
    PROVE  QuietTasks
BY DEF TypeOK, WriteTask, QuietTasks

LEMMA QuietDelete ==
    ASSUME TypeOK, NEW o, DeleteItem(o)
    PROVE  QuietItems
BY DEF TypeOK, DeleteItem, QuietItems, SameClaim, NoItem

LEMMA QuietReap ==
    ASSUME TypeOK, NEW b, ReapSucceeds(b) \/ ReapFails(b)
    PROVE  QuietChildren
BY DEF TypeOK, ReapSucceeds, ReapFails, QuietChildren, NoChild

LEMMA StatesWritten ==
    ASSUME NEW t \in TaskRecord
    PROVE  /\ NewTask.state # "absent"
           /\ \A g \in TerminalStates : Terminalized(t, g).state # "absent"
           /\ \A w, a, l : Started(t, w, a, l).state # "absent"
           /\ Renewed(t).state = t.state
           /\ Requeued(t).state # "absent"
           /\ CancelRequested(t).state = t.state
BY DEF NewTask, NoTask, Terminalized, Started, Renewed, Requeued,
       CancelRequested, TaskRecord, TerminalStates

LEMMA QuietWorker ==
    ASSUME TypeOK, OpsKnown, NEW w \in Workers,
           \/ StartWorker(w) \/ Handoff(w) \/ StartTask(w) \/ StartRaises(w)
           \/ AcquireLock(w) \/ BindCheck(w) \/ BindPut(w) \/ OpenGate(w)
           \/ NextCommand(w) \/ HandlerReturns(w) \/ HandlerRaises(w)
           \/ StoreResult(w) \/ HandleException(w) \/ Commit(w)
           \/ CommitRaises(w) \/ ReleaseBinding(w) \/ DiscardItem(w)
           \/ (\E o \in Ops : ClaimNext(w, o))
           \/ Heartbeat(w) \/ ChildExits(w) \/ WorkerCrash(w)
    PROVE  OpsKnown' /\ Quiet
<1> USE DEF TypeOK
<1>1. CASE StartWorker(w)
  BY <1>1 DEF StartWorker, RecOff, Quiet, QuietTasks, QuietItems, SameClaim,
     QuietChildren, QuietWorkers, QuietAdmissions, OpsKnown, Engaged,
     Applying, WorkerPcs
<1>2. CASE Handoff(w)
  <2>1. QuietChildren
    BY <1>2 DEF Handoff, QuietChildren, NoChild
  <2>2. OpsKnown' /\ QuietWorkers
    BY <1>2 DEF Handoff, WorkerOff, Idle, OpsKnown, Engaged, WorkerPcs,
       QuietWorkers
  <2> QED BY <1>2, <2>1, <2>2 DEF Handoff, Quiet, QuietTasks, QuietItems,
       SameClaim, QuietAdmissions
<1>3. CASE StartTask(w)
  BY <1>3, QuietWrite, StatesWritten DEF StartTask, Quiet, QuietTasks,
     QuietItems, SameClaim, QuietChildren, QuietWorkers, QuietAdmissions,
     OpsKnown, Engaged, Applying, WorkerPcs
<1>4. CASE StartRaises(w)
  BY <1>4, QuietDelete DEF StartRaises, WorkerOff, Idle, NoBinding,
     KeepTask, Quiet, QuietTasks, QuietItems, SameClaim, QuietChildren,
     QuietWorkers, QuietAdmissions, OpsKnown, Engaged, Applying, WorkerPcs
<1>5. CASE AcquireLock(w)
  BY <1>5 DEF AcquireLock, Quiet, QuietTasks, QuietItems, SameClaim,
     QuietChildren, QuietWorkers, QuietAdmissions, OpsKnown, Engaged,
     Applying, WorkerPcs
<1>6. CASE BindCheck(w)
  <2>1. QuietChildren
    BY <1>6 DEF BindCheck, QuietChildren, NoChild
  <2>2. /\ wk[w].op \in Ops /\ UNCHANGED rc
        /\ \/ wk' = [wk EXCEPT ![w].pc = "bind"]
           \/ wk' = [wk EXCEPT ![w].pc = "except"]
    BY <1>6 DEF BindCheck, OpsKnown, Engaged, WorkerPcs
  <2>3. OpsKnown' /\ QuietWorkers
    <3>1. CASE wk' = [wk EXCEPT ![w].pc = "bind"]
      BY <2>2, <3>1 DEF OpsKnown, QuietWorkers
    <3>2. CASE wk' = [wk EXCEPT ![w].pc = "except"]
      BY <2>2, <3>2 DEF OpsKnown, QuietWorkers
    <3> QED BY <2>2, <3>1, <3>2
  <2> QED BY <1>6, <2>1, <2>3 DEF BindCheck, Quiet, QuietTasks, QuietItems,
       SameClaim, QuietAdmissions
<1>7. CASE BindPut(w)
  BY <1>7 DEF BindPut, Quiet, QuietTasks, QuietItems, SameClaim,
     QuietChildren, QuietWorkers, QuietAdmissions, OpsKnown, Engaged,
     Applying, WorkerPcs
<1>8. CASE OpenGate(w)
  BY <1>8 DEF OpenGate, Quiet, QuietTasks, QuietItems, SameClaim,
     QuietChildren, QuietWorkers, QuietAdmissions, OpsKnown, Engaged,
     Applying, WorkerPcs
<1>9. CASE NextCommand(w)
  BY <1>9 DEF NextCommand, Quiet, QuietTasks, QuietItems, SameClaim,
     QuietChildren, QuietWorkers, QuietAdmissions, OpsKnown, Engaged,
     Applying, WorkerPcs
<1>10. CASE HandlerReturns(w)
  BY <1>10 DEF HandlerReturns, Quiet, QuietTasks, QuietItems, SameClaim,
     QuietChildren, QuietWorkers, QuietAdmissions, OpsKnown, Engaged,
     Applying, WorkerPcs
<1>11. CASE HandlerRaises(w)
  BY <1>11 DEF HandlerRaises, Quiet, QuietTasks, QuietItems, SameClaim,
     QuietChildren, QuietWorkers, QuietAdmissions, OpsKnown, Engaged,
     Applying, WorkerPcs
<1>12. CASE StoreResult(w)
  BY <1>12 DEF StoreResult, Quiet, QuietTasks, QuietItems, SameClaim,
     QuietChildren, QuietWorkers, QuietAdmissions, OpsKnown, Engaged,
     Applying, WorkerPcs
<1>13. CASE HandleException(w)
  BY <1>13 DEF HandleException, Quiet, QuietTasks, QuietItems, SameClaim,
     QuietChildren, QuietWorkers, QuietAdmissions, OpsKnown, Engaged,
     Applying, WorkerPcs
<1>14. CASE Commit(w)
  <2>1. wk[w].op \in Ops /\ wk[w].goal \in TerminalStates
    BY <1>14 DEF Commit, OpsKnown, Engaged, WorkerPcs, WorkerRecord
  <2>2. Terminalized(task[wk[w].op], wk[w].goal).state # "absent"
    BY <2>1, StatesWritten
  <2>3. QuietTasks
    BY <1>14, <2>1, <2>2, QuietWrite DEF Commit, KeepTask, QuietTasks
  <2>4. OpsKnown' /\ QuietWorkers
    BY <1>14 DEF Commit, OpsKnown, Engaged, WorkerPcs, QuietWorkers
  <2> QED BY <1>14, <2>3, <2>4 DEF Commit, Quiet, QuietItems, SameClaim,
       QuietChildren, QuietAdmissions
<1>15. CASE CommitRaises(w)
  BY <1>15 DEF CommitRaises, KeepTask, Quiet, QuietTasks, QuietItems,
     SameClaim, QuietChildren, QuietWorkers, QuietAdmissions, OpsKnown,
     Engaged, Applying, WorkerPcs
<1>16. CASE ReleaseBinding(w)
  BY <1>16 DEF ReleaseBinding, Quiet, QuietTasks, QuietItems, SameClaim,
     QuietChildren, QuietWorkers, QuietAdmissions, OpsKnown, Engaged,
     Applying, WorkerPcs
<1>17. CASE DiscardItem(w)
  BY <1>17, QuietDelete DEF DiscardItem, WorkerOff, Idle, NoBinding, Quiet,
     QuietTasks, QuietItems, SameClaim, QuietChildren, QuietWorkers,
     QuietAdmissions, OpsKnown, Engaged, Applying, WorkerPcs
<1>18. ASSUME NEW o \in Ops, ClaimNext(w, o)
      PROVE  OpsKnown' /\ Quiet
  BY <1>18 DEF ClaimNext, WorkerOff, Idle, NoBinding, ClaimedItem, Quiet,
     QuietTasks, QuietItems, SameClaim, QuietChildren, QuietWorkers,
     QuietAdmissions, OpsKnown, Engaged, Applying, WorkerPcs
<1>19. CASE Heartbeat(w)
  <2>1. wk[w].op \in Ops
    BY <1>19 DEF Heartbeat, Beating, Locking, OpsKnown, Engaged, WorkerPcs
  <2>2. QuietTasks
    BY <1>19, <2>1, StatesWritten, QuietWrite DEF Heartbeat, KeepTask,
       QuietTasks
  <2>3. QuietItems
    BY <1>19, <2>1 DEF Heartbeat, RenewedItem, ItemRecord, QuietItems,
       SameClaim
  <2>4. OpsKnown' /\ QuietWorkers
    BY <1>19 DEF Heartbeat, OpsKnown, Engaged, WorkerPcs, QuietWorkers,
       WorkerRecord
  <2> QED BY <1>19, <2>2, <2>3, <2>4 DEF Heartbeat, Quiet, QuietChildren,
       QuietAdmissions
<1>20. CASE ChildExits(w)
  BY <1>20 DEF ChildExits, NoChild, Quiet, QuietTasks, QuietItems,
     SameClaim, QuietChildren, QuietWorkers, QuietAdmissions, OpsKnown,
     Engaged, Applying, WorkerPcs
<1>21. CASE WorkerCrash(w)
  BY <1>21 DEF WorkerCrash, NoChild, WorkerOff, RecOff, Quiet, QuietTasks,
     QuietItems, SameClaim, QuietChildren, QuietWorkers, QuietAdmissions,
     OpsKnown, Engaged, Applying, WorkerPcs
<1> QED BY <1>1, <1>2, <1>3, <1>4, <1>5, <1>6, <1>7, <1>8, <1>9, <1>10,
   <1>11, <1>12, <1>13, <1>14, <1>15, <1>16, <1>17, <1>18, <1>19, <1>20,
   <1>21 DEF WorkerStep

LEMMA QuietLoop ==
    ASSUME TypeOK, OpsKnown, NEW p \in Procs, NEW r \in RecoveryRecord,
           r.pc \notin {"record", "enqueue"},
           r.pc \in Applying => r.op \in Ops,
           rc' = [rc EXCEPT ![p] = r]
    PROVE  /\ QuietAdmissions
           /\ UNCHANGED wk => OpsKnown'
<1>1. QuietAdmissions
  BY DEF TypeOK, QuietAdmissions
<1>2. \A q \in Procs : (rc[q].pc \in Applying => rc[q].op \in Ops)'
  BY DEF TypeOK, OpsKnown, Applying
<1> QED BY <1>1, <1>2 DEF OpsKnown

LEMMA QuietVisit ==
    ASSUME TypeOK, OpsKnown, NEW p \in Procs, NEW o \in Ops,
           rc[p].pc \in {"sweep", "gsweep"}, Visit(p, o), UNCHANGED wk
    PROVE  OpsKnown' /\ QuietAdmissions
<1>1. Visited(p, o) \in RecoveryRecord
  BY VisitType
<1>2. rc[p] \in RecoveryRecord
  BY DEF TypeOK
<1>3. Visited(p, o).pc = rc[p].pc
  BY <1>2 DEF Visited, RecoveryRecord
<1> QED BY <1>1, <1>3, QuietLoop DEF Visit, Applying

LEMMA QuietResume ==
    ASSUME TypeOK, OpsKnown, NEW p \in Procs, Resume(p), UNCHANGED wk
    PROVE  OpsKnown' /\ QuietAdmissions
<1>1. rc' \in [Procs -> RecoveryRecord] /\ rc[p] \in RecoveryRecord
  BY ResumeType DEF TypeOK
<1>2. rc' = [rc EXCEPT ![p] = rc'[p]]
      /\ rc'[p].pc \in {"off", "sweep", "gsweep"}
  BY <1>1 DEF Resume, TypeOK, RecoveryRecord
<1>3. rc'[p] \in RecoveryRecord
  BY <1>1
<1> QED BY <1>2, <1>3, QuietLoop DEF Applying

LEMMA QuietAbort ==
    ASSUME TypeOK, OpsKnown, NEW p \in Procs, Abort(p)
    PROVE  OpsKnown' /\ QuietAdmissions /\ QuietWorkers
<1>1. QuietAdmissions
  BY DEF Abort, TypeOK, QuietAdmissions, RecOff
<1>2. QuietWorkers
  BY DEF Abort, TypeOK, QuietWorkers, WorkerOff
<1>3. OpsKnown'
  BY DEF Abort, TypeOK, OpsKnown, Engaged, WorkerPcs, Applying, RecOff,
         WorkerOff
<1> QED BY <1>1, <1>2, <1>3

LEMMA QuietSettling ==
    ASSUME TypeOK, OpsKnown, NEW p \in Procs, NEW o \in Ops,
           NEW goal \in TerminalStates, NEW b \in BindingRecord,
           Settling(p, o, goal, b), UNCHANGED wk
    PROVE  OpsKnown' /\ QuietAdmissions
<1>1. rc' \in [Procs -> RecoveryRecord]
  BY SettlingType
<1>2. Visited(p, o) \in RecoveryRecord
  BY VisitType
<1>3. rc' = [rc EXCEPT ![p] = rc'[p]]
      /\ rc'[p].pc = "settle" /\ rc'[p].op = o
  BY <1>2 DEF Settling, TypeOK, RecoveryRecord
<1>4. rc'[p] \in RecoveryRecord
  BY <1>1
<1> QED BY <1>3, <1>4, QuietLoop

LEMMA QuietSweep ==
    ASSUME TypeOK, OpsKnown, NEW p \in Procs,
           \/ RecoveryBegins(p) \/ ListTasks(p)
           \/ \E o \in Ops :
                 \/ DiscardOrphanItem(p, o) \/ LeaveItem(p, o)
                 \/ Blocked(p, o) \/ SettleUnstarted(p, o)
                 \/ Contain(p, o) \/ RequeueItem(p, o)
    PROVE  OpsKnown' /\ Quiet
<1> USE DEF TypeOK
<1>1. CASE RecoveryBegins(p)
  <2>1. rc' = [rc EXCEPT ![p] = rc'[p]] /\ rc'[p].pc = "list"
    BY <1>1, ConstantsType DEF RecoveryBegins, RecoveryRecord
  <2>2. rc'[p] \in RecoveryRecord
    BY <1>1, RecoveryType
  <2>3. OpsKnown' /\ QuietAdmissions
    BY <1>1, <2>1, <2>2, QuietLoop DEF RecoveryBegins, Applying
  <2> QED BY <1>1, <2>1, <2>2, <2>3 DEF RecoveryBegins, RestUnchanged,
     Quiet, QuietTasks, QuietItems, SameClaim, QuietChildren, QuietWorkers
<1>2. CASE ListTasks(p)
  <2>1. rc' = [rc EXCEPT ![p] = rc'[p]] /\ rc'[p].pc = "sweep"
    BY <1>2 DEF ListTasks, RecoveryRecord
  <2>2. rc'[p] \in RecoveryRecord
    BY <1>2, RecoveryType DEF RecoveryStep
  <2>3. OpsKnown' /\ QuietAdmissions
    BY <1>2, <2>1, <2>2, QuietLoop DEF ListTasks, Applying
  <2> QED BY <1>2, <2>1, <2>2, <2>3 DEF ListTasks, RestUnchanged, Quiet,
     QuietTasks, QuietItems, SameClaim, QuietChildren, QuietWorkers
<1>3. ASSUME NEW o \in Ops, DiscardOrphanItem(p, o)
      PROVE  OpsKnown' /\ Quiet
  <2>1. OpsKnown' /\ QuietAdmissions
    BY <1>3, QuietVisit DEF DiscardOrphanItem
  <2>2. QuietItems
    BY <1>3, QuietDelete DEF DiscardOrphanItem
  <2> QED BY <1>3, <2>1, <2>2 DEF DiscardOrphanItem, RestUnchanged, Quiet,
     QuietTasks, QuietChildren, QuietWorkers
<1>4. ASSUME NEW o \in Ops, LeaveItem(p, o)
      PROVE  OpsKnown' /\ Quiet
  <2>1. OpsKnown' /\ QuietAdmissions
    BY <1>4, QuietVisit DEF LeaveItem
  <2> QED BY <1>4, <2>1 DEF LeaveItem, RestUnchanged, Quiet, QuietTasks,
     QuietItems, SameClaim, QuietChildren, QuietWorkers
<1>5. ASSUME NEW o \in Ops, Blocked(p, o)
      PROVE  OpsKnown' /\ Quiet
  <2>1. OpsKnown' /\ QuietAdmissions
    BY <1>5, QuietVisit DEF Blocked
  <2> QED BY <1>5, <2>1 DEF Blocked, RestUnchanged, Quiet, QuietTasks,
     QuietItems, SameClaim, QuietChildren, QuietWorkers
<1>6. ASSUME NEW o \in Ops, SettleUnstarted(p, o)
      PROVE  OpsKnown' /\ Quiet
  <2>1. OpsKnown' /\ QuietAdmissions
    BY <1>6, QuietSettling, DecisionType, ConstantsType DEF SettleUnstarted
  <2> QED BY <1>6, <2>1 DEF SettleUnstarted, RestUnchanged, Quiet,
     QuietTasks, QuietItems, SameClaim, QuietChildren, QuietWorkers
<1>7. ASSUME NEW o \in Ops, Contain(p, o)
      PROVE  OpsKnown' /\ Quiet
  <2>1. Decision(p, o) \in TerminalStates
    BY <1>7 DEF Contain, NeedsContainment, TerminalStates
  <2>2. OpsKnown' /\ QuietAdmissions
    BY <1>7, <2>1, QuietSettling DEF Contain
  <2>3. QuietChildren
    BY <1>7, QuietReap DEF Contain
  <2> QED BY <1>7, <2>1, <2>2, <2>3 DEF Contain, RestUnchanged, Quiet,
     QuietTasks, QuietItems, SameClaim, QuietWorkers
<1>8. ASSUME NEW o \in Ops, RequeueItem(p, o)
      PROVE  OpsKnown' /\ Quiet
  <2>1. Visited(p, o) \in RecoveryRecord
    BY VisitType
  <2>2. [Visited(p, o) EXCEPT !.op = o, !.pc = "requeue"]
           \in RecoveryRecord
    BY <2>1 DEF RecoveryRecord, RecPcs
  <2>3. /\ [Visited(p, o) EXCEPT !.op = o, !.pc = "requeue"].op = o
        /\ [Visited(p, o) EXCEPT !.op = o, !.pc = "requeue"].pc = "requeue"
    BY <2>1 DEF RecoveryRecord
  <2>4. OpsKnown' /\ QuietAdmissions /\ QuietWorkers
    <3>1. CASE Visit(p, o) /\ UNCHANGED wk
      BY <1>8, <3>1, QuietVisit DEF RequeueItem, QuietWorkers
    <3>2. CASE /\ rc' = [rc EXCEPT ![p] = [Visited(p, o) EXCEPT
                                             !.op = o, !.pc = "requeue"]]
               /\ UNCHANGED wk
      BY <1>8, <2>2, <2>3, <3>2, QuietLoop DEF RequeueItem, QuietWorkers
    <3>3. CASE Abort(p)
      BY <3>3, QuietAbort
    <3> QED BY <1>8, <3>1, <3>2, <3>3 DEF RequeueItem
  <2>5. work' # work => /\ work[o].state = "claimed" /\ ~work[o].started
                         /\ work' = [work EXCEPT ![o] = RequeuedItem(work[o])]
    BY <1>8 DEF RequeueItem, Decision, Disposition, CanRequeueItem
  <2>6. QuietItems
    BY <2>5 DEF QuietItems, SameClaim
  <2> QED BY <1>8, <2>4, <2>6 DEF RequeueItem, RestUnchanged, Quiet,
     QuietTasks, QuietChildren
<1> QED BY <1>1, <1>2, <1>3, <1>4, <1>5, <1>6, <1>7, <1>8 DEF TypeOK

LEMMA QuietGoto ==
    ASSUME TypeOK, OpsKnown, NEW p \in Procs, rc[p].op \in Ops,
           Goto(p, "drop") \/ Goto(p, "settle"), UNCHANGED wk
    PROVE  OpsKnown' /\ QuietAdmissions
<1>1. rc[p] \in RecoveryRecord
  BY DEF TypeOK
<1>2. \A pc \in {"drop", "settle"} :
         /\ [rc[p] EXCEPT !.pc = pc] \in RecoveryRecord
         /\ [rc[p] EXCEPT !.pc = pc].pc = pc
         /\ [rc[p] EXCEPT !.pc = pc].op = rc[p].op
  BY <1>1 DEF RecoveryRecord, RecPcs
<1>3. \E pc \in {"drop", "settle"} :
         rc' = [rc EXCEPT ![p] = [rc[p] EXCEPT !.pc = pc]]
  BY DEF Goto
<1> QED BY <1>2, <1>3, QuietLoop

LEMMA QuietOff ==
    ASSUME TypeOK, OpsKnown, NEW p \in Procs, rc' = [rc EXCEPT ![p] = RecOff],
           UNCHANGED wk
    PROVE  OpsKnown' /\ QuietAdmissions
<1>1. RecOff \in RecoveryRecord /\ RecOff.pc = "off"
  BY ConstantsType DEF RecOff
<1> QED BY <1>1, QuietLoop DEF Applying

LEMMA QuietSettle ==
    ASSUME TypeOK, OpsKnown, NEW p \in Procs,
           \/ RequeueTask(p) \/ Settle(p) \/ Drop(p) \/ PassEnds(p)
           \/ GenericList(p) \/ GenericDelete(p) \/ PruneBindings(p)
           \/ \E o \in Ops : \/ FailMissing(p, o) \/ GenericLeave(p, o)
                             \/ GenericReap(p, o)
    PROVE  OpsKnown' /\ Quiet
<1> USE DEF TypeOK
<1>1. CASE RequeueTask(p)
  <2>1. rc[p].op \in Ops
    BY <1>1 DEF RequeueTask, OpsKnown, Applying
  <2>2. QuietTasks
    BY <1>1, <2>1, StatesWritten, QuietWrite DEF RequeueTask, KeepTask,
       QuietTasks
  <2>3. OpsKnown' /\ QuietAdmissions /\ QuietWorkers
    BY <1>1, QuietResume, QuietAbort DEF RequeueTask, QuietWorkers
  <2> QED BY <1>1, <2>1, <2>2, <2>3 DEF RequeueTask, RestUnchanged, Quiet,
     QuietItems, SameClaim, QuietChildren
<1>2. CASE Settle(p)
  <2>1. rc[p].op \in Ops /\ rc[p].goal \in TerminalStates
    BY <1>2 DEF Settle, OpsKnown, Applying, RecoveryRecord
  <2>2. Terminalized(task[rc[p].op], rc[p].goal).state # "absent"
    BY <2>1, StatesWritten
  <2>3. QuietTasks
    BY <1>2, <2>1, <2>2, QuietWrite DEF Settle, KeepTask, QuietTasks
  <2>4. \/ Abort(p)
        \/ (Resume(p) \/ Goto(p, "drop")) /\ UNCHANGED wk
    BY <1>2 DEF Settle
  <2>5. OpsKnown' /\ QuietAdmissions /\ QuietWorkers
    BY <2>1, <2>4, QuietResume, QuietAbort, QuietGoto DEF QuietWorkers
  <2> QED BY <1>2, <2>1, <2>2, <2>3, <2>4, <2>5 DEF Settle, RestUnchanged,
     Quiet, QuietItems, SameClaim, QuietChildren
<1>3. CASE Drop(p)
  <2>1. QuietItems
    BY <1>3, QuietDelete DEF Drop
  <2>2. OpsKnown' /\ QuietAdmissions
    BY <1>3, QuietResume, QuietOff DEF Drop
  <2> QED BY <1>3, <2>1, <2>2 DEF Drop, RestUnchanged, Quiet, QuietTasks,
     QuietChildren, QuietWorkers
<1>4. ASSUME NEW o \in Ops, FailMissing(p, o)
      PROVE  OpsKnown' /\ Quiet
  <2>1. "failed" \in TerminalStates
    BY DEF TerminalStates
  <2>2. Terminalized(task[o], "failed").state # "absent"
    BY <2>1, StatesWritten
  <2>3. QuietTasks
    BY <1>4, <2>2, QuietWrite DEF FailMissing, KeepTask, QuietTasks
  <2>4. \/ Abort(p)
        \/ /\ rc' = [rc EXCEPT ![p] = [rc[p] EXCEPT !.miss = @ \ {o}]]
           /\ UNCHANGED wk
    BY <1>4 DEF FailMissing
  <2>5. rc[p].pc = "sweep" /\ rc[p] \in RecoveryRecord
    BY <1>4 DEF FailMissing, TypeOK
  <2>6. /\ [rc[p] EXCEPT !.miss = @ \ {o}] \in RecoveryRecord
        /\ [rc[p] EXCEPT !.miss = @ \ {o}].pc = "sweep"
    BY <2>5 DEF RecoveryRecord
  <2>7. OpsKnown' /\ QuietAdmissions /\ QuietWorkers
    BY <2>4, <2>6, QuietLoop, QuietAbort DEF QuietWorkers, Applying
  <2> QED BY <1>4, <2>3, <2>7 DEF FailMissing, RestUnchanged, Quiet,
     QuietItems, SameClaim, QuietChildren
<1>5. CASE PassEnds(p)
  <2>1. [RecOff EXCEPT !.pc = "glist"] \in RecoveryRecord
        /\ [RecOff EXCEPT !.pc = "glist"].pc = "glist"
    BY ConstantsType DEF RecoveryRecord, RecPcs
  <2>2. OpsKnown' /\ QuietAdmissions
    BY <1>5, <2>1, QuietOff, QuietLoop DEF PassEnds, Applying
  <2> QED BY <1>5, <2>1, <2>2 DEF PassEnds, RestUnchanged, Quiet,
     QuietTasks, QuietItems, SameClaim, QuietChildren, QuietWorkers
<1>6. CASE GenericList(p)
  <2>1. rc' = [rc EXCEPT ![p] = rc'[p]] /\ rc'[p].pc = "gsweep"
    BY <1>6 DEF GenericList, RecoveryRecord
  <2>2. rc'[p] \in RecoveryRecord
    BY <1>6, RecoveryType DEF RecoveryStep
  <2>3. OpsKnown' /\ QuietAdmissions
    BY <1>6, <2>1, <2>2, QuietLoop DEF GenericList, Applying
  <2> QED BY <1>6, <2>1, <2>2, <2>3 DEF GenericList, RestUnchanged, Quiet,
     QuietTasks, QuietItems, SameClaim, QuietChildren, QuietWorkers
<1>7. ASSUME NEW o \in Ops, GenericLeave(p, o)
      PROVE  OpsKnown' /\ Quiet
  <2>1. OpsKnown' /\ QuietAdmissions
    BY <1>7, QuietVisit DEF GenericLeave
  <2> QED BY <1>7, <2>1 DEF GenericLeave, RestUnchanged, Quiet, QuietTasks,
     QuietItems, SameClaim, QuietChildren, QuietWorkers
<1>8. ASSUME NEW o \in Ops, GenericReap(p, o)
      PROVE  OpsKnown' /\ Quiet
  <2>1. QuietChildren
    BY <1>8, QuietReap DEF GenericReap
  <2>2. Visited(p, o) \in RecoveryRecord
    BY VisitType
  <2>3. /\ rc' = [rc EXCEPT ![p] = rc'[p]] /\ rc'[p].op = o
        /\ rc'[p].pc \in {"settle", "gdelete"}
    BY <1>8, <2>2 DEF GenericReap, RecoveryRecord
  <2>4. rc'[p] \in RecoveryRecord
    BY <1>8, RecoveryType DEF RecoveryStep
  <2>5. UNCHANGED wk
    BY <1>8 DEF GenericReap
  <2>6. OpsKnown' /\ QuietAdmissions
    BY <2>3, <2>4, <2>5, QuietLoop
  <2> QED BY <1>8, <2>1, <2>2, <2>3, <2>4, <2>5, <2>6 DEF GenericReap,
     RestUnchanged, Quiet, QuietTasks, QuietItems, SameClaim, QuietWorkers
<1>9. CASE GenericDelete(p)
  <2>1. rc[p].op \in Ops
    BY <1>9 DEF GenericDelete, OpsKnown, Applying
  <2>2. OpsKnown' /\ QuietAdmissions
    BY <1>9, <2>1, QuietGoto DEF GenericDelete
  <2> QED BY <1>9, <2>1, <2>2 DEF GenericDelete, RestUnchanged, Quiet,
     QuietTasks, QuietItems, SameClaim, QuietChildren, QuietWorkers
<1>10. CASE PruneBindings(p)
  <2>1. QuietAdmissions
    BY <1>10 DEF PruneBindings, QuietAdmissions, RecOff
  <2>2. OpsKnown' /\ QuietWorkers
    BY <1>10 DEF PruneBindings, OpsKnown, Engaged, WorkerPcs, Applying,
       RecOff, QuietWorkers
  <2> QED BY <1>10, <2>1, <2>2 DEF PruneBindings, RestUnchanged, Quiet,
     QuietTasks, QuietItems, SameClaim, QuietChildren
<1> QED BY <1>1, <1>2, <1>3, <1>4, <1>5, <1>6, <1>7, <1>8, <1>9, <1>10 DEF
   TypeOK

LEMMA QuietControl ==
    ASSUME TypeOK, OpsKnown, NEW c \in Controls,
           \/ AdmitRecord(c) \/ AdmitFails(c) \/ CancelLooks(c)
           \/ ControlCrash(c) \/ \E o \in Ops : CancelOperation(c, o)
    PROVE  OpsKnown' /\ Quiet
<1> USE DEF TypeOK
<1>c. c \in Procs /\ rc[c] \in RecoveryRecord
  BY DEF Procs
<1>1. CASE AdmitRecord(c)
  <2>1. rc[c].op \in Ops
    BY <1>1, <1>c DEF AdmitRecord, OpsKnown, Applying
  <2>2. QuietTasks /\ task'[rc[c].op].state # "absent"
    BY <1>1, <2>1, StatesWritten, NewTaskType, QuietWrite DEF AdmitRecord,
       WriteTask
  <2>3. OpsKnown' /\ QuietAdmissions
    BY <1>1, <1>c, <2>2 DEF AdmitRecord, OpsKnown, Applying, QuietAdmissions
  <2> QED BY <1>1, <2>2, <2>3 DEF AdmitRecord, Quiet, QuietItems,
       SameClaim, QuietChildren, QuietWorkers
<1>2. CASE AdmitFails(c)
  <2>1. rc[c].op \in Ops /\ "failed" \in TerminalStates
    BY <1>2, <1>c DEF AdmitFails, OpsKnown, Applying, TerminalStates
  <2>2. QuietTasks
    BY <1>2, <2>1, StatesWritten, QuietWrite DEF AdmitFails, KeepTask,
       QuietTasks
  <2>3. OpsKnown' /\ QuietAdmissions
    BY <1>2, <1>c, QuietOff DEF AdmitFails
  <2> QED BY <1>2, <2>2, <2>3 DEF AdmitFails, Quiet, QuietItems, SameClaim,
       QuietChildren, QuietWorkers
<1>3. CASE CancelLooks(c)
  <2>1. QuietChildren
    BY <1>3, QuietReap DEF CancelLooks, QuietChildren
  <2>2. rc' \in [Procs -> RecoveryRecord] /\ rc[c].op \in Ops
    BY <1>3, <1>c, CancellationType DEF Cancellation, CancelLooks, OpsKnown,
       Applying
  <2>3. \/ rc' = [rc EXCEPT ![c] = RecOff]
        \/ /\ rc' = [rc EXCEPT ![c] = rc'[c]]
           /\ rc'[c].pc = "settle" /\ rc'[c].op = rc[c].op
    <3>1. \/ rc' = [rc EXCEPT ![c] = RecOff]
          \/ \E b, w : rc' = [rc EXCEPT ![c] = [rc[c] EXCEPT
                                 !.pc = "settle", !.bnd = b, !.owner = w]]
      BY <1>3 DEF CancelLooks
    <3>2. ASSUME NEW b, NEW w,
                 rc' = [rc EXCEPT ![c] = [rc[c] EXCEPT !.pc = "settle",
                                            !.bnd = b, !.owner = w]]
          PROVE  /\ rc' = [rc EXCEPT ![c] = rc'[c]]
                 /\ rc'[c].pc = "settle" /\ rc'[c].op = rc[c].op
      BY <1>c, <3>2 DEF RecoveryRecord
    <3> QED BY <3>1, <3>2
  <2>4. rc'[c] \in RecoveryRecord /\ UNCHANGED wk
    BY <1>3, <1>c, <2>2 DEF CancelLooks
  <2>5. OpsKnown' /\ QuietAdmissions
    BY <1>c, <2>2, <2>3, <2>4, QuietOff, QuietLoop
  <2> QED BY <1>3, <2>1, <2>5 DEF CancelLooks, RestUnchanged, Quiet,
       QuietTasks, QuietItems, SameClaim, QuietWorkers
<1>4. CASE ControlCrash(c)
  <2>1. OpsKnown' /\ QuietAdmissions
    BY <1>4, <1>c, QuietOff DEF ControlCrash
  <2> QED BY <1>4, <2>1 DEF ControlCrash, Quiet, QuietTasks, QuietItems,
       SameClaim, QuietChildren, QuietWorkers
<1>5. ASSUME NEW o \in Ops, CancelOperation(c, o)
      PROVE  OpsKnown' /\ Quiet
  <2>1. QuietTasks
    BY <1>5, StatesWritten, QuietWrite DEF CancelOperation, KeepTask,
       QuietTasks
  <2>2. [RecOff EXCEPT !.pc = "look", !.op = o, !.goal = "cancelled",
                       !.task[o] = task[o]] \in RecoveryRecord
    BY CancelType
  <2>3. /\ [RecOff EXCEPT !.pc = "look", !.op = o, !.goal = "cancelled",
                          !.task[o] = task[o]].pc = "look"
        /\ [RecOff EXCEPT !.pc = "look", !.op = o, !.goal = "cancelled",
                          !.task[o] = task[o]].op = o
    BY DEF RecOff
  <2>4. OpsKnown' /\ QuietAdmissions
    BY <1>5, <1>c, <2>2, <2>3, QuietLoop DEF CancelOperation
  <2> QED BY <1>5, <2>1, <2>4 DEF CancelOperation, RestUnchanged, Quiet,
       QuietItems, SameClaim, QuietChildren, QuietWorkers
<1> QED BY <1>1, <1>2, <1>3, <1>4, <1>5

LEMMA QuietClock ==
    ASSUME TypeOK, OpsKnown, NEW o \in Ops,
           GraceElapses(o) \/ LeaseExpires(o)
    PROVE  OpsKnown' /\ Quiet
<1> USE DEF TypeOK
<1>1. CASE GraceElapses(o)
  BY <1>1 DEF GraceElapses, OpsKnown, Quiet, QuietTasks, QuietItems,
     SameClaim, QuietChildren, QuietWorkers, QuietAdmissions
<1>2. CASE LeaseExpires(o)
  <2>1. QuietTasks
    BY <1>2 DEF LeaseExpires, QuietTasks, TaskRecord
  <2>2. QuietItems
    BY <1>2 DEF LeaseExpires, QuietItems, SameClaim, ItemRecord
  <2> QED BY <1>2, <2>1, <2>2 DEF LeaseExpires, OpsKnown, Quiet,
       QuietChildren, QuietWorkers, QuietAdmissions
<1> QED BY <1>1, <1>2

(* The four steps that are not quiet. *)

LEMMA AdmitCheckPreserves ==
    ASSUME SpawnInv, TypeOK', NEW c \in Controls, NEW o \in Ops,
           AdmitCheck(c, o)
    PROVE  SpawnInv'
<1> USE DEF SpawnInv
<1>1. /\ c \in Procs /\ rc[c].pc = "off" /\ task[o].state = "absent"
      /\ \A d \in Controls : rc[d].op # o
      /\ rc' = [rc EXCEPT ![c].pc = "record", ![c].op = o]
      /\ UNCHANGED <<task, work, wk, child, spawned>>
  BY DEF AdmitCheck, Procs
<1>2. rc \in [Procs -> RecoveryRecord]
  BY DEF TypeOK
<1>3. OpsKnown'
  BY <1>1, <1>2 DEF OpsKnown, Applying
<1>4. BoundaryExclusive' /\ SpawnedHoldsItem' /\ ChildSpawned'
  BY <1>1 DEF BoundaryExclusive, AtBoundary, SpawnedHoldsItem, ChildSpawned
<1>5. \A x \in Ops : Untouched(x) => Untouched(x)'
  BY <1>1 DEF Untouched, AtBoundary
<1>6. ASSUME NEW p \in Procs, NEW x \in Ops, Admitting(p, x)'
      PROVE  \/ p = c /\ x = o /\ rc'[p].pc = "record"
             \/ /\ Admitting(p, x) /\ x # o
                /\ rc'[p].pc = rc[p].pc
  BY <1>1, <1>2, <1>6 DEF Admitting, ItemsCreatedOnce
<1>7. ItemsCreatedOnce'
  <2>1. ASSUME NEW x \in Ops, (task[x].state = "absent")'
        PROVE  Untouched(x)'
    BY <2>1, <1>1, <1>5 DEF ItemsCreatedOnce
  <2>2. ASSUME NEW x \in Ops, NEW p \in Procs, NEW q \in Procs,
               Admitting(p, x)'
        PROVE  /\ p \in Controls /\ Untouched(x)'
               /\ Admitting(q, x)' => p = q
               /\ (rc[p].pc = "enqueue")' => (task[x].state # "absent")'
    <3>1. CASE p = c /\ x = o /\ rc'[p].pc = "record"
      <4>1. Admitting(q, x)' => p = q
        BY <3>1, <1>6
      <4>2. Untouched(x)'
        BY <3>1, <1>1, <1>5 DEF ItemsCreatedOnce
      <4> QED BY <3>1, <4>1, <4>2
    <3>2. CASE Admitting(p, x) /\ x # o /\ rc'[p].pc = rc[p].pc
      <4>1. /\ p \in Controls /\ Untouched(x)
            /\ Admitting(q, x) => p = q
            /\ rc[p].pc = "enqueue" => task[x].state # "absent"
        BY <3>2 DEF ItemsCreatedOnce
      <4> QED BY <3>2, <4>1, <1>1, <1>5, <1>6
    <3> QED BY <2>2, <1>6, <3>1, <3>2
  <2> QED BY <2>1, <2>2 DEF ItemsCreatedOnce
<1> QED BY <1>3, <1>4, <1>7

LEMMA AdmitEnqueuePreserves ==
    ASSUME SpawnInv, TypeOK', NEW c \in Controls, AdmitEnqueue(c)
    PROVE  SpawnInv'
<1> USE DEF SpawnInv
<1> DEFINE o == rc[c].op
<1>1. /\ c \in Procs /\ o \in Ops /\ Admitting(c, o)
      /\ rc[c].pc = "enqueue"
      /\ rc' = [rc EXCEPT ![c] = RecOff] /\ RecOff.pc = "off"
      /\ work' = [work EXCEPT ![o] = NewItem(Generation[c])]
      /\ UNCHANGED <<task, wk, child, spawned>>
  BY DEF AdmitEnqueue, Procs, OpsKnown, Applying, Admitting, RecOff
<1>2. rc \in [Procs -> RecoveryRecord] /\ work \in [Ops -> ItemRecord]
  BY DEF TypeOK
<1>3. Untouched(o) /\ task[o].state # "absent"
  BY <1>1 DEF ItemsCreatedOnce
<1> HIDE DEF o
<1>4. OpsKnown'
  BY <1>1, <1>2 DEF OpsKnown, Applying
<1>5. \A x \in Ops : x # o => work'[x] = work[x]
  BY <1>1, <1>2
<1>6. BoundaryExclusive'
  BY <1>1, <1>3, <1>5 DEF BoundaryExclusive, AtBoundary, Untouched
<1>7. SpawnedHoldsItem' /\ ChildSpawned'
  BY <1>1, <1>3, <1>5 DEF SpawnedHoldsItem, ChildSpawned, Untouched
<1>8. \A x \in Ops : x # o /\ Untouched(x) => Untouched(x)'
  BY <1>1, <1>5 DEF Untouched, AtBoundary
<1>9. ASSUME NEW p \in Procs, NEW x \in Ops, Admitting(p, x)'
      PROVE  Admitting(p, x) /\ x # o /\ rc'[p].pc = rc[p].pc
  BY <1>1, <1>2, <1>9 DEF Admitting, ItemsCreatedOnce
<1>10. ItemsCreatedOnce'
  <2>1. ASSUME NEW x \in Ops, (task[x].state = "absent")'
        PROVE  Untouched(x)'
    BY <2>1, <1>1, <1>3, <1>8 DEF ItemsCreatedOnce
  <2>2. ASSUME NEW x \in Ops, NEW p \in Procs, NEW q \in Procs,
               Admitting(p, x)'
        PROVE  /\ p \in Controls /\ Untouched(x)'
               /\ Admitting(q, x)' => p = q
               /\ (rc[p].pc = "enqueue")' => (task[x].state # "absent")'
    BY <2>2, <1>1, <1>8, <1>9 DEF ItemsCreatedOnce
  <2> QED BY <2>1, <2>2 DEF ItemsCreatedOnce
<1> QED BY <1>4, <1>6, <1>7, <1>10

LEMMA CrossSpawnBoundaryPreserves ==
    ASSUME SpawnInv, TypeOK', NEW w \in Workers, CrossSpawnBoundary(w)
    PROVE  SpawnInv'
<1> USE DEF SpawnInv
<1>o. PICK o \in Ops : o = wk[w].op
  BY DEF CrossSpawnBoundary, OpsKnown, Engaged, WorkerPcs
<1>a. PICK a : a = wk[w].attempt
  OBVIOUS
<1>1. wk[w].pc = "locked"
  BY DEF CrossSpawnBoundary
<1>2. /\ wk \in [Workers -> WorkerRecord]
      /\ work \in [Ops -> ItemRecord]
  BY DEF TypeOK
<1>3. CASE ~HoldsClaim(work[o], w, a)
  <2>1. /\ wk' = [wk EXCEPT ![w].pc = "except"]
        /\ UNCHANGED <<task, work, child, rc, spawned>>
    BY <1>3, <1>o, <1>a DEF CrossSpawnBoundary
  <2>2. OpsKnown'
    BY <2>1, <1>o, <1>2 DEF OpsKnown
  <2>3. Quiet
    BY <2>1, <1>2 DEF Quiet, QuietTasks, QuietItems, SameClaim,
       QuietChildren, QuietWorkers, QuietAdmissions
  <2> QED BY <2>2, <2>3, QuietPreserves
<1>4. CASE HoldsClaim(work[o], w, a)
  <2>1. /\ wk' = [wk EXCEPT ![w].pc = "spawn"]
        /\ work' = [work EXCEPT ![o] = ItemStarted(work[o])]
        /\ UNCHANGED <<task, child, rc, spawned>>
    BY <1>4, <1>o, <1>a DEF CrossSpawnBoundary
  <2>2. /\ wk'[w].pc = "spawn" /\ wk'[w].op = o /\ wk'[w].attempt = a
        /\ \A v \in Workers : v # w => wk'[v] = wk[v]
    BY <2>1, <1>2, <1>o, <1>a DEF WorkerRecord
  <2>3. /\ HoldsClaim(work'[o], w, a) /\ work'[o].started
        /\ work[o].state # "absent"
        /\ \A x \in Ops : x # o => work'[x] = work[x]
    BY <2>1, <1>2, <1>4 DEF HoldsClaim, ItemStarted, ItemRecord
  <2>4. OpsKnown'
    BY <2>1, <2>2, <1>2 DEF OpsKnown
  <2>5. \A x \in Ops : Untouched(x) => x # o /\ Untouched(x)'
    BY <2>1, <2>2, <2>3 DEF Untouched, AtBoundary
  <2>6. ItemsCreatedOnce'
    BY <2>1, <2>5 DEF ItemsCreatedOnce, Admitting
  <2>7. \A v \in Workers : AtBoundary(v, o) => v = w
    <3>1. ASSUME NEW v \in Workers, AtBoundary(v, o)
          PROVE  v = w
      <4>1. HoldsClaim(work[o], v, wk[v].attempt)
        BY <3>1, <2>3 DEF BoundaryExclusive
      <4> QED BY <4>1, <1>4 DEF HoldsClaim
    <3> QED BY <3>1
  <2>8. \A x \in spawned[o] : x = <<w, a>>
    <3>1. ASSUME NEW x \in spawned[o] PROVE x = <<w, a>>
      <4>1. x \in Workers \X Nat
        BY DEF TypeOK
      <4>2. HoldsClaim(work[o], x[1], x[2])
        BY <2>3 DEF SpawnedHoldsItem
      <4>3. x[1] = w /\ x[2] = a
        BY <4>2, <1>4 DEF HoldsClaim
      <4>4. x = <<x[1], x[2]>>
        BY <4>1
      <4> QED BY <4>3, <4>4
    <3> QED BY <3>1
  <2>9. BoundaryExclusive'
    <3>1. ASSUME NEW x \in Ops, NEW v \in Workers, AtBoundary(v, x)'
          PROVE  /\ spawned'[x] \subseteq {<<v, wk'[v].attempt>>}
                 /\ \/ work'[x].state = "absent"
                    \/ /\ HoldsClaim(work'[x], v, wk'[v].attempt)
                       /\ work'[x].started
                 /\ \A u \in Workers : AtBoundary(u, x)' => u = v
      <4>1. CASE x = o
        <5>1. \A u \in Workers : AtBoundary(u, o)' => u = w
          BY <2>2, <2>7 DEF AtBoundary
        <5> QED BY <3>1, <4>1, <5>1, <2>1, <2>2, <2>3, <2>8
      <4>2. CASE x # o
        <5>1. \A u \in Workers : AtBoundary(u, x)' =>
                 AtBoundary(u, x) /\ wk'[u].attempt = wk[u].attempt
          BY <2>2, <4>2 DEF AtBoundary
        <5> QED BY <3>1, <4>2, <5>1, <2>1, <2>3 DEF BoundaryExclusive
      <4> QED BY <4>1, <4>2
    <3> QED BY <3>1 DEF BoundaryExclusive
  <2>10. SpawnedHoldsItem'
    <3>1. ASSUME NEW x \in Ops, NEW y \in spawned'[x]
          PROVE  /\ spawned'[x] = {y}
                 /\ \/ work'[x].state = "absent"
                    \/ /\ HoldsClaim(work'[x], y[1], y[2])
                       /\ work'[x].started
      <4>1. CASE x = o
        BY <3>1, <4>1, <2>1, <2>3, <2>8 DEF SpawnedHoldsItem
      <4>2. CASE x # o
        BY <3>1, <4>2, <2>1 DEF SpawnedHoldsItem
      <4> QED BY <4>1, <4>2
    <3> QED BY <3>1 DEF SpawnedHoldsItem
  <2>11. ChildSpawned'
    BY <2>1 DEF ChildSpawned
  <2> QED BY <2>4, <2>6, <2>9, <2>10, <2>11
<1> QED BY <1>3, <1>4

LEMMA SpawnPreserves ==
    ASSUME SpawnInv, TypeOK', NEW w \in Workers, Spawn(w)
    PROVE  SpawnInv'
<1> USE DEF SpawnInv
<1>o. PICK o \in Ops : o = wk[w].op
  BY DEF Spawn, OpsKnown, Engaged, WorkerPcs
<1>a. PICK a : a = wk[w].attempt
  OBVIOUS
<1>1. /\ AtBoundary(w, o)
      /\ wk' = [wk EXCEPT ![w].pc = "gated"]
      /\ spawned' = [spawned EXCEPT ![o] = @ \cup {<<w, a>>}]
      /\ child' = [child EXCEPT ![w] = [st |-> "gated", op |-> o,
                                        pid |-> pids + 1]]
      /\ UNCHANGED <<task, work, rc>>
  BY <1>o, <1>a DEF Spawn, AtBoundary
<1>2. /\ wk \in [Workers -> WorkerRecord]
      /\ spawned \in [Ops -> SUBSET (Workers \X Nat)]
      /\ child \in [Workers -> ChildRecord]
  BY DEF TypeOK
<1>3. /\ spawned[o] \subseteq {<<w, a>>}
      /\ \/ work[o].state = "absent"
         \/ HoldsClaim(work[o], w, a) /\ work[o].started
      /\ \A v \in Workers : AtBoundary(v, o) => v = w
  BY <1>1, <1>a DEF BoundaryExclusive
<1>4. /\ spawned'[o] = {<<w, a>>}
      /\ \A x \in Ops : x # o => spawned'[x] = spawned[x]
  BY <1>1, <1>2, <1>3
<1>5. OpsKnown'
  BY <1>1, <1>2 DEF OpsKnown, AtBoundary
<1>6. ASSUME NEW v \in Workers, NEW x \in Ops, AtBoundary(v, x)'
      PROVE  /\ AtBoundary(v, x) /\ x # o
             /\ wk'[v].attempt = wk[v].attempt
  BY <1>1, <1>2, <1>3, <1>6 DEF AtBoundary
<1>7. \A x \in Ops : Untouched(x) => x # o /\ Untouched(x)'
  BY <1>1, <1>4, <1>6 DEF Untouched
<1>8. ItemsCreatedOnce'
  BY <1>1, <1>7 DEF ItemsCreatedOnce, Admitting
<1>9. BoundaryExclusive'
  BY <1>1, <1>4, <1>6 DEF BoundaryExclusive
<1>10. SpawnedHoldsItem'
  <2>1. ASSUME NEW x \in Ops, NEW y \in spawned'[x]
        PROVE  /\ spawned'[x] = {y}
               /\ \/ work'[x].state = "absent"
                  \/ HoldsClaim(work'[x], y[1], y[2]) /\ work'[x].started
    <3>1. CASE x = o
      BY <2>1, <3>1, <1>1, <1>3, <1>4
    <3>2. CASE x # o
      BY <2>1, <3>2, <1>1, <1>4 DEF SpawnedHoldsItem
    <3> QED BY <3>1, <3>2
  <2> QED BY <2>1 DEF SpawnedHoldsItem
<1>11. ChildSpawned'
  <2>1. ASSUME NEW v \in Workers, child'[v].st # "none"
        PROVE  /\ child'[v].op \in Ops
               /\ \E x \in spawned'[child'[v].op] : x[1] = v
    <3>1. CASE v = w
      <4>1. child'[v].op = o /\ <<w, a>>[1] = v
        BY <3>1, <1>1, <1>2
      <4> QED BY <4>1, <1>4
    <3>2. CASE v # w
      <4>1. child'[v] = child[v]
        BY <3>2, <1>1, <1>2
      <4>2. /\ child[v].op \in Ops
            /\ \E x \in spawned[child[v].op] : x[1] = v
        BY <2>1, <4>1 DEF ChildSpawned
      <4>3. child[v].op # o
        BY <3>2, <4>2, <1>3
      <4> QED BY <4>1, <4>2, <4>3, <1>4
    <3> QED BY <3>1, <3>2
  <2> QED BY <2>1 DEF ChildSpawned
<1> QED BY <1>5, <1>8, <1>9, <1>10, <1>11

-----------------------------------------------------------------------------
(* The theorems.                                                           *)

LEMMA NextPreserves ==
    ASSUME SpawnInv, [Next]_vars
    PROVE  SpawnInv'
<1>0. TypeOK /\ OpsKnown /\ TypeOK'
  BY NextType DEF SpawnInv
<1>1. CASE UNCHANGED vars
  <2>1. OpsKnown' /\ Quiet
    BY <1>0, <1>1 DEF vars, OpsKnown, Quiet, QuietTasks, QuietItems,
       SameClaim, QuietChildren, QuietWorkers, QuietAdmissions
  <2> QED BY <1>0, <2>1, QuietPreserves
<1>2. ASSUME NEW c \in Controls,
             Admission(c) \/ Cancellation(c) \/ ControlCrash(c)
      PROVE  SpawnInv'
  <2>1. CASE \E o \in Ops : AdmitCheck(c, o)
    BY <2>1, <1>0, AdmitCheckPreserves
  <2>2. CASE AdmitEnqueue(c)
    BY <2>2, <1>0, AdmitEnqueuePreserves
  <2>3. CASE \/ AdmitRecord(c) \/ AdmitFails(c) \/ CancelLooks(c)
             \/ ControlCrash(c) \/ \E o \in Ops : CancelOperation(c, o)
    BY <2>3, <1>0, QuietControl, QuietPreserves
  <2> QED BY <1>2, <2>1, <2>2, <2>3 DEF Admission, Cancellation
<1>3. ASSUME NEW w \in Workers,
             \/ StartWorker(w) \/ WorkerStep(w) \/ Heartbeat(w)
             \/ ChildExits(w) \/ WorkerCrash(w)
      PROVE  SpawnInv'
  <2>1. CASE CrossSpawnBoundary(w)
    BY <2>1, <1>0, CrossSpawnBoundaryPreserves
  <2>2. CASE Spawn(w)
    BY <2>2, <1>0, SpawnPreserves
  <2>3. CASE ~CrossSpawnBoundary(w) /\ ~Spawn(w)
    BY <1>3, <2>3, <1>0, QuietWorker, QuietPreserves DEF WorkerStep
  <2> QED BY <2>1, <2>2, <2>3
<1>4. ASSUME NEW p \in Procs, RecoveryBegins(p) \/ RecoveryStep(p)
      PROVE  SpawnInv'
  BY <1>4, <1>0, QuietSweep, QuietSettle, QuietPreserves DEF RecoveryStep
<1>5. ASSUME NEW o \in Ops, GraceElapses(o) \/ LeaseExpires(o)
      PROVE  SpawnInv'
  BY <1>5, <1>0, QuietClock, QuietPreserves
<1> QED BY <1>1, <1>2, <1>3, <1>4, <1>5 DEF Next

(* The strengthening is an invariant of the execution plane. *)
THEOREM SpawnInvariance == Spec => []SpawnInv
BY InitSpawnInv, NextPreserves, PTL DEF Spec

(* Whatever the processes do, every store and every local stays well       *)
(* formed.                                                                 *)
THEOREM TypeCorrect == Spec => []TypeOK
<1>1. SpawnInv => TypeOK
  BY DEF SpawnInv
<1> QED BY <1>1, SpawnInvariance, PTL

(* Execution is at-most-once: for any number of workers, expired leases,   *)
(* recovery passes, cancellations and crashes, no two claims of an         *)
(* operation create child processes (cross_spawn_boundary together with    *)
(* requeue_unstarted_work).  The number of live workers is not limited     *)
(* either: the guarantee does not rest on the supervisor.                  *)
THEOREM ExecutesAtMostOnce == Spec => []AtMostOneExecution
<1>1. SpawnInv => AtMostOneExecution
  BY DEF SpawnInv, SpawnedHoldsItem, AtMostOneExecution
<1> QED BY <1>1, SpawnInvariance, PTL

(* While a child lives, its work item is its own worker's started claim or *)
(* gone: recovery never hands work in execution to anybody else.           *)
THEOREM ChildrenHoldTheirItems == Spec => []ChildHoldsItem
<1>1. SpawnInv => ChildHoldsItem
  BY DEF SpawnInv, SpawnedHoldsItem, ChildSpawned, ChildHoldsItem,
         HoldsClaim
<1> QED BY <1>1, SpawnInvariance, PTL

-----------------------------------------------------------------------------
(***************************************************************************)
(* The record a client polls implements OperationLifecycle, as long as the *)
(* supervisor keeps one worker alive at a time (MaxLive <= 1, which        *)
(* WorkerLeasesProofs shows of it).  With two, a worker that lost its      *)
(* claim may delete the result of the run that succeeded after it.         *)
(***************************************************************************)

(* From the start of the operation to its commit. *)
Working == Engaged \ {"claimed", "unbind", "drop"}

OneLive == \A v, w \in Workers : Live(v) /\ Live(w) => v = w

(* An id without a record was never used, and the admission about to write *)
(* one has not been overtaken.                                             *)
AbsentIsBlank ==
    \A o \in Ops : task[o].state = "absent" => task[o] = NoTask

RecordIsFirst ==
    \A p \in Procs :
       rc[p].pc = "record" => task[rc[p].op].state = "absent"

(* Only a worker's own commit ends in success, and its result is stored. *)
PassesNeverSucceed == \A p \in Procs : rc[p].goal # "succeeded"

(* A worker recovers when it boots and between two claims. *)
PassesAlive ==
    \A w \in Workers : rc[w].pc # "off" => wk[w].pc \in {"boot", "idle"}

WorkIsOpen ==
    \A w \in Workers :
       wk[w].pc \in Working =>
          task[wk[w].op].state \notin {"absent", "succeeded"}

SuccessIsStored ==
    \A w \in Workers :
       /\ wk[w].pc = "commit" /\ wk[w].goal = "succeeded"
             => wk[w].op \in result
       /\ wk[w].pc = "recommit" => wk[w].goal # "succeeded"

LifeInv ==
    /\ OneLive /\ AbsentIsBlank /\ RecordIsFirst /\ PassesNeverSucceed
    /\ PassesAlive /\ WorkIsOpen /\ SuccessIsStored

LEMMA InitLifeInv == Init => LifeInv
BY DEF Init, LifeInv, OneLive, Live, AbsentIsBlank, RecordIsFirst,
       PassesNeverSucceed, PassesAlive, WorkIsOpen, SuccessIsStored, Working,
       Engaged, WorkerPcs, WorkerOff, RecOff, NoTask, Procs

(* What a record may go through in a step that neither creates it nor      *)
(* lets it succeed.                                                        *)
SameRecord(o) ==
    /\ task'[o].state = task[o].state
    /\ task'[o].attempt = task[o].attempt
    /\ task'[o].cancel = task[o].cancel

Move(o) ==
    /\ task[o].state # "absent"
    /\ \/ /\ task[o].state \in {"pending", "running"}
          /\ task'[o].state = task[o].state
          /\ task'[o].attempt = task[o].attempt /\ task'[o].cancel = TRUE
       \/ /\ task[o].state = "running" /\ task'[o].state = "pending"
          /\ task'[o].attempt = task[o].attempt
          /\ task'[o].cancel = task[o].cancel
       \/ /\ \/ task[o].state = "running" /\ task'[o].state \in TerminalStates
             \/ /\ task[o].state = "pending"
                /\ task'[o].state \in {"failed", "cancelled", "expired"}
          /\ task'[o].state # "succeeded"
          /\ task'[o].attempt = task[o].attempt
          /\ task'[o].cancel = task[o].cancel

CalmTasks ==
    \A o \in Ops : \/ SameRecord(o)
                      /\ (task[o] = NoTask => task'[o] = NoTask)
                   \/ Move(o)

CalmWorkers ==
    \A w \in Workers :
       /\ Live(w)' => Live(w)
       /\ wk'[w].pc \in Working =>
             /\ wk[w].pc \in Working /\ wk'[w].op = wk[w].op
             /\ wk'[w].goal = wk[w].goal
             /\ wk'[w].pc \in {"commit", "recommit"} => wk'[w].pc = wk[w].pc

CalmPasses ==
    \A p \in Procs :
       /\ rc[p].goal # "succeeded" => rc'[p].goal # "succeeded"
       /\ rc'[p].pc = "record" =>
             rc[p].pc = "record" /\ rc'[p].op = rc[p].op

Calm ==
    /\ UNCHANGED <<result, spawned>>
    /\ CalmTasks /\ CalmWorkers /\ CalmPasses

LEMMA CalmPreserves ==
    ASSUME SpawnInv, LifeInv, Calm, PassesAlive'
    PROVE  LifeInv'
<1> USE DEF LifeInv, Calm
<1>0. /\ \A w \in Workers : wk[w].pc \in Working => wk[w].op \in Ops
      /\ \A p \in Procs : rc[p].pc = "record" => rc[p].op \in Ops
  BY DEF SpawnInv, OpsKnown, Working, Applying
<1>1. \A o \in Ops : /\ task[o].state = "absent" <=> task'[o].state = "absent"
                     /\ task'[o].state = "succeeded"
                           => task[o].state = "succeeded"
  BY DEF CalmTasks, SameRecord, Move, TerminalStates
<1>2. OneLive'
  BY DEF CalmWorkers, OneLive
<1>3. AbsentIsBlank'
  BY <1>1 DEF CalmTasks, AbsentIsBlank, Move
<1>4. RecordIsFirst'
  BY <1>0, <1>1 DEF CalmPasses, RecordIsFirst
<1>5. PassesNeverSucceed'
  BY DEF CalmPasses, PassesNeverSucceed
<1>6. WorkIsOpen'
  BY <1>0, <1>1 DEF CalmWorkers, WorkIsOpen
<1>7. "commit" \in Working /\ "recommit" \in Working
  BY DEF Working, Engaged, WorkerPcs
<1>8. SuccessIsStored'
  BY <1>7 DEF CalmWorkers, SuccessIsStored
<1> QED BY <1>2, <1>3, <1>4, <1>5, <1>6, <1>8

(* One step of the abstract specification, or none. *)
LifeStep(o) == [Lifecycle(o)!LifecycleNext]_(Lifecycle(o)!lifecycle)

LEMMA CalmImplements ==
    ASSUME Calm, NEW o \in Ops
    PROVE  LifeStep(o)
<1> USE DEF Calm, LifeStep
<1>1. CASE SameRecord(o)
  BY <1>1 DEF SameRecord, Lifecycle!lifecycle
<1>2. CASE Move(o)
  <2>1. \/ Lifecycle(o)!CancelAsked \/ Lifecycle(o)!Released
        \/ Lifecycle(o)!Settled
    BY <1>2 DEF Move, Lifecycle!CancelAsked, Lifecycle!Released,
       Lifecycle!Settled, Lifecycle!Ended, TerminalStates
  <2> QED BY <2>1 DEF Lifecycle!LifecycleNext
<1> QED BY <1>1, <1>2 DEF CalmTasks

(* Writes and locals that are calm. *)

LEMMA CalmWrite ==
    ASSUME TypeOK, NEW p, NEW o \in Ops, NEW t, WriteTask(p, o, t),
           \/ t = CancelRequested(task[o]) /\ task[o].state = "pending"
           \/ t = CancelRequested(task[o]) /\ task[o].state = "running"
           \/ t = Requeued(task[o]) /\ RequeueAccepted(task[o])
           \/ t = Renewed(task[o]) /\ task[o].state = "running"
    PROVE  CalmTasks
<1>1. \A x \in Ops : x # o => task'[x] = task[x]
  BY DEF TypeOK, WriteTask
<1>2. task'[o] = t /\ task[o] \in TaskRecord
  BY DEF TypeOK, WriteTask
<1>3. \/ SameRecord(o) /\ task[o].state = "running"
      \/ Move(o)
  BY <1>2 DEF SameRecord, Move, CancelRequested, Requeued, RequeueAccepted,
     Renewed, TaskRecord
<1>4. NoTask.state = "absent"
  BY DEF NoTask
<1> QED BY <1>1, <1>3, <1>4 DEF CalmTasks, SameRecord

LEMMA CalmTerminal ==
    ASSUME TypeOK, NEW p, NEW o \in Ops, NEW g \in TerminalStates, NEW w,
           g # "succeeded", TransitionWrites(task[o], g, w),
           WriteTask(p, o, Terminalized(task[o], g))
    PROVE  CalmTasks
<1>1. \A x \in Ops : x # o => task'[x] = task[x]
  BY DEF TypeOK, WriteTask
<1>2. task'[o] = Terminalized(task[o], g) /\ task[o] \in TaskRecord
  BY DEF TypeOK, WriteTask
<1>3. /\ task'[o].state = g /\ task'[o].attempt = task[o].attempt
      /\ task'[o].cancel = task[o].cancel
  BY <1>2 DEF Terminalized, TaskRecord
<1>4. \/ task[o].state = "running"
      \/ /\ task[o].state = "pending"
         /\ g \in {"failed", "cancelled", "expired"}
  BY DEF TransitionWrites, Allowed, TerminalStates
<1>5. Move(o)
  BY <1>3, <1>4 DEF Move
<1> QED BY <1>1, <1>5 DEF CalmTasks, SameRecord

LEMMA CalmKeep ==
    ASSUME UNCHANGED task
    PROVE  CalmTasks
BY DEF CalmTasks, SameRecord

LEMMA CalmLoop ==
    ASSUME TypeOK, NEW p \in Procs, NEW r,
           r.pc # "record", rc[p].goal # "succeeded" => r.goal # "succeeded",
           rc' = [rc EXCEPT ![p] = r]
    PROVE  CalmPasses
BY DEF TypeOK, CalmPasses

LEMMA CalmVisit ==
    ASSUME TypeOK, NEW p \in Procs, NEW o \in Ops, rc[p].pc # "record",
           Visit(p, o)
    PROVE  CalmPasses
<1>1. rc[p] \in RecoveryRecord
  BY DEF TypeOK
<1>2. Visited(p, o).pc = rc[p].pc /\ Visited(p, o).goal = rc[p].goal
  BY <1>1 DEF Visited, RecoveryRecord
<1> QED BY <1>2, CalmLoop DEF Visit

LEMMA CalmResume ==
    ASSUME TypeOK, NEW p \in Procs, Resume(p)
    PROVE  CalmPasses
<1>1. rc[p] \in RecoveryRecord
  BY DEF TypeOK
<1>2. rc' = [rc EXCEPT ![p] = rc'[p]]
      /\ rc'[p].pc # "record" /\ rc'[p].goal = "failed"
  BY <1>1 DEF Resume, TypeOK, RecoveryRecord
<1> QED BY <1>2, CalmLoop

LEMMA CalmOff ==
    ASSUME TypeOK, NEW p \in Procs, rc' = [rc EXCEPT ![p] = RecOff]
    PROVE  CalmPasses
<1>1. RecOff.pc = "off" /\ RecOff.goal = "failed"
  BY DEF RecOff
<1> QED BY <1>1, CalmLoop

LEMMA CalmAbort ==
    ASSUME TypeOK, NEW p \in Procs, Abort(p)
    PROVE  CalmPasses /\ CalmWorkers
<1>1. CalmPasses
  BY CalmOff DEF Abort
<1>2. CalmWorkers
  BY DEF Abort, TypeOK, CalmWorkers, WorkerOff, Live, Working, Engaged,
     WorkerPcs
<1> QED BY <1>1, <1>2

LEMMA CalmGoto ==
    ASSUME TypeOK, NEW p \in Procs, Goto(p, "drop") \/ Goto(p, "settle")
    PROVE  CalmPasses
<1>1. rc[p] \in RecoveryRecord
  BY DEF TypeOK
<1>2. rc' = [rc EXCEPT ![p] = rc'[p]]
      /\ rc'[p].pc # "record" /\ rc'[p].goal = rc[p].goal
  BY <1>1 DEF Goto, TypeOK, RecoveryRecord
<1> QED BY <1>2, CalmLoop

LEMMA CalmSettling ==
    ASSUME TypeOK, NEW p \in Procs, NEW o \in Ops, NEW goal, NEW b,
           goal # "succeeded", Settling(p, o, goal, b)
    PROVE  CalmPasses
<1>1. Visited(p, o) \in RecoveryRecord
  BY VisitType
<1>2. rc' = [rc EXCEPT ![p] = rc'[p]]
      /\ rc'[p].pc = "settle" /\ rc'[p].goal = goal
  BY <1>1 DEF Settling, TypeOK, RecoveryRecord
<1> QED BY <1>2, CalmLoop

LEMMA CalmSame ==
    ASSUME UNCHANGED wk
    PROVE  CalmWorkers
BY DEF CalmWorkers, Live

(* The four recovery steps whose records are rebuilt field by field. *)

LEMMA ListTasksShape ==
    ASSUME NEW p \in Procs, ListTasks(p), rc \in [Procs -> RecoveryRecord]
    PROVE  /\ rc[p].pc = "list" /\ rc' = [rc EXCEPT ![p] = rc'[p]]
           /\ rc'[p].pc = "sweep" /\ rc'[p].goal = rc[p].goal
           /\ UNCHANGED <<task, wk, result, spawned>>
<1>1. rc' = [rc EXCEPT ![p] = rc'[p]]
  BY DEF ListTasks
<1>2. rc'[p].pc = "sweep"
  BY DEF ListTasks, RecoveryRecord
<1>3. rc'[p].goal = rc[p].goal
  BY DEF ListTasks, RecoveryRecord
<1>4. rc[p].pc = "list" /\ UNCHANGED <<task, wk, result, spawned>>
  BY DEF ListTasks, RestUnchanged
<1> QED BY <1>1, <1>2, <1>3, <1>4

LEMMA GenericListShape ==
    ASSUME NEW p \in Procs, GenericList(p), rc \in [Procs -> RecoveryRecord]
    PROVE  /\ rc[p].pc = "glist" /\ rc' = [rc EXCEPT ![p] = rc'[p]]
           /\ rc'[p].pc = "gsweep" /\ rc'[p].goal = rc[p].goal
           /\ UNCHANGED <<task, wk, result, spawned>>
<1>1. rc' = [rc EXCEPT ![p] = rc'[p]]
  BY DEF GenericList
<1>2. rc'[p].pc = "gsweep"
  BY DEF GenericList, RecoveryRecord
<1>3. rc'[p].goal = rc[p].goal
  BY DEF GenericList, RecoveryRecord
<1>4. rc[p].pc = "glist" /\ UNCHANGED <<task, wk, result, spawned>>
  BY DEF GenericList, RestUnchanged
<1> QED BY <1>1, <1>2, <1>3, <1>4

LEMMA GenericReapShape ==
    ASSUME NEW p \in Procs, NEW o \in Ops, GenericReap(p, o)
    PROVE  /\ rc[p].pc = "gsweep"
           /\ \E pc \in {"settle", "gdelete"} :
                 rc' = [rc EXCEPT ![p] = [Visited(p, o) EXCEPT
                          !.op = o, !.goal = "orphaned", !.back = "gsweep",
                          !.owner = None, !.bnd = NoBinding, !.pc = pc]]
           /\ UNCHANGED <<task, wk, result, spawned>>
<1>1. \E pc \in {"settle", "gdelete"} :
         rc' = [rc EXCEPT ![p] = [Visited(p, o) EXCEPT
                  !.op = o, !.goal = "orphaned", !.back = "gsweep",
                  !.owner = None, !.bnd = NoBinding, !.pc = pc]]
  BY DEF GenericReap
<1>2. rc[p].pc = "gsweep" /\ UNCHANGED <<task, wk, result, spawned>>
  BY DEF GenericReap, RestUnchanged
<1> QED BY <1>1, <1>2

LEMMA RequeueItemShape ==
    ASSUME NEW p \in Procs, NEW o \in Ops, RequeueItem(p, o)
    PROVE  /\ rc[p].pc = "sweep"
           /\ \/ Visit(p, o) /\ UNCHANGED wk
              \/ /\ rc' = [rc EXCEPT ![p] = [Visited(p, o) EXCEPT
                                               !.op = o, !.pc = "requeue"]]
                 /\ UNCHANGED wk
              \/ Abort(p)
           /\ UNCHANGED <<task, result, spawned>>
<1>1. /\ rc[p].pc = "sweep"
      /\ \/ Visit(p, o) /\ UNCHANGED wk
         \/ /\ rc' = [rc EXCEPT ![p] = [Visited(p, o) EXCEPT
                                          !.op = o, !.pc = "requeue"]]
            /\ UNCHANGED wk
         \/ Abort(p)
  BY DEF RequeueItem
<1>2. UNCHANGED <<task, result, spawned>>
  BY DEF RequeueItem, RestUnchanged
<1> QED BY <1>1, <1>2

LEMMA CalmSweep ==
    ASSUME TypeOK, OpsKnown, NEW p \in Procs,
           \/ RecoveryBegins(p) \/ ListTasks(p)
           \/ \E o \in Ops :
                 \/ DiscardOrphanItem(p, o) \/ LeaveItem(p, o)
                 \/ Blocked(p, o) \/ SettleUnstarted(p, o)
                 \/ Contain(p, o) \/ RequeueItem(p, o)
    PROVE  Calm
<1> USE DEF TypeOK
<1>r. rc[p] \in RecoveryRecord
  BY DEF TypeOK
<1>1. CASE RecoveryBegins(p)
  <2>1. rc' = [rc EXCEPT ![p] = rc'[p]] /\ rc'[p].pc = "list"
        /\ rc'[p].goal = "failed"
    BY <1>1 DEF RecoveryBegins, RecOff, TypeOK
  <2>2. CalmPasses
    BY <2>1, CalmLoop
  <2> QED BY <1>1, <2>2, CalmKeep, CalmSame DEF RecoveryBegins,
     RestUnchanged, Calm
<1>2. CASE ListTasks(p)
  <2>1. /\ rc' = [rc EXCEPT ![p] = rc'[p]] /\ rc'[p].pc = "sweep"
        /\ rc'[p].goal = rc[p].goal
        /\ UNCHANGED <<task, wk, result, spawned>>
    BY <1>2, ListTasksShape
  <2>2. CalmPasses
    BY <2>1, CalmLoop
  <2> QED BY <2>1, <2>2, CalmKeep, CalmSame DEF Calm
<1>3. ASSUME NEW o \in Ops,
             DiscardOrphanItem(p, o) \/ LeaveItem(p, o) \/ Blocked(p, o)
      PROVE  Calm
  <2>1. /\ rc[p].pc = "sweep" /\ Visit(p, o)
        /\ UNCHANGED <<task, wk, result, spawned>>
    BY <1>3 DEF DiscardOrphanItem, LeaveItem, Blocked, RestUnchanged
  <2>2. CalmPasses
    BY <2>1, CalmVisit
  <2> QED BY <2>1, <2>2, CalmKeep, CalmSame DEF Calm
<1>4. ASSUME NEW o \in Ops, SettleUnstarted(p, o) \/ Contain(p, o)
      PROVE  Calm
  <2>1. /\ Decision(p, o) # "succeeded"
        /\ \E b : Settling(p, o, Decision(p, o), b)
        /\ UNCHANGED <<task, wk, result, spawned>>
    BY <1>4 DEF SettleUnstarted, Contain, NeedsContainment, RestUnchanged
  <2>2. CalmPasses
    BY <2>1, CalmSettling
  <2> QED BY <2>1, <2>2, CalmKeep, CalmSame DEF Calm
<1>5. ASSUME NEW o \in Ops, RequeueItem(p, o)
      PROVE  Calm
  <2>1. Visited(p, o) \in RecoveryRecord
    BY VisitType
  <2>2. /\ [Visited(p, o) EXCEPT !.op = o, !.pc = "requeue"].pc = "requeue"
        /\ [Visited(p, o) EXCEPT !.op = o, !.pc = "requeue"].goal
              = rc[p].goal
    BY <2>1, <1>r DEF RecoveryRecord, Visited
  <2>3. CalmPasses /\ CalmWorkers
    <3>0. /\ rc[p].pc = "sweep"
          /\ \/ Visit(p, o) /\ UNCHANGED wk
             \/ /\ rc' = [rc EXCEPT ![p] = [Visited(p, o) EXCEPT
                                             !.op = o, !.pc = "requeue"]]
                /\ UNCHANGED wk
             \/ Abort(p)
      BY <1>5, RequeueItemShape
    <3>1. CASE Visit(p, o) /\ UNCHANGED wk
      BY <3>0, <3>1, CalmVisit, CalmSame
    <3>2. CASE /\ rc' = [rc EXCEPT ![p] = [Visited(p, o) EXCEPT
                                             !.op = o, !.pc = "requeue"]]
               /\ UNCHANGED wk
      BY <2>2, <3>2, CalmLoop, CalmSame
    <3>3. CASE Abort(p)
      BY <3>3, CalmAbort
    <3> QED BY <3>0, <3>1, <3>2, <3>3
  <2>4. UNCHANGED <<task, result, spawned>>
    BY <1>5, RequeueItemShape
  <2> QED BY <2>3, <2>4, CalmKeep DEF Calm
<1> QED BY <1>1, <1>2, <1>3, <1>4, <1>5

LEMMA CalmSettle ==
    ASSUME TypeOK, OpsKnown, PassesNeverSucceed, PassesAlive,
           NEW p \in Procs,
           \/ RequeueTask(p) \/ Settle(p) \/ Drop(p) \/ PassEnds(p)
           \/ GenericList(p) \/ GenericDelete(p) \/ PruneBindings(p)
           \/ \E o \in Ops : \/ FailMissing(p, o) \/ GenericLeave(p, o)
                             \/ GenericReap(p, o)
    PROVE  Calm
<1> USE DEF TypeOK
<1>r. rc[p] \in RecoveryRecord
  BY DEF TypeOK
<1>1. CASE RequeueTask(p)
  <2>1. rc[p].op \in Ops
    BY <1>1 DEF RequeueTask, OpsKnown, Applying
  <2>2. CalmTasks
    BY <1>1, <2>1, CalmWrite, CalmKeep DEF RequeueTask, KeepTask
  <2>3. CalmPasses /\ CalmWorkers
    BY <1>1, CalmResume, CalmAbort, CalmSame DEF RequeueTask
  <2> QED BY <1>1, <2>2, <2>3 DEF RequeueTask, RestUnchanged, Calm
<1>2. CASE Settle(p)
  <2>1. rc[p].op \in Ops /\ rc[p].goal \in TerminalStates
        /\ rc[p].goal # "succeeded"
    BY <1>2, <1>r DEF Settle, OpsKnown, Applying, RecoveryRecord,
       PassesNeverSucceed
  <2>2. \/ UNCHANGED task
        \/ /\ TransitionWrites(task[rc[p].op], rc[p].goal, rc[p].owner)
           /\ WriteTask(p, rc[p].op, Terminalized(task[rc[p].op], rc[p].goal))
    BY <1>2 DEF Settle, KeepTask
  <2>3. CalmTasks
    BY <2>1, <2>2, CalmTerminal, CalmKeep
  <2>4. \/ Abort(p)
        \/ (Resume(p) \/ Goto(p, "drop")) /\ UNCHANGED wk
    BY <1>2 DEF Settle
  <2>5. CalmPasses /\ CalmWorkers
    BY <2>4, CalmResume, CalmAbort, CalmGoto, CalmSame
  <2> QED BY <1>2, <2>3, <2>5 DEF Settle, RestUnchanged, Calm
<1>3. CASE Drop(p)
  <2>1. CalmPasses
    BY <1>3, CalmResume, CalmOff DEF Drop
  <2> QED BY <1>3, <2>1, CalmKeep, CalmSame DEF Drop, RestUnchanged, Calm
<1>4. ASSUME NEW o \in Ops, FailMissing(p, o)
      PROVE  Calm
  <2>1. "failed" \in TerminalStates
    BY DEF TerminalStates
  <2>2. CalmTasks
    BY <1>4, <2>1, CalmTerminal, CalmKeep DEF FailMissing, KeepTask
  <2>3. \/ Abort(p)
        \/ /\ rc' = [rc EXCEPT ![p] = [rc[p] EXCEPT !.miss = @ \ {o}]]
           /\ UNCHANGED wk
    BY <1>4 DEF FailMissing
  <2>4. /\ [rc[p] EXCEPT !.miss = @ \ {o}].pc = "sweep"
        /\ [rc[p] EXCEPT !.miss = @ \ {o}].goal = rc[p].goal
    BY <1>4, <1>r DEF FailMissing, RecoveryRecord
  <2>5. CalmPasses /\ CalmWorkers
    BY <2>3, <2>4, CalmLoop, CalmAbort, CalmSame
  <2> QED BY <1>4, <2>2, <2>5 DEF FailMissing, RestUnchanged, Calm
<1>5. CASE PassEnds(p)
  <2>1. [RecOff EXCEPT !.pc = "glist"].pc = "glist"
        /\ [RecOff EXCEPT !.pc = "glist"].goal = "failed"
    BY DEF RecOff
  <2>2. CalmPasses
    BY <1>5, <2>1, CalmOff, CalmLoop DEF PassEnds
  <2> QED BY <1>5, <2>2, CalmKeep, CalmSame DEF PassEnds, RestUnchanged, Calm
<1>6. CASE GenericList(p)
  <2>1. /\ rc' = [rc EXCEPT ![p] = rc'[p]] /\ rc'[p].pc = "gsweep"
        /\ rc'[p].goal = rc[p].goal
        /\ UNCHANGED <<task, wk, result, spawned>>
    BY <1>6, GenericListShape
  <2>2. CalmPasses
    BY <2>1, CalmLoop
  <2> QED BY <2>1, <2>2, CalmKeep, CalmSame DEF Calm
<1>7. ASSUME NEW o \in Ops, GenericLeave(p, o)
      PROVE  Calm
  <2>1. CalmPasses
    BY <1>7, CalmVisit DEF GenericLeave
  <2> QED BY <1>7, <2>1, CalmKeep, CalmSame DEF GenericLeave, RestUnchanged,
     Calm
<1>8. ASSUME NEW o \in Ops, GenericReap(p, o)
      PROVE  Calm
  <2>1. Visited(p, o) \in RecoveryRecord
    BY VisitType
  <2>2. PICK pc \in {"settle", "gdelete"} :
           rc' = [rc EXCEPT ![p] = [Visited(p, o) EXCEPT
                    !.op = o, !.goal = "orphaned", !.back = "gsweep",
                    !.owner = None, !.bnd = NoBinding, !.pc = pc]]
    BY <1>8, GenericReapShape
  <2>3. rc' = [rc EXCEPT ![p] = rc'[p]] /\ rc'[p].goal = "orphaned"
        /\ rc'[p].pc = pc
    BY <2>1, <2>2 DEF RecoveryRecord, TypeOK
  <2>4. CalmPasses
    BY <2>2, <2>3, CalmLoop
  <2>5. UNCHANGED <<task, wk, result, spawned>>
    BY <1>8, GenericReapShape
  <2> QED BY <2>4, <2>5, CalmKeep, CalmSame DEF Calm
<1>9. CASE GenericDelete(p)
  <2>1. CalmPasses
    BY <1>9, CalmGoto DEF GenericDelete
  <2> QED BY <1>9, <2>1, CalmKeep, CalmSame DEF GenericDelete,
     RestUnchanged, Calm
<1>10. CASE PruneBindings(p)
  <2>1. CalmPasses
    BY <1>10, CalmOff DEF PruneBindings
  <2>2. CalmWorkers
    <3>1. CASE UNCHANGED wk
      BY <3>1, CalmSame
    <3>2. CASE p \in Workers /\ wk' = [wk EXCEPT ![p].pc = "handoff"]
      BY <1>10, <3>2 DEF PruneBindings, PassesAlive, TypeOK, CalmWorkers, Live, Working, Engaged, WorkerPcs
    <3> QED BY <1>10, <3>1, <3>2 DEF PruneBindings
  <2> QED BY <1>10, <2>1, <2>2, CalmKeep DEF PruneBindings, RestUnchanged,
     Calm
<1> QED BY <1>1, <1>2, <1>3, <1>4, <1>5, <1>6, <1>7, <1>8, <1>9, <1>10

(* Every step keeps PassesAlive. *)
LEMMA PassesStayAlive ==
    ASSUME TypeOK, PassesAlive, NEW p \in Procs, NEW r,
           rc' = [rc EXCEPT ![p] = r],
           \/ UNCHANGED wk /\ rc[p].pc # "off"
           \/ UNCHANGED wk /\ p \in Controls
           \/ r.pc = "off" /\ \A v \in Workers : v # p => wk'[v] = wk[v]
    PROVE  PassesAlive'
BY ProcsAssumption DEF TypeOK, PassesAlive, Procs

LEMMA AliveRecovery ==
    ASSUME TypeOK, PassesAlive, NEW p \in Procs,
           RecoveryBegins(p) \/ RecoveryStep(p)
    PROVE  PassesAlive'
<1> USE DEF TypeOK
<1>1. CASE RecoveryBegins(p)
  BY <1>1 DEF RecoveryBegins, PassesAlive, TypeOK, Procs
<1>2. CASE RecoveryStep(p)
  <2>1. /\ rc[p].pc # "off" /\ \E r : rc' = [rc EXCEPT ![p] = r]
        /\ \/ UNCHANGED wk
           \/ /\ rc' = [rc EXCEPT ![p] = RecOff]
              /\ \A v \in Workers : v # p => wk'[v] = wk[v]
    <3>1. \A o : Visit(p, o) => \E r : rc' = [rc EXCEPT ![p] = r]
      BY DEF Visit
    <3>2. Abort(p) => /\ rc' = [rc EXCEPT ![p] = RecOff]
                      /\ \A v \in Workers : v # p => wk'[v] = wk[v]
      BY DEF Abort, TypeOK
    <3>3. /\ Resume(p) => \E r : rc' = [rc EXCEPT ![p] = r]
          /\ \A pc : Goto(p, pc) => \E r : rc' = [rc EXCEPT ![p] = r]
          /\ \A o, g, b : Settling(p, o, g, b)
                => \E r : rc' = [rc EXCEPT ![p] = r]
      <4>1. Resume(p) => \E r : rc' = [rc EXCEPT ![p] = r]
        BY DEF Resume
      <4>2. \A pc : Goto(p, pc) => \E r : rc' = [rc EXCEPT ![p] = r]
        BY DEF Goto
      <4>3. \A o, g, b : Settling(p, o, g, b)
                => \E r : rc' = [rc EXCEPT ![p] = r]
        BY DEF Settling
      <4> QED BY <4>1, <4>2, <4>3
    <3>4. ASSUME NEW o \in Ops,
                 \/ DiscardOrphanItem(p, o) \/ LeaveItem(p, o)
                 \/ Blocked(p, o) \/ GenericLeave(p, o)
          PROVE  /\ rc[p].pc # "off" /\ \E r : rc' = [rc EXCEPT ![p] = r]
                 /\ UNCHANGED wk
      BY <3>1, <3>4 DEF DiscardOrphanItem, LeaveItem, Blocked, GenericLeave
    <3>5. ASSUME NEW o \in Ops, SettleUnstarted(p, o) \/ Contain(p, o)
          PROVE  /\ rc[p].pc # "off" /\ \E r : rc' = [rc EXCEPT ![p] = r]
                 /\ UNCHANGED wk
      BY <3>3, <3>5 DEF SettleUnstarted, Contain
    <3>6. ASSUME NEW o \in Ops, GenericReap(p, o)
          PROVE  /\ rc[p].pc # "off" /\ \E r : rc' = [rc EXCEPT ![p] = r]
                 /\ UNCHANGED wk
      BY <3>6 DEF GenericReap
    <3>7. ASSUME NEW o \in Ops, RequeueItem(p, o) \/ FailMissing(p, o)
          PROVE  /\ rc[p].pc # "off"
                 /\ \/ Abort(p)
                    \/ UNCHANGED wk /\ \E r : rc' = [rc EXCEPT ![p] = r]
      BY <3>1, <3>7 DEF RequeueItem, FailMissing
    <3>8. ASSUME RequeueTask(p) \/ Settle(p)
          PROVE  /\ rc[p].pc # "off"
                 /\ \/ Abort(p)
                    \/ UNCHANGED wk /\ \E r : rc' = [rc EXCEPT ![p] = r]
      BY <3>3, <3>8 DEF RequeueTask, Settle
    <3>9. ASSUME \/ ListTasks(p) \/ Drop(p) \/ PassEnds(p) \/ GenericList(p)
                 \/ GenericDelete(p)
          PROVE  /\ rc[p].pc # "off" /\ \E r : rc' = [rc EXCEPT ![p] = r]
                 /\ UNCHANGED wk
      <4>1. CASE ListTasks(p)
        BY <4>1, ListTasksShape
      <4>2. CASE GenericList(p)
        BY <4>2, GenericListShape
      <4>3. CASE Drop(p) \/ PassEnds(p) \/ GenericDelete(p)
        BY <3>3, <4>3 DEF Drop, PassEnds, GenericDelete
      <4> QED BY <3>9, <4>1, <4>2, <4>3
    <3>10. ASSUME PruneBindings(p)
           PROVE  /\ rc[p].pc # "off" /\ rc' = [rc EXCEPT ![p] = RecOff]
                  /\ \A v \in Workers : v # p => wk'[v] = wk[v]
      BY <3>10 DEF PruneBindings, TypeOK
    <3> QED BY <1>2, <3>2, <3>4, <3>5, <3>6, <3>7, <3>8, <3>9, <3>10
            DEF RecoveryStep
  <2>2. RecOff.pc = "off"
    BY DEF RecOff
  <2> QED BY <2>1, <2>2, PassesStayAlive
<1> QED BY <1>1, <1>2

LEMMA AliveControl ==
    ASSUME TypeOK, PassesAlive, NEW c \in Controls,
           Admission(c) \/ Cancellation(c) \/ ControlCrash(c)
    PROVE  PassesAlive'
<1> USE DEF TypeOK
<1>1. UNCHANGED wk /\ \E r : rc' = [rc EXCEPT ![c] = r]
  <2>1. CASE Admission(c)
    BY <2>1 DEF Admission, AdmitCheck, AdmitRecord, AdmitEnqueue, AdmitFails
  <2>2. ASSUME NEW o \in Ops, CancelOperation(c, o)
        PROVE  UNCHANGED wk /\ \E r : rc' = [rc EXCEPT ![c] = r]
    BY <2>2 DEF CancelOperation
  <2>4. CASE CancelLooks(c)
    BY <2>4 DEF CancelLooks
  <2>3. CASE ControlCrash(c)
    BY <2>3 DEF ControlCrash
  <2> QED BY <2>1, <2>2, <2>3, <2>4 DEF Cancellation
<1> QED BY <1>1, PassesStayAlive DEF Procs

LEMMA AliveWorker ==
    ASSUME TypeOK, PassesAlive, NEW w \in Workers,
           \/ StartWorker(w) \/ WorkerStep(w) \/ Heartbeat(w)
           \/ ChildExits(w) \/ WorkerCrash(w)
    PROVE  PassesAlive'
<1>w. w \in Procs /\ wk[w] \in WorkerRecord
  BY DEF Procs, TypeOK
<1>1. CASE StartWorker(w)
  BY <1>1, <1>w DEF StartWorker, PassesAlive, TypeOK, WorkerRecord
<1>2. CASE WorkerCrash(w)
  <2>1. RecOff.pc = "off"
    BY DEF RecOff
  <2>2. \A v \in Workers : v # w => wk'[v] = wk[v]
    BY <1>2 DEF WorkerCrash, TypeOK
  <2>3. rc' = [rc EXCEPT ![w] = RecOff]
    BY <1>2 DEF WorkerCrash
  <2> QED BY <1>w, <2>1, <2>2, <2>3, PassesStayAlive
<1>3. CASE \E o \in Ops : ClaimNext(w, o)
  BY <1>3 DEF ClaimNext, PassesAlive, TypeOK
<1>4. CASE /\ wk[w].pc \notin {"boot", "idle"} /\ UNCHANGED rc
           /\ \A v \in Workers : v # w => wk'[v] = wk[v]
  BY <1>4 DEF PassesAlive
<1>5. CASE UNCHANGED <<wk, rc>>
  BY <1>5 DEF PassesAlive
<1>6. CASE ChildExits(w)
  BY <1>6, <1>5 DEF ChildExits
<1>7. CASE Heartbeat(w)
  BY <1>7, <1>4 DEF Heartbeat, Beating, Locking, TypeOK
<1>8. CASE \/ Handoff(w) \/ StartTask(w) \/ StartRaises(w) \/ AcquireLock(w)
           \/ CrossSpawnBoundary(w) \/ Spawn(w)
  BY <1>8, <1>4 DEF Handoff, StartTask, StartRaises, AcquireLock,
     CrossSpawnBoundary, Spawn, TypeOK
<1>9. CASE \/ BindCheck(w) \/ BindPut(w) \/ OpenGate(w) \/ NextCommand(w)
           \/ HandlerReturns(w) \/ HandlerRaises(w)
  BY <1>9, <1>4 DEF BindCheck, BindPut, OpenGate, NextCommand,
     HandlerReturns, HandlerRaises, TypeOK
<1>10. CASE \/ StoreResult(w) \/ HandleException(w) \/ Commit(w)
            \/ CommitRaises(w) \/ ReleaseBinding(w) \/ DiscardItem(w)
  BY <1>10, <1>4 DEF StoreResult, HandleException, Commit, CommitRaises,
     ReleaseBinding, DiscardItem, TypeOK
<1> QED BY <1>1, <1>2, <1>3, <1>6, <1>7, <1>8, <1>9, <1>10 DEF WorkerStep

LEMMA AliveNext ==
    ASSUME TypeOK, PassesAlive, [Next]_vars
    PROVE  PassesAlive'
<1>1. CASE UNCHANGED vars
  BY <1>1 DEF vars, PassesAlive
<1>2. ASSUME NEW o \in Ops, GraceElapses(o) \/ LeaseExpires(o)
      PROVE  PassesAlive'
  BY <1>2 DEF GraceElapses, LeaseExpires, PassesAlive
<1> QED BY <1>1, <1>2, AliveRecovery, AliveControl, AliveWorker DEF Next

LEMMA CalmControl ==
    ASSUME TypeOK, OpsKnown, NEW c \in Controls,
           \/ AdmitEnqueue(c) \/ AdmitFails(c) \/ CancelLooks(c)
           \/ ControlCrash(c) \/ \E o \in Ops : CancelOperation(c, o)
    PROVE  Calm
<1>c. c \in Procs /\ rc[c] \in RecoveryRecord
  BY DEF Procs, TypeOK
<1>1. CASE AdmitEnqueue(c)
  <2>1. UNCHANGED <<task, wk, result, spawned>>
        /\ rc' = [rc EXCEPT ![c] = RecOff]
    BY <1>1 DEF AdmitEnqueue
  <2> QED BY <1>c, <2>1, CalmOff, CalmKeep, CalmSame DEF Calm
<1>2. CASE AdmitFails(c)
  <2>1. rc[c].op \in Ops /\ "failed" \in TerminalStates
    BY <1>2, <1>c DEF AdmitFails, OpsKnown, Applying, TerminalStates
  <2>2. CalmTasks
    BY <1>2, <2>1, CalmTerminal, CalmKeep DEF AdmitFails, KeepTask
  <2>3. UNCHANGED <<wk, result, spawned>>
        /\ rc' = [rc EXCEPT ![c] = RecOff]
    BY <1>2 DEF AdmitFails
  <2> QED BY <1>c, <2>2, <2>3, CalmOff, CalmSame DEF Calm
<1>3. CASE CancelLooks(c)
  <2>1. \/ rc' = [rc EXCEPT ![c] = RecOff]
        \/ \E b, w : rc' = [rc EXCEPT ![c] = [rc[c] EXCEPT
                               !.pc = "settle", !.bnd = b, !.owner = w]]
    BY <1>3 DEF CancelLooks
  <2>3. CalmPasses
    <3>1. CASE rc' = [rc EXCEPT ![c] = RecOff]
      BY <1>c, <3>1, CalmOff
    <3>2. ASSUME NEW b, NEW w, rc' = [rc EXCEPT ![c] = [rc[c] EXCEPT
                    !.pc = "settle", !.bnd = b, !.owner = w]]
          PROVE  CalmPasses
      <4>1. rc' = [rc EXCEPT ![c] = rc'[c]] /\ rc'[c].pc = "settle"
            /\ rc'[c].goal = rc[c].goal
        BY <1>c, <3>2 DEF RecoveryRecord, TypeOK
      <4> QED BY <1>c, <4>1, CalmLoop
    <3> QED BY <2>1, <3>1, <3>2
  <2>4. UNCHANGED <<task, wk, result, spawned>>
    BY <1>3 DEF CancelLooks, RestUnchanged
  <2> QED BY <2>3, <2>4, CalmKeep, CalmSame DEF Calm
<1>4. CASE ControlCrash(c)
  <2>1. UNCHANGED <<task, wk, result, spawned>>
        /\ rc' = [rc EXCEPT ![c] = RecOff]
    BY <1>4 DEF ControlCrash
  <2> QED BY <1>c, <2>1, CalmOff, CalmKeep, CalmSame DEF Calm
<1>5. ASSUME NEW o \in Ops, CancelOperation(c, o)
      PROVE  Calm
  <2>1. CalmTasks
    BY <1>5, CalmWrite, CalmKeep DEF CancelOperation, KeepTask
  <2>2. PICK t : rc' = [rc EXCEPT ![c] = [RecOff EXCEPT !.pc = "look",
                           !.op = o, !.goal = "cancelled", !.task = t]]
    BY <1>5 DEF CancelOperation
  <2>3. /\ [RecOff EXCEPT !.pc = "look", !.op = o, !.goal = "cancelled",
                          !.task = t].pc = "look"
        /\ [RecOff EXCEPT !.pc = "look", !.op = o, !.goal = "cancelled",
                          !.task = t].goal = "cancelled"
    BY DEF RecOff
  <2>4. CalmPasses
    BY <1>c, <2>2, <2>3, CalmLoop
  <2>5. UNCHANGED <<wk, result, spawned>>
    BY <1>5 DEF CancelOperation, RestUnchanged
  <2> QED BY <2>1, <2>4, <2>5, CalmSame DEF Calm
<1> QED BY <1>1, <1>2, <1>3, <1>4, <1>5

LEMMA CalmClock ==
    ASSUME TypeOK, NEW o \in Ops, GraceElapses(o) \/ LeaseExpires(o)
    PROVE  Calm
<1>1. UNCHANGED <<wk, rc, result, spawned>>
  BY DEF GraceElapses, LeaseExpires
<1>2. CalmTasks
  <2>1. CASE GraceElapses(o)
    BY <2>1, CalmKeep DEF GraceElapses
  <2>2. CASE LeaseExpires(o)
    <3>1. \A x \in Ops : x # o => task'[x] = task[x]
      BY <2>2 DEF TypeOK, LeaseExpires
    <3>2. SameRecord(o)
      BY <2>2 DEF TypeOK, LeaseExpires, SameRecord, TaskRecord
    <3>3. task[o].lease # "live" => task'[o] = task[o]
      BY <2>2 DEF TypeOK, LeaseExpires, TaskRecord
    <3>4. NoTask.lease # "live"
      BY DEF NoTask
    <3> QED BY <3>1, <3>2, <3>3, <3>4 DEF CalmTasks, SameRecord
  <2> QED BY <2>1, <2>2
<1>3. CalmPasses
  BY <1>1 DEF CalmPasses
<1> QED BY <1>1, <1>2, <1>3, CalmSame DEF Calm

(* A worker that only moves on inside its run, or leaves it. *)
LEMMA CalmMove ==
    ASSUME TypeOK, NEW w \in Workers, NEW r, Live(w),
           wk' = [wk EXCEPT ![w] = r],
           \/ r.pc \notin Working
           \/ /\ wk[w].pc \in Working /\ r.op = wk[w].op
              /\ r.goal = wk[w].goal
              /\ r.pc \in {"commit", "recommit"} => r.pc = wk[w].pc
    PROVE  CalmWorkers
BY DEF TypeOK, CalmWorkers, Live

LEMMA CalmWorker ==
    ASSUME TypeOK, OpsKnown, PassesAlive, NEW w \in Workers,
           \/ Handoff(w) \/ StartRaises(w)
           \/ AcquireLock(w) \/ CrossSpawnBoundary(w) \/ BindCheck(w)
           \/ BindPut(w) \/ OpenGate(w)
           \/ NextCommand(w) \/ HandlerReturns(w) \/ HandlerRaises(w)
           \/ CommitRaises(w) \/ ReleaseBinding(w) \/ DiscardItem(w)
           \/ (\E o \in Ops : ClaimNext(w, o))
           \/ Heartbeat(w) \/ ChildExits(w) \/ WorkerCrash(w)
    PROVE  Calm
<1>w. w \in Procs /\ wk[w] \in WorkerRecord
  BY DEF Procs, TypeOK
<1>0. ASSUME UNCHANGED rc
      PROVE  CalmPasses
  BY <1>0 DEF CalmPasses
<1>1. CASE Handoff(w)
  <2>1. /\ Live(w) /\ UNCHANGED <<task, rc, result, spawned>>
        /\ \/ wk' = [wk EXCEPT ![w] = Idle(w)]
           \/ wk' = [wk EXCEPT ![w] = [WorkerOff EXCEPT !.pc = "dead"]]
    BY <1>1 DEF Handoff, Live
  <2>2. /\ Idle(w).pc \notin Working
        /\ [WorkerOff EXCEPT !.pc = "dead"].pc \notin Working
    BY DEF Idle, WorkerOff, Working, Engaged
  <2> QED BY <2>1, <2>2, <1>0, CalmMove, CalmKeep DEF Calm
<1>2. CASE StartRaises(w) \/ DiscardItem(w)
  <2>1. /\ Live(w) /\ UNCHANGED <<task, rc, result, spawned>>
        /\ wk' = [wk EXCEPT ![w] = Idle(w)]
    BY <1>2 DEF StartRaises, DiscardItem, Live, KeepTask
  <2>2. Idle(w).pc \notin Working
    BY DEF Idle, WorkerOff, Working, Engaged
  <2> QED BY <2>1, <2>2, <1>0, CalmMove, CalmKeep DEF Calm
<1>3. CASE \/ AcquireLock(w) \/ CrossSpawnBoundary(w) \/ BindCheck(w)
           \/ OpenGate(w) \/ NextCommand(w) \/ HandlerReturns(w)
           \/ HandlerRaises(w) \/ CommitRaises(w) \/ ReleaseBinding(w)
  <2>1. /\ Live(w) /\ UNCHANGED <<task, rc, result, spawned>>
        /\ wk[w].pc \in Working \cup {"unbind"}
        /\ \E pc \in WorkerPcs \ {"commit", "recommit"} :
              /\ wk' = [wk EXCEPT ![w] = [wk[w] EXCEPT !.pc = pc]]
              /\ wk[w].pc = "unbind" => pc = "drop"
    BY <1>3 DEF AcquireLock, CrossSpawnBoundary, BindCheck, OpenGate,
       NextCommand, HandlerReturns, HandlerRaises, CommitRaises,
       ReleaseBinding, KeepTask, Live, Working, Engaged, WorkerPcs
  <2>2. PICK pc \in WorkerPcs \ {"commit", "recommit"} :
           /\ wk' = [wk EXCEPT ![w] = [wk[w] EXCEPT !.pc = pc]]
           /\ wk[w].pc = "unbind" => pc = "drop"
    BY <2>1
  <2>3. /\ [wk[w] EXCEPT !.pc = pc].pc = pc
        /\ [wk[w] EXCEPT !.pc = pc].op = wk[w].op
        /\ [wk[w] EXCEPT !.pc = pc].goal = wk[w].goal
    BY <1>w DEF WorkerRecord
  <2>4. "drop" \notin Working
    BY DEF Working
  <2>5. CalmWorkers
    BY <2>1, <2>2, <2>3, <2>4, CalmMove
  <2> QED BY <2>1, <2>5, <1>0, CalmKeep DEF Calm
<1>4. CASE BindPut(w)
  <2>1. /\ Live(w) /\ wk[w].pc \in Working
        /\ UNCHANGED <<task, rc, result, spawned>>
    BY <1>4 DEF BindPut, Live, Working, Engaged, WorkerPcs
  <2>2. PICK b : wk' = [wk EXCEPT ![w] = [wk[w] EXCEPT !.pc = "gate",
                                                       !.bnd = b]]
    BY <1>4 DEF BindPut
  <2>3. /\ [wk[w] EXCEPT !.pc = "gate", !.bnd = b].pc = "gate"
        /\ [wk[w] EXCEPT !.pc = "gate", !.bnd = b].op = wk[w].op
        /\ [wk[w] EXCEPT !.pc = "gate", !.bnd = b].goal = wk[w].goal
    BY <1>w DEF WorkerRecord
  <2>4. CalmWorkers
    BY <2>1, <2>2, <2>3, CalmMove
  <2> QED BY <2>1, <2>4, <1>0, CalmKeep DEF Calm
<1>5. ASSUME NEW o \in Ops, ClaimNext(w, o)
      PROVE  Calm
  <2>1. /\ Live(w) /\ UNCHANGED <<task, rc, result, spawned>>
        /\ \E a : wk' = [wk EXCEPT ![w] = [Idle(w) EXCEPT !.pc = "claimed",
                                             !.op = o, !.attempt = a]]
    BY <1>5 DEF ClaimNext, Live
  <2>2. \A a : [Idle(w) EXCEPT !.pc = "claimed", !.op = o,
                               !.attempt = a].pc \notin Working
    BY DEF Idle, WorkerOff, Working
  <2> QED BY <2>1, <2>2, <1>0, CalmMove, CalmKeep DEF Calm
<1>6. CASE Heartbeat(w)
  <2>1. /\ Live(w) /\ wk[w].pc \in Working /\ wk[w].op \in Ops
        /\ wk[w].pc \notin {"commit", "recommit"}
        /\ UNCHANGED <<rc, result, spawned>>
    BY <1>6 DEF Heartbeat, Beating, Locking, Live, Working, Engaged,
       WorkerPcs, OpsKnown
  <2>2. PICK e : wk' = [wk EXCEPT ![w] = [wk[w] EXCEPT !.err = e]]
    BY <1>6 DEF Heartbeat
  <2>3. /\ [wk[w] EXCEPT !.err = e].pc = wk[w].pc
        /\ [wk[w] EXCEPT !.err = e].op = wk[w].op
        /\ [wk[w] EXCEPT !.err = e].goal = wk[w].goal
    BY <1>w DEF WorkerRecord
  <2>4. CalmWorkers
    BY <2>1, <2>2, <2>3, CalmMove
  <2>5. CalmTasks
    BY <1>6, <2>1, CalmWrite, CalmKeep DEF Heartbeat, KeepTask,
       RenewAccepted
  <2> QED BY <2>1, <2>4, <2>5, <1>0 DEF Calm
<1>7. CASE ChildExits(w)
  <2>1. UNCHANGED <<task, wk, rc, result, spawned>>
    BY <1>7 DEF ChildExits
  <2> QED BY <2>1, <1>0, CalmSame, CalmKeep DEF Calm
<1>8. CASE WorkerCrash(w)
  <2>1. /\ Live(w) /\ UNCHANGED <<task, result, spawned>>
        /\ rc' = [rc EXCEPT ![w] = RecOff]
        /\ wk' = [wk EXCEPT ![w] = [WorkerOff EXCEPT !.pc = "dead"]]
    BY <1>8 DEF WorkerCrash
  <2>2. [WorkerOff EXCEPT !.pc = "dead"].pc \notin Working
    BY DEF WorkerOff, Working, Engaged
  <2> QED BY <1>w, <2>1, <2>2, CalmOff, CalmMove, CalmKeep DEF Calm
<1> QED BY <1>1, <1>2, <1>3, <1>4, <1>5, <1>6, <1>7, <1>8

(* The steps that are not calm. *)

LEMMA LoneWorker ==
    ASSUME TypeOK, OneLive, NEW w \in Workers, Live(w), NEW r,
           wk' = [wk EXCEPT ![w] = r]
    PROVE  /\ OneLive'
           /\ \A v \in Workers : v # w => wk'[v].pc \notin Working
           /\ wk'[w] = r
<1>1. wk'[w] = r /\ \A v \in Workers : v # w => wk'[v] = wk[v]
  BY DEF TypeOK
<1>2. \A v \in Workers : v # w => ~Live(v) /\ ~Live(v)'
  BY <1>1 DEF OneLive, Live
<1>3. OneLive'
  BY <1>2 DEF OneLive
<1>4. \A v \in Workers : v # w => wk'[v].pc \notin Working
  BY <1>1, <1>2 DEF Live, Working, Engaged
<1> QED BY <1>1, <1>3, <1>4

LEMMA StartWorkerLives ==
    ASSUME SpawnInv, LifeInv, MaxLive <= 1, NEW w \in Workers, StartWorker(w),
           PassesAlive'
    PROVE  LifeInv' /\ \A o \in Ops : LifeStep(o)
<1> USE DEF LifeInv
<1> DEFINE Lives == {v \in Workers : Live(v)}
<1>0. w \in Procs /\ TypeOK
  BY DEF Procs, SpawnInv
<1>1. /\ wk[w].pc = "off" /\ Cardinality(Lives) < MaxLive
      /\ wk' = [wk EXCEPT ![w].pc = "boot"]
      /\ UNCHANGED <<task, result, spawned>>
      /\ rc' = [rc EXCEPT ![w] = [RecOff EXCEPT !.pc = "list", !.work = work,
                                    !.startup = TRUE]]
  BY DEF StartWorker
<1>2. Lives = {}
  <2>1. ASSUME NEW v \in Lives
        PROVE  FALSE
    <3>1. Lives = {v}
      BY <2>1 DEF OneLive
    <3>2. Cardinality(Lives) = 1
      BY <3>1, FS_Singleton
    <3> QED BY <1>1, <3>2, BoundsAssumption
  <2> QED BY <2>1
<1>3. \A v \in Workers : ~Live(v)
  BY <1>2
<1>4. wk'[w].pc = "boot" /\ \A v \in Workers : v # w => wk'[v] = wk[v]
  BY <1>0, <1>1 DEF TypeOK, WorkerRecord
<1>5. OneLive'
  BY <1>3, <1>4 DEF OneLive, Live
<1>6. \A v \in Workers : wk'[v].pc \notin Working
  BY <1>3, <1>4 DEF Live, Working, Engaged
<1>7. WorkIsOpen'
  BY <1>6 DEF WorkIsOpen
<1>8. SuccessIsStored'
  BY <1>6 DEF SuccessIsStored, Working, Engaged, WorkerPcs
<1>9. /\ [RecOff EXCEPT !.pc = "list", !.work = work,
                        !.startup = TRUE].pc = "list"
      /\ [RecOff EXCEPT !.pc = "list", !.work = work,
                        !.startup = TRUE].goal = "failed"
  BY DEF RecOff
<1>10. CalmPasses
  BY <1>0, <1>1, <1>9, CalmLoop
<1>11. AbsentIsBlank' /\ PassesNeverSucceed'
  BY <1>1, <1>10 DEF AbsentIsBlank, PassesNeverSucceed, CalmPasses
<1>12. RecordIsFirst'
  BY <1>1, <1>10 DEF RecordIsFirst, CalmPasses
<1>13. \A o \in Ops : LifeStep(o)
  BY <1>1 DEF LifeStep, Lifecycle!lifecycle
<1> QED BY <1>5, <1>7, <1>8, <1>11, <1>12, <1>13

LEMMA AdmitCheckLives ==
    ASSUME SpawnInv, LifeInv, NEW c \in Controls, NEW o \in Ops,
           AdmitCheck(c, o), PassesAlive'
    PROVE  LifeInv' /\ \A x \in Ops : LifeStep(x)
<1> USE DEF LifeInv
<1>1. /\ task[o].state = "absent" /\ UNCHANGED <<task, wk, result, spawned>>
      /\ rc' = [rc EXCEPT ![c].pc = "record", ![c].op = o]
  BY DEF AdmitCheck
<1>2. c \in Procs /\ rc \in [Procs -> RecoveryRecord]
  BY DEF Procs, SpawnInv, TypeOK
<1>3. /\ \A p \in Procs : p # c => rc'[p] = rc[p]
      /\ rc'[c].op = o /\ rc'[c].goal = rc[c].goal
  BY <1>1, <1>2 DEF RecoveryRecord
<1>4. RecordIsFirst'
  BY <1>1, <1>3 DEF RecordIsFirst
<1>5. PassesNeverSucceed'
  BY <1>2, <1>3 DEF PassesNeverSucceed
<1>6. OneLive' /\ AbsentIsBlank' /\ WorkIsOpen' /\ SuccessIsStored'
  BY <1>1 DEF OneLive, Live, AbsentIsBlank, WorkIsOpen, SuccessIsStored
<1>7. \A x \in Ops : LifeStep(x)
  BY <1>1 DEF LifeStep, Lifecycle!lifecycle
<1> QED BY <1>4, <1>5, <1>6, <1>7

LEMMA AdmitRecordLives ==
    ASSUME SpawnInv, LifeInv, NEW c \in Controls, AdmitRecord(c),
           PassesAlive'
    PROVE  LifeInv' /\ \A x \in Ops : LifeStep(x)
<1> USE DEF LifeInv
<1>0. /\ c \in Procs /\ rc \in [Procs -> RecoveryRecord]
      /\ task \in [Ops -> TaskRecord]
  BY DEF Procs, SpawnInv, TypeOK
<1>o. PICK o \in Ops : o = rc[c].op
  BY <1>0 DEF AdmitRecord, SpawnInv, OpsKnown, Applying
<1>1. /\ rc[c].pc = "record" /\ task' = [task EXCEPT ![o] = NewTask]
      /\ rc' = [rc EXCEPT ![c].pc = "enqueue"]
      /\ UNCHANGED <<wk, result, spawned>>
  BY <1>o DEF AdmitRecord, WriteTask
<1>2. /\ task[o] = NoTask /\ task'[o] = NewTask
      /\ \A x \in Ops : x # o => task'[x] = task[x]
  BY <1>0, <1>o, <1>1 DEF RecordIsFirst, AbsentIsBlank
<1>3. /\ NewTask.state = "pending" /\ NoTask.state = "absent"
      /\ NewTask.attempt = NoTask.attempt /\ NewTask.cancel = NoTask.cancel
  BY DEF NewTask, NoTask
<1>4. /\ \A p \in Procs : p # c => rc'[p] = rc[p]
      /\ rc'[c].pc = "enqueue" /\ rc'[c].goal = rc[c].goal
  BY <1>0, <1>1 DEF RecoveryRecord
<1>5. RecordIsFirst'
  <2>1. ASSUME NEW p \in Procs, rc'[p].pc = "record"
        PROVE  task'[rc'[p].op].state = "absent"
    <3>1. p # c /\ rc'[p] = rc[p] /\ rc[p].op \in Ops
      BY <2>1, <1>4 DEF SpawnInv, OpsKnown, Applying
    <3>2. rc[p].op # o
      BY <2>1, <3>1, <1>0, <1>o, <1>1 DEF SpawnInv, ItemsCreatedOnce,
         Admitting
    <3> QED BY <2>1, <3>1, <3>2, <1>2 DEF RecordIsFirst
  <2> QED BY <2>1 DEF RecordIsFirst
<1>6. PassesNeverSucceed' /\ AbsentIsBlank'
  BY <1>0, <1>2, <1>3, <1>4 DEF PassesNeverSucceed, AbsentIsBlank
<1>7. OneLive' /\ SuccessIsStored'
  BY <1>1 DEF OneLive, Live, SuccessIsStored
<1>8. WorkIsOpen'
  <2>1. \A w \in Workers : wk[w].pc \in Working =>
           wk[w].op \in Ops /\ wk[w].op # o
    BY <1>2, <1>3 DEF WorkIsOpen, SpawnInv, OpsKnown, Working
  <2> QED BY <2>1, <1>1, <1>2 DEF WorkIsOpen
<1>9. ASSUME NEW x \in Ops
      PROVE  LifeStep(x)
  <2>1. CASE x = o
    <3>1. Lifecycle(x)!Admitted
      BY <2>1, <1>1, <1>2, <1>3 DEF Lifecycle!Admitted
    <3> QED BY <3>1 DEF LifeStep, Lifecycle!LifecycleNext
  <2>2. CASE x # o
    BY <2>2, <1>1, <1>2 DEF LifeStep, Lifecycle!lifecycle
  <2> QED BY <2>1, <2>2
<1> QED BY <1>5, <1>6, <1>7, <1>8, <1>9

LEMMA StartTaskLives ==
    ASSUME SpawnInv, LifeInv, NEW w \in Workers, StartTask(w), PassesAlive'
    PROVE  LifeInv' /\ \A x \in Ops : LifeStep(x)
<1> USE DEF LifeInv
<1>0. TypeOK /\ wk[w] \in WorkerRecord /\ task \in [Ops -> TaskRecord]
  BY DEF SpawnInv, TypeOK
<1>o. PICK o \in Ops : o = wk[w].op
  BY DEF StartTask, SpawnInv, OpsKnown, Engaged, WorkerPcs
<1>a. PICK a \in Nat : a = wk[w].attempt
  BY <1>0 DEF WorkerRecord
<1>1. /\ Live(w) /\ StartAccepted(task[o], w, a)
      /\ \E l : task' = [task EXCEPT ![o] = Started(task[o], w, a, l)]
      /\ wk' = [wk EXCEPT ![w] = [wk[w] EXCEPT !.pc = "ready"]]
      /\ UNCHANGED <<rc, result, spawned>>
  BY <1>o, <1>a DEF StartTask, WriteTask, Live
<1>2. /\ task'[o].state = "running" /\ task'[o].attempt = a
      /\ task'[o].cancel = task[o].cancel
      /\ \A x \in Ops : x # o => task'[x] = task[x]
  BY <1>0, <1>1 DEF Started, TaskRecord
<1>3. /\ task[o].state \in {"pending", "running"} /\ a >= task[o].attempt
  BY <1>1 DEF StartAccepted
<1>4. /\ [wk[w] EXCEPT !.pc = "ready"].pc = "ready"
      /\ [wk[w] EXCEPT !.pc = "ready"].op = o
  BY <1>0, <1>o DEF WorkerRecord
<1>5. /\ OneLive' /\ wk'[w].pc = "ready" /\ wk'[w].op = o
      /\ \A v \in Workers : v # w => wk'[v].pc \notin Working
  BY <1>0, <1>1, <1>4, LoneWorker
<1>6. WorkIsOpen'
  BY <1>2, <1>5 DEF WorkIsOpen
<1>7. SuccessIsStored'
  BY <1>5 DEF SuccessIsStored, Working, Engaged, WorkerPcs
<1>8. AbsentIsBlank' /\ PassesNeverSucceed'
  BY <1>1, <1>2 DEF AbsentIsBlank, PassesNeverSucceed
<1>9. RecordIsFirst'
  BY <1>1, <1>2, <1>3 DEF RecordIsFirst, SpawnInv, OpsKnown, Applying
<1>10. ASSUME NEW x \in Ops
       PROVE  LifeStep(x)
  <2>1. CASE x = o
    <3>1. Lifecycle(x)!Claimed
      BY <2>1, <1>1, <1>2, <1>3 DEF Lifecycle!Claimed
    <3> QED BY <3>1 DEF LifeStep, Lifecycle!LifecycleNext
  <2>2. CASE x # o
    BY <2>2, <1>1, <1>2 DEF LifeStep, Lifecycle!lifecycle
  <2> QED BY <2>1, <2>2
<1> QED BY <1>5, <1>6, <1>7, <1>8, <1>9, <1>10

(* What a step of a live worker that leaves the records alone needs. *)
LEMMA RecordsKept ==
    ASSUME LifeInv, UNCHANGED <<task, rc>>
    PROVE  AbsentIsBlank' /\ RecordIsFirst' /\ PassesNeverSucceed'
BY DEF LifeInv, AbsentIsBlank, RecordIsFirst, PassesNeverSucceed

LEMMA SpawnLives ==
    ASSUME SpawnInv, LifeInv, NEW w \in Workers, Spawn(w), PassesAlive'
    PROVE  LifeInv' /\ \A x \in Ops : LifeStep(x)
<1> USE DEF LifeInv
<1>0. /\ TypeOK /\ wk[w] \in WorkerRecord
      /\ spawned \in [Ops -> SUBSET (Workers \X Nat)]
  BY DEF SpawnInv, TypeOK
<1>o. PICK o \in Ops : o = wk[w].op
  BY DEF Spawn, SpawnInv, OpsKnown, Engaged, WorkerPcs
<1>a. PICK a \in Nat : a = wk[w].attempt
  BY <1>0 DEF WorkerRecord
<1>1. /\ Live(w) /\ AtBoundary(w, o) /\ wk[w].pc \in Working
      /\ wk' = [wk EXCEPT ![w] = [wk[w] EXCEPT !.pc = "gated"]]
      /\ spawned' = [spawned EXCEPT ![o] = @ \cup {<<w, a>>}]
      /\ UNCHANGED <<task, rc, result>>
  BY <1>o, <1>a DEF Spawn, Live, AtBoundary, Working, Engaged, WorkerPcs
<1>2. /\ [wk[w] EXCEPT !.pc = "gated"].pc = "gated"
      /\ [wk[w] EXCEPT !.pc = "gated"].op = o
  BY <1>0, <1>o DEF WorkerRecord
<1>3. /\ OneLive' /\ wk'[w].pc = "gated" /\ wk'[w].op = o
      /\ \A v \in Workers : v # w => wk'[v].pc \notin Working
  BY <1>0, <1>1, <1>2, LoneWorker
<1>4. task[o].state \notin {"absent", "succeeded"}
  BY <1>1, <1>o DEF WorkIsOpen
<1>5. WorkIsOpen'
  BY <1>1, <1>3, <1>4 DEF WorkIsOpen
<1>6. SuccessIsStored'
  BY <1>3 DEF SuccessIsStored, Working, Engaged, WorkerPcs
<1>7. spawned[o] \subseteq {<<w, a>>}
  BY <1>1, <1>a DEF SpawnInv, BoundaryExclusive
<1>8. /\ spawned'[o] = {<<w, a>>}
      /\ \A x \in Ops : x # o => spawned'[x] = spawned[x]
  BY <1>0, <1>1, <1>7
<1>9. ASSUME NEW x \in Ops
      PROVE  LifeStep(x)
  <2>1. CASE x = o
    <3>1. Lifecycle(x)!Run
      BY <2>1, <1>1, <1>4, <1>7, <1>8 DEF Lifecycle!Run
    <3> QED BY <3>1 DEF LifeStep, Lifecycle!LifecycleNext
  <2>2. CASE x # o
    BY <2>2, <1>1, <1>8 DEF LifeStep, Lifecycle!lifecycle
  <2> QED BY <2>1, <2>2
<1> QED BY <1>1, <1>3, <1>5, <1>6, <1>9, RecordsKept

(* A result may come and go while the operation is open. *)
LEMMA ResultLives ==
    ASSUME SpawnInv, LifeInv, NEW w \in Workers,
           StoreResult(w) \/ HandleException(w), PassesAlive'
    PROVE  LifeInv' /\ \A x \in Ops : LifeStep(x)
<1> USE DEF LifeInv
<1>0. TypeOK /\ wk[w] \in WorkerRecord
  BY DEF SpawnInv, TypeOK
<1>1. /\ Live(w) /\ wk[w].pc \in Working
      /\ UNCHANGED <<task, rc, spawned>>
  BY DEF StoreResult, HandleException, Live, Working, Engaged, WorkerPcs
<1>o. PICK o \in Ops : o = wk[w].op
  BY <1>1 DEF Working, SpawnInv, OpsKnown
<1>2. PICK pc \in {"commit", "recommit"}, g \in TerminalStates :
         /\ wk' = [wk EXCEPT ![w] = [wk[w] EXCEPT !.pc = pc, !.goal = g]]
         /\ pc = "recommit" => g # "succeeded"
         /\ g = "succeeded" => o \in result'
         /\ \A x \in Ops : x # o => (x \in result' <=> x \in result)
  BY <1>o DEF StoreResult, HandleException, TerminalStates
<1>3. /\ [wk[w] EXCEPT !.pc = pc, !.goal = g].pc = pc
      /\ [wk[w] EXCEPT !.pc = pc, !.goal = g].goal = g
      /\ [wk[w] EXCEPT !.pc = pc, !.goal = g].op = o
  BY <1>0, <1>o DEF WorkerRecord
<1>4. /\ OneLive' /\ wk'[w].pc = pc /\ wk'[w].op = o /\ wk'[w].goal = g
      /\ \A v \in Workers : v # w => wk'[v].pc \notin Working
  BY <1>0, <1>1, <1>2, <1>3, LoneWorker
<1>5. task[o].state \notin {"absent", "succeeded"}
  BY <1>1, <1>o DEF WorkIsOpen
<1>6. WorkIsOpen'
  BY <1>1, <1>4, <1>5 DEF WorkIsOpen
<1>7. SuccessIsStored'
  <2>1. \A v \in Workers : wk'[v].pc \in {"commit", "recommit"} => v = w
    BY <1>4 DEF Working, Engaged, WorkerPcs
  <2> QED BY <1>2, <1>4, <2>1 DEF SuccessIsStored
<1>8. ASSUME NEW x \in Ops
      PROVE  LifeStep(x)
  <2>1. CASE x = o
    <3>1. Lifecycle(x)!ResultChanged
      BY <2>1, <1>1, <1>5 DEF Lifecycle!ResultChanged
    <3> QED BY <3>1 DEF LifeStep, Lifecycle!LifecycleNext
  <2>2. CASE x # o
    <3>1. (x \in result)' = (x \in result)
      BY <2>2, <1>2
    <3> QED BY <3>1, <1>1 DEF LifeStep, Lifecycle!lifecycle
  <2> QED BY <2>1, <2>2
<1> QED BY <1>1, <1>4, <1>6, <1>7, <1>8, RecordsKept

LEMMA CommitLives ==
    ASSUME SpawnInv, LifeInv, NEW w \in Workers, Commit(w), PassesAlive'
    PROVE  LifeInv' /\ \A x \in Ops : LifeStep(x)
<1> USE DEF LifeInv
<1>0. TypeOK /\ wk[w] \in WorkerRecord /\ task \in [Ops -> TaskRecord]
  BY DEF SpawnInv, TypeOK
<1>o. PICK o \in Ops : o = wk[w].op
  BY DEF Commit, SpawnInv, OpsKnown, Engaged, WorkerPcs
<1>g. PICK g \in TerminalStates : g = wk[w].goal
  BY <1>0 DEF WorkerRecord
<1>1. /\ Live(w) /\ wk[w].pc \in {"commit", "recommit"}
      /\ \/ /\ TransitionWrites(task[o], g, w)
            /\ task' = [task EXCEPT ![o] = Terminalized(task[o], g)]
         \/ UNCHANGED task
      /\ wk' = [wk EXCEPT ![w] = [wk[w] EXCEPT !.pc = "unbind"]]
      /\ UNCHANGED <<rc, result, spawned>>
  BY <1>o, <1>g DEF Commit, WriteTask, KeepTask, Live
<1>2. [wk[w] EXCEPT !.pc = "unbind"].pc = "unbind"
  BY <1>0 DEF WorkerRecord
<1>3. /\ OneLive' /\ \A v \in Workers : wk'[v].pc \notin Working
  <2>1. "unbind" \notin Working
    BY DEF Working
  <2> QED BY <1>0, <1>1, <1>2, <2>1, LoneWorker
<1>4. WorkIsOpen'
  BY <1>3 DEF WorkIsOpen
<1>5. SuccessIsStored'
  BY <1>3 DEF SuccessIsStored, Working, Engaged, WorkerPcs
<1>6. CASE UNCHANGED task
  <2>1. \A x \in Ops : LifeStep(x)
    BY <1>1, <1>6 DEF LifeStep, Lifecycle!lifecycle
  <2> QED BY <1>1, <1>3, <1>4, <1>5, <1>6, <2>1, RecordsKept
<1>7. CASE /\ TransitionWrites(task[o], g, w)
           /\ task' = [task EXCEPT ![o] = Terminalized(task[o], g)]
  <2>1. /\ task'[o].state = g /\ task'[o].attempt = task[o].attempt
        /\ task'[o].cancel = task[o].cancel
        /\ \A x \in Ops : x # o => task'[x] = task[x]
    BY <1>0, <1>7 DEF Terminalized, TaskRecord
  <2>2. /\ \/ task[o].state = "running"
           \/ /\ task[o].state = "pending"
              /\ g \in {"failed", "cancelled", "expired"}
        /\ g = "succeeded" => ~task[o].cancel
    BY <1>7 DEF TransitionWrites, Allowed, TerminalStates, SuccessForbidden
  <2>3. g = "succeeded" => o \in result
    BY <1>1, <1>o, <1>g DEF SuccessIsStored
  <2>4. AbsentIsBlank' /\ PassesNeverSucceed'
    BY <1>1, <2>1 DEF AbsentIsBlank, PassesNeverSucceed, TerminalStates
  <2>5. RecordIsFirst'
    BY <1>1, <2>1, <2>2 DEF RecordIsFirst, SpawnInv, OpsKnown, Applying
  <2>6. ASSUME NEW x \in Ops
        PROVE  LifeStep(x)
    <3>1. CASE x = o
      <4>1. Lifecycle(x)!Settled
        BY <3>1, <1>1, <2>1, <2>2, <2>3 DEF Lifecycle!Settled,
           Lifecycle!Ended, TerminalStates
      <4> QED BY <4>1 DEF LifeStep, Lifecycle!LifecycleNext
    <3>2. CASE x # o
      BY <3>2, <1>1, <2>1 DEF LifeStep, Lifecycle!lifecycle
    <3> QED BY <3>1, <3>2
  <2> QED BY <1>3, <1>4, <1>5, <2>4, <2>5, <2>6
<1> QED BY <1>1, <1>6, <1>7

LEMMA NextLives ==
    ASSUME SpawnInv, LifeInv, MaxLive <= 1, [Next]_vars
    PROVE  LifeInv' /\ \A o \in Ops : LifeStep(o)
<1>0. /\ TypeOK /\ OpsKnown /\ PassesAlive /\ PassesNeverSucceed
      /\ PassesAlive'
  BY AliveNext DEF SpawnInv, LifeInv
<1>1. Calm => LifeInv' /\ \A o \in Ops : LifeStep(o)
  BY <1>0, CalmPreserves, CalmImplements
<1>2. CASE UNCHANGED vars
  <2>1. UNCHANGED <<task, wk, rc, result, spawned>>
    BY <1>2 DEF vars
  <2>2. CalmPasses
    BY <2>1 DEF CalmPasses
  <2> QED BY <1>1, <2>1, <2>2, CalmKeep, CalmSame DEF Calm
<1>3. ASSUME NEW c \in Controls,
             Admission(c) \/ Cancellation(c) \/ ControlCrash(c)
      PROVE  LifeInv' /\ \A o \in Ops : LifeStep(o)
  <2>1. CASE \E o \in Ops : AdmitCheck(c, o)
    BY <2>1, <1>0, AdmitCheckLives
  <2>2. CASE AdmitRecord(c)
    BY <2>2, <1>0, AdmitRecordLives
  <2>3. CASE \/ AdmitEnqueue(c) \/ AdmitFails(c) \/ CancelLooks(c)
             \/ ControlCrash(c) \/ \E o \in Ops : CancelOperation(c, o)
    BY <2>3, <1>0, <1>1, CalmControl
  <2> QED BY <1>3, <2>1, <2>2, <2>3 DEF Admission, Cancellation
<1>4. ASSUME NEW w \in Workers,
             \/ StartWorker(w) \/ WorkerStep(w) \/ Heartbeat(w)
             \/ ChildExits(w) \/ WorkerCrash(w)
      PROVE  LifeInv' /\ \A o \in Ops : LifeStep(o)
  <2>1. CASE StartWorker(w)
    BY <2>1, <1>0, StartWorkerLives
  <2>2. CASE StartTask(w) \/ Spawn(w) \/ Commit(w)
    BY <2>2, <1>0, StartTaskLives, SpawnLives, CommitLives
  <2>3. CASE StoreResult(w) \/ HandleException(w)
    BY <2>3, <1>0, ResultLives
  <2>4. CASE /\ ~StartWorker(w) /\ ~StartTask(w) /\ ~Spawn(w) /\ ~Commit(w)
             /\ ~StoreResult(w) /\ ~HandleException(w)
    BY <1>4, <2>4, <1>0, <1>1, CalmWorker DEF WorkerStep
  <2> QED BY <2>1, <2>2, <2>3, <2>4
<1>5. ASSUME NEW p \in Procs, RecoveryBegins(p) \/ RecoveryStep(p)
      PROVE  LifeInv' /\ \A o \in Ops : LifeStep(o)
  BY <1>5, <1>0, <1>1, CalmSweep, CalmSettle DEF RecoveryStep
<1>6. ASSUME NEW o \in Ops, GraceElapses(o) \/ LeaseExpires(o)
      PROVE  LifeInv' /\ \A x \in Ops : LifeStep(x)
  BY <1>6, <1>0, <1>1, CalmClock
<1> QED BY <1>2, <1>3, <1>4, <1>5, <1>6 DEF Next

(* Detailed and abstract specification meet: with one live worker at a     *)
(* time, each operation only takes the documented steps, succeeds only     *)
(* with a stored result and no cancellation request, keeps that result,    *)
(* and is run by one claim, whatever crashes, expires and races.           *)
THEOREM OperationsFollowLifecycle ==
    ASSUME MaxLive <= 1
    PROVE  Spec => ImplementsLifecycle
<1>1. Init => \A o \in Ops : Lifecycle(o)!Absent
  BY DEF Init, NoTask, Lifecycle!Absent
<1>2. SpawnInv /\ LifeInv /\ [Next]_vars => LifeInv'
  BY NextLives
<1>3. SpawnInv /\ LifeInv /\ [Next]_vars =>
         [\A o \in Ops :
            [Lifecycle(o)!LifecycleNext]_(Lifecycle(o)!lifecycle)]_vars
  BY NextLives DEF LifeStep
<1> QED BY <1>1, <1>2, <1>3, InitLifeInv, SpawnInvariance, PTL
        DEF Spec, ImplementsLifecycle

-----------------------------------------------------------------------------
(***************************************************************************)
(* The operator's repair (OperationRepair) acts on the same stores between *)
(* any two steps of the processes.  Every step of it is quiet and calm, so *)
(* the guarantees above survive it.                                        *)
(***************************************************************************)

RepairPcs == {"off", "reread", "reap", "settle", "drop", "unbind", "item",
              "task"}

RepairRecord ==
    [pc : RepairPcs, op : Ops \cup {None}, disp : Repairable \cup {"none"},
     owner : Owners, requeue : BOOLEAN, item : ItemRecord,
     bnd : BindingRecord]

(* A repair under way knows its operation, and the item it may requeue     *)
(* existed when it was read.                                               *)
RepairTyped ==
    /\ rep \in RepairRecord
    /\ rep.pc # "off" => rep.op \in Ops
    /\ rep.pc = "item" => rep.item.state # "absent"

LEMMA GiveUpTyped ==
    ASSUME GiveUp
    PROVE  RepairTyped'
<1>1. NoRepair \in RepairRecord /\ NoRepair.pc = "off"
  BY ConstantsType DEF NoRepair, RepairRecord, RepairPcs, Repairable, Owners
<1> QED BY <1>1 DEF GiveUp, RepairTyped

LEMMA StepToTyped ==
    ASSUME RepairTyped, rep.pc # "off",
           NEW pc \in RepairPcs \ {"off", "item"}, StepTo(pc)
    PROVE  RepairTyped'
BY DEF RepairTyped, RepairRecord, StepTo

LEMMA RepairInitTyped == RepairInit => RepairTyped
<1>1. NoRepair \in RepairRecord /\ NoRepair.pc = "off"
  BY ConstantsType DEF NoRepair, RepairRecord, RepairPcs, Repairable, Owners
<1> QED BY <1>1 DEF RepairInit, RepairTyped

(* What a repair does to the stores. *)
RepairKeeps ==
    /\ TypeOK' /\ RepairTyped'
    /\ UNCHANGED <<wk, rc, result, spawned>>
    /\ QuietTasks /\ QuietItems /\ QuietChildren /\ CalmTasks

LEMMA QuietSame ==
    /\ UNCHANGED task => QuietTasks /\ CalmTasks
    /\ UNCHANGED work => QuietItems
    /\ UNCHANGED child => QuietChildren
BY CalmKeep DEF QuietTasks, QuietItems, SameClaim, QuietChildren

LEMMA RepairAcceptedKeeps ==
    ASSUME TypeOK, RepairTyped, NEW o \in Ops, RepairAccepted(o)
    PROVE  RepairKeeps
<1>1. PICK d \in Repairable, w \in Owners, b \in BOOLEAN :
         rep' = [NoRepair EXCEPT !.pc = "reread", !.op = o, !.disp = d,
                                 !.owner = w, !.requeue = b]
  <2>1. task[o].owner \in Owners /\ None \in Owners
    BY DEF TypeOK, TaskRecord, Owners
  <2>2. RepairDisposition(task[o], work[o], binding[o]) \in Repairable
    BY DEF RepairAccepted
  <2> QED BY <2>1, <2>2 DEF RepairAccepted
<1>2. RepairTyped'
  <2>1. NoItem \in ItemRecord /\ NoBinding \in BindingRecord
    BY ConstantsType
  <2> QED BY <1>1, <2>1 DEF RepairTyped, RepairRecord, RepairPcs, NoRepair
<1>3. UNCHANGED vars
  BY DEF RepairAccepted
<1>4. TypeOK'
  BY <1>3 DEF vars, TypeOK
<1> QED BY <1>2, <1>3, <1>4, QuietSame DEF vars, RepairKeeps

LEMMA RepairReadKeeps ==
    ASSUME TypeOK, RepairTyped, RepairReread \/ RepairReap
    PROVE  RepairKeeps
<1>1. CASE RepairReread
  <2>0. rep.pc = "reread"
    BY <1>1 DEF RepairReread
  <2>1. rep.op \in Ops /\ work[rep.op] \in ItemRecord
    BY <2>0 DEF RepairTyped, TypeOK
  <2>2. PICK next \in {"settle", "item", "reap"} :
           next = CASE rep.disp = "cancel_queued"     -> "settle"
                    [] rep.disp = "requeue_unstarted" -> "item"
                    [] OTHER                          -> "reap"
    OBVIOUS
  <2>3. ASSUME NEW pc \in {"settle", "item", "reap"},
               work[rep.op].state # "absent",
               rep' = [rep EXCEPT !.item = work[rep.op], !.pc = pc]
        PROVE  RepairTyped'
    BY <2>1, <2>3 DEF RepairTyped, RepairRecord, RepairPcs
  <2>4. RepairTyped'
    <3>1. \/ GiveUp
          \/ /\ work[rep.op].state # "absent"
             /\ rep' = [rep EXCEPT !.item = work[rep.op], !.pc = next]
      BY <1>1, <2>2 DEF RepairReread
    <3> QED BY <3>1, <2>3, GiveUpTyped
  <2>5. UNCHANGED vars
    BY <1>1 DEF RepairReread
  <2>6. TypeOK'
    BY <2>5 DEF vars, TypeOK
  <2> QED BY <2>4, <2>5, <2>6, QuietSame DEF vars, RepairKeeps
<1>2. CASE RepairReap
  <2>1. rep.op \in Ops /\ binding[rep.op] \in BindingRecord
    BY <1>2 DEF RepairReap, RepairTyped, TypeOK
  <2>2. \/ /\ ReapSucceeds(binding[rep.op])
           /\ rep' = [rep EXCEPT !.pc = "settle", !.bnd = binding[rep.op]]
        \/ GiveUp /\ UNCHANGED child
    BY <1>2 DEF RepairReap
  <2>3. RepairTyped'
    BY <2>1, <2>2, GiveUpTyped DEF RepairTyped, RepairRecord, RepairPcs
  <2>4. child' \in [Workers -> ChildRecord] /\ QuietChildren
    BY <2>2, QuietReap, QuietSame, ConstantsType DEF TypeOK, ReapSucceeds
  <2>5. UNCHANGED <<task, work, binding, result, lock, aged, pids, faults, wk,
                    raced, rc, spawned>>
    BY <1>2 DEF RepairReap, RestUnchanged
  <2>6. TypeOK'
    BY <2>4, <2>5 DEF TypeOK
  <2> QED BY <2>3, <2>4, <2>5, <2>6, QuietSame DEF RepairKeeps
<1> QED BY <1>1, <1>2

LEMMA RepairWriteKeeps ==
    ASSUME TypeOK, RepairTyped, RepairSettle \/ RepairTask
    PROVE  RepairKeeps
<1>0. rep.op \in Ops /\ task[rep.op] \in TaskRecord
  BY DEF RepairSettle, RepairTask, RepairTyped, TypeOK
<1>1. CASE RepairSettle
  <2>1. PICK g \in {"orphaned", "cancelled"} : g = RepairGoal
    BY DEF RepairGoal
  <2>2. g \in TerminalStates /\ g # "succeeded"
    BY DEF TerminalStates
  <2>3. \/ KeepTask(Operator)
        \/ /\ TransitionWrites(task[rep.op], g, rep.owner)
           /\ WriteTask(Operator, rep.op, Terminalized(task[rep.op], g))
    BY <1>1, <2>1 DEF RepairSettle
  <2>4. CalmTasks
    BY <1>0, <2>2, <2>3, CalmTerminal, CalmKeep DEF KeepTask
  <2>5. Terminalized(task[rep.op], g) \in TaskRecord
        /\ Terminalized(task[rep.op], g).state # "absent"
    BY <1>0, <2>2, TerminalizedType, StatesWritten
  <2>6. QuietTasks
    BY <1>0, <2>3, <2>5, QuietWrite, QuietSame DEF KeepTask
  <2>7. task' \in [Ops -> TaskRecord] /\ raced' \in SUBSET Workers
    BY <1>0, <2>3, <2>5, WriteTaskType, KeepTaskType
  <2>8. UNCHANGED <<work, binding, result, lock, aged, child, pids, faults,
                    wk, rc, spawned>>
    BY <1>1 DEF RepairSettle, RestUnchanged
  <2>9. TypeOK'
    BY <2>7, <2>8 DEF TypeOK
  <2>10. GiveUp \/ StepTo("drop")
    BY <1>1 DEF RepairSettle
  <2>11. RepairTyped'
    BY <1>1, <2>10, GiveUpTyped, StepToTyped DEF RepairSettle, RepairPcs
  <2> QED BY <2>4, <2>6, <2>8, <2>9, <2>11, QuietSame DEF RepairKeeps
<1>2. CASE RepairTask
  <2>1. CalmTasks
    BY <1>0, <1>2, CalmWrite, CalmKeep DEF RepairTask, KeepTask
  <2>2. Requeued(task[rep.op]) \in TaskRecord
        /\ Requeued(task[rep.op]).state # "absent"
    BY <1>0, TaskUpdatesType, StatesWritten
  <2>3. QuietTasks
    BY <1>0, <1>2, <2>2, QuietWrite, QuietSame DEF RepairTask, KeepTask
  <2>4. task' \in [Ops -> TaskRecord] /\ raced' \in SUBSET Workers
    BY <1>0, <1>2, <2>2, WriteTaskType, KeepTaskType DEF RepairTask
  <2>5. UNCHANGED <<work, binding, result, lock, aged, child, pids, faults,
                    wk, rc, spawned>>
    BY <1>2 DEF RepairTask, RestUnchanged
  <2>6. TypeOK'
    BY <2>4, <2>5 DEF TypeOK
  <2>7. RepairTyped'
    BY <1>2, GiveUpTyped DEF RepairTask
  <2> QED BY <2>1, <2>3, <2>5, <2>6, <2>7, QuietSame DEF RepairKeeps
<1> QED BY <1>1, <1>2

LEMMA RepairDeleteKeeps ==
    ASSUME TypeOK, RepairTyped,
           RepairDrop \/ RepairUnbind \/ RepairItem \/ RepairCrash
    PROVE  RepairKeeps
<1>1. CASE RepairDrop
  <2>1. rep.op \in Ops /\ DeleteItem(rep.op)
    BY <1>1 DEF RepairDrop, RepairTyped
  <2>2. QuietItems /\ work' \in [Ops -> ItemRecord]
    BY <2>1, QuietDelete, ConstantsType DEF DeleteItem, TypeOK
  <2>3. RepairTyped'
    BY <1>1, GiveUpTyped, StepToTyped DEF RepairDrop, RepairPcs
  <2>4. UNCHANGED <<task, binding, result, lock, aged, child, pids, faults,
                    wk, raced, rc, spawned>>
    BY <1>1 DEF RepairDrop, RestUnchanged
  <2>5. TypeOK'
    BY <2>2, <2>4 DEF TypeOK
  <2> QED BY <2>2, <2>3, <2>4, <2>5, QuietSame DEF RepairKeeps
<1>2. CASE RepairUnbind
  <2>1. rep.op \in Ops
    BY <1>2 DEF RepairUnbind, RepairTyped
  <2>2. binding' \in [Ops -> BindingRecord]
    BY <1>2, <2>1, ConstantsType DEF RepairUnbind, DeleteBindingIfUnchanged,
       TypeOK
  <2>3. RepairTyped'
    BY <1>2, GiveUpTyped DEF RepairUnbind
  <2>4. UNCHANGED <<task, work, result, lock, aged, child, pids, faults, wk,
                    raced, rc, spawned>>
    BY <1>2 DEF RepairUnbind, RestUnchanged
  <2>5. TypeOK'
    BY <2>2, <2>4 DEF TypeOK
  <2> QED BY <2>3, <2>4, <2>5, QuietSame DEF RepairKeeps
<1>3. CASE RepairItem
  <2>1. rep.op \in Ops /\ rep.item \in ItemRecord /\ rep.item.state # "absent"
    BY <1>3 DEF RepairItem, RepairTyped, RepairRecord
  <2>2. \/ UNCHANGED work
        \/ /\ work[rep.op] = rep.item /\ ~rep.item.started
           /\ work' = [work EXCEPT ![rep.op] = RequeuedItem(rep.item)]
    BY <1>3 DEF RepairItem, CanRequeueItem
  <2>3. RequeuedItem(rep.item) \in ItemRecord
    BY <2>1, ItemUpdatesType
  <2>4. work' \in [Ops -> ItemRecord]
    BY <2>2, <2>3 DEF TypeOK
  <2>5. QuietItems
    BY <2>1, <2>2 DEF TypeOK, QuietItems, SameClaim
  <2>6. RepairTyped'
    BY <1>3, GiveUpTyped, StepToTyped DEF RepairItem, RepairPcs
  <2>7. UNCHANGED <<task, binding, result, lock, aged, child, pids, faults,
                    wk, raced, rc, spawned>>
    BY <1>3 DEF RepairItem, RestUnchanged
  <2>8. TypeOK'
    BY <2>4, <2>7 DEF TypeOK
  <2> QED BY <2>5, <2>6, <2>7, <2>8, QuietSame DEF RepairKeeps
<1>4. CASE RepairCrash
  <2>1. RepairTyped'
    BY <1>4, GiveUpTyped DEF RepairCrash
  <2>2. UNCHANGED <<task, work, binding, result, lock, aged, child, pids, wk,
                    raced, rc, spawned>> /\ faults' = faults + 1
    BY <1>4 DEF RepairCrash
  <2>3. TypeOK'
    BY <2>2 DEF TypeOK
  <2> QED BY <2>1, <2>2, <2>3, QuietSame DEF RepairKeeps
<1> QED BY <1>1, <1>2, <1>3, <1>4

LEMMA RepairKeepsQuiet ==
    ASSUME OpsKnown, RepairKeeps
    PROVE  OpsKnown' /\ Quiet /\ Calm /\ (PassesAlive => PassesAlive')
<1>0. /\ UNCHANGED <<wk, rc, result, spawned>>
      /\ QuietTasks /\ QuietItems /\ QuietChildren /\ CalmTasks
  BY DEF RepairKeeps
<1>1. OpsKnown' /\ (PassesAlive => PassesAlive')
  BY <1>0 DEF OpsKnown, PassesAlive
<1>2. QuietWorkers /\ QuietAdmissions
  BY <1>0 DEF QuietWorkers, QuietAdmissions
<1>3. CalmWorkers /\ CalmPasses
  BY <1>0, CalmSame DEF CalmPasses
<1> QED BY <1>0, <1>1, <1>2, <1>3 DEF Quiet, Calm

LEMMA RepairNextSplit ==
    ASSUME TypeOK, RepairTyped, [RepairNext]_repairVars
    PROVE  RepairKeeps \/ ([Next]_vars /\ UNCHANGED rep)
<1>1. CASE UNCHANGED repairVars
  BY <1>1 DEF repairVars
<1>2. CASE RepairNext
  BY <1>2, RepairAcceptedKeeps, RepairReadKeeps, RepairWriteKeeps,
     RepairDeleteKeeps DEF RepairNext, RepairStep
<1> QED BY <1>1, <1>2

LEMMA RepairNextPreserves ==
    ASSUME SpawnInv, RepairTyped, [RepairNext]_repairVars
    PROVE  SpawnInv' /\ RepairTyped'
<1>0. TypeOK /\ OpsKnown
  BY DEF SpawnInv
<1>1. CASE RepairKeeps
  BY <1>0, <1>1, RepairKeepsQuiet, QuietPreserves DEF RepairKeeps
<1>2. CASE [Next]_vars /\ UNCHANGED rep
  BY <1>2, NextPreserves DEF RepairTyped
<1> QED BY <1>0, <1>1, <1>2, RepairNextSplit

(* The spawn boundary holds with an operator repairing between any two     *)
(* steps: no repair hands work in execution to a second claim, and every   *)
(* live child still holds its item.                                        *)
THEOREM RepairKeepsAtMostOnce ==
    RepairSpec => [](TypeOK /\ AtMostOneExecution /\ ChildHoldsItem)
<1>1. RepairInit => SpawnInv /\ RepairTyped
  BY InitSpawnInv, RepairInitTyped DEF RepairInit
<1>2. SpawnInv /\ RepairTyped /\ [RepairNext]_repairVars
         => (SpawnInv /\ RepairTyped)'
  BY RepairNextPreserves
<1>3. SpawnInv => TypeOK /\ AtMostOneExecution /\ ChildHoldsItem
  BY DEF SpawnInv, SpawnedHoldsItem, ChildSpawned, AtMostOneExecution,
         ChildHoldsItem, HoldsClaim
<1> QED BY <1>1, <1>2, <1>3, PTL DEF RepairSpec

(* With an operator's repair interleaved the record a client polls still   *)
(* implements OperationLifecycle, for one live worker at a time: a repair  *)
(* reopens no terminal record and takes back no success.                   *)
THEOREM RepairKeepsLifecycle ==
    ASSUME MaxLive <= 1
    PROVE  RepairSpec => ImplementsLifecycle
<1> DEFINE RInv == SpawnInv /\ RepairTyped /\ LifeInv
<1>1. RepairInit => RInv /\ \A o \in Ops : Lifecycle(o)!Absent
  BY InitSpawnInv, RepairInitTyped, InitLifeInv
     DEF RepairInit, Init, NoTask, Lifecycle!Absent
<1>2. RInv /\ [RepairNext]_repairVars
         => RInv' /\ \A o \in Ops : LifeStep(o)
  <2> SUFFICES ASSUME SpawnInv, RepairTyped, LifeInv, [RepairNext]_repairVars
               PROVE  RInv' /\ \A o \in Ops : LifeStep(o)
    OBVIOUS
  <2>0. TypeOK /\ OpsKnown /\ PassesAlive
    BY DEF SpawnInv, LifeInv
  <2>1. SpawnInv' /\ RepairTyped'
    BY RepairNextPreserves
  <2>2. LifeInv' /\ \A o \in Ops : LifeStep(o)
    <3>1. CASE RepairKeeps
      <4>1. Calm /\ PassesAlive'
        BY <2>0, <3>1, RepairKeepsQuiet
      <4> QED BY <4>1, CalmPreserves, CalmImplements
    <3>2. CASE [Next]_vars
      BY <3>2, NextLives
    <3> QED BY <2>0, <3>1, <3>2, RepairNextSplit
  <2> QED BY <2>1, <2>2
<1>3. RInv /\ [RepairNext]_repairVars =>
         [\A o \in Ops :
            [Lifecycle(o)!LifecycleNext]_(Lifecycle(o)!lifecycle)]_vars
  BY <1>2 DEF LifeStep
<1>4. RInv /\ [RepairNext]_repairVars => RInv'
  BY <1>2
<1> HIDE DEF RInv
<1> QED BY <1>1, <1>3, <1>4, PTL DEF RepairSpec, ImplementsLifecycle

-----------------------------------------------------------------------------
(***************************************************************************)
(* Work that nobody has claimed is not lost (FreshWorkKept).  An item is   *)
(* fresh at most once, from its admission to its first claim; and what a   *)
(* recovery pass has on its two pages, though old, only errs on the side   *)
(* that leaves fresh work alone.                                           *)
(***************************************************************************)

Fresh(o) == work[o].state = "queued" /\ work[o].attempt = 0

(* The admission of o has ended, one way or the other. *)
Made(o) == task[o].state # "absent" /\ \A p \in Procs : ~Admitting(p, o)

(* o is not fresh, and never will be again. *)
Used(o) == Made(o) /\ ~Fresh(o)

CancelAsked(o) == task[o].state # "absent" /\ task[o].cancel

Ended(o) == task[o].state \in TerminalStates

ClaimsCounted ==
    \A o \in Ops : work[o].state = "claimed" => work[o].attempt # 0

(* Whatever a worker is at, and whatever runs, is used. *)
WorkersUse == \A w \in Workers : wk[w].pc \in Engaged => Used(wk[w].op)

RunningUsed == \A o \in Ops : task[o].state = "running" => Used(o)

(* The pages of pass r: an item on the first page was made, and still has  *)
(* its generation; a claim on it is no longer fresh.  The record next to   *)
(* it exists, and has not taken back an end or a cancellation.             *)
ItemPage(r) ==
    \A o \in Ops :
       /\ r.work[o].state # "absent" =>
             Made(o) /\ (work[o].state # "absent"
                            => work[o].gen = r.work[o].gen)
       /\ r.work[o].state = "claimed" => Used(o)

TaskPage(r) ==
    \A o \in r.todo :
       /\ r.task[o].state # "absent"
       /\ r.task[o].state \in TerminalStates => Ended(o)
       /\ r.task[o].cancel => CancelAsked(o)

(* Which of the two sweeps r is in, and what is left to visit. *)
InSweep(r) == r.pc \in {"sweep", "requeue"} \/ r.back = "sweep"

InGeneric(r) == r.pc = "gsweep" \/ r.back = "gsweep"

Outside == {"off", "list", "glist", "record", "enqueue", "look"}

LeftToVisit(r) ==
    /\ InSweep(r) => \A o \in r.todo : r.work[o].state # "absent"
    /\ InGeneric(r) => \A o \in r.todo : Used(o)
    /\ r.pc \in Outside => r.back = "off"
    /\ r.miss \subseteq aged

Paged(r) == ItemPage(r) /\ TaskPage(r) /\ LeftToVisit(r)

(* Behind a transition about to be applied there is a request, a claim or  *)
(* a newer generation g; an item is only deleted after the end.            *)
Decided(r, g) ==
    /\ r.pc \in {"settle", "gdelete", "look"} =>
          IF r.goal = "cancelled" THEN CancelAsked(r.op)
          ELSE Made(r.op) /\ (Fresh(r.op) => work[r.op].gen < g)
    /\ r.pc = "drop" => Ended(r.op)

PassesFit ==
    \A p \in Procs : Paged(rc[p]) /\ Decided(rc[p], Generation[p])

FreshInv ==
    /\ RecordIsFirst /\ ClaimsCounted
    /\ WorkersUse /\ RunningUsed /\ PassesFit

LEMMA ItemMade ==
    ASSUME SpawnInv, NEW o \in Ops, work[o].state # "absent"
    PROVE  Made(o)
BY DEF SpawnInv, ItemsCreatedOnce, Untouched, Made

(* What a step may do to a record. *)
EndedBy(o) ==
    \/ \E c \in Controls : rc[c].pc = "enqueue" /\ rc[c].op = o
    \/ \E w \in Workers : wk[w].pc \in Engaged /\ wk[w].op = o
    \/ \E p \in Procs : rc[p].pc = "settle" /\ rc[p].op = o
                         /\ rc'[p] # rc[p]
    \/ \E p \in Procs : o \in rc[p].miss

TaskMove(o) ==
    /\ task[o].state \in {"pending", "running"}
    /\ task[o].cancel => task'[o].cancel
    /\ \/ task'[o].state = task[o].state
       \/ task'[o].state = "pending"
       \/ /\ task'[o].state = "running"
          /\ \E w \in Workers : wk[w].pc \in Engaged /\ wk[w].op = o
       \/ task'[o].state \in TerminalStates /\ EndedBy(o)

TaskStep(o) ==
    \/ SameRecord(o)
    \/ TaskMove(o)
    \/ /\ task[o].state = "absent" /\ task'[o].state = "pending"
       /\ \E c \in Controls : /\ rc[c].pc = "record" /\ rc[c].op = o
                              /\ rc'[c].pc = "enqueue"

LEMMA TaskWriters ==
    ASSUME [Next]_vars
    PROVE  \/ UNCHANGED task
           \/ \E c \in Controls : \/ AdmitRecord(c) \/ AdmitFails(c)
                                  \/ \E o \in Ops : CancelOperation(c, o)
           \/ \E w \in Workers : StartTask(w) \/ Heartbeat(w) \/ Commit(w)
           \/ \E p \in Procs : \/ RequeueTask(p) \/ Settle(p)
                               \/ \E o \in Ops : FailMissing(p, o)
           \/ \E o \in Ops : LeaseExpires(o)
<1>1. ASSUME NEW c \in Controls,
             Admission(c) \/ Cancellation(c) \/ ControlCrash(c)
      PROVE  \/ UNCHANGED task \/ AdmitRecord(c) \/ AdmitFails(c)
             \/ \E o \in Ops : CancelOperation(c, o)
  BY <1>1 DEF Admission, Cancellation, AdmitCheck, AdmitEnqueue, CancelLooks,
     ControlCrash
<1>2. ASSUME NEW w \in Workers,
             \/ StartWorker(w) \/ WorkerStep(w) \/ Heartbeat(w)
             \/ ChildExits(w) \/ WorkerCrash(w)
      PROVE  UNCHANGED task \/ StartTask(w) \/ Heartbeat(w) \/ Commit(w)
  BY <1>2 DEF WorkerStep, StartWorker, Handoff, StartRaises, AcquireLock,
     CrossSpawnBoundary, Spawn, BindCheck, BindPut, OpenGate, NextCommand,
     HandlerReturns, HandlerRaises, StoreResult, HandleException,
     CommitRaises, ReleaseBinding, DiscardItem, ClaimNext, ChildExits,
     WorkerCrash, KeepTask
<1>3. ASSUME NEW p \in Procs, RecoveryBegins(p) \/ RecoveryStep(p)
      PROVE  \/ UNCHANGED task \/ RequeueTask(p) \/ Settle(p)
             \/ \E o \in Ops : FailMissing(p, o)
  BY <1>3 DEF RecoveryStep, RecoveryBegins, DiscardOrphanItem, LeaveItem,
     Blocked, SettleUnstarted, Contain, RequeueItem, GenericLeave,
     GenericReap, ListTasks, Drop, PassEnds, GenericList, GenericDelete,
     PruneBindings
<1>4. ASSUME NEW o \in Ops, GraceElapses(o) \/ LeaseExpires(o)
      PROVE  UNCHANGED task \/ LeaseExpires(o)
  BY <1>4 DEF GraceElapses
<1>5. CASE UNCHANGED vars
  BY <1>5 DEF vars
<1> QED BY <1>1, <1>2, <1>3, <1>4, <1>5 DEF Next

LEMMA WorkWriters ==
    ASSUME [Next]_vars
    PROVE  \/ UNCHANGED work
           \/ \E c \in Controls : AdmitEnqueue(c)
           \/ \E w \in Workers :
                 \/ StartRaises(w) \/ CrossSpawnBoundary(w) \/ Heartbeat(w)
                 \/ DiscardItem(w) \/ \E o \in Ops : ClaimNext(w, o)
           \/ \E p \in Procs :
                 \/ Drop(p)
                 \/ \E o \in Ops : DiscardOrphanItem(p, o) \/ RequeueItem(p, o)
           \/ \E o \in Ops : LeaseExpires(o)
<1>1. ASSUME NEW c \in Controls,
             Admission(c) \/ Cancellation(c) \/ ControlCrash(c)
      PROVE  UNCHANGED work \/ AdmitEnqueue(c)
  BY <1>1 DEF Admission, Cancellation, AdmitCheck, AdmitRecord, AdmitFails,
     CancelOperation, CancelLooks, ControlCrash
<1>2. ASSUME NEW w \in Workers,
             \/ StartWorker(w) \/ WorkerStep(w) \/ Heartbeat(w)
             \/ ChildExits(w) \/ WorkerCrash(w)
      PROVE  \/ UNCHANGED work
             \/ StartRaises(w) \/ CrossSpawnBoundary(w) \/ Heartbeat(w)
             \/ DiscardItem(w) \/ \E o \in Ops : ClaimNext(w, o)
  BY <1>2 DEF WorkerStep, StartWorker, Handoff, StartTask, AcquireLock,
     Spawn, BindCheck, BindPut, OpenGate, NextCommand, HandlerReturns,
     HandlerRaises, StoreResult, HandleException, Commit, CommitRaises,
     ReleaseBinding, ChildExits, WorkerCrash
<1>3. ASSUME NEW p \in Procs, RecoveryBegins(p) \/ RecoveryStep(p)
      PROVE  \/ UNCHANGED work \/ Drop(p)
             \/ \E o \in Ops : DiscardOrphanItem(p, o) \/ RequeueItem(p, o)
  BY <1>3 DEF RecoveryStep, RecoveryBegins, LeaveItem, Blocked,
     SettleUnstarted, Contain, FailMissing, GenericLeave, GenericReap,
     ListTasks, RequeueTask, Settle, PassEnds, GenericList, GenericDelete,
     PruneBindings
<1>4. ASSUME NEW o \in Ops, GraceElapses(o) \/ LeaseExpires(o)
      PROVE  UNCHANGED work \/ LeaseExpires(o)
  BY <1>4 DEF GraceElapses
<1>5. CASE UNCHANGED vars
  BY <1>5 DEF vars
<1> QED BY <1>1, <1>2, <1>3, <1>4, <1>5 DEF Next

(* One write of a record, by the way it changes it. *)
LEMMA OneWrite ==
    ASSUME TypeOK, NEW p, NEW o \in Ops, NEW t, WriteTask(p, o, t)
    PROVE  /\ task'[o] = t /\ task[o] \in TaskRecord
           /\ \A x \in Ops : x # o => task'[x] = task[x]
BY DEF TypeOK, WriteTask

LEMMA EndingWrite ==
    ASSUME TypeOK, NEW p, NEW o \in Ops, NEW g \in TerminalStates, NEW w,
           TransitionWrites(task[o], g, w),
           WriteTask(p, o, Terminalized(task[o], g)), EndedBy(o)
    PROVE  \A x \in Ops : TaskStep(x)
<1>1. /\ task'[o] = Terminalized(task[o], g) /\ task[o] \in TaskRecord
      /\ \A x \in Ops : x # o => task'[x] = task[x]
  BY OneWrite
<1>2. task'[o].state = g /\ task'[o].cancel = task[o].cancel
  BY <1>1 DEF Terminalized, TaskRecord
<1>3. task[o].state \in {"pending", "running"}
  BY DEF TransitionWrites, Allowed
<1>4. TaskMove(o)
  BY <1>2, <1>3 DEF TaskMove
<1> QED BY <1>1, <1>4 DEF TaskStep, SameRecord

LEMMA OtherWrite ==
    ASSUME TypeOK, NEW p, NEW o \in Ops, NEW t, WriteTask(p, o, t),
           \/ t = CancelRequested(task[o]) /\ task[o].state = "pending"
           \/ t = CancelRequested(task[o]) /\ task[o].state = "running"
           \/ t = Requeued(task[o]) /\ RequeueAccepted(task[o])
           \/ t = Renewed(task[o]) /\ task[o].state = "running"
    PROVE  \A x \in Ops : TaskStep(x)
<1>1. /\ task'[o] = t /\ task[o] \in TaskRecord
      /\ \A x \in Ops : x # o => task'[x] = task[x]
  BY OneWrite
<1>2. TaskMove(o)
  BY <1>1 DEF TaskMove, CancelRequested, Requeued, RequeueAccepted, Renewed,
     TaskRecord
<1> QED BY <1>1, <1>2 DEF TaskStep, SameRecord

LEMMA EveryTaskStep ==
    ASSUME SpawnInv, RecordIsFirst, [Next]_vars
    PROVE  \A x \in Ops : TaskStep(x)
<1>0. TypeOK /\ OpsKnown
  BY DEF SpawnInv
<1>1. CASE UNCHANGED task
  BY <1>1 DEF TaskStep, SameRecord
<1>2. ASSUME NEW c \in Controls, AdmitRecord(c)
      PROVE  \A x \in Ops : TaskStep(x)
  <2>1. c \in Procs /\ rc[c] \in RecoveryRecord
    BY <1>0 DEF Procs, TypeOK
  <2>2. rc[c].pc = "record" /\ rc[c].op \in Ops
    BY <1>0, <1>2, <2>1 DEF AdmitRecord, OpsKnown, Applying
  <2>3. task[rc[c].op].state = "absent"
    BY <2>1, <2>2 DEF RecordIsFirst
  <2>4. /\ task'[rc[c].op] = NewTask
        /\ \A x \in Ops : x # rc[c].op => task'[x] = task[x]
    BY <1>0, <1>2, <2>2, OneWrite DEF AdmitRecord
  <2>5. rc'[c].pc = "enqueue"
    BY <1>0, <1>2, <2>1 DEF AdmitRecord, TypeOK, RecoveryRecord
  <2>6. NewTask.state = "pending"
    BY DEF NewTask, NoTask
  <2> QED BY <2>2, <2>3, <2>4, <2>5, <2>6 DEF TaskStep, SameRecord
<1>3. ASSUME NEW c \in Controls, AdmitFails(c)
      PROVE  \A x \in Ops : TaskStep(x)
  <2>1. c \in Procs
    BY DEF Procs
  <2>2. rc[c].pc = "enqueue" /\ rc[c].op \in Ops
    BY <1>0, <1>3, <2>1 DEF AdmitFails, OpsKnown, Applying
  <2>3. EndedBy(rc[c].op) /\ "failed" \in TerminalStates
    BY <2>2 DEF EndedBy, TerminalStates
  <2>4. \/ UNCHANGED task
        \/ /\ TransitionWrites(task[rc[c].op], "failed", None)
           /\ WriteTask(c, rc[c].op, Terminalized(task[rc[c].op], "failed"))
    BY <1>3 DEF AdmitFails, KeepTask
  <2> QED BY <1>0, <1>1, <2>2, <2>3, <2>4, EndingWrite
<1>4. ASSUME NEW c \in Controls, NEW o \in Ops, CancelOperation(c, o)
      PROVE  \A x \in Ops : TaskStep(x)
  <2>1. \/ UNCHANGED task
        \/ /\ task[o].state \in {"pending", "running"}
           /\ WriteTask(c, o, CancelRequested(task[o]))
    BY <1>4 DEF CancelOperation, KeepTask
  <2> QED BY <1>0, <1>1, <2>1, OtherWrite
<1>5. ASSUME NEW w \in Workers, StartTask(w)
      PROVE  \A x \in Ops : TaskStep(x)
  <2>1. wk[w].pc \in Engaged /\ wk[w].op \in Ops
    BY <1>0, <1>5 DEF StartTask, OpsKnown, Engaged, WorkerPcs
  <2>2. PICK o \in Ops : o = wk[w].op
    BY <2>1
  <2>3. PICK l : WriteTask(w, o, Started(task[o], w, wk[w].attempt, l))
    BY <1>5, <2>2 DEF StartTask
  <2>4. /\ task'[o] = Started(task[o], w, wk[w].attempt, l)
        /\ task[o] \in TaskRecord
        /\ \A x \in Ops : x # o => task'[x] = task[x]
    BY <1>0, <2>3, OneWrite
  <2>5. task'[o].state = "running" /\ task'[o].cancel = task[o].cancel
    BY <2>4 DEF Started, TaskRecord
  <2>6. task[o].state \in {"pending", "running"}
    BY <1>5, <2>2 DEF StartTask, StartAccepted
  <2>7. TaskMove(o)
    BY <2>1, <2>2, <2>5, <2>6 DEF TaskMove
  <2> QED BY <2>4, <2>7 DEF TaskStep, SameRecord
<1>6. ASSUME NEW w \in Workers, Heartbeat(w)
      PROVE  \A x \in Ops : TaskStep(x)
  <2>1. wk[w].op \in Ops
    BY <1>0, <1>6 DEF Heartbeat, OpsKnown, Engaged, WorkerPcs, Beating, Locking
  <2>2. \/ UNCHANGED task
        \/ /\ RenewAccepted(task[wk[w].op], w)
           /\ WriteTask(w, wk[w].op, Renewed(task[wk[w].op]))
    BY <1>6 DEF Heartbeat, KeepTask
  <2> QED BY <1>0, <1>1, <2>1, <2>2, OtherWrite DEF RenewAccepted
<1>7. ASSUME NEW w \in Workers, Commit(w)
      PROVE  \A x \in Ops : TaskStep(x)
  <2>1. wk[w].pc \in Engaged /\ wk[w].op \in Ops
    BY <1>0, <1>7 DEF Commit, OpsKnown, Engaged, WorkerPcs
  <2>2. EndedBy(wk[w].op) /\ wk[w].goal \in TerminalStates
    BY <1>0, <2>1 DEF EndedBy, TypeOK, WorkerRecord
  <2>3. \/ UNCHANGED task
        \/ /\ TransitionWrites(task[wk[w].op], wk[w].goal, w)
           /\ WriteTask(w, wk[w].op, Terminalized(task[wk[w].op], wk[w].goal))
    BY <1>7 DEF Commit, KeepTask
  <2> QED BY <1>0, <1>1, <2>1, <2>2, <2>3, EndingWrite
<1>8. ASSUME NEW p \in Procs, RequeueTask(p)
      PROVE  \A x \in Ops : TaskStep(x)
  <2>1. rc[p].op \in Ops
    BY <1>0, <1>8 DEF RequeueTask, OpsKnown, Applying
  <2>2. \/ UNCHANGED task
        \/ /\ RequeueAccepted(task[rc[p].op])
           /\ WriteTask(p, rc[p].op, Requeued(task[rc[p].op]))
    BY <1>8 DEF RequeueTask, KeepTask
  <2> QED BY <1>0, <1>1, <2>1, <2>2, OtherWrite
<1>9. ASSUME NEW p \in Procs, Settle(p)
      PROVE  \A x \in Ops : TaskStep(x)
  <2>1. rc[p] \in RecoveryRecord
    BY <1>0 DEF TypeOK
  <2>2. rc[p].pc = "settle" /\ rc[p].op \in Ops
        /\ rc[p].goal \in TerminalStates
    BY <1>0, <1>9, <2>1 DEF Settle, OpsKnown, Applying, RecoveryRecord
  <2>3. \/ UNCHANGED task
        \/ /\ TransitionWrites(task[rc[p].op], rc[p].goal, rc[p].owner)
           /\ WriteTask(p, rc[p].op, Terminalized(task[rc[p].op], rc[p].goal))
    BY <1>9 DEF Settle, KeepTask
  <2>4. Abort(p) \/ Resume(p) \/ Goto(p, "drop")
    BY <1>9 DEF Settle
  <2>5. rc'[p].pc # "settle"
    <3>1. CASE Abort(p)
      BY <1>0, <3>1 DEF Abort, TypeOK, RecOff
    <3>2. CASE Resume(p)
      BY <1>0, <2>1, <2>2, <3>2 DEF Resume, TypeOK, RecoveryRecord
    <3>3. CASE Goto(p, "drop")
      BY <1>0, <2>1, <3>3 DEF Goto, TypeOK, RecoveryRecord
    <3> QED BY <2>4, <3>1, <3>2, <3>3
  <2>6. EndedBy(rc[p].op)
    BY <2>2, <2>5 DEF EndedBy
  <2> QED BY <1>0, <1>1, <2>2, <2>3, <2>6, EndingWrite
<1>10. ASSUME NEW p \in Procs, NEW o \in Ops, FailMissing(p, o)
       PROVE  \A x \in Ops : TaskStep(x)
  <2>1. EndedBy(o) /\ "failed" \in TerminalStates
    BY <1>10 DEF FailMissing, EndedBy, TerminalStates
  <2>2. \/ UNCHANGED task
        \/ /\ TransitionWrites(task[o], "failed", None)
           /\ WriteTask(p, o, Terminalized(task[o], "failed"))
    BY <1>10 DEF FailMissing, KeepTask
  <2> QED BY <1>0, <1>1, <2>1, <2>2, EndingWrite
<1>11. ASSUME NEW o \in Ops, LeaseExpires(o)
       PROVE  \A x \in Ops : TaskStep(x)
  <2>1. task' = [task EXCEPT ![o] = [task[o] EXCEPT !.lease =
                    IF task[o].lease = "live" THEN "expired" ELSE task[o].lease]]
    BY <1>11 DEF LeaseExpires
  <2>2. task[o] \in TaskRecord
    BY <1>0 DEF TypeOK
  <2>3. \A x \in Ops : SameRecord(x)
    BY <1>0, <2>1, <2>2 DEF TypeOK, SameRecord, TaskRecord
  <2> QED BY <2>3 DEF TaskStep
<1> QED BY <1>1, <1>2, <1>3, <1>4, <1>5, <1>6, <1>7, <1>8, <1>9, <1>10,
   <1>11, TaskWriters

(* What a step may do to an item. *)
RemovedBy(o) ==
    \/ \E w \in Workers : wk[w].pc \in Engaged /\ wk[w].op = o
    \/ \E p \in Procs : rc[p].pc = "drop" /\ rc[p].op = o
    \/ \E p \in Procs : /\ rc[p].pc = "sweep" /\ o \in rc[p].todo
                        /\ Decision(p, o) = "discard"

ItemStep(o) ==
    \/ /\ work'[o].state = work[o].state /\ work'[o].gen = work[o].gen
       /\ work'[o].attempt = work[o].attempt
    \/ work'[o].state = "absent" /\ RemovedBy(o)
    \/ /\ work[o].state # "absent" /\ work'[o].state # "absent"
       /\ work'[o].gen = work[o].gen /\ work'[o].attempt # 0
    \/ /\ work'[o].state = "queued"
       /\ \E c \in Controls : rc[c].pc = "enqueue" /\ rc[c].op = o

LEMMA ItemRemoved ==
    ASSUME TypeOK, NEW o \in Ops, DeleteItem(o), RemovedBy(o)
    PROVE  \A x \in Ops : ItemStep(x)
<1>1. work'[o].state = "absent" /\ \A x \in Ops : x # o => work'[x] = work[x]
  BY DEF DeleteItem, TypeOK, NoItem
<1> QED BY <1>1 DEF ItemStep

LEMMA ItemSaved ==
    ASSUME TypeOK, NEW o \in Ops, NEW i, work' = [work EXCEPT ![o] = i],
           work[o].state # "absent", i.state # "absent", i.gen = work[o].gen,
           i.attempt # 0 \/ (i.attempt = work[o].attempt
                             /\ i.state = work[o].state)
    PROVE  \A x \in Ops : ItemStep(x)
<1>1. work'[o] = i /\ \A x \in Ops : x # o => work'[x] = work[x]
  BY DEF TypeOK
<1> QED BY <1>1 DEF ItemStep

LEMMA EveryItemStep ==
    ASSUME SpawnInv, ClaimsCounted, [Next]_vars
    PROVE  \A x \in Ops : ItemStep(x)
<1>0. TypeOK /\ OpsKnown /\ \A o \in Ops : work[o] \in ItemRecord
  BY DEF SpawnInv, TypeOK
<1>1. CASE UNCHANGED work
  BY <1>1 DEF ItemStep
<1>2. ASSUME NEW c \in Controls, AdmitEnqueue(c)
      PROVE  \A x \in Ops : ItemStep(x)
  <2>1. c \in Procs
    BY DEF Procs
  <2>2. rc[c].pc = "enqueue" /\ rc[c].op \in Ops
    BY <1>0, <1>2, <2>1 DEF AdmitEnqueue, OpsKnown, Applying
  <2>3. NewItem(Generation[c]).state = "queued"
    BY DEF NewItem, NoItem
  <2>4. /\ work'[rc[c].op].state = "queued"
        /\ \A x \in Ops : x # rc[c].op => work'[x] = work[x]
    BY <1>0, <1>2, <2>2, <2>3 DEF AdmitEnqueue, TypeOK
  <2> QED BY <2>2, <2>4 DEF ItemStep
<1>3. ASSUME NEW w \in Workers, StartRaises(w) \/ DiscardItem(w)
      PROVE  \A x \in Ops : ItemStep(x)
  <2>1. wk[w].pc \in Engaged /\ wk[w].op \in Ops
    BY <1>0, <1>3 DEF StartRaises, DiscardItem, OpsKnown, Engaged, WorkerPcs
  <2>2. RemovedBy(wk[w].op)
    BY <2>1 DEF RemovedBy
  <2>3. UNCHANGED work \/ DeleteItem(wk[w].op)
    BY <1>3 DEF StartRaises, DiscardItem
  <2> QED BY <1>0, <1>1, <2>1, <2>2, <2>3, ItemRemoved
<1>4. ASSUME NEW w \in Workers, CrossSpawnBoundary(w)
      PROVE  \A x \in Ops : ItemStep(x)
  <2>1. wk[w].op \in Ops
    BY <1>0, <1>4 DEF CrossSpawnBoundary, OpsKnown, Engaged, WorkerPcs
  <2>2. \/ UNCHANGED work
        \/ /\ work' = [work EXCEPT ![wk[w].op] = ItemStarted(work[wk[w].op])]
           /\ work[wk[w].op].state = "claimed"
    BY <1>4 DEF CrossSpawnBoundary, HoldsClaim
  <2>3. \A o \in Ops : /\ ItemStarted(work[o]).gen = work[o].gen
                       /\ ItemStarted(work[o]).attempt = work[o].attempt
                       /\ ItemStarted(work[o]).state = work[o].state
    BY <1>0 DEF ItemStarted, ItemRecord
  <2> QED BY <1>0, <1>1, <2>1, <2>2, <2>3, ItemSaved
<1>5. ASSUME NEW w \in Workers, Heartbeat(w)
      PROVE  \A x \in Ops : ItemStep(x)
  <2>1. wk[w].op \in Ops
    BY <1>0, <1>5 DEF Heartbeat, OpsKnown, Engaged, WorkerPcs, Beating, Locking
  <2>2. \/ UNCHANGED work
        \/ /\ work' = [work EXCEPT ![wk[w].op] = RenewedItem(work[wk[w].op])]
           /\ work[wk[w].op].state = "claimed"
    BY <1>5 DEF Heartbeat, CanRenewItem
  <2>3. \A o \in Ops : /\ RenewedItem(work[o]).gen = work[o].gen
                       /\ RenewedItem(work[o]).attempt = work[o].attempt
                       /\ RenewedItem(work[o]).state = work[o].state
    BY <1>0 DEF RenewedItem, ItemRecord
  <2> QED BY <1>0, <1>1, <2>1, <2>2, <2>3, ItemSaved
<1>6. ASSUME NEW w \in Workers, NEW o \in Ops, ClaimNext(w, o)
      PROVE  \A x \in Ops : ItemStep(x)
  <2>1. /\ work' = [work EXCEPT ![o] = ClaimedItem(work[o], w)]
        /\ work[o].state = "queued"
    BY <1>6 DEF ClaimNext
  <2>2. work[o].attempt \in Nat
    BY <1>0 DEF ItemRecord
  <2>3. /\ ClaimedItem(work[o], w).gen = work[o].gen
        /\ ClaimedItem(work[o], w).attempt = work[o].attempt + 1
        /\ ClaimedItem(work[o], w).state = "claimed"
    BY <1>0 DEF ClaimedItem, ItemRecord
  <2>4. ClaimedItem(work[o], w).attempt # 0
    BY <2>2, <2>3
  <2>5. work[o].state # "absent"
    BY <2>1
  <2> QED BY <1>0, <2>1, <2>3, <2>4, <2>5, ItemSaved
<1>7. ASSUME NEW p \in Procs, Drop(p)
      PROVE  \A x \in Ops : ItemStep(x)
  <2>1. rc[p].op \in Ops /\ RemovedBy(rc[p].op) /\ DeleteItem(rc[p].op)
    BY <1>0, <1>7 DEF Drop, OpsKnown, Applying, RemovedBy
  <2> QED BY <1>0, <2>1, ItemRemoved
<1>8. ASSUME NEW p \in Procs, NEW o \in Ops, DiscardOrphanItem(p, o)
      PROVE  \A x \in Ops : ItemStep(x)
  <2>1. RemovedBy(o) /\ DeleteItem(o)
    BY <1>8 DEF DiscardOrphanItem, RemovedBy
  <2> QED BY <1>0, <2>1, ItemRemoved
<1>9. ASSUME NEW p \in Procs, NEW o \in Ops, RequeueItem(p, o)
      PROVE  \A x \in Ops : ItemStep(x)
  <2>1. \/ UNCHANGED work
        \/ /\ work[o] = rc[p].work[o]
           /\ work' = [work EXCEPT ![o] = RequeuedItem(work[o])]
    BY <1>9 DEF RequeueItem
  <2>2. rc[p].work[o].state = "claimed"
    BY <1>9 DEF RequeueItem, Decision, Disposition
  <2>3. /\ RequeuedItem(work[o]).gen = work[o].gen
        /\ RequeuedItem(work[o]).attempt = work[o].attempt
        /\ RequeuedItem(work[o]).state = "queued"
    BY <1>0 DEF RequeuedItem, ItemRecord
  <2> QED BY <1>0, <1>1, <2>1, <2>2, <2>3, ItemSaved DEF ClaimsCounted
<1>10. ASSUME NEW o \in Ops, LeaseExpires(o)
       PROVE  \A x \in Ops : ItemStep(x)
  <2>1. work' = [work EXCEPT ![o] = [work[o] EXCEPT !.lease =
                    IF work[o].lease = "live" THEN "expired" ELSE work[o].lease]]
    BY <1>10 DEF LeaseExpires
  <2>2. \A x \in Ops : /\ work'[x].state = work[x].state
                       /\ work'[x].gen = work[x].gen
                       /\ work'[x].attempt = work[x].attempt
    BY <1>0, <2>1 DEF TypeOK, ItemRecord
  <2> QED BY <2>2 DEF ItemStep
<1> QED BY <1>1, <1>2, <1>3, <1>4, <1>5, <1>6, <1>7, <1>8, <1>9, <1>10,
   WorkWriters

(* The admission of an id ends once. *)
LEMMA MadeStays ==
    ASSUME SpawnInv, [Next]_vars, NEW o \in Ops, Made(o)
    PROVE  Made(o)'
<1>0. TypeOK /\ OpsKnown
  BY DEF SpawnInv
<1>1. ASSUME QuietTasks, QuietAdmissions
      PROVE  Made(o)'
  BY <1>1 DEF Made, Admitting, QuietTasks, QuietAdmissions
<1>2. ASSUME UNCHANGED <<task, rc>>
      PROVE  Made(o)'
  BY <1>2 DEF Made, Admitting
<1>3. ASSUME NEW c \in Controls, NEW x \in Ops, AdmitCheck(c, x)
      PROVE  Made(o)'
  <2>1. x # o /\ c \in Procs /\ rc[c] \in RecoveryRecord
    BY <1>0, <1>3 DEF AdmitCheck, Made, Procs, TypeOK
  <2>2. /\ rc'[c].op = x
        /\ \A p \in Procs : p # c => rc'[p] = rc[p]
    BY <1>0, <1>3, <2>1 DEF AdmitCheck, TypeOK, RecoveryRecord
  <2> QED BY <1>3, <2>1, <2>2 DEF AdmitCheck, Made, Admitting
<1>4. ASSUME NEW c \in Controls, AdmitEnqueue(c)
      PROVE  Made(o)'
  <2>1. /\ rc'[c] = RecOff
        /\ \A p \in Procs : p # c => rc'[p] = rc[p]
    BY <1>0, <1>4 DEF AdmitEnqueue, TypeOK, Procs
  <2> QED BY <1>4, <2>1 DEF AdmitEnqueue, Made, Admitting, RecOff
<1>5. ASSUME NEW c \in Controls,
             Admission(c) \/ Cancellation(c) \/ ControlCrash(c)
      PROVE  Made(o)'
  BY <1>5, <1>0, <1>1, <1>3, <1>4, QuietControl
     DEF Admission, Cancellation, Quiet
<1>6. ASSUME NEW w \in Workers,
             \/ StartWorker(w) \/ WorkerStep(w) \/ Heartbeat(w)
             \/ ChildExits(w) \/ WorkerCrash(w)
      PROVE  Made(o)'
  <2>1. CASE CrossSpawnBoundary(w) \/ Spawn(w)
    BY <2>1, <1>2 DEF CrossSpawnBoundary, Spawn
  <2>2. CASE ~CrossSpawnBoundary(w) /\ ~Spawn(w)
    BY <1>6, <2>2, <1>0, <1>1, QuietWorker DEF WorkerStep, Quiet
  <2> QED BY <2>1, <2>2
<1>7. ASSUME NEW p \in Procs, RecoveryBegins(p) \/ RecoveryStep(p)
      PROVE  Made(o)'
  BY <1>7, <1>0, <1>1, QuietSweep, QuietSettle DEF RecoveryStep, Quiet
<1>8. ASSUME NEW x \in Ops, GraceElapses(x) \/ LeaseExpires(x)
      PROVE  Made(o)'
  BY <1>8, <1>0, <1>1, QuietClock DEF Quiet
<1>9. CASE UNCHANGED vars
  BY <1>9, <1>2 DEF vars
<1> QED BY <1>5, <1>6, <1>7, <1>8, <1>9 DEF Next

(* What no step takes back. *)
Steady ==
    /\ \A o \in Ops :
          /\ Made(o) => Made(o)' /\ (Fresh(o)' => Fresh(o))
          /\ Made(o) /\ work'[o].state # "absent"
                => work[o].state # "absent" /\ work'[o].gen = work[o].gen
          /\ Ended(o) => Ended(o)'
          /\ CancelAsked(o) => CancelAsked(o)'
    /\ aged \subseteq aged'

LEMMA AgedGrows ==
    ASSUME [Next]_vars
    PROVE  aged \subseteq aged'
<1>1. ASSUME NEW c \in Controls,
             Admission(c) \/ Cancellation(c) \/ ControlCrash(c)
      PROVE  UNCHANGED aged
  BY <1>1 DEF Admission, Cancellation, AdmitCheck, AdmitRecord, AdmitEnqueue,
     AdmitFails, CancelOperation, CancelLooks, ControlCrash, RestUnchanged
<1>2. ASSUME NEW w \in Workers,
             \/ StartWorker(w) \/ WorkerStep(w) \/ Heartbeat(w)
             \/ ChildExits(w) \/ WorkerCrash(w)
      PROVE  UNCHANGED aged
  BY <1>2 DEF WorkerStep, StartWorker, Handoff, StartTask, StartRaises,
     AcquireLock, CrossSpawnBoundary, Spawn, BindCheck, BindPut, OpenGate,
     NextCommand, HandlerReturns, HandlerRaises, StoreResult,
     HandleException, Commit, CommitRaises, ReleaseBinding, DiscardItem,
     ClaimNext, Heartbeat, ChildExits, WorkerCrash
<1>3. ASSUME NEW p \in Procs, RecoveryBegins(p) \/ RecoveryStep(p)
      PROVE  UNCHANGED aged
  BY <1>3 DEF RecoveryStep, RecoveryBegins, DiscardOrphanItem, LeaveItem,
     Blocked, SettleUnstarted, Contain, RequeueItem, FailMissing,
     GenericLeave, GenericReap, ListTasks, RequeueTask, Settle, Drop,
     PassEnds, GenericList, GenericDelete, PruneBindings, RestUnchanged
<1>4. ASSUME NEW o \in Ops, GraceElapses(o) \/ LeaseExpires(o)
      PROVE  aged \subseteq aged'
  BY <1>4 DEF GraceElapses, LeaseExpires
<1>5. CASE UNCHANGED vars
  BY <1>5 DEF vars
<1> QED BY <1>1, <1>2, <1>3, <1>4, <1>5 DEF Next

LEMMA EveryStepSteady ==
    ASSUME SpawnInv, RecordIsFirst, ClaimsCounted, [Next]_vars
    PROVE  Steady
<1>1. ASSUME NEW o \in Ops
      PROVE  /\ Made(o) => Made(o)' /\ (Fresh(o)' => Fresh(o))
             /\ Made(o) /\ work'[o].state # "absent"
                   => work[o].state # "absent" /\ work'[o].gen = work[o].gen
  <2>1. ItemStep(o)
    BY EveryItemStep
  <2>2. ASSUME Made(o)
        PROVE  ~\E c \in Controls : rc[c].pc = "enqueue" /\ rc[c].op = o
    BY <2>2 DEF Made, Admitting, Procs
  <2> QED BY <2>1, <2>2, MadeStays DEF ItemStep, Fresh
<1>2. ASSUME NEW o \in Ops
      PROVE  /\ Ended(o) => Ended(o)'
             /\ CancelAsked(o) => CancelAsked(o)'
  <2>1. TaskStep(o)
    BY EveryTaskStep
  <2> QED BY <2>1 DEF TaskStep, SameRecord, TaskMove, Ended, CancelAsked,
             TerminalStates
<1> QED BY <1>1, <1>2, AgedGrows DEF Steady

LEMMA UsedStays ==
    ASSUME Steady, NEW o \in Ops, Used(o)
    PROVE  Used(o)'
BY DEF Steady, Used

(* Who is engaged in an operation has claimed it before. *)
LEMMA EngagedStep ==
    ASSUME TypeOK, [Next]_vars, NEW w \in Workers, wk'[w].pc \in Engaged
    PROVE  \/ wk[w].pc \in Engaged /\ wk'[w].op = wk[w].op
           \/ \E o \in Ops : ClaimNext(w, o)
<1>0. wk \in [Workers -> WorkerRecord]
  BY DEF TypeOK
<1>1. /\ WorkerOff.pc \notin Engaged
      /\ [WorkerOff EXCEPT !.pc = "dead"].pc \notin Engaged
      /\ \A v : Idle(v).pc \notin Engaged
  BY DEF WorkerOff, Idle, Engaged, WorkerPcs
<1>2. CASE UNCHANGED wk
  BY <1>2
<1>3. ASSUME NEW v \in Workers,
             \/ StartWorker(v) \/ WorkerStep(v) \/ Heartbeat(v)
             \/ ChildExits(v) \/ WorkerCrash(v)
      PROVE  \/ wk[w].pc \in Engaged /\ wk'[w].op = wk[w].op
             \/ \E o \in Ops : ClaimNext(w, o)
  <2>1. CASE \/ StartWorker(v) \/ Handoff(v) \/ StartRaises(v)
             \/ DiscardItem(v) \/ WorkerCrash(v)
    <3>1. CASE StartWorker(v)
      BY <1>0, <3>1 DEF StartWorker, WorkerRecord, Engaged, WorkerPcs
    <3>2. CASE Handoff(v) \/ StartRaises(v) \/ DiscardItem(v) \/ WorkerCrash(v)
      <4>1. PICK r : wk' = [wk EXCEPT ![v] = r] /\ r.pc \notin Engaged
        BY <1>1, <3>2 DEF Handoff, StartRaises, DiscardItem, WorkerCrash
      <4>2. w # v /\ wk'[w] = wk[w]
        BY <1>0, <4>1
      <4> QED BY <4>2
    <3> QED BY <2>1, <3>1, <3>2
  <2>2. CASE \/ StartTask(v) \/ AcquireLock(v) \/ CrossSpawnBoundary(v)
             \/ Spawn(v) \/ BindCheck(v) \/ OpenGate(v)
             \/ NextCommand(v) \/ HandlerReturns(v) \/ HandlerRaises(v)
             \/ Commit(v) \/ CommitRaises(v) \/ ReleaseBinding(v)
    <3>1. PICK pc : wk' = [wk EXCEPT ![v].pc = pc]
      BY <2>2 DEF StartTask, AcquireLock, CrossSpawnBoundary, Spawn,
         BindCheck, OpenGate, NextCommand, HandlerReturns, HandlerRaises,
         Commit, CommitRaises, ReleaseBinding
    <3>2. wk[v].pc \in Engaged
      BY <2>2 DEF StartTask, AcquireLock, CrossSpawnBoundary, Spawn,
         BindCheck, OpenGate, NextCommand, HandlerReturns, HandlerRaises,
         Commit, CommitRaises, ReleaseBinding, Engaged, WorkerPcs
    <3> QED BY <1>0, <3>1, <3>2 DEF WorkerRecord
  <2>3. CASE BindPut(v) \/ StoreResult(v) \/ HandleException(v) \/ Heartbeat(v)
    <3>1. /\ \A u \in Workers : u # v => wk'[u] = wk[u]
          /\ wk'[v].op = wk[v].op
      BY <1>0, <2>3 DEF BindPut, StoreResult, HandleException, Heartbeat,
         WorkerRecord
    <3>2. wk[v].pc \in Engaged
      BY <2>3 DEF BindPut, StoreResult, HandleException, Heartbeat, Beating,
         Locking, Engaged, WorkerPcs
    <3> QED BY <3>1, <3>2
  <2>4. ASSUME NEW o \in Ops, ClaimNext(v, o)
        PROVE  \/ wk[w].pc \in Engaged /\ wk'[w].op = wk[w].op
               \/ \E x \in Ops : ClaimNext(w, x)
    BY <1>0, <2>4 DEF ClaimNext
  <2>5. CASE ChildExits(v)
    BY <1>2, <2>5 DEF ChildExits
  <2> QED BY <1>3, <2>1, <2>2, <2>3, <2>4, <2>5 DEF WorkerStep
<1>4. ASSUME NEW p \in Procs, RecoveryBegins(p) \/ RecoveryStep(p)
      PROVE  wk[w].pc \in Engaged /\ wk'[w].op = wk[w].op
  <2>1. \/ UNCHANGED wk \/ Abort(p)
        \/ p \in Workers /\ wk' = [wk EXCEPT ![p].pc = "handoff"]
    BY <1>4 DEF RecoveryStep, RecoveryBegins, DiscardOrphanItem, LeaveItem,
       Blocked, SettleUnstarted, Contain, RequeueItem, FailMissing,
       GenericLeave, GenericReap, ListTasks, RequeueTask, Settle, Drop,
       PassEnds, GenericList, GenericDelete, PruneBindings
  <2>2. CASE Abort(p)
    BY <1>0, <1>1, <2>2 DEF Abort
  <2>3. CASE p \in Workers /\ wk' = [wk EXCEPT ![p].pc = "handoff"]
    BY <1>0, <2>3 DEF WorkerRecord, Engaged, WorkerPcs
  <2> QED BY <2>1, <2>2, <2>3
<1>5. CASE UNCHANGED vars
  BY <1>2, <1>5 DEF vars
<1>6. ASSUME NEW c \in Controls,
             Admission(c) \/ Cancellation(c) \/ ControlCrash(c)
      PROVE  UNCHANGED wk
  BY <1>6 DEF Admission, Cancellation, AdmitCheck, AdmitRecord, AdmitEnqueue,
     AdmitFails, CancelOperation, CancelLooks, ControlCrash
<1>7. ASSUME NEW o \in Ops, GraceElapses(o) \/ LeaseExpires(o)
      PROVE  UNCHANGED wk
  BY <1>7 DEF GraceElapses, LeaseExpires
<1> QED BY <1>2, <1>3, <1>4, <1>5, <1>6, <1>7 DEF Next

LEMMA UseKept ==
    ASSUME SpawnInv, FreshInv, Steady, [Next]_vars
    PROVE  ClaimsCounted' /\ WorkersUse' /\ RunningUsed'
<1> USE DEF FreshInv
<1>0. TypeOK /\ OpsKnown
  BY DEF SpawnInv
<1>1. ClaimsCounted'
  <2> SUFFICES ASSUME NEW o \in Ops, work'[o].state = "claimed"
               PROVE  work'[o].attempt # 0
    BY DEF ClaimsCounted
  <2>1. ItemStep(o)
    BY EveryItemStep
  <2> QED BY <2>1 DEF ItemStep, ClaimsCounted
<1>2. WorkersUse'
  <2> SUFFICES ASSUME NEW w \in Workers, wk'[w].pc \in Engaged
               PROVE  Used(wk[w].op)'
    BY DEF WorkersUse
  <2>1. CASE wk[w].pc \in Engaged /\ wk'[w].op = wk[w].op
    <3>1. PICK o \in Ops : o = wk[w].op
      BY <1>0, <2>1 DEF OpsKnown
    <3>2. Used(o)
      BY <2>1, <3>1 DEF WorkersUse
    <3>3. Used(o)'
      BY <3>2, UsedStays
    <3> QED BY <2>1, <3>1, <3>3
  <2>2. ASSUME NEW o \in Ops, ClaimNext(w, o)
        PROVE  Used(wk[w].op)'
    <3>1. Made(o)'
      BY <2>2, ItemMade DEF ClaimNext, Steady
    <3>2. wk[w] \in WorkerRecord /\ work[o] \in ItemRecord
      BY <1>0 DEF TypeOK
    <3>3. work'[o].state = "claimed"
      BY <1>0, <2>2, <3>2 DEF ClaimNext, TypeOK, ClaimedItem, ItemRecord
    <3>4. wk'[w].op = o
      BY <1>0, <2>2, <3>2 DEF ClaimNext, TypeOK, Idle, WorkerOff
    <3>5. Used(o)'
      BY <3>1, <3>3 DEF Used, Fresh
    <3> QED BY <3>4, <3>5
  <2> QED BY <1>0, <2>1, <2>2, EngagedStep
<1>3. RunningUsed'
  <2> SUFFICES ASSUME NEW o \in Ops, task'[o].state = "running"
               PROVE  Used(o)'
    BY DEF RunningUsed
  <2>1. TaskStep(o)
    BY EveryTaskStep
  <2>2. Used(o)
    BY <2>1 DEF TaskStep, SameRecord, TaskMove, TerminalStates, RunningUsed,
       WorkersUse
  <2> QED BY <2>2, UsedStays
<1> QED BY <1>1, <1>2, <1>3

(* What the pages of a pass say, and what it decided, outlives every step. *)
LEMMA ShownSteady ==
    ASSUME Steady, NEW r, r.todo \subseteq Ops, Paged(r)
    PROVE  Paged(r)'
<1>1. ItemPage(r)'
  BY UsedStays DEF Paged, ItemPage, Steady
<1>2. TaskPage(r)'
  BY DEF Paged, TaskPage, Steady
<1>3. LeftToVisit(r)'
  BY UsedStays DEF Paged, LeftToVisit, InSweep, InGeneric, Steady
<1> QED BY <1>1, <1>2, <1>3 DEF Paged

LEMMA DecidedSteady ==
    ASSUME Steady, NEW r, NEW g, r.pc \in Applying => r.op \in Ops,
           Decided(r, g)
    PROVE  Decided(r, g)'
<1>1. ASSUME r.pc \in {"settle", "gdelete", "look"}, r.goal = "cancelled"
      PROVE  CancelAsked(r.op)'
  BY <1>1 DEF Decided, Applying, Steady
<1>2. ASSUME r.pc \in {"settle", "gdelete", "look"}, r.goal # "cancelled"
      PROVE  Made(r.op)' /\ (Fresh(r.op)' => work'[r.op].gen < g)
  <2>1. r.op \in Ops /\ Made(r.op) /\ (Fresh(r.op) => work[r.op].gen < g)
    BY <1>2 DEF Decided, Applying
  <2>2. Fresh(r.op)' => work'[r.op].state # "absent"
    BY DEF Fresh
  <2> QED BY <2>1, <2>2 DEF Steady
<1>3. ASSUME r.pc = "drop"
      PROVE  Ended(r.op)'
  BY <1>3 DEF Decided, Applying, Steady
<1> QED BY <1>1, <1>2, <1>3 DEF Decided

LEMMA NothingDecided ==
    ASSUME NEW r, NEW g, r.pc \notin {"settle", "gdelete", "look", "drop"}
    PROVE  Decided(r, g)'
BY DEF Decided

(* One process moves on, with pages that hold and a decision that will. *)
LEMMA PassMoves ==
    ASSUME TypeOK, OpsKnown, PassesFit, Steady, NEW p \in Procs, NEW r,
           r.todo \subseteq Ops, rc' = [rc EXCEPT ![p] = r], Paged(r),
           Decided(r, Generation[p])'
    PROVE  PassesFit'
<1> SUFFICES ASSUME NEW q \in Procs
             PROVE  Paged(rc[q])' /\ Decided(rc[q], Generation[q])'
  BY DEF PassesFit
<1>1. CASE q = p
  <2>1. rc'[p] = r
    BY DEF TypeOK
  <2>2. Paged(r)'
    BY ShownSteady
  <2> QED BY <1>1, <2>1, <2>2
<1>2. CASE q # p
  <2>1. rc'[q] = rc[q] /\ rc[q] \in RecoveryRecord
    BY <1>2 DEF TypeOK
  <2>2. PICK s : s = rc[q]
    OBVIOUS
  <2>3. s.todo \subseteq Ops /\ (s.pc \in Applying => s.op \in Ops)
    BY <2>1, <2>2 DEF RecoveryRecord, OpsKnown
  <2>4. Paged(s) /\ Decided(s, Generation[q])
    BY <2>2 DEF PassesFit
  <2>5. Paged(s)' /\ Decided(s, Generation[q])'
    BY <2>3, <2>4, ShownSteady, DecidedSteady
  <2> QED BY <2>1, <2>2, <2>5
<1> QED BY <1>1, <1>2

LEMMA PassesRest ==
    ASSUME TypeOK, OpsKnown, PassesFit, Steady, UNCHANGED rc
    PROVE  PassesFit'
<1> SUFFICES ASSUME NEW q \in Procs
             PROVE  Paged(rc[q])' /\ Decided(rc[q], Generation[q])'
  BY DEF PassesFit
<1>1. rc[q] \in RecoveryRecord
  BY DEF TypeOK
<1>2. PICK s : s = rc[q]
  OBVIOUS
<1>3. s.todo \subseteq Ops /\ (s.pc \in Applying => s.op \in Ops)
  BY <1>1, <1>2 DEF RecoveryRecord, OpsKnown
<1>4. Paged(s) /\ Decided(s, Generation[q])
  BY <1>2 DEF PassesFit
<1>5. Paged(s)' /\ Decided(s, Generation[q])'
  BY <1>3, <1>4, ShownSteady, DecidedSteady
<1> QED BY <1>2, <1>5

(* Pages that are empty, or just listed. *)
LEMMA BlankPages ==
    ASSUME SpawnInv, NEW r, r.todo = {}, r.miss = {}, r.back = "off",
           \/ r.work = [o \in Ops |-> NoItem]
           \/ r.work = work
    PROVE  Paged(r) /\ r.todo \subseteq Ops
<1>1. ItemPage(r)
  <2>1. CASE r.work = [o \in Ops |-> NoItem]
    BY <2>1 DEF ItemPage, NoItem
  <2>2. CASE r.work = work
    BY <2>2, ItemMade DEF ItemPage, Used, Fresh
  <2> QED BY <2>1, <2>2
<1>2. TaskPage(r) /\ LeftToVisit(r)
  BY DEF TaskPage, LeftToVisit
<1> QED BY <1>1, <1>2 DEF Paged

LEMMA PassOff ==
    ASSUME SpawnInv, PassesFit, Steady, NEW p \in Procs,
           rc' = [rc EXCEPT ![p] = RecOff]
    PROVE  PassesFit'
<1>1. PICK r : r = RecOff
  OBVIOUS
<1>2. /\ r.todo = {} /\ r.miss = {} /\ r.back = "off" /\ r.pc = "off"
      /\ r.work = [o \in Ops |-> NoItem]
  BY <1>1 DEF RecOff
<1>3. Paged(r) /\ r.todo \subseteq Ops
  BY <1>2, BlankPages
<1>4. Decided(r, Generation[p])'
  BY <1>2, NothingDecided
<1> QED BY <1>1, <1>3, <1>4, PassMoves DEF SpawnInv

(* The pages stay, or lose the entry that was visited. *)
LEMMA SamePages ==
    ASSUME NEW s, NEW r, Paged(s), r.work = s.work, r.task = s.task,
           r.todo = s.todo, r.miss \subseteq s.miss,
           InSweep(r) => InSweep(s), InGeneric(r) => InGeneric(s),
           r.pc \in Outside => r.back = "off"
    PROVE  Paged(r)
<1>1. ItemPage(r)
  BY DEF Paged, ItemPage
<1>2. TaskPage(r)
  BY DEF Paged, TaskPage
<1>3. LeftToVisit(r)
  BY DEF Paged, LeftToVisit
<1> QED BY <1>1, <1>2, <1>3 DEF Paged

LEMMA FewerPages ==
    ASSUME NEW s \in RecoveryRecord, NEW r, NEW o \in Ops, Paged(s),
           r.work = [s.work EXCEPT ![o] = NoItem],
           r.task = [s.task EXCEPT ![o] = NoTask],
           r.todo = s.todo \ {o}, r.miss = s.miss,
           InSweep(r) => InSweep(s), InGeneric(r) => InGeneric(s),
           r.pc \in Outside => r.back = "off"
    PROVE  Paged(r) /\ r.todo \subseteq Ops
<1>0. /\ s.work \in [Ops -> ItemRecord] /\ s.task \in [Ops -> TaskRecord]
      /\ s.todo \subseteq Ops
  BY DEF RecoveryRecord
<1>1. \A x \in Ops : \/ x # o /\ r.work[x] = s.work[x] /\ r.task[x] = s.task[x]
                     \/ x = o /\ r.work[x].state = "absent" /\ x \notin r.todo
  BY <1>0 DEF NoItem
<1>2. ItemPage(r)
  BY <1>1 DEF Paged, ItemPage
<1>3. TaskPage(r)
  BY <1>0, <1>1 DEF Paged, TaskPage
<1>4. LeftToVisit(r)
  BY <1>0, <1>1 DEF Paged, LeftToVisit
<1> QED BY <1>0, <1>2, <1>3, <1>4 DEF Paged

LEMMA VisitedShape ==
    ASSUME TypeOK, NEW p \in Procs, NEW o \in Ops
    PROVE  /\ Visited(p, o).pc = rc[p].pc /\ Visited(p, o).back = rc[p].back
           /\ Visited(p, o).goal = rc[p].goal
           /\ Visited(p, o).miss = rc[p].miss
           /\ Visited(p, o).todo = rc[p].todo \ {o}
           /\ Visited(p, o).work = [rc[p].work EXCEPT ![o] = NoItem]
           /\ Visited(p, o).task = [rc[p].task EXCEPT ![o] = NoTask]
<1>0. rc[p] \in RecoveryRecord
  BY DEF TypeOK
<1>1. /\ Visited(p, o).pc = rc[p].pc /\ Visited(p, o).back = rc[p].back
      /\ Visited(p, o).goal = rc[p].goal
      /\ Visited(p, o).miss = rc[p].miss
  BY <1>0 DEF Visited, RecoveryRecord
<1>2. Visited(p, o).todo = rc[p].todo \ {o}
  BY <1>0 DEF Visited, RecoveryRecord
<1>3. Visited(p, o).work = [rc[p].work EXCEPT ![o] = NoItem]
  BY <1>0 DEF Visited, RecoveryRecord
<1>4. Visited(p, o).task = [rc[p].task EXCEPT ![o] = NoTask]
  BY <1>0 DEF Visited, RecoveryRecord
<1> QED BY <1>1, <1>2, <1>3, <1>4

LEMMA VisitFits ==
    ASSUME SpawnInv, PassesFit, Steady, NEW p \in Procs, NEW o \in Ops,
           rc[p].pc \in {"sweep", "gsweep"}, Visit(p, o)
    PROVE  PassesFit'
<1>0. TypeOK /\ OpsKnown /\ rc[p] \in RecoveryRecord
  BY DEF SpawnInv, TypeOK
<1>1. PICK s : s = rc[p]
  OBVIOUS
<1>2. PICK r : r = Visited(p, o)
  OBVIOUS
<1>3. /\ r.pc = s.pc /\ r.back = s.back /\ r.miss = s.miss
      /\ r.todo = s.todo \ {o}
      /\ r.work = [s.work EXCEPT ![o] = NoItem]
      /\ r.task = [s.task EXCEPT ![o] = NoTask]
  BY <1>0, <1>1, <1>2, VisitedShape
<1>4. Paged(s) /\ s \in RecoveryRecord /\ s.pc \in {"sweep", "gsweep"}
  BY <1>0, <1>1 DEF PassesFit
<1>5. Paged(r) /\ r.todo \subseteq Ops
  BY <1>3, <1>4, FewerPages DEF InSweep, InGeneric, Outside
<1>6. Decided(r, Generation[p])'
  BY <1>3, <1>4, NothingDecided
<1> QED BY <1>0, <1>2, <1>5, <1>6, PassMoves DEF Visit

(* The sweep decides on a cancellation or an end only with good reason. *)
LEMMA DecisionIsFounded ==
    ASSUME TypeOK, PassesFit, NEW p \in Procs, NEW o \in Ops,
           rc[p].pc = "sweep", o \in rc[p].todo
    PROVE  /\ Decision(p, o) = "cancelled" => CancelAsked(o)
           /\ Decision(p, o) \in {"failed", "orphaned"} =>
                 Made(o) /\ (Fresh(o) => work[o].gen < Generation[p])
           /\ Decision(p, o) = "discard" => Ended(o)
<1>1. PICK s : s = rc[p]
  OBVIOUS
<1>2. Paged(s) /\ s.pc = "sweep" /\ o \in s.todo
  BY <1>1 DEF PassesFit
<1>3. /\ s.work[o].state # "absent" /\ s.task[o].state # "absent"
      /\ s.task[o].state \in TerminalStates => Ended(o)
      /\ s.task[o].cancel => CancelAsked(o)
      /\ Made(o) /\ (work[o].state # "absent"
                        => work[o].gen = s.work[o].gen)
      /\ s.work[o].state = "claimed" => Used(o)
  BY <1>2 DEF Paged, ItemPage, TaskPage, LeftToVisit, InSweep
<1>4. /\ Decision(p, o) = "cancelled" => s.task[o].cancel
      /\ Decision(p, o) \in {"failed", "orphaned"} =>
            s.work[o].gen < Generation[p] \/ s.work[o].state = "claimed"
      /\ Decision(p, o) = "discard" =>
            s.task[o].state \in TerminalStates \cup {"absent"}
  BY <1>1 DEF Decision, Disposition, StaleGeneration
<1> QED BY <1>3, <1>4 DEF Used, Fresh

LEMMA SettlingFits ==
    ASSUME SpawnInv, PassesFit, Steady, NEW p \in Procs, NEW o \in Ops,
           NEW b, rc[p].pc = "sweep", o \in rc[p].todo,
           Decision(p, o) \in {"cancelled", "orphaned", "failed"},
           Settling(p, o, Decision(p, o), b)
    PROVE  PassesFit'
<1>0. TypeOK /\ OpsKnown /\ rc[p] \in RecoveryRecord
      /\ Visited(p, o) \in RecoveryRecord
  BY VisitType DEF SpawnInv, TypeOK
<1>1. PICK s : s = rc[p]
  OBVIOUS
<1>2. PICK v : v = Visited(p, o)
  OBVIOUS
<1>3. PICK w, goal :
         /\ goal = Decision(p, o)
         /\ rc' = [rc EXCEPT ![p] = [v EXCEPT !.pc = "settle", !.op = o,
                      !.goal = goal, !.bnd = b, !.back = "sweep",
                      !.owner = w]]
  BY <1>2 DEF Settling
<1>4. PICK r : r = [v EXCEPT !.pc = "settle", !.op = o, !.goal = goal,
                              !.bnd = b, !.back = "sweep", !.owner = w]
  OBVIOUS
<1>5. /\ r.pc = "settle" /\ r.op = o /\ r.goal = goal /\ r.back = "sweep"
      /\ r.miss = v.miss /\ r.todo = v.todo /\ r.work = v.work
      /\ r.task = v.task
  BY <1>0, <1>2, <1>4 DEF RecoveryRecord
<1>6. /\ v.miss = s.miss /\ v.todo = s.todo \ {o}
      /\ v.work = [s.work EXCEPT ![o] = NoItem]
      /\ v.task = [s.task EXCEPT ![o] = NoTask]
  BY <1>0, <1>1, <1>2, VisitedShape
<1>7. Paged(s) /\ s \in RecoveryRecord /\ s.pc = "sweep"
  BY <1>0, <1>1 DEF PassesFit
<1>8. Paged(r) /\ r.todo \subseteq Ops
  BY <1>5, <1>6, <1>7, FewerPages DEF InSweep, InGeneric, Outside
<1>9. Decided(r, Generation[p])
  BY <1>0, <1>3, <1>5, DecisionIsFounded DEF Decided
<1>10. Decided(r, Generation[p])'
  BY <1>5, <1>9, DecidedSteady
<1> QED BY <1>0, <1>3, <1>4, <1>8, <1>10, PassMoves

LEMMA ResumeFits ==
    ASSUME SpawnInv, PassesFit, Steady, NEW p \in Procs,
           \/ rc[p].pc = "requeue"
           \/ rc[p].pc \in {"settle", "drop"} /\ rc[p].back # "off",
           Resume(p)
    PROVE  PassesFit'
<1>0. TypeOK /\ OpsKnown /\ rc[p] \in RecoveryRecord
  BY DEF SpawnInv, TypeOK
<1>1. PICK s : s = rc[p]
  OBVIOUS
<1>2. PICK pc, r :
         /\ pc = IF s.pc = "requeue" THEN "sweep" ELSE s.back
         /\ r = [s EXCEPT !.pc = pc, !.op = None, !.goal = "failed",
                          !.owner = None, !.bnd = NoBinding, !.back = "off"]
  OBVIOUS
<1>3. rc' = [rc EXCEPT ![p] = r]
  BY <1>1, <1>2 DEF Resume
<1>5. Paged(s) /\ s \in RecoveryRecord
      /\ s.back \in {"off", "sweep", "gsweep"}
  BY <1>0, <1>1 DEF PassesFit, RecoveryRecord
<1>6. /\ r.pc = pc /\ r.back = "off" /\ r.miss = s.miss /\ r.todo = s.todo
      /\ r.work = s.work /\ r.task = s.task
  BY <1>2, <1>5 DEF RecoveryRecord
<1>a. \/ s.pc = "requeue" /\ r.pc = "sweep"
      \/ s.back = "sweep" /\ r.pc = "sweep"
      \/ s.back = "gsweep" /\ r.pc = "gsweep"
  <2>1. CASE s.pc = "requeue"
    BY <1>2, <1>6, <2>1
  <2>2. CASE s.pc # "requeue"
    <3>1. s.back # "off" /\ pc = s.back
      BY <1>1, <1>2, <2>2
    <3> QED BY <1>5, <1>6, <3>1
  <2> QED BY <2>1, <2>2
<1>7. Paged(r)
  BY <1>a, <1>5, <1>6, SamePages DEF InSweep, InGeneric, Outside
<1>8. r.todo \subseteq Ops
  BY <1>5, <1>6 DEF RecoveryRecord
<1>9. Decided(r, Generation[p])'
  BY <1>a, NothingDecided
<1> QED BY <1>0, <1>3, <1>7, <1>8, <1>9, PassMoves

LEMMA GotoFits ==
    ASSUME SpawnInv, PassesFit, Steady, NEW p \in Procs, NEW pc, Goto(p, pc),
           rc[p].pc \in {"settle", "gdelete"},
           \/ pc = "settle" /\ rc[p].pc = "gdelete"
           \/ pc = "drop" /\ Ended(rc[p].op)'
    PROVE  PassesFit'
<1>0. TypeOK /\ OpsKnown /\ rc[p] \in RecoveryRecord
  BY DEF SpawnInv, TypeOK
<1>1. PICK s : s = rc[p]
  OBVIOUS
<1>2. PICK r : r = [s EXCEPT !.pc = pc]
  OBVIOUS
<1>3. rc' = [rc EXCEPT ![p] = r]
  BY <1>1, <1>2 DEF Goto
<1>4. /\ Paged(s) /\ Decided(s, Generation[p]) /\ s \in RecoveryRecord
      /\ s.pc \in Applying /\ s.op \in Ops
  BY <1>0, <1>1 DEF PassesFit, OpsKnown, Applying
<1>5. /\ r.pc = pc /\ r.back = s.back /\ r.miss = s.miss /\ r.todo = s.todo
      /\ r.work = s.work /\ r.task = s.task /\ r.op = s.op
      /\ r.goal = s.goal /\ r.todo \subseteq Ops
  BY <1>2, <1>4 DEF RecoveryRecord
<1>6. Paged(r)
  BY <1>4, <1>5, SamePages DEF InSweep, InGeneric, Outside
<1>7. Decided(r, Generation[p])'
  <2>1. CASE pc = "settle" /\ s.pc = "gdelete"
    <3>1. Decided(r, Generation[p])
      BY <1>4, <1>5, <2>1 DEF Decided
    <3> QED BY <1>4, <1>5, <3>1, DecidedSteady
  <2>2. CASE pc = "drop" /\ Ended(rc[p].op)'
    <3>1. Ended(r.op)'
      <4>1. rc'[p].op = r.op
        BY <1>0, <1>3 DEF TypeOK
      <4> QED BY <2>2, <4>1
    <3> QED BY <1>5, <2>2, <3>1 DEF Decided
  <2> QED BY <1>1, <2>1, <2>2
<1> QED BY <1>0, <1>3, <1>5, <1>6, <1>7, PassMoves

LEMMA ListTasksFits ==
    ASSUME SpawnInv, PassesFit, Steady, NEW p \in Procs, ListTasks(p)
    PROVE  PassesFit'
<1>0. TypeOK /\ OpsKnown /\ rc \in [Procs -> RecoveryRecord]
  BY DEF SpawnInv, TypeOK
<1>1. PICK s : s = rc[p]
  OBVIOUS
<1>2. PICK r : r = rc'[p]
  OBVIOUS
<1>3. rc' = [rc EXCEPT ![p] = r] /\ r.pc = "sweep" /\ s.pc = "list"
  BY <1>0, <1>1, <1>2, ListTasksShape
<1>4. r.work = s.work /\ r.back = s.back
  <2>1. PICK t, d, m : rc' = [rc EXCEPT ![p].pc = "sweep", ![p].task = t,
                                 ![p].todo = d, ![p].miss = m]
    BY DEF ListTasks
  <2>2. r = [s EXCEPT !.pc = "sweep", !.task = t, !.todo = d, !.miss = m]
        /\ s \in RecoveryRecord
    BY <1>0, <1>1, <1>2, <2>1
  <2> QED BY <2>2, Zenon DEF RecoveryRecord
<1>5. r.task = task
  BY <1>0, <1>1, <1>2 DEF ListTasks, RecoveryRecord
<1>6. r.todo = {o \in Ops : s.work[o].state # "absent"}
  <2>1. rc'[p].todo = {o \in Ops : rc[p].work[o].state # "absent"}
    BY <1>0 DEF ListTasks, RecoveryRecord
  <2> QED BY <1>1, <1>2, <2>1
<1>7. r.miss = {o \in aged : /\ task[o].state = "pending"
                             /\ s.work[o].state = "absent"}
  BY <1>0, <1>1, <1>2 DEF ListTasks, RecoveryRecord
<1>8. Paged(s) /\ s.back = "off"
  BY <1>1, <1>3 DEF PassesFit, Paged, LeftToVisit, Outside
<1>9. ItemPage(r)
  BY <1>4, <1>8 DEF Paged, ItemPage
<1>10. TaskPage(r)
  BY <1>5, <1>6, <1>8 DEF Paged, ItemPage, TaskPage, Made, Ended, CancelAsked
<1>11. LeftToVisit(r)
  BY <1>3, <1>4, <1>6, <1>7, <1>8 DEF LeftToVisit, InSweep, InGeneric, Outside
<1>12. Decided(r, Generation[p])' /\ r.todo \subseteq Ops
  BY <1>3, <1>6, NothingDecided
<1> QED BY <1>0, <1>3, <1>9, <1>10, <1>11, <1>12, PassMoves DEF Paged

LEMMA GenericListFits ==
    ASSUME SpawnInv, PassesFit, RunningUsed, Steady, NEW p \in Procs,
           GenericList(p)
    PROVE  PassesFit'
<1>0. TypeOK /\ OpsKnown /\ rc \in [Procs -> RecoveryRecord]
  BY DEF SpawnInv, TypeOK
<1>1. PICK s : s = rc[p]
  OBVIOUS
<1>2. PICK r : r = rc'[p]
  OBVIOUS
<1>3. rc' = [rc EXCEPT ![p] = r] /\ r.pc = "gsweep" /\ s.pc = "glist"
  BY <1>0, <1>1, <1>2, GenericListShape
<1>4. r.work = s.work /\ r.back = s.back /\ r.miss = s.miss
  BY <1>0, <1>1, <1>2 DEF GenericList, RecoveryRecord
<1>5. r.task = task
  BY <1>0, <1>1, <1>2 DEF GenericList, RecoveryRecord
<1>6. r.todo = {o \in Ops : task[o].state = "running"}
  BY <1>0, <1>1, <1>2 DEF GenericList, RecoveryRecord
<1>7. Paged(s) /\ s.back = "off"
  BY <1>1, <1>3 DEF PassesFit, Paged, LeftToVisit, Outside
<1>8. ItemPage(r)
  BY <1>4, <1>7 DEF Paged, ItemPage
<1>9. TaskPage(r)
  BY <1>5, <1>6 DEF TaskPage, Ended, CancelAsked
<1>10. LeftToVisit(r)
  BY <1>3, <1>4, <1>6, <1>7 DEF Paged, LeftToVisit, InSweep, InGeneric,
     Outside, RunningUsed
<1>11. Decided(r, Generation[p])' /\ r.todo \subseteq Ops
  BY <1>3, <1>6, NothingDecided
<1> QED BY <1>0, <1>3, <1>8, <1>9, <1>10, <1>11, PassMoves DEF Paged

LEMMA GenericReapFits ==
    ASSUME SpawnInv, PassesFit, Steady, NEW p \in Procs, NEW o \in Ops,
           GenericReap(p, o)
    PROVE  PassesFit'
<1>0. TypeOK /\ OpsKnown /\ rc[p] \in RecoveryRecord
      /\ Visited(p, o) \in RecoveryRecord
  BY VisitType DEF SpawnInv, TypeOK
<1>1. PICK s : s = rc[p]
  OBVIOUS
<1>2. PICK v : v = Visited(p, o)
  OBVIOUS
<1>3. PICK pc \in {"settle", "gdelete"} :
         rc' = [rc EXCEPT ![p] = [Visited(p, o) EXCEPT
                  !.op = o, !.goal = "orphaned", !.back = "gsweep",
                  !.owner = None, !.bnd = NoBinding, !.pc = pc]]
  BY GenericReapShape
<1>4. PICK r : r = [v EXCEPT !.op = o, !.goal = "orphaned",
                      !.back = "gsweep", !.owner = None, !.bnd = NoBinding,
                      !.pc = pc]
  OBVIOUS
<1>5. /\ r.pc = pc /\ r.op = o /\ r.goal = "orphaned" /\ r.back = "gsweep"
      /\ r.miss = v.miss /\ r.todo = v.todo /\ r.work = v.work
      /\ r.task = v.task
  BY <1>0, <1>2, <1>4 DEF RecoveryRecord
<1>6. /\ v.miss = s.miss /\ v.todo = s.todo \ {o}
      /\ v.work = [s.work EXCEPT ![o] = NoItem]
      /\ v.task = [s.task EXCEPT ![o] = NoTask]
  BY <1>0, <1>1, <1>2, VisitedShape
<1>7. /\ Paged(s) /\ s \in RecoveryRecord
      /\ s.pc = "gsweep" /\ o \in s.todo
  BY <1>0, <1>1 DEF PassesFit, GenericReap
<1>8. Paged(r) /\ r.todo \subseteq Ops
  BY <1>3, <1>5, <1>6, <1>7, FewerPages DEF InSweep, InGeneric, Outside
<1>9. Used(o)
  BY <1>7 DEF Paged, LeftToVisit, InGeneric
<1>10. Decided(r, Generation[p])
  BY <1>3, <1>5, <1>9 DEF Decided, Used
<1>11. Decided(r, Generation[p])'
  BY <1>5, <1>10, DecidedSteady
<1> QED BY <1>0, <1>2, <1>3, <1>4, <1>8, <1>11, PassMoves

LEMMA RequeueItemFits ==
    ASSUME SpawnInv, PassesFit, Steady, NEW p \in Procs, NEW o \in Ops,
           RequeueItem(p, o)
    PROVE  PassesFit'
<1>0. TypeOK /\ OpsKnown /\ rc[p] \in RecoveryRecord
      /\ Visited(p, o) \in RecoveryRecord /\ rc[p].pc = "sweep"
  BY VisitType, RequeueItemShape DEF SpawnInv, TypeOK
<1>1. CASE Visit(p, o)
  BY <1>0, <1>1, VisitFits
<1>2. CASE Abort(p)
  BY <1>2, PassOff DEF Abort
<1>3. CASE rc' = [rc EXCEPT ![p] = [Visited(p, o) EXCEPT !.op = o,
                                       !.pc = "requeue"]]
  <2>1. PICK s : s = rc[p]
    OBVIOUS
  <2>2. PICK v : v = Visited(p, o)
    OBVIOUS
  <2>3. PICK r : r = [v EXCEPT !.op = o, !.pc = "requeue"]
    OBVIOUS
  <2>4. /\ r.pc = "requeue" /\ r.back = v.back /\ r.miss = v.miss
        /\ r.todo = v.todo /\ r.work = v.work /\ r.task = v.task
    BY <1>0, <2>2, <2>3 DEF RecoveryRecord
  <2>5. /\ v.miss = s.miss /\ v.todo = s.todo \ {o} /\ v.back = s.back
        /\ v.work = [s.work EXCEPT ![o] = NoItem]
        /\ v.task = [s.task EXCEPT ![o] = NoTask]
    BY <1>0, <2>1, <2>2, VisitedShape
  <2>6. Paged(s) /\ s \in RecoveryRecord /\ s.pc = "sweep"
    BY <1>0, <2>1 DEF PassesFit
  <2>7. Paged(r) /\ r.todo \subseteq Ops
    BY <2>4, <2>5, <2>6, FewerPages DEF InSweep, InGeneric, Outside
  <2>8. Decided(r, Generation[p])'
    BY <2>4, NothingDecided
  <2> QED BY <1>0, <1>3, <2>2, <2>3, <2>7, <2>8, PassMoves
<1> QED BY <1>1, <1>2, <1>3, RequeueItemShape

LEMMA BeginFits ==
    ASSUME SpawnInv, PassesFit, Steady, NEW p \in Procs, NEW b,
           rc' = [rc EXCEPT ![p] = [RecOff EXCEPT !.pc = "list",
                                       !.work = work, !.startup = b]]
    PROVE  PassesFit'
<1>1. PICK r : r = [RecOff EXCEPT !.pc = "list", !.work = work,
                                  !.startup = b]
  OBVIOUS
<1>2. /\ r.todo = {} /\ r.miss = {} /\ r.back = "off" /\ r.pc = "list"
      /\ r.work = work
  BY <1>1 DEF RecOff
<1>3. Paged(r) /\ r.todo \subseteq Ops
  BY <1>2, BlankPages
<1>4. Decided(r, Generation[p])'
  BY <1>2, NothingDecided
<1> QED BY <1>1, <1>3, <1>4, PassMoves DEF SpawnInv

LEMMA SettleFits ==
    ASSUME SpawnInv, PassesFit, Steady, NEW p \in Procs, Settle(p)
    PROVE  PassesFit'
<1>0. TypeOK /\ OpsKnown /\ rc[p] \in RecoveryRecord
  BY DEF SpawnInv, TypeOK
<1>1. /\ rc[p].pc = "settle" /\ rc[p].op \in Ops
      /\ rc[p].goal \in TerminalStates
  BY <1>0 DEF Settle, OpsKnown, Applying, RecoveryRecord
<1>2. PICK o \in Ops, g \in TerminalStates : o = rc[p].op /\ g = rc[p].goal
  BY <1>1
<1>3. CASE Abort(p)
  BY <1>3, PassOff DEF Abort
<1>4. CASE Resume(p) /\ rc[p].back # "off"
  BY <1>1, <1>4, ResumeFits
<1>5. CASE /\ Goto(p, "drop")
           /\ \/ WriteTask(p, o, Terminalized(task[o], g))
              \/ TransitionRepeats(task[o], g, rc[p].owner) /\ KeepTask(p)
  <2>1. task'[o].state \in TerminalStates
    <3>1. CASE WriteTask(p, o, Terminalized(task[o], g))
      <4>1. task'[o] = Terminalized(task[o], g) /\ task[o] \in TaskRecord
        BY <1>0, <3>1, OneWrite
      <4> QED BY <4>1 DEF Terminalized, TaskRecord
    <3>2. CASE TransitionRepeats(task[o], g, rc[p].owner) /\ KeepTask(p)
      BY <3>2 DEF TransitionRepeats, KeepTask, TerminalStates
    <3> QED BY <1>5, <3>1, <3>2
  <2>2. rc'[p].op = o
    BY <1>0, <1>2, <1>5 DEF Goto, TypeOK, RecoveryRecord
  <2>3. Ended(rc[p].op)'
    BY <2>1, <2>2 DEF Ended
  <2> QED BY <1>1, <1>5, <2>3, GotoFits
<1> QED BY <1>2, <1>3, <1>4, <1>5 DEF Settle

LEMMA FailMissingFits ==
    ASSUME SpawnInv, PassesFit, Steady, NEW p \in Procs, NEW o \in Ops,
           FailMissing(p, o)
    PROVE  PassesFit'
<1>0. TypeOK /\ OpsKnown /\ rc[p] \in RecoveryRecord
  BY DEF SpawnInv, TypeOK
<1>1. CASE Abort(p)
  BY <1>1, PassOff DEF Abort
<1>2. CASE rc' = [rc EXCEPT ![p].miss = @ \ {o}]
  <2>1. PICK s : s = rc[p]
    OBVIOUS
  <2>2. PICK r : r = [s EXCEPT !.miss = s.miss \ {o}]
    OBVIOUS
  <2>3. rc' = [rc EXCEPT ![p] = r]
    BY <1>2, <2>1, <2>2
  <2>4. Paged(s) /\ s \in RecoveryRecord /\ s.pc = "sweep"
    BY <1>0, <2>1 DEF PassesFit, FailMissing
  <2>5. /\ r.pc = s.pc /\ r.back = s.back /\ r.miss \subseteq s.miss
        /\ r.todo = s.todo /\ r.work = s.work /\ r.task = s.task
        /\ r.todo \subseteq Ops
    BY <2>2, <2>4 DEF RecoveryRecord
  <2>6. Paged(r)
    BY <2>4, <2>5, SamePages DEF InSweep, InGeneric, Outside
  <2>7. Decided(r, Generation[p])'
    BY <2>4, <2>5, NothingDecided
  <2> QED BY <1>0, <2>3, <2>5, <2>6, <2>7, PassMoves
<1> QED BY <1>1, <1>2 DEF FailMissing

LEMMA RecoveryFits ==
    ASSUME SpawnInv, FreshInv, Steady, NEW p \in Procs,
           RecoveryBegins(p) \/ RecoveryStep(p)
    PROVE  PassesFit'
<1>0. /\ TypeOK /\ OpsKnown /\ rc[p] \in RecoveryRecord
      /\ PassesFit /\ RunningUsed
  BY DEF SpawnInv, TypeOK, FreshInv
<1>1. CASE RecoveryBegins(p)
  <2>1. PICK b : rc' = [rc EXCEPT ![p] = [RecOff EXCEPT !.pc = "list",
                                             !.work = work, !.startup = b]]
    BY <1>1, Zenon DEF RecoveryBegins
  <2> QED BY <1>0, <2>1, BeginFits
<1>2. ASSUME NEW o \in Ops,
             \/ DiscardOrphanItem(p, o) \/ LeaveItem(p, o)
             \/ Blocked(p, o) \/ GenericLeave(p, o)
      PROVE  PassesFit'
  BY <1>0, <1>2, VisitFits DEF DiscardOrphanItem, LeaveItem, Blocked,
     GenericLeave
<1>3. ASSUME NEW o \in Ops, SettleUnstarted(p, o)
      PROVE  PassesFit'
  BY <1>0, <1>3, SettlingFits DEF SettleUnstarted
<1>4. ASSUME NEW o \in Ops, Contain(p, o)
      PROVE  PassesFit'
  <2>1. PICK b : b = binding[o]
    OBVIOUS
  <2> QED BY <1>0, <1>4, <2>1, SettlingFits DEF Contain, NeedsContainment
<1>5. ASSUME NEW o \in Ops,
             RequeueItem(p, o) \/ FailMissing(p, o) \/ GenericReap(p, o)
      PROVE  PassesFit'
  BY <1>0, <1>5, RequeueItemFits, FailMissingFits, GenericReapFits
<1>6. CASE RequeueTask(p)
  BY <1>0, <1>6, ResumeFits, PassOff DEF RequeueTask, Abort
<1>7. CASE Drop(p)
  BY <1>0, <1>7, ResumeFits, PassOff DEF Drop
<1>8. CASE PassEnds(p)
  <2>1. CASE rc' = [rc EXCEPT ![p] = RecOff]
    BY <1>0, <2>1, PassOff
  <2>2. CASE rc' = [rc EXCEPT ![p] = [RecOff EXCEPT !.pc = "glist"]]
    <3>1. PICK r : r = [RecOff EXCEPT !.pc = "glist"]
      OBVIOUS
    <3>2. /\ r.todo = {} /\ r.miss = {} /\ r.back = "off" /\ r.pc = "glist"
          /\ r.work = [o \in Ops |-> NoItem]
      BY <3>1 DEF RecOff
    <3>3. Paged(r) /\ r.todo \subseteq Ops
      BY <3>2, BlankPages
    <3>4. Decided(r, Generation[p])'
      BY <3>2, NothingDecided
    <3> QED BY <1>0, <2>2, <3>1, <3>3, <3>4, PassMoves
  <2> QED BY <1>8, <2>1, <2>2 DEF PassEnds
<1>9. CASE GenericDelete(p)
  BY <1>0, <1>9, GotoFits DEF GenericDelete
<1>10. CASE PruneBindings(p)
  BY <1>0, <1>10, PassOff DEF PruneBindings
<1> QED BY <1>0, <1>1, <1>2, <1>3, <1>4, <1>5, <1>6, <1>7, <1>8, <1>9, <1>10,
   ListTasksFits, GenericListFits, SettleFits DEF RecoveryStep

LEMMA ControlFits ==
    ASSUME SpawnInv, PassesFit, Steady, NEW c \in Controls,
           Admission(c) \/ Cancellation(c) \/ ControlCrash(c)
    PROVE  PassesFit'
<1>0. /\ TypeOK /\ OpsKnown /\ c \in Procs
      /\ rc[c] \in RecoveryRecord /\ rc \in [Procs -> RecoveryRecord]
  BY DEF SpawnInv, TypeOK, Procs
<1>1. PICK s : s = rc[c]
  OBVIOUS
<1>2. Paged(s) /\ Decided(s, Generation[c]) /\ s \in RecoveryRecord
  BY <1>0, <1>1 DEF PassesFit
<1>3. CASE rc' = [rc EXCEPT ![c] = RecOff]
  BY <1>0, <1>3, PassOff
<1>4. ASSUME NEW r, rc' = [rc EXCEPT ![c] = r], s.pc \in {"off", "record"},
             r.pc \in {"record", "enqueue"}, r.back = s.back,
             r.miss = s.miss, r.todo = s.todo, r.work = s.work,
             r.task = s.task
      PROVE  PassesFit'
  <2>1. s.back = "off"
    BY <1>2, <1>4 DEF Paged, LeftToVisit, Outside
  <2>2. Paged(r)
    BY <1>2, <1>4, <2>1, SamePages DEF InSweep, InGeneric
  <2>3. Decided(r, Generation[c])'
    BY <1>4, NothingDecided
  <2>4. r.todo \subseteq Ops
    BY <1>2, <1>4 DEF RecoveryRecord
  <2> QED BY <1>0, <1>4, <2>2, <2>3, <2>4, PassMoves
<1>5. ASSUME NEW o \in Ops, AdmitCheck(c, o)
      PROVE  PassesFit'
  <2>1. PICK r : r = [s EXCEPT !.pc = "record", !.op = o]
    OBVIOUS
  <2>2. s.pc = "off" /\ rc' = [rc EXCEPT ![c] = r]
    BY <1>0, <1>1, <1>5, <2>1 DEF AdmitCheck
  <2>3. /\ r.pc = "record" /\ r.back = s.back /\ r.miss = s.miss
        /\ r.todo = s.todo /\ r.work = s.work /\ r.task = s.task
    BY <1>2, <2>1 DEF RecoveryRecord
  <2> QED BY <1>4, <2>2, <2>3
<1>6. CASE AdmitRecord(c)
  <2>1. PICK r : r = [s EXCEPT !.pc = "enqueue"]
    OBVIOUS
  <2>2. s.pc = "record" /\ rc' = [rc EXCEPT ![c] = r]
    BY <1>0, <1>1, <1>6, <2>1 DEF AdmitRecord
  <2>3. /\ r.pc = "enqueue" /\ r.back = s.back /\ r.miss = s.miss
        /\ r.todo = s.todo /\ r.work = s.work /\ r.task = s.task
    BY <1>2, <2>1 DEF RecoveryRecord
  <2> QED BY <1>4, <2>2, <2>3
<1>7. CASE AdmitEnqueue(c) \/ AdmitFails(c) \/ ControlCrash(c)
  BY <1>3, <1>7 DEF AdmitEnqueue, AdmitFails, ControlCrash
<1>8. ASSUME NEW o \in Ops, CancelOperation(c, o)
      PROVE  PassesFit'
  <2>1. PICK t : rc' = [rc EXCEPT ![c] = [RecOff EXCEPT !.pc = "look",
                           !.op = o, !.goal = "cancelled", !.task = t]]
    BY <1>8 DEF CancelOperation
  <2>2. PICK r : r = [RecOff EXCEPT !.pc = "look", !.op = o,
                                    !.goal = "cancelled", !.task = t]
    OBVIOUS
  <2>3. /\ r.todo = {} /\ r.miss = {} /\ r.back = "off" /\ r.pc = "look"
        /\ r.work = [x \in Ops |-> NoItem] /\ r.goal = "cancelled"
        /\ r.op = o
    BY <2>2 DEF RecOff
  <2>4. Paged(r) /\ r.todo \subseteq Ops
    BY <2>3, BlankPages
  <2>5. task[o].state \in {"pending", "running"} /\ task[o] \in TaskRecord
    BY <1>0, <1>8 DEF CancelOperation, TypeOK
  <2>6. task'[o].state = task[o].state /\ task'[o].cancel = TRUE
    <3>1. CASE task[o].cancel /\ KeepTask(c)
      BY <2>5, <3>1 DEF KeepTask, TaskRecord
    <3>2. CASE WriteTask(c, o, CancelRequested(task[o]))
      <4>1. task'[o] = CancelRequested(task[o])
        BY <1>0, <3>2, OneWrite
      <4> QED BY <2>5, <4>1 DEF CancelRequested, TaskRecord
    <3> QED BY <1>8, <3>1, <3>2 DEF CancelOperation
  <2>7. CancelAsked(o)'
    BY <2>5, <2>6 DEF CancelAsked
  <2>8. Decided(r, Generation[c])'
    BY <2>3, <2>7 DEF Decided
  <2> QED BY <1>0, <2>1, <2>2, <2>4, <2>8, PassMoves
<1>9. CASE CancelLooks(c)
  <2>1. ASSUME NEW b, NEW w, rc' = [rc EXCEPT ![c] = [rc[c] EXCEPT
                 !.pc = "settle", !.bnd = b, !.owner = w]]
        PROVE  PassesFit'
    <3>1. PICK r : r = [s EXCEPT !.pc = "settle", !.bnd = b, !.owner = w]
      OBVIOUS
    <3>2. /\ r.pc = "settle" /\ r.back = s.back /\ r.miss = s.miss
          /\ r.todo = s.todo /\ r.work = s.work /\ r.task = s.task
          /\ r.op = s.op /\ r.goal = s.goal /\ r.todo \subseteq Ops
      BY <1>2, <3>1 DEF RecoveryRecord
    <3>3. s.pc = "look" /\ s.op \in Ops
      BY <1>0, <1>1, <1>9 DEF CancelLooks, OpsKnown, Applying
    <3>4. Paged(r)
      BY <1>2, <3>2, SamePages DEF InSweep, InGeneric, Outside
    <3>5. Decided(r, Generation[c])
      BY <1>2, <3>2, <3>3 DEF Decided
    <3>6. Decided(r, Generation[c])'
      BY <3>2, <3>3, <3>5, DecidedSteady
    <3> QED BY <1>0, <1>1, <2>1, <3>1, <3>2, <3>4, <3>6, PassMoves
  <2>2. \/ rc' = [rc EXCEPT ![c] = RecOff]
        \/ \E b, w : rc' = [rc EXCEPT ![c] = [rc[c] EXCEPT
                              !.pc = "settle", !.bnd = b, !.owner = w]]
    BY <1>9 DEF CancelLooks
  <2> QED BY <1>3, <2>1, <2>2
<1> QED BY <1>5, <1>6, <1>7, <1>8, <1>9 DEF Admission, Cancellation

LEMMA WorkerFits ==
    ASSUME SpawnInv, PassesFit, Steady, NEW w \in Workers,
           \/ StartWorker(w) \/ WorkerStep(w) \/ Heartbeat(w)
           \/ ChildExits(w) \/ WorkerCrash(w)
    PROVE  PassesFit'
<1>0. TypeOK /\ OpsKnown /\ w \in Procs
  BY DEF SpawnInv, Procs
<1>1. CASE StartWorker(w)
  BY <1>0, <1>1, BeginFits DEF StartWorker
<1>2. CASE WorkerCrash(w)
  BY <1>0, <1>2, PassOff DEF WorkerCrash
<1>3. CASE WorkerStep(w) \/ Heartbeat(w) \/ ChildExits(w)
  <2>1. UNCHANGED rc
    BY <1>3 DEF WorkerStep, Handoff, StartTask, StartRaises, AcquireLock,
       CrossSpawnBoundary, Spawn, BindCheck, BindPut, OpenGate, NextCommand,
       HandlerReturns, HandlerRaises, StoreResult, HandleException, Commit,
       CommitRaises, ReleaseBinding, DiscardItem, ClaimNext, Heartbeat,
       ChildExits
  <2> QED BY <1>0, <2>1, PassesRest
<1> QED BY <1>1, <1>2, <1>3

(* The inductive invariant behind FreshWorkKept. *)
KeepInv == PassesAlive /\ PassesNeverSucceed /\ FreshInv

LEMMA InitKeepInv == Init => KeepInv
<1> SUFFICES ASSUME Init
             PROVE  KeepInv
  OBVIOUS
<1>1. SpawnInv /\ PassesAlive /\ PassesNeverSucceed /\ RecordIsFirst
  BY InitSpawnInv, InitLifeInv DEF LifeInv
<1>2. ClaimsCounted /\ RunningUsed
  BY DEF Init, ClaimsCounted, RunningUsed, NoItem, NoTask
<1>3. WorkersUse
  BY DEF Init, WorkersUse, WorkerOff, Engaged, WorkerPcs
<1>4. PassesFit
  <2> SUFFICES ASSUME NEW p \in Procs
               PROVE  Paged(rc[p]) /\ Decided(rc[p], Generation[p])
    BY DEF PassesFit
  <2>1. PICK r : r = rc[p]
    OBVIOUS
  <2>2. /\ r.todo = {} /\ r.miss = {} /\ r.back = "off" /\ r.pc = "off"
        /\ r.work = [o \in Ops |-> NoItem]
    BY <2>1 DEF Init, RecOff
  <2>3. Paged(r)
    BY <1>1, <2>2, BlankPages
  <2>4. Decided(r, Generation[p])
    BY <2>2 DEF Decided
  <2> QED BY <2>1, <2>3, <2>4
<1> QED BY <1>1, <1>2, <1>3, <1>4 DEF KeepInv, FreshInv

(* No pass turns into an admission. *)
LEMMA PassesStayCalm ==
    ASSUME SpawnInv, PassesAlive, PassesNeverSucceed, [Next]_vars
    PROVE  \/ CalmPasses
           \/ \E c \in Controls : \E o \in Ops : AdmitCheck(c, o)
<1>0. TypeOK /\ OpsKnown
  BY DEF SpawnInv
<1>1. ASSUME UNCHANGED rc
      PROVE  CalmPasses
  BY <1>1 DEF CalmPasses
<1>2. ASSUME NEW c \in Controls, AdmitRecord(c)
      PROVE  CalmPasses
  <2>1. c \in Procs /\ rc[c] \in RecoveryRecord
    BY <1>0 DEF Procs, TypeOK
  <2>2. rc' = [rc EXCEPT ![c] = rc'[c]] /\ rc'[c].pc = "enqueue"
        /\ rc'[c].goal = rc[c].goal
    BY <1>0, <1>2, <2>1 DEF AdmitRecord, TypeOK, RecoveryRecord
  <2> QED BY <1>0, <2>1, <2>2, CalmLoop
<1>3. ASSUME NEW c \in Controls,
             Admission(c) \/ Cancellation(c) \/ ControlCrash(c)
      PROVE  CalmPasses \/ \E o \in Ops : AdmitCheck(c, o)
  BY <1>0, <1>2, <1>3, CalmControl DEF Admission, Cancellation, Calm
<1>4. ASSUME NEW w \in Workers,
             \/ StartWorker(w) \/ WorkerStep(w) \/ Heartbeat(w)
             \/ ChildExits(w) \/ WorkerCrash(w)
      PROVE  CalmPasses
  <2>0. w \in Procs
    BY DEF Procs
  <2>1. CASE StartWorker(w)
    <3>1. PICK r : r = [RecOff EXCEPT !.pc = "list", !.work = work,
                                      !.startup = TRUE]
      OBVIOUS
    <3>2. r.pc = "list" /\ r.goal = "failed"
      BY <3>1 DEF RecOff
    <3> QED BY <1>0, <2>0, <2>1, <3>1, <3>2, CalmLoop DEF StartWorker
  <2>2. CASE WorkerCrash(w)
    BY <1>0, <2>0, <2>2, CalmOff DEF WorkerCrash
  <2>3. CASE WorkerStep(w) \/ Heartbeat(w) \/ ChildExits(w)
    <3>1. UNCHANGED rc
      BY <2>3 DEF WorkerStep, Handoff, StartTask, StartRaises, AcquireLock,
         CrossSpawnBoundary, Spawn, BindCheck, BindPut, OpenGate, NextCommand,
         HandlerReturns, HandlerRaises, StoreResult, HandleException, Commit,
         CommitRaises, ReleaseBinding, DiscardItem, ClaimNext, Heartbeat,
         ChildExits
    <3> QED BY <1>1, <3>1
  <2> QED BY <1>4, <2>1, <2>2, <2>3
<1>5. ASSUME NEW p \in Procs, RecoveryBegins(p) \/ RecoveryStep(p)
      PROVE  CalmPasses
  BY <1>0, <1>5, CalmSweep, CalmSettle DEF RecoveryStep, Calm
<1>6. ASSUME NEW o \in Ops, GraceElapses(o) \/ LeaseExpires(o)
      PROVE  CalmPasses
  BY <1>1, <1>6 DEF GraceElapses, LeaseExpires
<1>7. CASE UNCHANGED vars
  BY <1>1, <1>7 DEF vars
<1> QED BY <1>3, <1>4, <1>5, <1>6, <1>7 DEF Next

LEMMA AdmissionsStayFirst ==
    ASSUME SpawnInv, PassesAlive, PassesNeverSucceed, RecordIsFirst,
           [Next]_vars
    PROVE  PassesNeverSucceed' /\ RecordIsFirst'
<1>0. TypeOK /\ OpsKnown
  BY DEF SpawnInv
<1>1. ASSUME NEW c \in Controls, NEW o \in Ops, AdmitCheck(c, o)
      PROVE  PassesNeverSucceed' /\ RecordIsFirst'
  <2>1. /\ task[o].state = "absent" /\ UNCHANGED task
        /\ rc' = [rc EXCEPT ![c].pc = "record", ![c].op = o]
    BY <1>1 DEF AdmitCheck
  <2>2. c \in Procs /\ rc \in [Procs -> RecoveryRecord]
    BY <1>0 DEF Procs, TypeOK
  <2>3. /\ \A p \in Procs : p # c => rc'[p] = rc[p]
        /\ rc'[c].op = o /\ rc'[c].goal = rc[c].goal
    BY <2>1, <2>2 DEF RecoveryRecord
  <2> QED BY <2>1, <2>2, <2>3 DEF RecordIsFirst, PassesNeverSucceed
<1>2. CASE CalmPasses
  <2>1. PassesNeverSucceed'
    BY <1>2 DEF CalmPasses, PassesNeverSucceed
  <2>2. RecordIsFirst'
    <3> SUFFICES ASSUME NEW p \in Procs, rc'[p].pc = "record"
                 PROVE  task'[rc'[p].op].state = "absent"
      BY DEF RecordIsFirst
    <3>1. rc[p].pc = "record" /\ rc'[p].op = rc[p].op
      BY <1>2 DEF CalmPasses
    <3>2. PICK o \in Ops : o = rc[p].op
      BY <1>0, <3>1 DEF OpsKnown, Applying
    <3>3. task[o].state = "absent" /\ Admitting(p, o)
      BY <3>1, <3>2 DEF RecordIsFirst, Admitting
    <3>4. TaskStep(o)
      BY EveryTaskStep
    <3>5. ASSUME NEW c \in Controls, rc[c].pc = "record", rc[c].op = o,
                 rc'[c].pc = "enqueue"
          PROVE  FALSE
      <4>1. c \in Procs /\ Admitting(c, o)
        BY <3>5 DEF Procs, Admitting
      <4>2. p = c
        BY <3>3, <4>1 DEF SpawnInv, ItemsCreatedOnce
      <4> QED BY <3>5, <4>2
    <3> QED BY <3>1, <3>2, <3>3, <3>4, <3>5 DEF TaskStep, SameRecord, TaskMove
  <2> QED BY <2>1, <2>2
<1> QED BY <1>1, <1>2, PassesStayCalm

LEMMA NextKeeps ==
    ASSUME SpawnInv, KeepInv, [Next]_vars
    PROVE  KeepInv'
<1>0. /\ TypeOK /\ OpsKnown /\ PassesAlive /\ PassesNeverSucceed
      /\ FreshInv /\ RecordIsFirst /\ ClaimsCounted /\ PassesFit
  BY DEF SpawnInv, KeepInv, FreshInv
<1>1. Steady
  BY <1>0, EveryStepSteady
<1>2. PassesAlive'
  BY <1>0, AliveNext
<1>3. PassesNeverSucceed' /\ RecordIsFirst'
  BY <1>0, AdmissionsStayFirst
<1>4. ClaimsCounted' /\ WorkersUse' /\ RunningUsed'
  BY <1>0, <1>1, UseKept
<1>5. PassesFit'
  <2>1. CASE UNCHANGED vars
    BY <1>0, <1>1, <2>1, PassesRest DEF vars
  <2>2. ASSUME NEW o \in Ops, GraceElapses(o) \/ LeaseExpires(o)
        PROVE  PassesFit'
    BY <1>0, <1>1, <2>2, PassesRest DEF GraceElapses, LeaseExpires
  <2> QED BY <1>0, <1>1, <2>1, <2>2, ControlFits, WorkerFits, RecoveryFits
          DEF Next
<1> QED BY <1>2, <1>3, <1>4, <1>5 DEF KeepInv, FreshInv

(* What a step does to work that nobody has claimed. *)
LEMMA FreshItemKept ==
    ASSUME SpawnInv, KeepInv, [Next]_vars, NEW o \in Ops, Fresh(o),
           work'[o].state = "absent"
    PROVE  Ended(o)
<1>0. /\ TypeOK /\ ClaimsCounted /\ WorkersUse /\ PassesFit
  BY DEF SpawnInv, KeepInv, FreshInv
<1>1. RemovedBy(o)
  <2>1. ItemStep(o)
    BY <1>0, EveryItemStep
  <2> QED BY <2>1 DEF ItemStep, Fresh
<1>2. ASSUME NEW w \in Workers, wk[w].pc \in Engaged, wk[w].op = o
      PROVE  FALSE
  BY <1>0, <1>2 DEF WorkersUse, Used
<1>3. ASSUME NEW p \in Procs, rc[p].pc = "drop", rc[p].op = o
      PROVE  Ended(o)
  BY <1>0, <1>3 DEF PassesFit, Decided
<1>4. ASSUME NEW p \in Procs, rc[p].pc = "sweep", o \in rc[p].todo,
             Decision(p, o) = "discard"
      PROVE  Ended(o)
  BY <1>0, <1>4, DecisionIsFounded
<1> QED BY <1>1, <1>2, <1>3, <1>4 DEF RemovedBy

LEMMA FreshRecordKept ==
    ASSUME SpawnInv, KeepInv, [Next]_vars, NEW o \in Ops, Fresh(o),
           task'[o].state \in TerminalStates
    PROVE  \/ o \in aged \/ task[o].cancel \/ task[o].state \in TerminalStates
           \/ \E p \in Procs : Generation[p] > work[o].gen /\ rc'[p] # rc[p]
<1>0. /\ TypeOK /\ OpsKnown /\ RecordIsFirst /\ WorkersUse /\ PassesFit
  BY DEF SpawnInv, KeepInv, FreshInv
<1>1. \/ task[o].state \in TerminalStates
      \/ EndedBy(o)
  <2>1. TaskStep(o)
    BY <1>0, EveryTaskStep
  <2> QED BY <2>1 DEF TaskStep, SameRecord, TaskMove, TerminalStates
<1>2. ASSUME NEW c \in Controls, rc[c].pc = "enqueue", rc[c].op = o
      PROVE  FALSE
  <2>1. c \in Procs /\ Admitting(c, o)
    BY <1>2 DEF Procs, Admitting
  <2>2. Untouched(o)
    BY <2>1 DEF SpawnInv, ItemsCreatedOnce
  <2> QED BY <2>2 DEF Untouched, Fresh
<1>3. ASSUME NEW w \in Workers, wk[w].pc \in Engaged, wk[w].op = o
      PROVE  FALSE
  BY <1>0, <1>3 DEF WorkersUse, Used
<1>4. ASSUME NEW p \in Procs, rc[p].pc = "settle", rc[p].op = o
      PROVE  task[o].cancel \/ work[o].gen < Generation[p]
  <2>1. Decided(rc[p], Generation[p])
    BY <1>0 DEF PassesFit
  <2> QED BY <1>4, <2>1 DEF Decided, CancelAsked
<1>5. ASSUME NEW p \in Procs, o \in rc[p].miss
      PROVE  o \in aged
  BY <1>0, <1>5 DEF PassesFit, Paged, LeftToVisit
<1>6. \A p \in Procs : work[o].gen < Generation[p]
                          => Generation[p] > work[o].gen
  BY <1>0, ProcsAssumption DEF TypeOK, ItemRecord
<1> QED BY <1>1, <1>2, <1>3, <1>4, <1>5, <1>6 DEF EndedBy

(* Work that nobody has claimed is never lost: its item leaves the queue   *)
(* only when its operation has ended, and that end comes from its client,  *)
(* from the grace window or from a process of a newer generation, however  *)
(* admissions, claims, stale recovery pages and crashes interleave.        *)
THEOREM FreshWorkIsKept == Spec => FreshWorkKept
<1>1. SpawnInv /\ KeepInv /\ [Next]_vars => KeepInv'
  BY NextKeeps
<1>2. SpawnInv /\ KeepInv /\ [Next]_vars =>
         [\A o \in Ops : work[o].state = "queued" /\ work[o].attempt = 0 =>
            /\ work'[o].state = "absent" => task[o].state \in TerminalStates
            /\ \/ o \in aged \/ task[o].cancel \/ task[o].state \in TerminalStates
               \/ task'[o].state \notin TerminalStates
               \/ \E p \in Procs : Generation[p] > work[o].gen /\ rc'[p] # rc[p]]_vars
  BY FreshItemKept, FreshRecordKept DEF Fresh, Ended
<1> QED BY <1>1, <1>2, InitKeepInv, SpawnInvariance, PTL
        DEF Spec, FreshWorkKept

=============================================================================
