----------------------- MODULE RuntimeActivationProofs -----------------------
(***************************************************************************)
(* Proofs about the runtime supervisor, and about the activator composed   *)
(* with the runtime it moves: for any generations, any restart budget and  *)
(* watchdog threshold, and any number of faults, starts, reloads and       *)
(* attempts, whether or not the journal is reconciled.                     *)
(*                                                                         *)
(* The first part is about module Supervisor alone.  The supervisor's      *)
(* steps are the same in the composition, and what the first part shows of *)
(* them is used in the second as it stands.                                *)
(***************************************************************************)
EXTENDS RuntimeActivation, TLAPS

-----------------------------------------------------------------------------
(*                       PART ONE: THE SUPERVISOR                          *)

-----------------------------------------------------------------------------
(* What the operators on records and pointers return.                      *)

Pointers == [active : GenOrNone, target : GenOrNone]

SupType == [pc : {"off", "crashed", "begin", "loop", "gate", "commit", "publish",
                  "watch", "observe", "judge", "retry", "restart", "resident"},
            gen : GenOrNone, count : Nat, fails : 0..Threshold,
            ok : BOOLEAN, unread : BOOLEAN, cur : RecordType,
            stop : BOOLEAN, override : BOOLEAN]

ChildType == [alive : BOOLEAN, serves : GenOrNone, well : BOOLEAN, reload : GenOrNone,
              gate : {"open", "draining", "fail_closed"}]

LEMMA NoRecordType == NoRecord \in RecordType
BY DEF NoRecord, RecordType, Life, GenOrNone

LEMMA NoChildType == NoChild \in ChildType /\ ~NoChild.alive
BY DEF NoChild, ChildType, GenOrNone

LEMMA NewRecordType ==
    ASSUME NEW p \in Phases, NEW a \in GenOrNone, NEW g \in GenOrNone,
           NEW k \in Life, NEW s \in BOOLEAN
    PROVE  Record(p, a, g, k, s) \in RecordType
BY DEF Record, RecordType, Life

LEMMA RecordOpsType ==
    ASSUME NEW r \in RecordType
    PROVE  /\ Observed(r) \in RecordType
           /\ ChildGone(r) \in RecordType
           /\ SupervisorGone(r) \in RecordType
BY NoRecordType DEF Observed, ChildGone, SupervisorGone, RecordType, Life, Phases

LEMMA PointerOpsType ==
    ASSUME NEW p \in Pointers, NEW g \in GenOrNone
    PROVE  /\ ClearTarget(p, g) \in Pointers
           /\ Stage(p, g) \in Pointers
           /\ Activated(p, g) \in Pointers
BY DEF ClearTarget, Stage, Activated, Pointers, GenOrNone

LEMMA ChoiceType ==
    ASSUME TypeOK
    PROVE  StartChoice \in Gens /\ AdoptedGen \in GenOrNone
BY SupervisorAssumption DEF StartChoice, AdoptedGen, TypeOK, GenOrNone

-----------------------------------------------------------------------------
(* Type correctness.  The watchdog leaves its rounds when the streak of    *)
(* failures reaches the threshold, which is what bounds the streak.        *)

FailsBelow == sup.pc \in {"watch", "observe", "judge"} => sup.fails < Threshold

Core == /\ ptr \in Pointers
        /\ rec \in RecordType
        /\ sup \in SupType
        /\ child \in ChildType
        /\ FailsBelow

UsedType == [faults : 0..MaxFaults, starts : 0..MaxStarts, reloads : 0..MaxReloads]

Counters == /\ ledger \in [total : Nat, event : Nat]
            /\ used \in UsedType
            /\ spawns \in Nat
            /\ restarts \in Nat

Typed == Core /\ Counters

LEMMA TypedParts == Typed <=> TypeOK /\ FailsBelow
BY DEF Typed, TypeOK, Core, Counters, Pointers, SupType, ChildType, UsedType

LEMMA FaultType == ASSUME used \in UsedType, Fault PROVE used' \in UsedType
BY SupervisorAssumption DEF UsedType, Fault

LEMMA LaunchType ==
    ASSUME Core, Counters, NEW g \in GenOrNone, Launch(g)
    PROVE  /\ sup' \in SupType /\ sup'.pc = "begin"
           /\ ledger' \in [total : Nat, event : Nat]
           /\ spawns' \in Nat
<1>1. 0 \in 0..Threshold
  BY SupervisorAssumption
<1>2. sup' \in SupType /\ sup'.pc = "begin"
  BY <1>1 DEF Core, Launch, SupType
<1>3. ledger' \in [total : Nat, event : Nat] /\ spawns' \in Nat
  BY DEF Counters, Launch
<1> QED BY <1>2, <1>3

LEMMA FailClosedType ==
    ASSUME Core, NEW g \in GenOrNone, NEW a \in GenOrNone, NEW o \in BOOLEAN,
           FailClosed(g, a, o)
    PROVE  Core'
<1>1. rec' \in RecordType
  BY NewRecordType, RecordOpsType DEF Core, FailClosed, Phases, Life
<1>2. ptr' \in Pointers /\ child' \in ChildType
  BY PointerOpsType, NoChildType DEF Core, FailClosed
<1>3. sup' \in SupType /\ sup'.pc = "resident"
  BY NoRecordType DEF Core, FailClosed, SupType
<1> QED BY <1>1, <1>2, <1>3 DEF Core, FailsBelow

LEMMA ExitFailedType ==
    ASSUME Core, NEW g \in GenOrNone, NEW a \in GenOrNone, ExitFailed(g, a)
    PROVE  Core'
<1>1. rec' \in RecordType
  BY NewRecordType, RecordOpsType DEF Core, ExitFailed, Phases, Life
<1>2. ptr' \in Pointers /\ child' \in ChildType
  BY PointerOpsType, NoChildType DEF Core, ExitFailed
<1>3. sup' \in SupType /\ sup'.pc = "crashed"
  BY NoRecordType DEF Core, ExitFailed, SupType
<1> QED BY <1>1, <1>2, <1>3 DEF Core, FailsBelow

LEMMA ExitStoppedType ==
    ASSUME Core, NEW r \in RecordType, ExitStopped(r), ptr' = ptr
    PROVE  Core'
<1>1. rec' \in RecordType
  <2>1. [r EXCEPT !.phase = "STOPPED", !.pid = "none", !.child = "none", !.active = 0]
           \in RecordType
    BY DEF RecordType, Phases, Life, GenOrNone
  <2> QED BY <2>1, RecordOpsType DEF Core, ExitStopped
<1>2. child' \in ChildType
  BY NoChildType DEF ExitStopped
<1>3. sup' \in SupType /\ sup'.pc = "off"
  BY NoRecordType DEF Core, ExitStopped, SupType
<1> QED BY <1>1, <1>2, <1>3 DEF Core, FailsBelow

LEMMA RestartType ==
    ASSUME Counters, NEW n \in Nat, RecordRestart(n)
    PROVE  ledger' \in [total : Nat, event : Nat] /\ restarts' \in Nat
<1>1. [total |-> ledger.total + 1, event |-> n] \in [total : Nat, event : Nat]
  BY DEF Counters
<1> QED BY <1>1 DEF Counters, RecordRestart

LEMMA AgainType ==
    ASSUME Core, Counters, NEW g \in GenOrNone, NEW a \in GenOrNone,
           AgainOrFailClosed(g, a), spawns' = spawns
    PROVE  Core' /\ Counters'
<1>1. sup.count + 1 \in Nat
  BY DEF Core, SupType
<1>2. ASSUME RecordRestart(sup.count + 1)
      PROVE  ledger' \in [total : Nat, event : Nat] /\ restarts' \in Nat
  BY <1>1, <1>2, RestartType
<1>3. CASE /\ RecordRestart(sup.count + 1)
           /\ FailClosed(g, a, FALSE)
           /\ UNCHANGED used
  BY <1>2, <1>3, FailClosedType DEF Counters
<1>4. CASE /\ Fault
           /\ FailClosed(g, 0, TRUE)
           /\ UNCHANGED <<ledger, restarts>>
  BY <1>4, FaultType, FailClosedType DEF Counters, GenOrNone
<1>5. CASE /\ RecordRestart(sup.count + 1)
           /\ sup' = [sup EXCEPT !.pc = "loop", !.gen = g, !.count = sup.count + 1]
           /\ UNCHANGED <<ptr, rec, child, used>>
  <2>1. sup' \in SupType /\ sup'.pc = "loop"
    BY <1>1, <1>5 DEF Core, SupType
  <2> QED BY <1>2, <1>5, <2>1 DEF Core, Counters, FailsBelow
<1> QED BY <1>3, <1>4, <1>5 DEF AgainOrFailClosed

LEMMA OuterType ==
    ASSUME Typed, OperatorStart \/ Relaunch \/ Shutdown \/ Crash
    PROVE  Typed'
<1> USE DEF Typed
<1>1. Core /\ Counters
  OBVIOUS
<1>2. ptr.active \in GenOrNone /\ First \in GenOrNone /\ First # 0
  BY <1>1, SupervisorAssumption DEF Core, Pointers, GenOrNone
<1>3. CASE OperatorStart
  <2>1. PICK g \in GenOrNone : ptr' = Stage(ptr, g) /\ Launch(g)
    BY <1>2, <1>3 DEF OperatorStart
  <2>2. used' \in UsedType
    <3>1. used.starts + 1 \in 0..MaxStarts
      BY <1>1, <1>3, SupervisorAssumption DEF OperatorStart, Counters, UsedType
    <3> QED BY <1>1, <1>3, <3>1 DEF OperatorStart, Counters, UsedType
  <2>3. Core'
    BY <1>1, <1>3, <2>1, LaunchType, PointerOpsType DEF Core, OperatorStart, FailsBelow
  <2> QED BY <1>1, <1>3, <2>1, <2>2, <2>3, LaunchType DEF Counters, OperatorStart
<1>4. CASE Relaunch
  <2>1. StartChoice \in GenOrNone /\ Launch(StartChoice)
    BY <1>4, ChoiceType, TypedParts DEF Relaunch, GenOrNone
  <2>2. Core'
    BY <1>1, <1>4, <2>1, LaunchType DEF Core, Relaunch, FailsBelow
  <2> QED BY <1>1, <1>4, <2>1, <2>2, LaunchType DEF Counters, Relaunch
<1>5. CASE Shutdown
  <2>1. sup' \in SupType /\ sup'.pc = sup.pc /\ sup'.fails = sup.fails
    BY <1>1, <1>5 DEF Core, Shutdown, SupType
  <2> QED BY <1>1, <1>5, <2>1 DEF Core, Counters, Shutdown, FailsBelow
<1>6. CASE Crash
  <2>1. sup' \in SupType /\ sup'.pc = "crashed"
    BY <1>1, <1>6, NoRecordType DEF Core, Crash, SupType
  <2>2. rec' \in RecordType /\ child' \in ChildType
    BY <1>1, <1>6, RecordOpsType, NoChildType DEF Core, Crash
  <2> QED BY <1>1, <1>6, <2>1, <2>2, FaultType DEF Core, Counters, Crash, FailsBelow
<1> QED BY <1>3, <1>4, <1>5, <1>6

LEMMA ChildEndsType ==
    ASSUME Core, ChildEnds
    PROVE  Core'
<1>1. rec' \in RecordType /\ child' \in ChildType
  BY RecordOpsType, NoChildType DEF Core, ChildEnds
<1>2. sup.cur \in RecordType
  BY DEF Core, SupType
<1>3. ChildGone(sup.cur) \in RecordType
  BY <1>2, RecordOpsType
<1>4. sup' \in SupType /\ sup'.pc = sup.pc /\ sup'.fails = sup.fails
  BY <1>3 DEF Core, ChildEnds, SupType
<1> QED BY <1>1, <1>4 DEF Core, ChildEnds, FailsBelow

LEMMA ChildStepType ==
    ASSUME Typed, ChildStep
    PROVE  Typed'
<1> USE DEF Typed
<1>1. Core /\ Counters
  OBVIOUS
<1>2. ASSUME UNCHANGED sup, ptr' \in Pointers, rec' \in RecordType, child' \in ChildType,
             used' \in UsedType, UNCHANGED <<ledger, spawns, restarts>>
      PROVE  Typed'
  BY <1>1, <1>2 DEF Core, Counters, FailsBelow
<1>3. CASE ChildUp
  <2>1. child' \in ChildType
    BY <1>1, <1>3, ChoiceType, TypedParts DEF ChildUp, Core, ChildType, GenOrNone
  <2> QED BY <1>1, <1>2, <1>3, <2>1 DEF ChildUp, Core, Counters
<1>4. CASE ChildUnbuilt
  BY <1>1, <1>4, ChildEndsType DEF ChildUnbuilt, ChildEnds, Counters
<1>5. CASE ChildDies
  BY <1>1, <1>5, ChildEndsType, FaultType DEF ChildDies, ChildEnds, Counters
<1>6. CASE ChildSick
  <2>1. child' \in ChildType
    BY <1>1, <1>6 DEF ChildSick, Core, ChildType
  <2> QED BY <1>1, <1>2, <1>6, <2>1, FaultType DEF ChildSick, Core, Counters
<1>7. CASE ChildWell
  <2>1. child' \in ChildType
    BY <1>1, <1>7 DEF ChildWell, Core, ChildType
  <2> QED BY <1>1, <1>2, <1>7, <2>1 DEF ChildWell, Core, Counters
<1>8. ASSUME NEW g \in Gens, ReloadStage(g)
      PROVE  Typed'
  <2>1. g \in GenOrNone
    BY DEF GenOrNone
  <2>2. child' \in ChildType
    BY <1>1, <1>8, <2>1 DEF ReloadStage, Core, ChildType
  <2>3. used.reloads + 1 \in 0..MaxReloads
    BY <1>1, <1>8, SupervisorAssumption DEF ReloadStage, Counters, UsedType
  <2>4. used' \in UsedType
    BY <1>1, <1>8, <2>3 DEF ReloadStage, Counters, UsedType
  <2>5. ptr' \in Pointers
    BY <1>1, <1>8, <2>1, PointerOpsType DEF ReloadStage, Core
  <2> QED BY <1>1, <1>2, <1>8, <2>2, <2>4, <2>5 DEF ReloadStage, Core
<1>9. child.reload \in GenOrNone
  BY <1>1 DEF Core, ChildType
<1>10. CASE ReloadCommit
  <2>1. child' \in ChildType
    BY <1>1, <1>9, <1>10 DEF ReloadCommit, HostCommits, Core, ChildType, GenOrNone
  <2>2. ptr' \in Pointers
    BY <1>1, <1>9, <1>10, PointerOpsType DEF ReloadCommit, HostCommits, Core
  <2> QED BY <1>1, <1>2, <1>10, <2>1, <2>2 DEF ReloadCommit, Core, Counters
<1>11. CASE ReloadFail
  <2>1. child' \in ChildType
    BY <1>1, <1>11 DEF ReloadFail, Core, ChildType, GenOrNone
  <2>2. ptr' \in Pointers
    BY <1>1, <1>9, <1>11, PointerOpsType DEF ReloadFail, Core
  <2>3. used' \in UsedType
    BY <1>1, <1>11, FaultType DEF ReloadFail, Counters
  <2> QED BY <1>1, <1>2, <1>11, <2>1, <2>2, <2>3 DEF ReloadFail, Core
<1> QED BY <1>3, <1>4, <1>5, <1>6, <1>7, <1>8, <1>10, <1>11 DEF ChildStep

LEMMA BeginType ==
    ASSUME Typed, Begin
    PROVE  Typed'
<1> USE DEF Typed
<1>1. Core /\ Counters /\ sup.gen \in GenOrNone /\ 0 \in GenOrNone
  BY DEF Core, SupType, GenOrNone
<1>2. CASE BeginUnreadable \/ BeginLatched \/ BeginRefused
  <2>1. Core'
    BY <1>1, <1>2, FailClosedType DEF BeginUnreadable, BeginLatched, BeginRefused
  <2> QED BY <1>1, <1>2, <2>1, FaultType
          DEF Counters, BeginUnreadable, BeginLatched, BeginRefused
<1>3. CASE BeginFailed
  BY <1>1, <1>3, ExitFailedType, FaultType DEF Counters, BeginFailed
<1>4. CASE BeginOK
  <2>1. sup' \in SupType /\ sup'.pc = "loop"
    BY <1>1, <1>4 DEF Core, BeginOK, SupType
  <2> QED BY <1>1, <1>4, <2>1 DEF Core, Counters, BeginOK, FailsBelow
<1> QED BY <1>2, <1>3, <1>4 DEF Begin

LEMMA StartType ==
    ASSUME Typed, StartChild \/ Gate \/ Commit \/ Publish
    PROVE  Typed'
<1> USE DEF Typed
<1>1. Core /\ Counters /\ sup.gen \in GenOrNone /\ 0 \in GenOrNone
  BY DEF Core, SupType, GenOrNone
<1>2. AdoptedGen \in GenOrNone
  BY ChoiceType, TypedParts
<1>3. CASE StartChild
  <2>1. rec' \in RecordType
    BY <1>1, <1>2, <1>3, NewRecordType DEF StartChild, Phases, Life
  <2>2. sup' \in SupType /\ sup'.pc \in {"gate", "retry"}
    BY <1>1, <1>2, <1>3 DEF StartChild, Core, SupType
  <2>3. child' \in ChildType
    BY <1>1, <1>3, NoChildType DEF StartChild, Core, ChildType
  <2>4. used' \in UsedType /\ spawns' \in Nat
    BY <1>1, <1>3, FaultType DEF StartChild, Counters
  <2> QED BY <1>1, <1>3, <2>1, <2>2, <2>3, <2>4 DEF StartChild, Core, Counters, FailsBelow
<1>4. CASE GatePassed
  <2>1. sup' \in SupType /\ sup'.pc = "commit"
    BY <1>1, <1>4 DEF GatePassed, Core, SupType
  <2> QED BY <1>1, <1>4, <2>1 DEF GatePassed, Core, Counters, FailsBelow
<1>5. CASE GateFailed
  <2>1. sup' \in SupType /\ sup'.pc = "retry"
    BY <1>1, <1>5 DEF GateFailed, Core, SupType
  <2>2. rec' \in RecordType /\ child' \in ChildType
    BY <1>1, <1>5, RecordOpsType, NoChildType DEF GateFailed, Core
  <2>3. used' \in UsedType
    BY <1>1, <1>5, FaultType DEF GateFailed, Counters
  <2> QED BY <1>1, <1>5, <2>1, <2>2, <2>3 DEF GateFailed, Core, Counters, FailsBelow
<1>6. CASE Commit
  <2>1. CASE ExitFailed(sup.gen, 0)
    BY <1>1, <1>6, <2>1, ExitFailedType DEF Commit, Counters
  <2>2. CASE /\ ptr' = IF ptr.active = sup.gen THEN ptr ELSE Activated(ptr, sup.gen)
             /\ sup' = [sup EXCEPT !.pc = "publish"]
             /\ UNCHANGED <<rec, child>>
    <3>1. sup' \in SupType /\ sup'.pc = "publish"
      BY <1>1, <2>2 DEF Core, SupType
    <3>2. ptr' \in Pointers
      BY <1>1, <2>2, PointerOpsType DEF Core
    <3> QED BY <1>1, <1>6, <2>2, <3>1, <3>2 DEF Commit, Core, Counters, FailsBelow
  <2> QED BY <1>6, <2>1, <2>2 DEF Commit
<1>7. CASE Publish
  <2>1. rec' \in RecordType
    BY <1>1, <1>7, NewRecordType DEF Publish, Phases, Life
  <2>2. 0 \in 0..Threshold /\ 0 < Threshold
    BY SupervisorAssumption
  <2>3. sup' \in SupType /\ sup'.pc = "watch" /\ sup'.fails = 0
    BY <1>1, <1>7, <2>2 DEF Publish, Core, SupType
  <2> QED BY <1>1, <1>7, <2>1, <2>2, <2>3 DEF Publish, Core, Counters, FailsBelow
<1> QED BY <1>3, <1>4, <1>5, <1>6, <1>7 DEF Gate

LEMMA WatchType ==
    ASSUME Typed, Watch \/ WorkerUnregistered \/ Observe \/ WatchEnded
    PROVE  Typed'
<1> USE DEF Typed
<1>1. Core /\ Counters /\ sup.gen \in GenOrNone /\ 0 \in GenOrNone
  BY DEF Core, SupType, GenOrNone
<1>2. CASE Watch
  <2>1. AdoptedGen \in GenOrNone
    BY ChoiceType, TypedParts
  <2>2. sup' \in SupType /\ sup'.fails = sup.fails
    BY <1>1, <1>2, <2>1 DEF Watch, Core, SupType
  <2> QED BY <1>1, <1>2, <2>2 DEF Watch, Core, Counters, FailsBelow
<1>3. CASE WorkerUnregistered
  BY <1>1, <1>3, FailClosedType, FaultType DEF WorkerUnregistered, Counters
<1>4. CASE Observe
  <2>1. PICK u \in BOOLEAN, c \in {Observed(rec), NoRecord} :
           sup' = [sup EXCEPT !.pc = "judge", !.ok = Healthy(sup.gen), !.unread = u,
                              !.cur = c]
    BY <1>4 DEF Observe
  <2>2. c \in RecordType
    BY <1>1, <2>1, NoRecordType, RecordOpsType DEF Core
  <2>3. Healthy(sup.gen) \in BOOLEAN
    BY <1>1 DEF Healthy, Core, ChildType
  <2>4. sup' \in SupType /\ sup'.fails = sup.fails
    BY <1>1, <2>1, <2>2, <2>3 DEF Core, SupType
  <2>5. used' \in UsedType
    BY <1>1, <1>4, FaultType DEF Observe, Counters
  <2> QED BY <1>1, <1>4, <2>4, <2>5 DEF Observe, Core, Counters, FailsBelow
<1>5. CASE WatchEnded
  <2>1. sup' \in SupType /\ sup'.pc = "restart"
    BY <1>1, <1>5 DEF WatchEnded, Core, SupType
  <2> QED BY <1>1, <1>5, <2>1 DEF WatchEnded, Core, Counters, FailsBelow
<1> QED BY <1>2, <1>3, <1>4, <1>5

LEMMA JudgeType ==
    ASSUME Typed, Judge
    PROVE  Typed'
<1> USE DEF Typed
<1>1. Core /\ Counters /\ sup.gen \in GenOrNone /\ 0 \in GenOrNone
  BY DEF Core, SupType, GenOrNone
<1>2. sup.cur \in RecordType /\ sup.count \in Nat /\ sup.fails \in 0..Threshold
  BY <1>1 DEF Core, SupType
<1>3. [sup.cur EXCEPT !.phase = "DEGRADED"] \in RecordType
  BY <1>2 DEF RecordType, Phases
<1>4. [sup.cur EXCEPT !.phase = "HEALTHY", !.active = sup.gen, !.accepted = sup.gen]
        \in RecordType
  BY <1>1, <1>2 DEF RecordType, Phases
<1>5. CASE JudgeHealthy
  <2>1. PICK n \in {0, sup.count} :
          /\ sup' = [sup EXCEPT !.pc = "watch", !.fails = 0, !.count = n, !.cur = NoRecord]
          /\ spawns' = IF n = 0 THEN 1 ELSE spawns
    BY <1>5 DEF JudgeHealthy
  <2>2. 0 \in 0..Threshold /\ 0 < Threshold /\ n \in Nat
    BY <1>2, <2>1, SupervisorAssumption
  <2>3. sup' \in SupType /\ sup'.fails = 0
    BY <1>1, <2>1, <2>2, NoRecordType DEF Core, SupType
  <2>4. rec' \in RecordType
    BY <1>1, <1>4, <1>5 DEF JudgeHealthy, Core
  <2>5. spawns' \in Nat
    BY <1>1, <2>1 DEF Counters
  <2> QED BY <1>1, <1>5, <2>2, <2>3, <2>4, <2>5 DEF JudgeHealthy, Core, Counters, FailsBelow
<1>6. CASE JudgeUnread
  <2>1. sup' \in SupType /\ sup'.fails = sup.fails
    BY <1>1, <1>6, NoRecordType DEF JudgeUnread, Core, SupType
  <2>2. rec' \in RecordType
    BY <1>1, <1>3, <1>6 DEF JudgeUnread, Core
  <2> QED BY <1>1, <1>6, <2>1, <2>2 DEF JudgeUnread, Core, Counters, FailsBelow
<1>7. CASE JudgeUnhealthy
  <2>1. sup.fails + 1 \in 0..Threshold
    BY <1>1, <1>2, <1>7, SupervisorAssumption DEF JudgeUnhealthy, Core, FailsBelow
  <2>2. sup' \in SupType /\ sup'.fails = sup.fails + 1
    BY <1>1, <1>7, <2>1, NoRecordType DEF JudgeUnhealthy, Core, SupType
  <2>3. sup'.pc = (IF sup.fails + 1 < Threshold THEN "watch" ELSE "restart")
    BY <1>1, <1>7 DEF JudgeUnhealthy, Core, SupType
  <2>4. rec' \in RecordType
    BY <1>1, <1>3, <1>7, RecordOpsType DEF JudgeUnhealthy, Core
  <2>5. child' \in ChildType
    BY <1>1, <1>7, NoChildType DEF JudgeUnhealthy, Core
  <2> QED BY <1>1, <1>7, <2>2, <2>3, <2>4, <2>5
          DEF JudgeUnhealthy, Core, Counters, FailsBelow
<1> QED BY <1>5, <1>6, <1>7 DEF Judge

LEMMA EndType ==
    ASSUME Typed, Retry \/ Restart \/ SupervisorFails \/ Stop \/ ResidentStop
    PROVE  Typed'
<1> USE DEF Typed
<1>1. Core /\ Counters /\ sup.gen \in GenOrNone /\ 0 \in GenOrNone
  BY DEF Core, SupType, GenOrNone
<1>2. AdoptedGen \in GenOrNone
  BY ChoiceType, TypedParts
<1>3. CASE Retry
  BY <1>1, <1>3, AgainType DEF Retry
<1>4. CASE Restart
  <2>1. CASE AgainOrFailClosed(AdoptedGen, AdoptedGen)
    BY <1>1, <1>2, <1>4, <2>1, AgainType DEF Restart
  <2>2. CASE Fault /\ RecordRestart(sup.count + 1) /\ ExitFailed(AdoptedGen, AdoptedGen)
    <3>1. sup.count + 1 \in Nat
      BY <1>1 DEF Core, SupType
    <3> QED BY <1>1, <1>2, <1>4, <2>2, <3>1, ExitFailedType, RestartType, FaultType
            DEF Restart, Counters
  <2> QED BY <1>4, <2>1, <2>2 DEF Restart
<1>5. CASE SupervisorFails
  <2>1. sup' \in SupType /\ sup'.pc = "crashed"
    BY <1>1, <1>5, NoRecordType DEF SupervisorFails, Core, SupType
  <2>2. Record("FAILED", 0, sup.gen, "none", FALSE) \in RecordType
    BY <1>1, NewRecordType DEF Phases, Life
  <2>3. rec' \in RecordType
    BY <1>1, <1>5, <2>2, RecordOpsType DEF SupervisorFails, Core
  <2>4. ptr' \in Pointers /\ child' \in ChildType
    BY <1>1, <1>5, PointerOpsType, NoChildType DEF SupervisorFails, Core
  <2> QED BY <1>1, <1>5, <2>1, <2>3, <2>4, FaultType
          DEF SupervisorFails, Core, Counters, FailsBelow
<1>6. Observed(rec) \in RecordType /\ Record("FAIL_CLOSED", 0, sup.gen, "none", TRUE) \in RecordType
  BY <1>1, RecordOpsType, NewRecordType DEF Core, Phases, Life
<1>7. CASE Stop
  BY <1>1, <1>6, <1>7, ExitStoppedType DEF Stop, Counters
<1>8. CASE ResidentStop
  BY <1>1, <1>6, <1>8, ExitStoppedType DEF ResidentStop, Counters
<1> QED BY <1>3, <1>4, <1>5, <1>7, <1>8

LEMMA InitTyped == Init => Typed
<1> SUFFICES ASSUME Init PROVE Typed
  OBVIOUS
<1>1. 0 \in GenOrNone /\ 0 \in 0..Threshold /\ 0 \in 0..MaxFaults /\ 0 \in 0..MaxStarts
      /\ 0 \in 0..MaxReloads
  BY SupervisorAssumption DEF GenOrNone
<1>2. ptr \in Pointers /\ rec \in RecordType /\ child \in ChildType
  BY <1>1, NoRecordType, NoChildType DEF Init, Pointers
<1>3. sup \in SupType /\ sup.pc = "off"
  BY <1>1, NoRecordType DEF Init, SupType
<1>4. Counters
  BY <1>1 DEF Init, Counters, UsedType
<1> QED BY <1>2, <1>3, <1>4 DEF Typed, Core, FailsBelow

LEMMA SupervisorStepType ==
    ASSUME Typed, SupervisorStep
    PROVE  Typed'
BY BeginType, StartType, WatchType, JudgeType, EndType DEF SupervisorStep

LEMMA StutterType == ASSUME Typed, UNCHANGED supVars PROVE Typed'
BY DEF Typed, Core, Counters, FailsBelow, supVars

(* Every variable of the runtime keeps its type; above all the streak of   *)
(* failures stays within the threshold, and the budgets of the             *)
(* environment within their bounds.                                        *)
THEOREM TypeCorrect == Spec => []TypeOK
<1>1. Typed /\ [Next]_supVars => Typed'
  BY OuterType, ChildStepType, SupervisorStepType, StutterType DEF Next
<1>2. Typed => TypeOK
  BY TypedParts
<1> QED BY InitTyped, <1>1, <1>2, PTL DEF Spec

-----------------------------------------------------------------------------
(* Who is served, and how often a child is started.                        *)

(* A child lives only while its supervisor is between the start of the     *)
(* child and the end of the watch over it, and a dead one reloads nothing. *)
Serving ==
    /\ child.alive => sup.pc \in {"gate", "commit", "publish", "watch", "observe", "judge"}
    /\ ~child.alive => child.reload = 0

(* A supervisor that is about to start a child still has one start left.   *)
Budget ==
    /\ sup.count <= MaxRestarts
    /\ spawns <= sup.count + (IF sup.pc \in {"begin", "loop"} THEN 0 ELSE 1)

Chosen == Running => sup.gen # 0

Base == Serving /\ Budget /\ Chosen

LEMMA CountersNat ==
    ASSUME Typed
    PROVE  /\ sup \in SupType /\ child \in ChildType /\ ptr \in Pointers
           /\ sup.count \in Nat /\ spawns \in Nat /\ MaxRestarts \in Nat
BY SupervisorAssumption DEF Typed, Core, Counters, SupType

(* The supervisor has ended its child, or had none, and is not about to    *)
(* start one without asking the budget again.                              *)
LEMMA BaseWithoutChild ==
    ASSUME Typed, Base, sup'.pc \in {"off", "crashed", "resident", "retry", "restart"},
           ~child'.alive, child'.reload = 0,
           sup'.count = sup.count, spawns' = spawns,
           sup'.pc \notin {"off", "crashed"} => sup'.gen # 0
    PROVE  Base'
<1>1. Budget'
  BY CountersNat DEF Base, Budget
<1> QED BY <1>1 DEF Base, Serving, Chosen, Running

(* The supervisor watches over the child it has. *)
LEMMA BaseWithChild ==
    ASSUME Typed, Base, Running, sup.pc \notin {"begin", "loop"},
           sup'.pc \in {"publish", "watch", "observe", "judge"},
           UNCHANGED child, sup'.gen # 0,
           sup'.count = sup.count, spawns' = spawns
    PROVE  Base'
<1>1. Budget'
  BY CountersNat DEF Base, Budget
<1> QED BY <1>1 DEF Base, Serving, Chosen, Running

LEMMA NoGoneChild == ~NoChild.alive /\ NoChild.reload = 0
BY DEF NoChild

LEMMA AdoptedChosen == ASSUME Chosen, Running PROVE AdoptedGen # 0
BY DEF AdoptedGen, Chosen

LEMMA FailClosedBase ==
    ASSUME Typed, Base, NEW g, NEW a, NEW o, g # 0, FailClosed(g, a, o), spawns' = spawns
    PROVE  Base'
<1>1. sup'.pc = "resident" /\ sup'.gen = g /\ sup'.count = sup.count
  BY CountersNat DEF FailClosed, SupType
<1> QED BY <1>1, BaseWithoutChild, NoGoneChild DEF FailClosed

LEMMA ExitFailedBase ==
    ASSUME Typed, Base, NEW g, NEW a, ExitFailed(g, a), spawns' = spawns
    PROVE  Base'
<1>1. sup'.pc = "crashed" /\ sup'.count = sup.count
  BY CountersNat DEF ExitFailed, SupType
<1> QED BY <1>1, BaseWithoutChild, NoGoneChild DEF ExitFailed

LEMMA ExitStoppedBase ==
    ASSUME Typed, Base, NEW r, ExitStopped(r), spawns' = spawns
    PROVE  Base'
<1>1. sup'.pc = "off" /\ sup'.count = sup.count
  BY CountersNat DEF ExitStopped, SupType
<1> QED BY <1>1, BaseWithoutChild, NoGoneChild DEF ExitStopped

LEMMA LaunchBase ==
    ASSUME Typed, Base, NEW g, g # 0, Launch(g), UNCHANGED child
    PROVE  Base'
<1>1. sup'.pc = "begin" /\ sup'.gen = g /\ sup'.count = 0 /\ spawns' = 0
  BY CountersNat DEF Launch, SupType
<1>2. ~child.alive
  BY DEF Base, Serving, Launch, Running
<1>3. Budget'
  BY <1>1, CountersNat DEF Budget
<1> QED BY <1>1, <1>2, <1>3 DEF Base, Serving, Chosen, Running

LEMMA OuterBase ==
    ASSUME Typed, Base, OperatorStart \/ Relaunch \/ Shutdown \/ Crash
    PROVE  Base'
<1>1. First # 0 /\ StartChoice # 0
  BY ChoiceType, TypedParts, SupervisorAssumption
<1>2. CASE OperatorStart
  BY <1>1, <1>2, LaunchBase DEF OperatorStart
<1>3. CASE Relaunch
  BY <1>1, <1>3, LaunchBase DEF Relaunch
<1>4. CASE Shutdown
  <2>1. sup'.pc = sup.pc /\ sup'.gen = sup.gen /\ sup'.count = sup.count
    BY <1>4, CountersNat DEF Shutdown, SupType
  <2> QED BY <1>4, <2>1
          DEF Shutdown, Base, Serving, Budget, Chosen, Running
<1>5. CASE Crash
  <2>1. sup'.pc = "crashed" /\ sup'.count = sup.count
    BY <1>5, CountersNat DEF Crash, SupType
  <2> QED BY <1>5, <2>1, BaseWithoutChild, NoGoneChild DEF Crash
<1> QED BY <1>2, <1>3, <1>4, <1>5

LEMMA ChildEndsBase ==
    ASSUME Typed, Base, ChildEnds
    PROVE  Base'
<1>1. sup'.pc = sup.pc /\ sup'.gen = sup.gen /\ sup'.count = sup.count
  BY CountersNat DEF ChildEnds, SupType
<1> QED BY <1>1, NoGoneChild
        DEF ChildEnds, Base, Serving, Budget, Chosen, Running

LEMMA ChildStepBase ==
    ASSUME Typed, Base, ChildStep
    PROVE  Base'
<1> USE CountersNat
<1>1. CASE ChildUnbuilt \/ ChildDies
  BY <1>1, ChildEndsBase DEF ChildUnbuilt, ChildDies
<1>2. CASE child.alive /\ child'.alive /\ UNCHANGED <<sup, spawns>>
  BY <1>2 DEF Base, Serving, Budget, Chosen, Running
<1>3. CASE ChildUp \/ ChildSick \/ ChildWell
  BY <1>2, <1>3 DEF ChildUp, ChildSick, ChildWell, ChildType
<1>4. ASSUME NEW g \in Gens, ReloadStage(g) PROVE Base'
  BY <1>2, <1>4 DEF ReloadStage, ChildType
<1>5. CASE ReloadCommit \/ ReloadFail
  BY <1>2, <1>5 DEF ReloadCommit, HostCommits, ReloadFail, ChildType
<1> QED BY <1>1, <1>3, <1>4, <1>5 DEF ChildStep

LEMMA BeginBase ==
    ASSUME Typed, Base, Begin
    PROVE  Base'
<1>1. sup.pc = "begin" => sup.gen # 0
  BY DEF Base, Chosen, Running
<1>2. CASE BeginUnreadable \/ BeginLatched \/ BeginRefused
  BY <1>1, <1>2, FailClosedBase DEF BeginUnreadable, BeginLatched, BeginRefused
<1>3. CASE BeginFailed
  BY <1>3, ExitFailedBase DEF BeginFailed
<1>4. CASE BeginOK
  <2>1. sup'.pc = "loop" /\ sup'.gen = sup.gen /\ sup'.count = sup.count
    BY <1>4, CountersNat DEF BeginOK, SupType
  <2> QED BY <1>4, <2>1
          DEF BeginOK, Base, Serving, Budget, Chosen, Running
<1> QED BY <1>2, <1>3, <1>4 DEF Begin

LEMMA StartBase ==
    ASSUME Typed, Base, StartChild \/ Gate \/ Commit \/ Publish
    PROVE  Base'
<1> USE CountersNat
<1>1. Running /\ sup.gen # 0 /\ AdoptedGen # 0
  BY AdoptedChosen DEF Base, Chosen, Running, StartChild, Gate, GatePassed, GateFailed, Commit,
                       Publish
<1>2. CASE StartChild
  <2>1. sup'.gen = AdoptedGen /\ sup'.count = sup.count
    BY <1>2 DEF StartChild, SupType
  <2>2. CASE /\ sup' = [sup EXCEPT !.pc = "gate", !.gen = AdoptedGen]
             /\ child' = [NoChild EXCEPT !.alive = TRUE, !.well = TRUE]
             /\ spawns' = spawns + 1
    <3>1. sup'.pc = "gate" /\ child'.alive /\ child'.reload = 0
      BY <2>2 DEF SupType, NoChild
    <3>2. Budget'
      BY <1>2, <2>1, <2>2, <3>1 DEF StartChild, Base, Budget
    <3> QED BY <1>1, <2>1, <3>1, <3>2
            DEF Base, Serving, Chosen, Running
  <2>3. CASE /\ sup' = [sup EXCEPT !.pc = "retry", !.gen = AdoptedGen]
             /\ UNCHANGED <<child, spawns>>
    <3>1. sup'.pc = "retry"
      BY <2>3 DEF SupType
    <3>2. ~child.alive /\ child.reload = 0
      BY <1>2 DEF StartChild, Base, Serving
    <3> QED BY <1>1, <2>1, <2>3, <3>1, <3>2, BaseWithoutChild
  <2> QED BY <1>2, <2>2, <2>3 DEF StartChild
<1>3. CASE GatePassed
  <2>1. sup'.pc = "commit" /\ sup'.gen = sup.gen /\ sup'.count = sup.count
    BY <1>3 DEF GatePassed, SupType
  <2> QED BY <1>3, <2>1
          DEF GatePassed, Healthy, Base, Serving, Budget, Chosen, Running
<1>4. CASE GateFailed
  <2>1. sup'.pc = "retry" /\ sup'.gen = sup.gen /\ sup'.count = sup.count
    BY <1>4 DEF GateFailed, SupType
  <2> QED BY <1>1, <1>4, <2>1, BaseWithoutChild, NoGoneChild DEF GateFailed
<1>5. CASE Commit
  <2>1. CASE ExitFailed(sup.gen, 0)
    BY <1>5, <2>1, ExitFailedBase DEF Commit
  <2>2. CASE /\ ptr' = IF ptr.active = sup.gen THEN ptr ELSE Activated(ptr, sup.gen)
             /\ sup' = [sup EXCEPT !.pc = "publish"]
             /\ UNCHANGED <<rec, child>>
    <3>1. sup'.pc = "publish" /\ sup'.gen = sup.gen /\ sup'.count = sup.count
      BY <2>2 DEF SupType
    <3> QED BY <1>1, <1>5, <2>2, <3>1, BaseWithChild DEF Commit
  <2> QED BY <1>5, <2>1, <2>2 DEF Commit
<1>6. CASE Publish
  <2>1. sup'.pc = "watch" /\ sup'.gen = sup.gen /\ sup'.count = sup.count
    BY <1>6 DEF Publish, SupType
  <2> QED BY <1>1, <1>6, <2>1, BaseWithChild DEF Publish
<1> QED BY <1>2, <1>3, <1>4, <1>5, <1>6 DEF Gate

LEMMA WatchBase ==
    ASSUME Typed, Base, Watch \/ WorkerUnregistered \/ Observe \/ WatchEnded
    PROVE  Base'
<1> USE CountersNat
<1>1. Running /\ sup.gen # 0 /\ AdoptedGen # 0
  BY AdoptedChosen DEF Base, Chosen, Running, Watch, WorkerUnregistered, Observe, WatchEnded
<1>2. CASE Watch
  <2>1. sup'.pc = "observe" /\ sup'.gen = AdoptedGen /\ sup'.count = sup.count
    BY <1>2 DEF Watch, SupType
  <2> QED BY <1>1, <1>2, <2>1, BaseWithChild DEF Watch
<1>3. CASE WorkerUnregistered
  BY <1>1, <1>3, FailClosedBase DEF WorkerUnregistered
<1>4. CASE Observe
  <2>1. sup'.pc = "judge" /\ sup'.gen = sup.gen /\ sup'.count = sup.count
    BY <1>4 DEF Observe, SupType
  <2> QED BY <1>1, <1>4, <2>1, BaseWithChild DEF Observe
<1>5. CASE WatchEnded
  <2>1. sup'.pc = "restart" /\ sup'.gen = sup.gen /\ sup'.count = sup.count
    BY <1>5 DEF WatchEnded, SupType
  <2>2. child.reload = 0
    BY <1>5 DEF WatchEnded, Base, Serving
  <2> QED BY <1>1, <1>5, <2>1, <2>2, BaseWithoutChild DEF WatchEnded
<1> QED BY <1>2, <1>3, <1>4, <1>5

LEMMA JudgeBase ==
    ASSUME Typed, Base, Judge
    PROVE  Base'
<1> USE CountersNat
<1>1. Running /\ sup.gen # 0
  BY DEF Base, Chosen, Running, Judge, JudgeHealthy, JudgeUnread, JudgeUnhealthy
<1>2. CASE JudgeHealthy
  <2>1. PICK n \in {0, sup.count} :
          /\ sup' = [sup EXCEPT !.pc = "watch", !.fails = 0, !.count = n, !.cur = NoRecord]
          /\ spawns' = IF n = 0 THEN 1 ELSE spawns
    BY <1>2 DEF JudgeHealthy
  <2>2. sup'.pc = "watch" /\ sup'.gen = sup.gen /\ sup'.count = n
    BY <2>1 DEF SupType
  <2>3. Budget'
    BY <1>2, <2>1, <2>2 DEF JudgeHealthy, Base, Budget
  <2> QED BY <1>1, <1>2, <2>2, <2>3
          DEF JudgeHealthy, Base, Serving, Chosen, Running
<1>3. CASE JudgeUnread
  <2>1. sup'.pc = "watch" /\ sup'.gen = sup.gen /\ sup'.count = sup.count
    BY <1>3 DEF JudgeUnread, SupType
  <2> QED BY <1>1, <1>3, <2>1, BaseWithChild DEF JudgeUnread
<1>4. CASE JudgeUnhealthy
  <2>1. sup'.gen = sup.gen /\ sup'.count = sup.count
    BY <1>4 DEF JudgeUnhealthy, SupType
  <2>2. CASE sup.fails + 1 < Threshold
    <3>1. sup'.pc = "watch"
      BY <1>4, <2>2 DEF JudgeUnhealthy, SupType
    <3> QED BY <1>1, <1>4, <2>1, <2>2, <3>1, BaseWithChild DEF JudgeUnhealthy
  <2>3. CASE ~(sup.fails + 1 < Threshold)
    <3>1. sup'.pc = "restart"
      BY <1>4, <2>3 DEF JudgeUnhealthy, SupType
    <3> QED BY <1>1, <1>4, <2>1, <2>3, <3>1, BaseWithoutChild, NoGoneChild DEF JudgeUnhealthy
  <2> QED BY <2>2, <2>3
<1> QED BY <1>2, <1>3, <1>4 DEF Judge

LEMMA AgainBase ==
    ASSUME Typed, Base, sup.pc \in {"retry", "restart"}, NEW g, NEW a, g # 0,
           AgainOrFailClosed(g, a), spawns' = spawns
    PROVE  Base'
<1> USE CountersNat
<1>1. CASE FailClosed(g, a, FALSE) \/ FailClosed(g, 0, TRUE)
  BY <1>1, FailClosedBase
<1>2. CASE /\ sup.count + 1 <= MaxRestarts
           /\ sup' = [sup EXCEPT !.pc = "loop", !.gen = g, !.count = sup.count + 1]
           /\ UNCHANGED <<ptr, rec, child, used>>
  <2>1. sup'.pc = "loop" /\ sup'.gen = g /\ sup'.count = sup.count + 1
    BY <1>2 DEF SupType
  <2>2. Budget'
    BY <1>2, <2>1 DEF Base, Budget
  <2> QED BY <1>2, <2>1, <2>2 DEF Base, Serving, Chosen, Running
<1> QED BY <1>1, <1>2 DEF AgainOrFailClosed

LEMMA EndBase ==
    ASSUME Typed, Base, Retry \/ Restart \/ SupervisorFails \/ Stop \/ ResidentStop
    PROVE  Base'
<1>1. Running /\ sup.gen # 0 /\ AdoptedGen # 0
  BY AdoptedChosen DEF Base, Chosen, Running, Retry, Restart, SupervisorFails, Stop, ResidentStop
<1>2. CASE Retry
  BY <1>1, <1>2, AgainBase DEF Retry
<1>3. CASE Restart
  BY <1>1, <1>3, AgainBase, ExitFailedBase DEF Restart
<1>4. CASE SupervisorFails
  <2>1. sup'.pc = "crashed" /\ sup'.count = sup.count
    BY <1>4, CountersNat DEF SupervisorFails, SupType
  <2> QED BY <1>4, <2>1, BaseWithoutChild, NoGoneChild DEF SupervisorFails
<1>5. CASE Stop \/ ResidentStop
  BY <1>5, ExitStoppedBase DEF Stop, ResidentStop
<1> QED BY <1>2, <1>3, <1>4, <1>5

LEMMA SupervisorStepBase ==
    ASSUME Typed, Base, SupervisorStep
    PROVE  Base'
BY BeginBase, StartBase, WatchBase, JudgeBase, EndBase DEF SupervisorStep

-----------------------------------------------------------------------------
(* What is staged while a child reloads.                                   *)

(* What is staged for a child that reloads is what it reloads, unless      *)
(* somebody withdrew it.                                                   *)
ReloadFits == child.reload # 0 => ptr.target \in {0, child.reload}

(* Between the gate and the commit the child may reload another generation *)
(* and back.  As long as the supervisor's generation is the one staged,    *)
(* the child serves it or reloads it.                                      *)
CommitFits ==
    (sup.pc = "commit" /\ child.alive /\ ptr.target = sup.gen)
        => sup.gen \in {child.serves, child.reload}

Staged == ReloadFits /\ CommitFits

LEMMA StagedIdle ==
    ASSUME child'.reload = 0, ~child'.alive \/ sup'.pc # "commit"
    PROVE  Staged'
BY DEF Staged, ReloadFits, CommitFits

LEMMA StagedKept ==
    ASSUME Staged, UNCHANGED child, ptr'.target \in {0, ptr.target}, sup'.pc # "commit"
    PROVE  Staged'
BY DEF Staged, ReloadFits, CommitFits

LEMMA PointerTarget ==
    ASSUME NEW p \in Pointers, NEW g
    PROVE  /\ ClearTarget(p, g).target \in {0, p.target}
           /\ ClearTarget(p, g).active = p.active
           /\ Stage(p, g).active = p.active
           /\ Stage(p, g).target = g
           /\ Activated(p, g).target \in {0, p.target}
           /\ Activated(p, g).active = g
           /\ p.target \in {0, g} => Activated(p, g).target = 0 /\ ClearTarget(p, g).target = 0
BY DEF ClearTarget, Stage, Activated, Pointers

(* Every way to end a child, or to launch a supervisor that has none. *)
LEMMA EndsStaged ==
    ASSUME \/ \E g, a, o : FailClosed(g, a, o)
           \/ \E g, a : ExitFailed(g, a)
           \/ \E r : ExitStopped(r)
           \/ Crash \/ ChildEnds \/ GateFailed \/ SupervisorFails
    PROVE  Staged'
BY StagedIdle, NoGoneChild
   DEF FailClosed, ExitFailed, ExitStopped, Crash, ChildEnds, GateFailed, SupervisorFails

LEMMA OuterStaged ==
    ASSUME Typed, Base, Staged, OperatorStart \/ Relaunch \/ Shutdown \/ Crash
    PROVE  Staged'
<1>1. CASE OperatorStart \/ Relaunch
  <2>1. child' = child /\ ~child.alive /\ child.reload = 0
    BY <1>1 DEF OperatorStart, Relaunch, Launch, Running, Base, Serving
  <2> QED BY <2>1, StagedIdle
<1>2. CASE Shutdown
  <2>1. sup'.pc = sup.pc /\ sup'.gen = sup.gen
    BY <1>2, CountersNat DEF Shutdown, SupType
  <2> QED BY <1>2, <2>1 DEF Shutdown, Staged, ReloadFits, CommitFits
<1> QED BY <1>1, <1>2, EndsStaged

LEMMA ChildStepStaged ==
    ASSUME Typed, Base, Staged, ChildStep
    PROVE  Staged'
<1> USE CountersNat DEF Staged
<1>1. sup.pc = "commit" => sup.gen # 0
  BY DEF Base, Chosen, Running
<1>2. CASE ChildUp
  <2>1. child'.alive /\ child'.serves = StartChoice /\ child'.reload = child.reload
    BY <1>2 DEF ChildUp, ChildType
  <2> QED BY <1>1, <1>2, <2>1 DEF ChildUp, ReloadFits, CommitFits, StartChoice
<1>3. CASE ChildUnbuilt \/ ChildDies
  BY <1>3, EndsStaged DEF ChildUnbuilt, ChildDies
<1>4. CASE ChildSick \/ ChildWell
  <2>1. child'.alive = child.alive /\ child'.serves = child.serves /\ child'.reload = child.reload
    BY <1>4 DEF ChildSick, ChildWell, ChildType
  <2> QED BY <1>4, <2>1 DEF ChildSick, ChildWell, ReloadFits, CommitFits
<1>5. ASSUME NEW g \in Gens, ReloadStage(g)
      PROVE  Staged'
  <2>1. child'.reload = g /\ ptr'.target = g
    BY <1>5, PointerTarget DEF ReloadStage, ChildType
  <2> QED BY <1>5, <2>1 DEF ReloadStage, ReloadFits, CommitFits
<1>6. CASE ReloadCommit \/ ReloadFail
  <2>1. child'.reload = 0
    BY <1>6 DEF ReloadCommit, HostCommits, ReloadFail, ChildType
  <2>2. ptr'.target = 0
    BY <1>6, PointerTarget DEF ReloadCommit, HostCommits, ReloadFail, ReloadFits
  <2> QED BY <1>1, <1>6, <2>1, <2>2 DEF ReloadCommit, ReloadFail, ReloadFits, CommitFits
<1> QED BY <1>2, <1>3, <1>4, <1>5, <1>6 DEF ChildStep

LEMMA SupervisorStepStaged ==
    ASSUME Typed, Base, Staged, SupervisorStep
    PROVE  Staged'
<1> USE CountersNat
<1>1. CASE Begin
  <2>1. BeginOK => sup'.pc = "loop"
    BY DEF BeginOK, SupType
  <2> QED BY <1>1, <2>1, EndsStaged, StagedKept
          DEF Begin, BeginUnreadable, BeginLatched, BeginRefused, BeginFailed, BeginOK
<1>2. CASE StartChild
  <2>1. sup'.pc # "commit"
    BY <1>2 DEF StartChild, SupType
  <2>2. child'.reload = 0
    BY <1>2 DEF StartChild, NoChild, Base, Serving
  <2> QED BY <2>1, <2>2, StagedIdle
<1>3. CASE Gate
  <2>1. ASSUME GatePassed PROVE Staged'
    <3>1. sup'.gen = sup.gen
      BY <2>1 DEF GatePassed, SupType
    <3> QED BY <2>1, <3>1 DEF GatePassed, Healthy, Staged, ReloadFits, CommitFits
  <2> QED BY <1>3, <2>1, EndsStaged DEF Gate
<1>4. CASE Commit
  <2>1. CASE ExitFailed(sup.gen, 0)
    BY <2>1, EndsStaged
  <2>2. CASE /\ ptr' = IF ptr.active = sup.gen THEN ptr ELSE Activated(ptr, sup.gen)
             /\ sup' = [sup EXCEPT !.pc = "publish"]
             /\ UNCHANGED <<rec, child>>
    <3>1. sup'.pc = "publish"
      BY <2>2 DEF SupType
    <3> QED BY <2>2, <3>1, PointerTarget, StagedKept
  <2> QED BY <1>4, <2>1, <2>2 DEF Commit
<1>5. CASE Publish \/ Watch \/ Observe \/ WatchEnded \/ JudgeHealthy \/ JudgeUnread
  <2>1. sup'.pc # "commit"
    BY <1>5 DEF Publish, Watch, Observe, WatchEnded, JudgeHealthy, JudgeUnread, SupType
  <2>2. UNCHANGED <<ptr, child>>
    BY <1>5 DEF Publish, Watch, Observe, WatchEnded, JudgeHealthy, JudgeUnread
  <2> QED BY <2>1, <2>2, StagedKept
<1>6. CASE JudgeUnhealthy
  <2>1. sup'.pc # "commit"
    BY <1>6 DEF JudgeUnhealthy, SupType
  <2>2. UNCHANGED <<ptr, child>> \/ child' = NoChild
    BY <1>6 DEF JudgeUnhealthy
  <2> QED BY <2>1, <2>2, StagedKept, StagedIdle, NoGoneChild
<1>7. CASE WorkerUnregistered \/ SupervisorFails \/ Stop \/ ResidentStop
  BY <1>7, EndsStaged DEF WorkerUnregistered, Stop, ResidentStop
<1>8. ASSUME NEW g, NEW a, AgainOrFailClosed(g, a) PROVE Staged'
  <2>1. sup' = [sup EXCEPT !.pc = "loop", !.gen = g, !.count = sup.count + 1]
           => sup'.pc # "commit"
    BY DEF SupType
  <2> QED BY <1>8, <2>1, EndsStaged, StagedKept DEF AgainOrFailClosed
<1>9. CASE Retry \/ Restart
  BY <1>8, <1>9, EndsStaged DEF Retry, Restart
<1> QED BY <1>1, <1>2, <1>3, <1>4, <1>5, <1>6, <1>7, <1>9 DEF SupervisorStep, Judge

Inv == Typed /\ Base /\ Staged

LEMMA InitBase == Init => Base
<1> SUFFICES ASSUME Init PROVE Base
  OBVIOUS
<1>1. sup.pc = "off" /\ sup.count = 0 /\ ~child.alive /\ child.reload = 0
  BY NoGoneChild DEF Init
<1>2. Budget
  BY <1>1, SupervisorAssumption DEF Init, Budget
<1> QED BY <1>1, <1>2 DEF Base, Serving, Chosen, Running

LEMMA InitInv == Init => Inv
<1> SUFFICES ASSUME Init PROVE Staged
  BY InitTyped, InitBase DEF Inv
<1> QED BY NoGoneChild DEF Init, Staged, ReloadFits, CommitFits

LEMMA InvStep == Inv /\ [Next]_supVars => Inv'
<1>1. ASSUME Inv, Next PROVE Inv'
  <2>1. Typed'
    BY <1>1, OuterType, ChildStepType, SupervisorStepType DEF Next, Inv
  <2>2. Base'
    BY <1>1, OuterBase, ChildStepBase, SupervisorStepBase DEF Next, Inv
  <2>3. Staged'
    BY <1>1, OuterStaged, ChildStepStaged, SupervisorStepStaged DEF Next, Inv
  <2> QED BY <2>1, <2>2, <2>3 DEF Inv
<1>2. ASSUME Inv, UNCHANGED supVars PROVE Inv'
  <2>1. Base' /\ Staged'
    BY <1>2
       DEF supVars, Inv, Base, Serving, Budget, Chosen, Running, Staged, ReloadFits, CommitFits
  <2> QED BY <1>2, <2>1, StutterType DEF Inv
<1> QED BY <1>1, <1>2

(* However it came to fail closed, a supervisor that stays resident for    *)
(* its control socket has no child left.                                   *)
THEOREM ResidentIsSilent == Spec => []ResidentServesNobody
<1>1. Inv => ResidentServesNobody
  BY DEF Inv, Base, Serving, ResidentServesNobody
<1> QED BY InitInv, InvStep, <1>1, PTL DEF Spec

(* Failed starts, failed gates and watchdog kills draw on one budget, in   *)
(* whatever mixture they come.                                             *)
THEOREM BudgetKept == Spec => []RestartBudget
<1>1. Inv => RestartBudget
  BY CountersNat DEF Inv, Base, Budget, RestartBudget
<1> QED BY InitInv, InvStep, <1>1, PTL DEF Spec

LEMMA ClearedActive ==
    ASSUME NEW p \in Pointers, NEW g
    PROVE  ClearTarget(p, g).active = p.active /\ Stage(p, g).active = p.active
BY PointerTarget

(* Two processes move the active pointer, the supervisor after its gate    *)
(* and the host after a reload, and each may act between the steps of the  *)
(* other.                                                                  *)
THEOREM OnlyServedIsCommitted == Spec => CommitsWhatIsServed
<1>1. ASSUME Inv, Next, ptr'.active # ptr.active
      PROVE  ptr'.active \in {child'.serves, child'.reload} \/ ~child'.alive
  <2> USE CountersNat DEF Inv
  <2>1. ~(OperatorStart \/ Relaunch \/ Shutdown \/ Crash)
    BY <1>1, ClearedActive DEF OperatorStart, Relaunch, Shutdown, Crash
  <2>2. ASSUME ChildStep PROVE ptr'.active = child'.serves
    <3>1. ReloadCommit
      BY <1>1, <2>2, ClearedActive
         DEF ChildStep, ChildUp, ChildUnbuilt, ChildDies, ChildEnds, ChildSick, ChildWell,
             ReloadStage, ReloadFail
    <3>2. child'.serves = child.reload
      BY <1>1, <3>1 DEF ReloadCommit, HostCommits, ChildType
    <3>3. ptr'.active = child.reload
      BY <1>1, <3>1, ClearedActive DEF ReloadCommit, HostCommits, Activated
    <3> QED BY <3>2, <3>3
  <2>3. ~(Begin \/ Watch \/ WorkerUnregistered \/ Observe \/ WatchEnded)
    BY <1>1, ClearedActive
       DEF Begin, BeginUnreadable, BeginLatched, BeginRefused, BeginFailed, BeginOK,
           FailClosed, ExitFailed, Watch, WorkerUnregistered, Observe, WatchEnded
  <2>4. ~(StartChild \/ Gate \/ Publish \/ Judge)
    BY <1>1 DEF StartChild, Gate, GatePassed, GateFailed, Publish, Judge, JudgeHealthy,
                JudgeUnread, JudgeUnhealthy
  <2>5. ~(Retry \/ Restart \/ SupervisorFails \/ Stop \/ ResidentStop)
    <3>1. ptr \in Pointers
      BY <1>1
    <3>2. ASSUME NEW g, ptr' = ClearTarget(ptr, g) PROVE FALSE
      BY <1>1, <3>1, <3>2, ClearedActive
    <3>3. ASSUME NEW g, NEW a, AgainOrFailClosed(g, a) PROVE FALSE
      <4>1. ptr' = ptr \/ ptr' = ClearTarget(ptr, g)
        BY <3>3 DEF AgainOrFailClosed, FailClosed
      <4> QED BY <1>1, <3>2, <4>1
    <3>4. ~Retry
      BY <3>3 DEF Retry
    <3>5. ~Restart
      BY <3>2, <3>3 DEF Restart, ExitFailed
    <3>6. ~SupervisorFails
      BY <3>2 DEF SupervisorFails
    <3>7. ~Stop /\ ~ResidentStop
      BY <1>1 DEF Stop, ResidentStop
    <3> QED BY <3>4, <3>5, <3>6, <3>7
  <2>6. ASSUME Commit PROVE ptr'.active \in {child.serves, child.reload} \/ ~child.alive
    <3>1. CanActivate(ptr, sup.gen, ptr.active) /\ ptr' = Activated(ptr, sup.gen)
      BY <1>1, <2>6, ClearedActive DEF Commit, ExitFailed
    <3>2. ptr.target = sup.gen /\ ptr'.active = sup.gen
      BY <1>1, <3>1, ClearedActive DEF CanActivate, Activated
    <3> QED BY <1>1, <2>6, <3>2 DEF Commit, Staged, CommitFits
  <2>7. Commit => UNCHANGED child \/ ~child'.alive
    BY NoGoneChild DEF Commit, ExitFailed
  <2> QED BY <1>1, <2>1, <2>2, <2>3, <2>4, <2>5, <2>6, <2>7 DEF Next, SupervisorStep
<1>2. Inv /\ [Next]_supVars =>
        [ptr'.active # ptr.active =>
            ptr'.active \in {child'.serves, child'.reload} \/ ~child'.alive]_supVars
  BY <1>1
<1> QED BY InitInv, InvStep, <1>2, PTL DEF Spec, CommitsWhatIsServed

-----------------------------------------------------------------------------
(* The latch.  The record of a fail-closed supervisor keeps its mark only  *)
(* while it is read as written: its supervisor resident or properly ended. *)
(* A crash turns the pid into one that is gone, hence Crashes = FALSE.     *)

Quenched == /\ rec.since /\ rec.phase \in {"STOPPED", "FAIL_CLOSED"}
            /\ rec.pid # "gone" /\ rec.child = "none"
            /\ sup.pc \in {"off", "begin", "resident"} /\ ~child.alive

LatchInv == (rec.since => Quenched) /\ ~sup.cur.since

LEMMA RecordSince ==
    ASSUME NEW r \in RecordType
    PROVE  /\ Observed(r).since => r.since
           /\ ChildGone(r).since = r.since
           /\ SupervisorGone(r).since = r.since
BY DEF Observed, ChildGone, SupervisorGone, RecordType, NoRecord

LEMMA FailClosedLatch ==
    ASSUME Typed, LatchInv, NEW g, NEW a, NEW o \in BOOLEAN, FailClosed(g, a, o)
    PROVE  LatchInv' /\ (Quenched => Quenched')
<1>1. sup \in SupType /\ rec \in RecordType /\ ~NoChild.alive
  BY NoChildType DEF Typed, Core
<1>2. sup'.pc = "resident" /\ ~sup'.cur.since /\ ~child'.alive
  BY <1>1 DEF FailClosed, SupType, NoRecord
<1>3. CASE rec' = Record("FAIL_CLOSED", a, g, "none", TRUE)
  <2>1. rec'.since /\ rec'.phase = "FAIL_CLOSED" /\ rec'.pid = "live" /\ rec'.child = "none"
    BY <1>3 DEF Record
  <2> QED BY <1>2, <2>1 DEF LatchInv, Quenched
<1>4. CASE rec' = ChildGone(rec)
  <2>1. /\ rec'.since = rec.since /\ rec'.phase = rec.phase /\ rec'.pid = rec.pid
        /\ rec.child = "none" => rec'.child = "none"
    BY <1>1, <1>4 DEF ChildGone, RecordType
  <2> QED BY <1>2, <2>1 DEF LatchInv, Quenched
<1> QED BY <1>3, <1>4 DEF FailClosed

LEMMA ExitFailedLatch ==
    ASSUME Typed, NEW g, NEW a, ExitFailed(g, a)
    PROVE  LatchInv'
<1>1. sup \in SupType
  BY DEF Typed, Core
<1>2. ~SupervisorGone(Record("FAILED", a, g, "none", FALSE)).since
  BY DEF Record, SupervisorGone, ChildGone
<1> QED BY <1>1, <1>2 DEF ExitFailed, SupType, NoRecord, LatchInv

LEMMA ExitStoppedLatch ==
    ASSUME Typed, NEW c \in RecordType, ExitStopped(c), ~rec.since
    PROVE  LatchInv'
<1>1. sup \in SupType /\ rec \in RecordType /\ ~NoChild.alive
  BY NoChildType DEF Typed, Core
<1>2. sup'.pc = "off" /\ ~sup'.cur.since /\ ~child'.alive
  BY <1>1 DEF ExitStopped, SupType, NoRecord
<1>3. CASE c = NoRecord
  <2>1. rec' = ChildGone(rec)
    BY <1>3 DEF ExitStopped
  <2> QED BY <1>1, <1>2, <2>1, RecordSince DEF LatchInv
<1>4. CASE c # NoRecord
  <2>1. rec' = [c EXCEPT !.phase = "STOPPED", !.pid = "none", !.child = "none", !.active = 0]
    BY <1>4 DEF ExitStopped
  <2>2. rec'.since = c.since /\ rec'.phase = "STOPPED" /\ rec'.pid = "none" /\ rec'.child = "none"
    BY <2>1 DEF RecordType
  <2> QED BY <1>2, <2>2 DEF LatchInv, Quenched
<1> QED BY <1>3, <1>4

(* Once marked, a record leads every later supervisor into the latch. *)
LEMMA QuenchedStep ==
    ASSUME Typed, LatchInv, Quenched, Crashes = FALSE, Next
    PROVE  LatchInv' /\ Quenched'
<1>1. sup \in SupType /\ rec \in RecordType
  BY DEF Typed, Core
<1>2. Observed(rec) = rec /\ DurableFailClosed(rec) /\ rec.since /\ ~child.alive
  BY DEF Quenched, Observed, DurableFailClosed
<1>3. CASE OperatorStart
  <2>1. PICK g : Launch(g)
    BY <1>3 DEF OperatorStart
  <2>2. sup'.pc = "begin" /\ sup'.cur = sup.cur /\ UNCHANGED <<rec, child>>
    BY <1>1, <1>3, <2>1 DEF OperatorStart, Launch, SupType
  <2> QED BY <2>2 DEF LatchInv, Quenched
<1>4. CASE Shutdown
  <2>1. sup'.pc = sup.pc /\ sup'.cur = sup.cur /\ UNCHANGED <<rec, child>>
    BY <1>1, <1>4 DEF Shutdown, SupType
  <2> QED BY <2>1 DEF LatchInv, Quenched
<1>5. CASE BeginUnreadable \/ BeginLatched
  <2>1. FailClosed(sup.gen, 0, TRUE) \/ FailClosed(sup.gen, 0, FALSE)
    BY <1>5 DEF BeginUnreadable, BeginLatched
  <2> QED BY <2>1, FailClosedLatch
<1>6. CASE ResidentStop
  <2> DEFINE new == Record("FAIL_CLOSED", 0, sup.gen, "none", TRUE)
  <2>1. new.since /\ NoRecord.since = FALSE
    BY DEF Record, NoRecord
  <2>2. PICK c : ExitStopped(c) /\ c \in {new, rec}
    BY <1>2, <1>6 DEF ResidentStop
  <2>3. c.since /\ c # NoRecord /\ c \in RecordType
    <3>1. new \in RecordType
      BY <1>1, NewRecordType DEF SupType, GenOrNone, Phases, Life
    <3> HIDE DEF new
    <3>2. CASE c = new
      BY <2>1, <3>1, <3>2
    <3>3. CASE c = rec
      BY <1>1, <1>2, <2>1, <3>3
    <3> QED BY <2>2, <3>2, <3>3
  <2> HIDE DEF new
  <2>4. rec' = [c EXCEPT !.phase = "STOPPED", !.pid = "none", !.child = "none", !.active = 0]
    BY <2>2, <2>3 DEF ExitStopped
  <2>5. rec'.since = c.since /\ rec'.phase = "STOPPED" /\ rec'.pid = "none" /\ rec'.child = "none"
    BY <2>3, <2>4 DEF RecordType
  <2>6. sup'.pc = "off" /\ ~sup'.cur.since /\ ~child'.alive
    BY <1>1, <2>2, NoChildType DEF ExitStopped, SupType, NoRecord
  <2> QED BY <2>3, <2>5, <2>6 DEF LatchInv, Quenched
<1>7. ~Relaunch /\ ~Crash /\ ~ChildStep
  BY <1>2 DEF Relaunch, Crash, Quenched, ChildStep, ChildUp, ChildUnbuilt, ChildDies, ChildSick,
              ChildWell, ReloadStage, ReloadCommit, ReloadFail
<1>8. ~BeginRefused /\ ~BeginFailed /\ ~BeginOK /\ ~SupervisorFails
  BY <1>2 DEF BeginRefused, BeginFailed, BeginOK, SupervisorFails
<1>9. ~StartChild /\ ~Gate /\ ~Commit /\ ~Publish /\ ~Watch /\ ~WorkerUnregistered /\ ~Observe
      /\ ~Judge /\ ~WatchEnded /\ ~Retry /\ ~Restart /\ ~Stop
  BY DEF Quenched, StartChild, Gate, GatePassed, GateFailed, Commit, Publish, Watch,
         WorkerUnregistered, Observe, Judge, JudgeHealthy, JudgeUnread, JudgeUnhealthy, WatchEnded,
         Retry, Restart, Stop
<1> QED BY <1>3, <1>4, <1>5, <1>6, <1>7, <1>8, <1>9 DEF Next, SupervisorStep, Begin

(* And nothing but failing closed marks a record. *)
LEMMA UnmarkedStep ==
    ASSUME Typed, LatchInv, ~rec.since, Crashes = FALSE, Next
    PROVE  LatchInv'
<1>1. sup \in SupType /\ rec \in RecordType /\ sup.cur \in RecordType /\ ~sup.cur.since
      /\ ~NoRecord.since /\ sup.gen \in GenOrNone
  BY DEF Typed, Core, SupType, LatchInv, NoRecord
<1>2. /\ ~Observed(rec).since /\ ~ChildGone(rec).since /\ ~SupervisorGone(rec).since
      /\ ~ChildGone(sup.cur).since /\ Observed(rec) \in RecordType
  BY <1>1, RecordSince, RecordOpsType
<1>3. ASSUME ~rec'.since, ~sup'.cur.since PROVE LatchInv'
  BY <1>3 DEF LatchInv
<1>4. CASE OperatorStart \/ Relaunch
  <2>1. PICK g : Launch(g)
    BY <1>4 DEF OperatorStart, Relaunch
  <2>2. sup'.cur = sup.cur /\ rec' = rec
    BY <1>1, <1>4, <2>1 DEF OperatorStart, Relaunch, Launch, SupType
  <2> QED BY <1>1, <1>3, <2>2
<1>5. CASE Shutdown \/ Crash \/ SupervisorFails
  <2>1. sup'.cur = sup.cur /\ rec' = rec
    BY <1>1, <1>5 DEF Shutdown, Crash, SupervisorFails, SupType
  <2> QED BY <1>1, <1>3, <2>1
<1>6. CASE ChildUnbuilt \/ ChildDies
  <2>1. sup' = [sup EXCEPT !.cur = ChildGone(sup.cur)] /\ rec' = ChildGone(rec)
    BY <1>6 DEF ChildUnbuilt, ChildDies, ChildEnds
  <2>2. sup'.cur = ChildGone(sup.cur)
    BY <1>1, <2>1 DEF SupType
  <2> QED BY <1>2, <1>3, <2>1, <2>2
<1>7. CASE ChildUp \/ ChildSick \/ ChildWell \/ (\E g \in Gens : ReloadStage(g)) \/ ReloadCommit
           \/ ReloadFail
  <2>1. UNCHANGED <<sup, rec>>
    BY <1>7 DEF ChildUp, ChildSick, ChildWell, ReloadStage, ReloadCommit, ReloadFail
  <2> QED BY <1>1, <1>3, <2>1
<1>8. ASSUME NEW g, NEW a, NEW o \in BOOLEAN, FailClosed(g, a, o) PROVE LatchInv'
  BY <1>8, FailClosedLatch
<1>9. ASSUME NEW g, NEW a, ExitFailed(g, a) PROVE LatchInv'
  BY <1>9, ExitFailedLatch
<1>10. CASE BeginUnreadable \/ BeginLatched \/ BeginRefused \/ BeginFailed \/ WorkerUnregistered
  BY <1>8, <1>9, <1>10
     DEF BeginUnreadable, BeginLatched, BeginRefused, BeginFailed, WorkerUnregistered
<1>11. CASE BeginOK \/ GatePassed \/ GateFailed \/ Watch \/ WatchEnded
  <2>1. sup'.cur = sup.cur /\ rec' \in {rec, ChildGone(rec)}
    BY <1>1, <1>11 DEF BeginOK, GatePassed, GateFailed, Watch, WatchEnded, SupType
  <2> QED BY <1>1, <1>2, <1>3, <2>1
<1>12. CASE StartChild \/ Publish
  <2>1. PICK p, a, g, k : rec' = Record(p, a, g, k, FALSE)
    BY <1>12 DEF StartChild, Publish
  <2>2. ~rec'.since
    BY <2>1 DEF Record
  <2>3. sup'.cur = sup.cur
    BY <1>1, <1>12 DEF StartChild, Publish, SupType
  <2> QED BY <1>1, <1>3, <2>2, <2>3
<1>13. CASE Commit
  <2>1. CASE ExitFailed(sup.gen, 0)
    BY <1>9, <2>1
  <2>2. CASE ~ExitFailed(sup.gen, 0)
    <3>1. sup'.cur = sup.cur /\ rec' = rec
      BY <1>1, <1>13, <2>2 DEF Commit, SupType
    <3> QED BY <1>1, <1>3, <3>1
  <2> QED BY <2>1, <2>2
<1>14. CASE Observe
  <2>1. PICK c \in {Observed(rec), NoRecord}, u \in BOOLEAN :
           sup' = [sup EXCEPT !.pc = "judge", !.ok = Healthy(sup.gen), !.unread = u, !.cur = c]
    BY <1>14 DEF Observe
  <2>2. sup'.cur = c /\ rec' = rec
    BY <1>1, <1>14, <2>1 DEF Observe, SupType
  <2> QED BY <1>1, <1>2, <1>3, <2>1, <2>2
<1>15. CASE Judge
  <2> DEFINE fresh == [sup.cur EXCEPT !.phase = "HEALTHY", !.active = sup.gen, !.accepted = sup.gen]
             degraded == IF sup.cur = NoRecord THEN rec ELSE [sup.cur EXCEPT !.phase = "DEGRADED"]
  <2>1. fresh.since = sup.cur.since
    BY <1>1 DEF RecordType
  <2>2. degraded \in RecordType /\ ~degraded.since
    BY <1>1 DEF RecordType, Phases
  <2>3. rec' \in {rec, fresh, degraded, ChildGone(degraded)}
    BY <1>15 DEF Judge, JudgeHealthy, JudgeUnread, JudgeUnhealthy
  <2>4. sup'.cur = NoRecord
    BY <1>1, <1>15 DEF Judge, JudgeHealthy, JudgeUnread, JudgeUnhealthy, SupType
  <2> HIDE DEF fresh, degraded
  <2>5. ~ChildGone(degraded).since
    BY <2>2, RecordSince
  <2> QED BY <1>1, <1>3, <2>1, <2>2, <2>3, <2>4, <2>5
<1>16. CASE Retry \/ Restart
  <2>1. CASE \E g, a : \E o \in BOOLEAN : FailClosed(g, a, o)
    BY <1>8, <2>1
  <2>2. CASE \E g, a : ExitFailed(g, a)
    BY <1>9, <2>2
  <2>3. CASE rec' = rec /\ \E g : sup' = [sup EXCEPT !.pc = "loop", !.gen = g,
                                                     !.count = sup.count + 1]
    BY <1>1, <1>3, <2>3 DEF SupType
  <2> QED BY <1>16, <2>1, <2>2, <2>3 DEF Retry, Restart, AgainOrFailClosed
<1>17. CASE Stop \/ ResidentStop
  <2>1. Record("FAIL_CLOSED", 0, sup.gen, "none", TRUE) \in RecordType
    BY <1>1, NewRecordType DEF GenOrNone, Phases, Life
  <2>2. PICK c \in RecordType : ExitStopped(c)
    BY <1>2, <1>17, <2>1 DEF Stop, ResidentStop
  <2> QED BY <2>2, ExitStoppedLatch
<1> QED BY <1>4, <1>5, <1>6, <1>7, <1>10, <1>11, <1>12, <1>13, <1>14, <1>15, <1>16, <1>17
        DEF Next, ChildStep, SupervisorStep, Begin, Gate

(* As long as supervisors end by an explicit stop, none starts a child     *)
(* after one of them had failed closed: the record carries the latch from  *)
(* one to the next, through starts, unreadable records and further stops.  *)
THEOREM LatchAlwaysHolds ==
    ASSUME Crashes = FALSE
    PROVE  Spec => LatchHolds
<1>1. Init => LatchInv
  BY DEF Init, LatchInv, NoRecord
<1>2. Typed /\ LatchInv /\ [Next]_supVars => LatchInv'
  <2>1. CASE UNCHANGED supVars
    BY <2>1 DEF supVars, LatchInv, Quenched
  <2>2. CASE Next
    BY <2>2, QuenchedStep, UnmarkedStep DEF LatchInv
  <2> QED BY <2>1, <2>2
<1>3. Typed /\ LatchInv /\ Quenched /\ [Next]_supVars => Quenched'
  <2>1. CASE UNCHANGED supVars
    BY <2>1 DEF supVars, Quenched
  <2>2. CASE Next
    BY <2>2, QuenchedStep
  <2> QED BY <2>1, <2>2
<1>4. LatchInv /\ Latched => Quenched
  BY DEF LatchInv, Latched
<1>5. Quenched => ~child.alive
  BY DEF Quenched
<1>6. Typed /\ [Next]_supVars => Typed'
  BY OuterType, ChildStepType, SupervisorStepType, StutterType DEF Next
<1> QED BY InitTyped, <1>1, <1>2, <1>3, <1>4, <1>5, <1>6, PTL DEF Spec, LatchHolds

-----------------------------------------------------------------------------
(*                   PART TWO: THE ACTIVATOR AROUND IT                     *)

-----------------------------------------------------------------------------
(* Types.                                                                  *)

ActPcs == {"idle", "building", "decide", "effect", "send", "await", "record",
           "mark", "drain", "draining", "undrained", "revoke", "stop",
           "stopwait", "forced", "stage", "launch", "wait", "failed", "undo",
           "undostage", "undolaunch", "undocheck", "undofailed", "receipt", "operation"}

ActType == [pc : ActPcs, n : 0..MaxAttempts, gen : GenOrNone, prev : GenOrNone,
            delta : DeltaKinds, mode : ModeKinds, copy : RecordType,
            drains : BOOLEAN, out : TerminalClass \cup {"NONE"}]

ReceiptType == [class : TerminalClass \cup {"NONE", "ACCEPTED", "BUILDING"},
                effect : BOOLEAN,
                op : TerminalOp \cup {"NONE", "PENDING", "RUNNING"},
                gen : GenOrNone, prev : GenOrNone]

RpcType == [req : GenOrNone, expected : GenOrNone, built : BOOLEAN,
            ans : {"none", "ok", "failed"}]

ActTyped == /\ act \in ActType
            /\ jrn \in [Attempts -> ReceiptType]
            /\ rpc \in RpcType

LEMMA ActTypedParts ==
    ASSUME Typed, ActTyped
    PROVE  ActTypeOK
BY TypedParts DEF ActTyped, ActTypeOK, ActType, ActPcs, ReceiptType, RpcType

LEMMA IdleType == Idle \in ActType /\ Idle.pc = "idle"
<1>1. 0 \in 0..MaxAttempts /\ 0 \in GenOrNone
  BY ActivationAssumption DEF GenOrNone
<1> QED BY <1>1, NoRecordType DEF Idle, ActType, ActPcs, DeltaKinds, ModeKinds

LEMMA NoRpcType == NoRpc \in RpcType /\ ~NoRpc.built
BY DEF NoRpc, RpcType, GenOrNone

LEMMA GotoType ==
    ASSUME act \in ActType, NEW p \in ActPcs, Goto(p)
    PROVE  /\ act' \in ActType /\ act'.pc = p
           /\ act'.n = act.n /\ act'.gen = act.gen /\ act'.out = act.out
BY DEF Goto, ActType

LEMMA EndedType ==
    ASSUME act \in ActType, NEW c \in TerminalClass, End(c)
    PROVE  /\ act' \in ActType /\ act'.pc = "receipt"
           /\ act'.n = act.n /\ act'.gen = act.gen /\ act'.out = c
<1>1. "receipt" \in ActPcs /\ c \in TerminalClass \cup {"NONE"}
  BY DEF ActPcs
<1> QED BY <1>1 DEF End, ActType

LEMMA CopyType ==
    ASSUME act \in ActType, NEW p \in Phases, NEW s \in BOOLEAN
    PROVE  /\ [act.copy EXCEPT !.phase = p, !.accepted = act.gen] \in RecordType
           /\ [act.copy EXCEPT !.accepted = act.gen] \in RecordType
           /\ [act.copy EXCEPT !.phase = p, !.active = act.gen, !.accepted = act.gen]
                 \in RecordType
           /\ TerminalRecord(p, s) \in RecordType
<1>1. act.copy \in RecordType /\ act.gen \in GenOrNone /\ 0 \in GenOrNone /\ "none" \in Life
  BY DEF ActType, GenOrNone, Life
<1>2. /\ [act.copy EXCEPT !.phase = p, !.accepted = act.gen] \in RecordType
      /\ [act.copy EXCEPT !.accepted = act.gen] \in RecordType
  BY <1>1 DEF RecordType
<1>3. [act.copy EXCEPT !.phase = p, !.active = act.gen, !.accepted = act.gen] \in RecordType
  BY <1>1 DEF RecordType
<1>4. \A r \in RecordType : [r EXCEPT !.pid = "none", !.child = "none", !.active = 0] \in RecordType
  BY <1>1 DEF RecordType
<1>5. TerminalRecord(p, s) \in RecordType
  BY <1>2, <1>4 DEF TerminalRecord
<1> QED BY <1>2, <1>3, <1>5

LEMMA ReconciledType ==
    ASSUME NEW r \in ReceiptType
    PROVE  Reconciled(r) \in ReceiptType
<1>1. {"RELOAD_FAILED"} \subseteq TerminalClass /\ {"FAILED", "SUCCEEDED"} \subseteq TerminalOp
  BY DEF TerminalClass, TerminalOp
<1>2. [r EXCEPT !.class = "RELOAD_FAILED", !.op = "FAILED"] \in ReceiptType
  BY <1>1 DEF ReceiptType
<1>3. [r EXCEPT !.op = IF r.class = "RELOAD_FAILED" THEN "FAILED" ELSE "SUCCEEDED"] \in ReceiptType
  BY <1>1 DEF ReceiptType
<1> QED BY <1>2, <1>3 DEF Reconciled

LEMMA SweepType ==
    ASSUME jrn \in [Attempts -> ReceiptType], Sweep
    PROVE  jrn' \in [Attempts -> ReceiptType]
BY ReconciledType DEF Sweep

(* Writing a field of the activator's own receipt. *)
LEMMA WriteType ==
    ASSUME jrn \in [Attempts -> ReceiptType], NEW n \in Attempts, NEW r \in ReceiptType,
           jrn' = [jrn EXCEPT ![n] = r]
    PROVE  jrn' \in [Attempts -> ReceiptType]
OBVIOUS

-----------------------------------------------------------------------------
(* What the activator and the host do to the runtime.                      *)

LEMMA RuntimeRewritten ==
    ASSUME Typed, Base, ptr' \in Pointers, rec' \in RecordType,
           UNCHANGED <<sup, child, ledger, used, spawns, restarts>>
    PROVE  Typed' /\ Base'
BY DEF Typed, Core, Counters, FailsBelow, Base, Serving, Budget, Chosen, Running

LEMMA RuntimeAlone ==
    ASSUME Typed, Base, UNCHANGED supVars
    PROVE  Typed' /\ Base'
BY StutterType DEF supVars, Base, Serving, Budget, Chosen, Running

LEMMA RuntimeFault ==
    ASSUME Typed, Base, Fault, UNCHANGED <<ptr, rec, sup, child, ledger, spawns, restarts>>
    PROVE  Typed' /\ Base'
BY FaultType DEF Typed, Core, Counters, FailsBelow, Base, Serving, Budget, Chosen, Running

LEMMA GateMoved ==
    ASSUME Typed, Base, child' \in ChildType, child'.alive = child.alive,
           child'.reload = child.reload, ptr' \in Pointers, rec' \in RecordType,
           UNCHANGED <<sup, ledger, used, spawns, restarts>>
    PROVE  Typed' /\ Base'
BY DEF Typed, Core, Counters, FailsBelow, Base, Serving, Budget, Chosen, Running

LEMMA StopAsked ==
    ASSUME Typed, Base, sup' = [sup EXCEPT !.stop = Running], rec' \in RecordType,
           UNCHANGED <<ptr, child, ledger, used, spawns, restarts>>
    PROVE  Typed' /\ Base'
<1>1. Running \in BOOLEAN
  BY DEF Running
<1>2. /\ sup' \in SupType /\ sup'.pc = sup.pc /\ sup'.gen = sup.gen
      /\ sup'.count = sup.count /\ sup'.fails = sup.fails
  BY <1>1, CountersNat DEF SupType
<1> QED BY <1>2 DEF Typed, Core, Counters, FailsBelow, Base, Serving, Budget, Chosen, Running

LEMMA KilledKeeps ==
    ASSUME Typed, Base, Killed, rec' \in RecordType,
           UNCHANGED <<ptr, ledger, used, spawns, restarts>>
    PROVE  Typed' /\ Base'
<1>1. sup' \in SupType /\ sup'.pc = "crashed" /\ sup'.count = sup.count
  BY CountersNat, NoRecordType DEF Killed, SupType
<1>2. Base'
  BY <1>1, BaseWithoutChild, NoGoneChild DEF Killed
<1> QED BY <1>1, <1>2, NoChildType DEF Killed, Typed, Core, Counters, FailsBelow

LEMMA LaunchedKeeps ==
    ASSUME Typed, Base, Launched \/ LaunchFails, UNCHANGED <<ptr, rec, child, restarts>>
    PROVE  Typed' /\ Base'
<1>1. CASE LaunchFails
  BY <1>1, RuntimeFault DEF LaunchFails
<1>2. CASE UNCHANGED used /\ UNCHANGED <<sup, ledger, spawns>>
  BY <1>2, RuntimeAlone DEF supVars
<1>3. CASE UNCHANGED used /\ Launch(StartChoice)
  <2>1. StartChoice \in GenOrNone /\ StartChoice # 0
    BY ChoiceType, TypedParts, SupervisorAssumption DEF GenOrNone
  <2>2. Base'
    BY <1>3, <2>1, LaunchBase
  <2> QED BY <1>3, <2>1, <2>2, LaunchType DEF Typed, Core, Counters, FailsBelow
<1> QED BY <1>1, <1>2, <1>3 DEF Launched

(* Every step of the activator and of the host keeps the runtime typed and *)
(* its supervisor within budget.                                           *)
LEMMA ActivatorKeepsRuntime ==
    ASSUME Typed, Base, ActTyped, ActivatorStep
    PROVE  Typed' /\ Base'
<1>1. ptr \in Pointers /\ rec \in RecordType /\ act \in ActType /\ act.gen \in GenOrNone
      /\ act.prev \in GenOrNone /\ child \in ChildType
  BY DEF Typed, Core, ActTyped, ActType
<1>2. \A g \in GenOrNone : Stage(ptr, g) \in Pointers /\ ClearTarget(ptr, g) \in Pointers
  BY <1>1, PointerOpsType
<1>3. CASE ActBuilding
  BY <1>3, RuntimeAlone, RuntimeFault DEF ActBuilding
<1>4. CASE ActDecide \/ ActUndoStage
  <2>1. ptr' \in Pointers
    BY <1>1, <1>2, <1>4 DEF ActDecide, ActUndoStage
  <2>2. UNCHANGED <<rec, sup, child, ledger, used, spawns, restarts>>
    BY <1>4 DEF ActDecide, ActUndoStage
  <2> QED BY <1>1, <2>1, <2>2, RuntimeRewritten
<1>5. CASE ActEffect \/ ActSend \/ ActAwait \/ ActDrained \/ ActWait \/ ActUndoCheck
           \/ ActReceipt \/ ActOperation
  BY <1>5, RuntimeAlone
     DEF ActEffect, ActSend, ActAwait, ActDrained, ActWait, ActUndoCheck, ActReceipt, ActOperation
<1>6. CASE ActRecord
  <2>1. rec' \in RecordType
    BY <1>1, <1>6, CopyType DEF ActRecord, Phases
  <2> QED BY <1>1, <1>6, <2>1, RuntimeRewritten DEF ActRecord
<1>7. CASE ActMark
  <2>1. rec' \in RecordType
    BY <1>1, <1>7, CopyType DEF ActMark, Phases
  <2> QED BY <1>1, <1>7, <2>1, RuntimeRewritten DEF ActMark
<1>8. CASE ActDrain
  <2>1. child' \in ChildType /\ child'.alive = child.alive /\ child'.reload = child.reload
    BY <1>1, <1>8 DEF ActDrain, ChildType
  <2> QED BY <1>1, <1>8, <2>1, GateMoved DEF ActDrain
<1>9. CASE ActResume
  <2>1. child' \in ChildType /\ child'.alive = child.alive /\ child'.reload = child.reload
    BY <1>1, <1>9 DEF ActResume, ChildType
  <2>2. rec' \in RecordType
    BY <1>1, <1>9, CopyType DEF ActResume, Phases
  <2> QED BY <1>1, <1>9, <2>1, <2>2, GateMoved DEF ActResume
<1>10. CASE ActFailClosed
  <2>1. CASE child.alive /\ child.serves # 0
    <3>1. child' \in ChildType /\ child'.alive = child.alive /\ child'.reload = child.reload
      BY <1>1, <1>10, <2>1 DEF ActFailClosed, ChildType
    <3>2. rec' \in RecordType
      BY <1>1, <1>10, <2>1, CopyType DEF ActFailClosed, Phases
    <3> QED BY <1>1, <1>10, <2>1, <3>1, <3>2, GateMoved DEF ActFailClosed
  <2>2. CASE ~(child.alive /\ child.serves # 0)
    BY <1>1, <1>10, <2>2, StopAsked DEF ActFailClosed
  <2> QED BY <2>1, <2>2
<1>11. CASE ActRevoke
  <2>1. TerminalRecord("FAIL_CLOSED", TRUE) \in RecordType
        /\ TerminalRecord("FAIL_CLOSED", FALSE) \in RecordType
    BY <1>1, CopyType DEF Phases
  <2> QED BY <1>1, <1>11, <2>1, KilledKeeps, RuntimeRewritten DEF ActRevoke
<1>12. CASE ActStop
  <2>1. rec' \in RecordType
    BY <1>1, <1>12, CopyType DEF ActStop, Phases
  <2> QED BY <1>12, <2>1, StopAsked DEF ActStop
<1>13. \A p \in {"FAIL_CLOSED", "FAILED"}, s \in BOOLEAN : TerminalRecord(p, s) \in RecordType
  BY <1>1, CopyType DEF Phases
<1>14. CASE ActStopped
  <2>1. SupervisorGone(rec) \in RecordType
    BY <1>1, RecordOpsType
  <2> QED BY <1>1, <1>13, <1>14, <2>1, KilledKeeps, RuntimeRewritten DEF ActStopped
<1>15. CASE ActForced
  <2>1. rec' \in RecordType
    BY <1>1, <1>13, <1>15 DEF ActForced
  <2> QED BY <1>1, <1>15, <2>1, RuntimeRewritten DEF ActForced
<1>16. CASE ActStage
  <2>1. ptr' \in Pointers
    BY <1>1, <1>2, <1>16 DEF ActStage
  <2> QED BY <1>1, <1>16, <2>1, RuntimeRewritten DEF ActStage
<1>17. CASE ActLaunch \/ ActUndoLaunch
  BY <1>17, LaunchedKeeps DEF ActLaunch, ActUndoLaunch
<1>18. CASE ActFailed
  <2>1. ptr' \in Pointers /\ rec' \in RecordType
    BY <1>1, <1>2, <1>13, <1>18 DEF ActFailed
  <2> QED BY <1>18, <2>1, RuntimeRewritten DEF ActFailed
<1>19. CASE ActUndo
  BY <1>1, <1>19, StopAsked DEF ActUndo
<1>20. CASE ActUndoFailed
  <2>1. ptr' \in Pointers /\ rec' \in RecordType
    BY <1>1, <1>2, <1>13, <1>20 DEF ActUndoFailed
  <2> QED BY <1>20, <2>1, RuntimeRewritten DEF ActUndoFailed
<1> QED BY <1>3, <1>4, <1>5, <1>6, <1>7, <1>8, <1>9, <1>10, <1>11, <1>12, <1>14, <1>15,
           <1>16, <1>17, <1>18, <1>19, <1>20 DEF ActivatorStep

LEMMA HostKeepsRuntime ==
    ASSUME Typed, Base, ActTyped, HostStep
    PROVE  Typed' /\ Base'
<1>1. ptr \in Pointers /\ rec \in RecordType /\ rpc.req \in GenOrNone /\ child \in ChildType
  BY DEF Typed, Core, ActTyped, RpcType
<1>2. Activated(ptr, rpc.req) \in Pointers
  BY <1>1, PointerOpsType
<1>3. child' \in ChildType /\ child'.alive = child.alive /\ child'.reload = child.reload
  BY <1>1 DEF HostStep, HostBuilds, HostReloads, HostRefuses, ChildType
<1>4. ptr' \in Pointers /\ rec' \in RecordType
  BY <1>1, <1>2 DEF HostStep, HostBuilds, HostReloads, HostRefuses
<1>5. UNCHANGED <<sup, ledger, used, spawns, restarts>>
  BY DEF HostStep, HostBuilds, HostReloads, HostRefuses
<1> QED BY <1>3, <1>4, <1>5, GateMoved

-----------------------------------------------------------------------------
(* The journal.  An activator at work knows its attempt, has its outcome   *)
(* before it closes the receipt, and closes the operation with the class   *)
(* it wrote: nobody changes a closed receipt's class.                      *)

Named == act.pc # "idle" =>
            act.n \in Attempts /\ act.gen # 0 /\ jrn[act.n].gen = act.gen

OutSet == act.pc \in {"record", "receipt", "operation"} => act.out \in TerminalClass

OutWritten == act.pc = "operation" => jrn[act.n].class = act.out

Journal == Named /\ OutSet /\ OutWritten /\ OperationAgrees

ActOK == act \in ActType /\ jrn \in [Attempts -> ReceiptType] /\ Journal

Underway == ActPcs \ {"idle", "record", "receipt", "operation"}

LEMMA GotoOK ==
    ASSUME ActOK, act.pc # "idle", NEW p \in Underway, Goto(p), jrn' = jrn
    PROVE  ActOK'
<1>1. /\ act' \in ActType /\ act'.pc = p
      /\ act'.n = act.n /\ act'.gen = act.gen
  BY GotoType DEF ActOK, Underway
<1> QED BY <1>1 DEF ActOK, Journal, Named, OutSet, OutWritten, OperationAgrees, Underway

LEMMA RaisedOK ==
    ASSUME ActOK, Raised, jrn' = jrn
    PROVE  ActOK'
BY IdleType DEF ActOK, Raised, Journal, Named, OutSet, OutWritten, OperationAgrees

LEMMA EndOK ==
    ASSUME ActOK, act.pc # "idle", NEW c \in TerminalClass, End(c), jrn' = jrn
    PROVE  ActOK'
<1>1. /\ act' \in ActType /\ act'.pc = "receipt"
      /\ act'.n = act.n /\ act'.gen = act.gen /\ act'.out = c
  BY EndedType DEF ActOK
<1> QED BY <1>1 DEF ActOK, Journal, Named, OutSet, OutWritten, OperationAgrees

(* What a write to the receipt n leaves of the journal. *)
LEMMA Written ==
    ASSUME jrn \in [Attempts -> ReceiptType], OperationAgrees,
           NEW n \in Attempts, NEW r \in ReceiptType,
           jrn' = [jrn EXCEPT ![n] = r],
           r.op = "SUCCEEDED" => r.class \in TerminalClass \ {"RELOAD_FAILED"},
           r.op = "FAILED" => r.class = "RELOAD_FAILED"
    PROVE  jrn' \in [Attempts -> ReceiptType] /\ OperationAgrees' /\ jrn'[n] = r
BY DEF OperationAgrees

LEMMA EffectWritten ==
    ASSUME ActOK, act.pc # "idle", jrn' = [jrn EXCEPT ![act.n].effect = TRUE]
    PROVE  /\ jrn' \in [Attempts -> ReceiptType] /\ OperationAgrees'
           /\ jrn'[act.n].gen = jrn[act.n].gen
<1>1. act.n \in Attempts /\ jrn \in [Attempts -> ReceiptType] /\ OperationAgrees
  BY DEF ActOK, Journal, Named
<1> DEFINE r == [jrn[act.n] EXCEPT !.effect = TRUE]
<1>2. jrn[act.n] \in ReceiptType
  BY <1>1
<1>3. r \in ReceiptType /\ r.op = jrn[act.n].op /\ r.class = jrn[act.n].class
      /\ r.gen = jrn[act.n].gen
  BY <1>2 DEF ReceiptType
<1>4. jrn' = [jrn EXCEPT ![act.n] = r]
  BY <1>1
<1> HIDE DEF r
<1> QED BY <1>1, <1>3, <1>4, Written DEF OperationAgrees

LEMMA MarkEffectOK ==
    ASSUME ActOK, act.pc # "idle", NEW p \in Underway, MarkEffect(p)
    PROVE  ActOK'
<1>1. CASE ~Open(act.n)
  BY <1>1, RaisedOK DEF MarkEffect
<1>2. CASE Open(act.n)
  <2>1. /\ act' \in ActType /\ act'.pc = p
        /\ act'.n = act.n /\ act'.gen = act.gen
    BY <1>2, GotoType DEF ActOK, Underway, MarkEffect
  <2>2. /\ jrn' \in [Attempts -> ReceiptType] /\ OperationAgrees'
        /\ jrn'[act.n].gen = jrn[act.n].gen
    BY <1>2, EffectWritten DEF MarkEffect
  <2> QED BY <2>1, <2>2 DEF ActOK, Journal, Named, OutSet, OutWritten, Underway
<1> QED BY <1>1, <1>2

LEMMA ReconciledAgrees ==
    ASSUME NEW r \in ReceiptType,
           r.op = "SUCCEEDED" => r.class \in TerminalClass \ {"RELOAD_FAILED"},
           r.op = "FAILED" => r.class = "RELOAD_FAILED"
    PROVE  /\ Reconciled(r).op = "SUCCEEDED"
                => Reconciled(r).class \in TerminalClass \ {"RELOAD_FAILED"}
           /\ Reconciled(r).op = "FAILED" => Reconciled(r).class = "RELOAD_FAILED"
           /\ r.class \in TerminalClass => Reconciled(r).class = r.class
           /\ Reconciled(r).class \in {r.class, "RELOAD_FAILED"}
           /\ Reconciled(r).gen = r.gen
<1>1. CASE r.class \in {"ACCEPTED", "BUILDING"}
  <2>1. Reconciled(r) = [r EXCEPT !.class = "RELOAD_FAILED", !.op = "FAILED"]
    BY <1>1 DEF Reconciled, TerminalClass, TargetActive
  <2>2. /\ Reconciled(r).class = "RELOAD_FAILED" /\ Reconciled(r).op = "FAILED"
        /\ Reconciled(r).gen = r.gen
    BY <2>1 DEF ReceiptType
  <2> QED BY <1>1, <2>2 DEF TerminalClass, TargetActive
<1>2. CASE r.class \in TerminalClass /\ r.op \in {"PENDING", "RUNNING"}
  <2>1. Reconciled(r) = [r EXCEPT !.op = IF r.class = "RELOAD_FAILED" THEN "FAILED" ELSE "SUCCEEDED"]
    BY <1>2 DEF Reconciled, TerminalClass, TargetActive
  <2>2. /\ Reconciled(r).class = r.class /\ Reconciled(r).gen = r.gen
        /\ Reconciled(r).op = IF r.class = "RELOAD_FAILED" THEN "FAILED" ELSE "SUCCEEDED"
    BY <2>1 DEF ReceiptType
  <2> QED BY <1>2, <2>2
<1>3. CASE /\ r.class \notin {"ACCEPTED", "BUILDING"}
           /\ ~(r.class \in TerminalClass /\ r.op \in {"PENDING", "RUNNING"})
  BY <1>3 DEF Reconciled
<1> QED BY <1>1, <1>2, <1>3

(* A reconciliation leaves the activator where it is, whoever runs it. *)
LEMMA SweepOK ==
    ASSUME ActOK, Sweep, act' \in ActType, act'.pc = act.pc, act'.n = act.n,
           act'.gen = act.gen, act'.out = act.out
    PROVE  ActOK'
<1>1. CASE ~Swept
  BY <1>1 DEF Sweep, ActOK, Journal, Named, OutSet, OutWritten, OperationAgrees
<1>2. CASE Swept
  <2>1. jrn' = [n \in Attempts |-> Reconciled(jrn[n])]
    BY <1>2 DEF Sweep
  <2>2. \A n \in Attempts : jrn[n] \in ReceiptType
    BY DEF ActOK
  <2>3. OperationAgrees'
    BY <2>1, <2>2, ReconciledAgrees DEF ActOK, Journal, OperationAgrees
  <2>4. \A n \in Attempts : /\ jrn'[n].gen = jrn[n].gen
                            /\ jrn[n].class \in TerminalClass => jrn'[n].class = jrn[n].class
    BY <2>1, <2>2, ReconciledAgrees DEF ActOK, Journal, OperationAgrees
  <2>5. Named' /\ OutSet'
    BY <2>4 DEF ActOK, Journal, Named, OutSet
  <2>6. OutWritten'
    BY <2>4 DEF ActOK, Journal, Named, OutSet, OutWritten
  <2> QED BY <2>3, <2>5, <2>6, SweepType DEF ActOK, Journal
<1> QED BY <1>1, <1>2

LEMMA AgedType ==
    ASSUME ActTyped, Aged
    PROVE  /\ act' \in ActType /\ act'.pc = act.pc /\ act'.n = act.n
           /\ act'.gen = act.gen /\ act'.out = act.out
           /\ rpc' \in RpcType
           /\ rpc'.built => rpc.built /\ rpc'.req = rpc.req
<1>1. act.copy \in RecordType
  BY DEF ActTyped, ActType
<1>2. SupervisorGone(act.copy) \in RecordType /\ ChildGone(act.copy) \in RecordType
  BY <1>1, RecordOpsType
<1>3. PICK c \in RecordType : act' = [act EXCEPT !.copy = c]
  BY <1>1, <1>2 DEF Aged
<1>4. /\ act' \in ActType /\ act'.pc = act.pc /\ act'.n = act.n
      /\ act'.gen = act.gen /\ act'.out = act.out
  BY <1>3 DEF ActTyped, ActType
<1>5. rpc.ans \in {"none", "ok", "failed"}
  BY DEF ActTyped, RpcType
<1>6. [NoRpc EXCEPT !.ans = rpc.ans] \in RpcType /\ ~[NoRpc EXCEPT !.ans = rpc.ans].built
  BY <1>5, NoRpcType DEF RpcType
<1>7. rpc' = rpc \/ rpc' = [NoRpc EXCEPT !.ans = rpc.ans]
  BY DEF Aged
<1> QED BY <1>4, <1>6, <1>7 DEF ActTyped

LEMMA BeginOKs ==
    ASSUME ActOK, ptr \in Pointers, rec \in RecordType,
           NEW n \in Attempts, NEW g \in Gens, NEW d \in Deltas, NEW m \in Modes,
           ActBegin(n, g, d, m)
    PROVE  ActOK' /\ act'.pc = "building"
<1>1. /\ g \in GenOrNone /\ ptr.active \in GenOrNone /\ n \in 0..MaxAttempts
      /\ d \in DeltaKinds /\ m \in ModeKinds /\ Observed(rec) \in RecordType /\ g # 0
  BY RecordOpsType, ActivationAssumption, SupervisorAssumption
     DEF GenOrNone, Pointers, Attempts
<1>2. act' \in ActType
  BY <1>1, IdleType DEF ActBegin, ActType, ActPcs
<1>3. act'.pc = "building" /\ act'.n = n /\ act'.gen = g
  BY IdleType DEF ActBegin, ActType
<1> DEFINE r == [NoReceipt EXCEPT !.class = "ACCEPTED", !.op = "PENDING", !.gen = g,
                                  !.prev = ptr.active]
<1>4. r \in ReceiptType /\ r.class = "ACCEPTED" /\ r.op = "PENDING" /\ r.gen = g
  BY <1>1 DEF NoReceipt, ReceiptType
<1>5. jrn' = [jrn EXCEPT ![n] = r]
  BY DEF ActBegin
<1> HIDE DEF r
<1>6. jrn' \in [Attempts -> ReceiptType] /\ OperationAgrees' /\ jrn'[n] = r
  BY <1>4, <1>5, Written DEF ActOK, Journal
<1> QED BY <1>1, <1>2, <1>3, <1>4, <1>6 DEF ActOK, Journal, Named, OutSet, OutWritten

LEMMA BuildingOK ==
    ASSUME ActOK, ActBuilding
    PROVE  ActOK'
<1>1. act.pc = "building" /\ act.n \in Attempts /\ jrn \in [Attempts -> ReceiptType]
      /\ OperationAgrees
  BY DEF ActBuilding, ActOK, Journal, Named
<1>2. jrn[act.n] \in ReceiptType
  BY <1>1
<1>3. CASE Raised /\ jrn' = jrn
  BY <1>3, RaisedOK
<1>4. CASE /\ jrn' = [jrn EXCEPT ![act.n].class = "BUILDING", ![act.n].op = "RUNNING"]
           /\ Goto("decide")
  <2> DEFINE r == [jrn[act.n] EXCEPT !.class = "BUILDING", !.op = "RUNNING"]
  <2>1. r \in ReceiptType /\ r.op = "RUNNING" /\ r.gen = jrn[act.n].gen
    BY <1>2 DEF ReceiptType
  <2>2. jrn' = [jrn EXCEPT ![act.n] = r]
    BY <1>1, <1>4
  <2> HIDE DEF r
  <2>3. jrn' \in [Attempts -> ReceiptType] /\ OperationAgrees' /\ jrn'[act.n] = r
    BY <1>1, <2>1, <2>2, Written
  <2>4. /\ act' \in ActType /\ act'.pc = "decide"
        /\ act'.n = act.n /\ act'.gen = act.gen
    BY <1>4, GotoType DEF ActOK, ActPcs
  <2> QED BY <1>1, <2>1, <2>3, <2>4 DEF ActOK, Journal, Named, OutSet, OutWritten
<1>5. CASE /\ jrn' = [jrn EXCEPT ![act.n].class = "RELOAD_FAILED", ![act.n].op = "FAILED"]
           /\ Raised
  <2> DEFINE r == [jrn[act.n] EXCEPT !.class = "RELOAD_FAILED", !.op = "FAILED"]
  <2>1. r \in ReceiptType /\ r.op = "FAILED" /\ r.class = "RELOAD_FAILED"
    BY <1>2 DEF ReceiptType, TerminalClass, TerminalOp
  <2>2. jrn' = [jrn EXCEPT ![act.n] = r]
    BY <1>1, <1>5
  <2> HIDE DEF r
  <2>3. jrn' \in [Attempts -> ReceiptType] /\ OperationAgrees'
    BY <1>1, <2>1, <2>2, Written
  <2> QED BY <1>5, <2>3, IdleType DEF Raised, ActOK, Journal, Named, OutSet, OutWritten
<1> QED BY <1>3, <1>4, <1>5 DEF ActBuilding

LEMMA ClosingOK ==
    ASSUME ActOK, ActReceipt \/ ActOperation
    PROVE  ActOK'
<1>1. act.n \in Attempts /\ jrn \in [Attempts -> ReceiptType] /\ OperationAgrees
      /\ act.out \in TerminalClass /\ act \in ActType
  BY DEF ActReceipt, ActOperation, ActOK, Journal, Named, OutSet
<1>2. jrn[act.n] \in ReceiptType
  BY <1>1
<1>3. CASE ActReceipt
  <2>1. CASE ~Open(act.n)
    BY <1>3, <2>1, RaisedOK DEF ActReceipt
  <2>2. CASE Open(act.n)
    <3> DEFINE r == [jrn[act.n] EXCEPT !.class = act.out, !.effect = TRUE]
    <3>1. r \in ReceiptType /\ r.op = jrn[act.n].op /\ r.gen = jrn[act.n].gen /\ r.class = act.out
      BY <1>1, <1>2 DEF ReceiptType
    <3>2. jrn[act.n].op \notin {"SUCCEEDED", "FAILED"}
      BY <1>1, <2>2 DEF Open, OperationAgrees, TerminalClass, TargetActive
    <3>3. jrn' = [jrn EXCEPT ![act.n] = r]
      BY <1>1, <1>3, <2>2 DEF ActReceipt
    <3> HIDE DEF r
    <3>4. jrn' \in [Attempts -> ReceiptType] /\ OperationAgrees' /\ jrn'[act.n] = r
      BY <1>1, <3>1, <3>2, <3>3, Written
    <3>5. /\ act' \in ActType /\ act'.pc = "operation"
          /\ act'.n = act.n /\ act'.gen = act.gen /\ act'.out = act.out
      BY <1>1, <1>3, <2>2, GotoType DEF ActReceipt, ActPcs
    <3> QED BY <1>1, <1>3, <3>1, <3>4, <3>5
            DEF ActReceipt, ActOK, Journal, Named, OutSet, OutWritten
  <2> QED BY <2>1, <2>2
<1>4. CASE ActOperation
  <2>1. CASE jrn' = jrn
    BY <1>4, <2>1, RaisedOK DEF ActOperation
  <2>2. CASE jrn' # jrn
    <3> DEFINE op == IF act.out = "RELOAD_FAILED" THEN "FAILED" ELSE "SUCCEEDED"
               r == [jrn[act.n] EXCEPT !.op = op]
    <3>1. r \in ReceiptType /\ r.op = op /\ r.class = jrn[act.n].class
      BY <1>1, <1>2 DEF ReceiptType, TerminalOp
    <3>2. jrn[act.n].class = act.out
      BY <1>4 DEF ActOperation, ActOK, Journal, OutWritten
    <3>3. jrn' = [jrn EXCEPT ![act.n] = r]
      BY <1>1, <1>4, <2>2 DEF ActOperation
    <3>4. /\ r.op = "SUCCEEDED" => r.class \in TerminalClass \ {"RELOAD_FAILED"}
          /\ r.op = "FAILED" => r.class = "RELOAD_FAILED"
      BY <1>1, <3>1, <3>2
    <3> HIDE DEF r
    <3>5. jrn' \in [Attempts -> ReceiptType] /\ OperationAgrees'
      BY <1>1, <3>1, <3>3, <3>4, Written
    <3> QED BY <1>4, <3>5, IdleType
            DEF ActOperation, Raised, ActOK, Journal, Named, OutSet, OutWritten
  <2> QED BY <2>1, <2>2
<1> QED BY <1>3, <1>4

LEMMA TerminalClasses ==
    /\ "RELOAD_FAILED" \in TerminalClass /\ "ROLLED_BACK" \in TerminalClass
    /\ "RESTART_FALLBACK" \in TerminalClass /\ "HOT_RELOAD" \in TerminalClass
    /\ "ACTIVE_BUT_CLIENT_STALE" \in TerminalClass
BY DEF TerminalClass, TargetActive

LEMMA ActivatorOK ==
    ASSUME ActOK, ActivatorStep
    PROVE  ActOK'
<1> USE TerminalClasses
<1>1. /\ \A p \in {"decide", "effect", "send", "await", "mark", "drain", "draining",
                   "undrained", "revoke", "stop", "stopwait", "forced", "stage", "launch",
                   "wait", "failed", "undo", "undostage", "undolaunch", "undocheck",
                   "undofailed"} : p \in Underway
      /\ act \in ActType
  BY DEF Underway, ActPcs, ActOK
<1>2. CASE ActBuilding \/ ActReceipt \/ ActOperation
  BY <1>2, BuildingOK, ClosingOK
<1>3. CASE ActDecide \/ ActUndoStage \/ ActDrain \/ ActUndo \/ ActStop
  BY <1>1, <1>3, GotoOK, RaisedOK DEF ActDecide, ActUndoStage, ActDrain, ActUndo, ActStop
<1>4. CASE ActEffect
  BY <1>1, <1>4, MarkEffectOK DEF ActEffect
<1>5. CASE ActSend \/ ActDrained \/ ActLaunch \/ ActUndoLaunch
  BY <1>1, <1>5, GotoOK, RaisedOK DEF ActSend, ActDrained, ActLaunch, ActUndoLaunch
<1>6. CASE ActAwait
  <2>1. CASE Goto("mark")
    BY <1>1, <1>6, <2>1, GotoOK DEF ActAwait
  <2>2. ASSUME NEW c \in {"HOT_RELOAD", "ACTIVE_BUT_CLIENT_STALE"},
               act' = [act EXCEPT !.pc = "record", !.out = c]
        PROVE  ActOK'
    <3>1. "record" \in ActPcs /\ c \in TerminalClass \cup {"NONE"} /\ c \in TerminalClass
      BY DEF ActPcs
    <3>2. /\ act' \in ActType /\ act'.pc = "record" /\ act'.n = act.n /\ act'.gen = act.gen
          /\ act'.out = c
      BY <1>1, <2>2, <3>1 DEF ActType
    <3> QED BY <1>6, <3>1, <3>2
            DEF ActAwait, ActOK, Journal, Named, OutSet, OutWritten, OperationAgrees
  <2> QED BY <1>6, <2>1, <2>2 DEF ActAwait
<1>7. CASE ActRecord
  <2>1. /\ act' \in ActType /\ act'.pc = "receipt"
        /\ act'.n = act.n /\ act'.gen = act.gen /\ act'.out = act.out
    BY <1>1, <1>7, GotoType DEF ActRecord, ActPcs
  <2> QED BY <1>7, <2>1
          DEF ActRecord, ActOK, Journal, Named, OutSet, OutWritten, OperationAgrees
<1>8. CASE ActMark
  <2>1. CASE ~Open(act.n)
    BY <1>8, <2>1, RaisedOK DEF ActMark
  <2>2. CASE Open(act.n)
    <3> DEFINE b == act.copy.phase \in {"HEALTHY", "DEGRADED"}
    <3>0. act' = [act EXCEPT !.pc = "drain", !.drains = b]
      BY <1>8, <2>2 DEF ActMark
    <3>1. b \in BOOLEAN
      OBVIOUS
    <3> HIDE DEF b
    <3>2. act' \in ActType /\ act'.pc = "drain" /\ act'.n = act.n /\ act'.gen = act.gen
      BY <1>1, <3>0, <3>1 DEF ActType, ActPcs
    <3>3. /\ jrn' \in [Attempts -> ReceiptType] /\ OperationAgrees'
          /\ jrn'[act.n].gen = jrn[act.n].gen
      BY <1>8, <2>2, EffectWritten DEF ActMark
    <3> QED BY <1>8, <3>2, <3>3 DEF ActMark, ActOK, Journal, Named, OutSet, OutWritten
  <2> QED BY <2>1, <2>2
<1>9. CASE ActResume \/ ActFailClosed \/ ActRevoke \/ ActStopped \/ ActForced
  BY <1>1, <1>9, GotoOK, EndOK DEF ActResume, ActFailClosed, ActRevoke, ActStopped, ActForced
<1>10. CASE ActStage
  BY <1>1, <1>10, GotoOK, MarkEffectOK, RaisedOK DEF ActStage
<1>11. CASE ActWait \/ ActFailed \/ ActUndoCheck \/ ActUndoFailed
  BY <1>1, <1>11, GotoOK, EndOK DEF ActWait, ActFailed, ActUndoCheck, ActUndoFailed
<1> QED BY <1>2, <1>3, <1>4, <1>5, <1>6, <1>7, <1>8, <1>9, <1>10, <1>11 DEF ActivatorStep

-----------------------------------------------------------------------------
(* The hot reload.  Until the receipt is closed, an active pointer that    *)
(* names the attempt's generation is not about to move: only that          *)
(* generation, or nothing, is staged.                                      *)

HotClass == {"HOT_RELOAD", "ACTIVE_BUT_CLIENT_STALE"}

HotEnd == act.pc \in {"record", "receipt"} /\ act.out \in HotClass

StagedStill ==
    (act.pc \in {"effect", "send", "await"} \/ HotEnd) /\ ptr.active = act.gen
        => ptr.target \in {0, act.gen}

ReachedStill == HotEnd => ptr.active = act.gen

BuiltNamed == rpc.built => rpc.req # 0

Reload == StagedStill /\ ReachedStill /\ BuiltNamed

(* What the steps around the activator may do to the pointers: withdraw    *)
(* the target, stage the active generation again or the first one, or      *)
(* activate the target.                                                    *)
Moves ==
    \/ ptr'.active = ptr.active /\ ptr'.target \in {0, ptr.target}
    \/ /\ ptr'.active = ptr.active
       /\ ptr'.target = IF ptr.active # 0 THEN ptr.active ELSE First
    \/ ptr.target # 0 /\ ptr'.active = ptr.target /\ ptr'.target = 0

LEMMA SupervisorMoves ==
    ASSUME Typed, Base,
           \/ OperatorStart \/ Relaunch \/ Shutdown \/ Crash \/ SupervisorStep
           \/ ChildUnbuilt \/ ChildDies \/ ChildSick \/ ChildWell \/ ChildUp
    PROVE  Moves
<1>1. ptr \in Pointers
  BY CountersNat
<1>2. \A g : /\ ClearTarget(ptr, g).active = ptr.active
             /\ ClearTarget(ptr, g).target \in {0, ptr.target}
  BY <1>1, PointerTarget
<1>3. CASE \/ ptr' = ptr
           \/ \E g : ptr' = ClearTarget(ptr, g)
  BY <1>2, <1>3 DEF Moves
<1>4. CASE OperatorStart
  BY <1>1, <1>4, PointerTarget DEF OperatorStart, Moves
<1>5. CASE Relaunch \/ Shutdown \/ Crash
  BY <1>3, <1>5 DEF Relaunch, Shutdown, Crash
<1>6. CASE ChildUnbuilt \/ ChildDies \/ ChildSick \/ ChildWell \/ ChildUp
  BY <1>3, <1>6 DEF ChildUnbuilt, ChildDies, ChildEnds, ChildSick, ChildWell, ChildUp
<1>7. CASE Begin \/ StartChild \/ Gate \/ Publish \/ Watch \/ WorkerUnregistered \/ Observe
  BY <1>3, <1>7
     DEF Begin, BeginUnreadable, BeginLatched, BeginRefused, BeginFailed, BeginOK, FailClosed,
         ExitFailed, StartChild, Gate, GatePassed, GateFailed, Publish, Watch,
         WorkerUnregistered, Observe
<1>8. CASE Judge \/ WatchEnded \/ SupervisorFails \/ Stop \/ ResidentStop
  BY <1>3, <1>8
     DEF Judge, JudgeHealthy, JudgeUnread, JudgeUnhealthy, WatchEnded, SupervisorFails, Stop,
         ResidentStop
<1>9. CASE Retry \/ Restart
  BY <1>3, <1>9 DEF Retry, Restart, AgainOrFailClosed, FailClosed, ExitFailed
<1>10. CASE Commit
  <2>1. CASE ptr' = ptr \/ ExitFailed(sup.gen, 0)
    BY <1>3, <2>1 DEF ExitFailed
  <2>2. CASE /\ CanActivate(ptr, sup.gen, ptr.active)
             /\ ptr.active # sup.gen
             /\ ptr' = Activated(ptr, sup.gen)
    <3>1. sup.gen # 0
      BY <1>10 DEF Commit, Base, Chosen, Running
    <3>2. ptr.target = sup.gen
      BY <2>2 DEF CanActivate
    <3>3. ptr'.active = sup.gen /\ ptr'.target = 0
      BY <1>1, <2>2, <3>2, PointerTarget
    <3> QED BY <3>1, <3>2, <3>3 DEF Moves
  <2> QED BY <1>10, <2>1, <2>2 DEF Commit
<1> QED BY <1>4, <1>5, <1>6, <1>7, <1>8, <1>9, <1>10 DEF SupervisorStep

LEMMA MovesKeep ==
    ASSUME Named, Reload, Moves, act'.pc = act.pc, act'.gen = act.gen, act'.out = act.out,
           rpc'.built => rpc.built /\ rpc'.req = rpc.req
    PROVE  Reload'
<1>1. BuiltNamed'
  BY DEF Reload, BuiltNamed
<1>2. act.pc # "idle" => act.gen # 0
  BY DEF Named
<1>3. StagedStill' /\ ReachedStill'
  BY <1>2 DEF Reload, Moves, StagedStill, ReachedStill, HotEnd
<1> QED BY <1>1, <1>3 DEF Reload

LEMMA HostMoves ==
    ASSUME Typed, ActTyped, Reload, HostStep
    PROVE  Moves
<1>1. ptr \in Pointers
  BY CountersNat
<1>2. CASE HostBuilds \/ HostRefuses
  BY <1>2 DEF HostBuilds, HostRefuses, Moves
<1>3. CASE HostReloads
  <2>1. rpc.req # 0
    BY <1>3 DEF HostReloads, Reload, BuiltNamed
  <2>2. CASE ptr.active = rpc.req
    BY <1>1, <1>3, <2>2, PointerTarget DEF HostReloads, Moves
  <2>3. CASE ptr.active # rpc.req
    <3>1. ptr.target = rpc.req
      BY <1>3, <2>3 DEF HostReloads, CanActivate
    <3> QED BY <1>1, <1>3, <2>1, <3>1, PointerTarget DEF HostReloads, Moves
  <2> QED BY <2>2, <2>3
<1> QED BY <1>2, <1>3 DEF HostStep

LEMMA HostReload ==
    ASSUME Typed, ActTyped, Named, Reload, HostStep
    PROVE  Reload'
<1>1. rpc \in RpcType
  BY DEF ActTyped
<1>2. UNCHANGED act
  BY DEF HostStep, HostBuilds, HostReloads, HostRefuses
<1>3. BuiltNamed'
  BY <1>1, NoRpcType DEF HostStep, HostBuilds, HostReloads, HostRefuses, RpcType, Reload,
                         BuiltNamed
<1>4. Moves
  BY HostMoves
<1>5. act.pc # "idle" => act.gen # 0
  BY DEF Named
<1>6. StagedStill' /\ ReachedStill'
  BY <1>2, <1>4, <1>5 DEF Reload, Moves, StagedStill, ReachedStill, HotEnd
<1> QED BY <1>3, <1>6 DEF Reload

(* The activator's own steps.  Off the path of the hot reload there is     *)
(* nothing to keep.                                                        *)
LEMMA OffPath ==
    ASSUME Reload,
           \/ act'.pc \notin {"effect", "send", "await", "record", "receipt"}
           \/ (act'.pc = "receipt" /\ act'.out \notin HotClass),
           rpc' = rpc
    PROVE  Reload'
BY DEF Reload, StagedStill, ReachedStill, BuiltNamed, HotEnd

LEMMA ActivatorReload ==
    ASSUME Typed, ActTyped, ActOK, Reload, ActivatorStep
    PROVE  Reload'
<1>1. ptr \in Pointers /\ rpc \in RpcType /\ act \in ActType
  BY CountersNat DEF ActTyped
<1>2. \A p \in {"decide", "mark", "drain", "draining", "undrained", "revoke", "stop",
                "stopwait", "forced", "stage", "launch", "wait", "failed", "undo",
                "undostage", "undolaunch", "undocheck", "undofailed", "operation"} :
         Goto(p) => act'.pc = p
  BY <1>1 DEF Goto, ActType
<1>3. \A c \in {"RELOAD_FAILED", "RESTART_FALLBACK", "ROLLED_BACK"} :
         End(c) => act'.pc = "receipt" /\ act'.out \notin HotClass
  BY <1>1 DEF End, ActType, HotClass
<1>4. Raised => act'.pc = "idle"
  BY IdleType DEF Raised
<1>5. CASE ActBuilding
  BY <1>2, <1>4, <1>5, OffPath DEF ActBuilding
<1>6. CASE ActDecide
  <2>1. CASE ptr' = Stage(ptr, act.gen) /\ Goto("effect")
    <3>1. act'.pc = "effect" /\ act'.gen = act.gen
      BY <1>1, <2>1 DEF Goto, ActType
    <3>2. ptr'.target = act.gen
      BY <1>1, <2>1, PointerTarget
    <3> QED BY <1>6, <3>1, <3>2
            DEF ActDecide, Reload, StagedStill, ReachedStill, BuiltNamed, HotEnd
  <2>2. CASE Goto("stage") \/ Goto("mark") \/ Raised
    BY <1>2, <1>4, <1>6, <2>2, OffPath DEF ActDecide
  <2> QED BY <1>6, <2>1, <2>2 DEF ActDecide
<1>7. CASE ActEffect
  <2>1. CASE Raised
    BY <1>4, <1>7, <2>1, OffPath DEF ActEffect
  <2>2. CASE Goto("send")
    <3>1. act'.pc = "send" /\ act'.gen = act.gen
      BY <1>1, <2>2 DEF Goto, ActType
    <3> QED BY <1>7, <3>1
            DEF ActEffect, supVars, Reload, StagedStill, ReachedStill, BuiltNamed, HotEnd
  <2> QED BY <1>7, <2>1, <2>2 DEF ActEffect, MarkEffect
<1>8. CASE ActSend
  <2>1. act'.pc = "await" /\ act'.gen = act.gen
    BY <1>1, <1>8 DEF ActSend, Goto, ActType
  <2>2. BuiltNamed'
    BY <1>1, <1>8, NoRpcType DEF ActSend, RpcType, Reload, BuiltNamed
  <2> QED BY <1>8, <2>1, <2>2 DEF ActSend, supVars, Reload, StagedStill, ReachedStill, HotEnd
<1>9. CASE ActAwait
  <2>1. CASE Goto("mark")
    BY <1>2, <1>9, <2>1, OffPath DEF ActAwait
  <2>2. CASE ptr.active = act.gen /\ ~Goto("mark")
    <3>1. act'.pc = "record" /\ act'.gen = act.gen
      BY <1>1, <1>9, <2>2 DEF ActAwait, ActType
    <3> QED BY <1>9, <2>2, <3>1
            DEF ActAwait, supVars, Reload, StagedStill, ReachedStill, BuiltNamed, HotEnd
  <2> QED BY <1>9, <2>1, <2>2 DEF ActAwait
<1>10. CASE ActRecord
  <2>1. act'.pc = "receipt" /\ act'.gen = act.gen /\ act'.out = act.out
    BY <1>1, <1>10 DEF ActRecord, Goto, ActType
  <2> QED BY <1>10, <2>1
          DEF ActRecord, Reload, StagedStill, ReachedStill, BuiltNamed, HotEnd
<1>11. CASE ActMark
  <2>1. act'.pc \in {"drain", "idle"}
    BY <1>1, <1>4, <1>11 DEF ActMark, ActType
  <2> QED BY <1>11, <2>1, OffPath DEF ActMark
<1>12. CASE ActDrain \/ ActDrained \/ ActResume \/ ActFailClosed \/ ActRevoke \/ ActStop
  BY <1>2, <1>3, <1>12, OffPath
     DEF ActDrain, ActDrained, ActResume, ActFailClosed, ActRevoke, ActStop
<1>13. CASE ActStopped \/ ActForced \/ ActStage \/ ActLaunch \/ ActWait \/ ActFailed
  BY <1>2, <1>3, <1>4, <1>13, OffPath
     DEF ActStopped, ActForced, ActStage, MarkEffect, ActLaunch, ActWait, ActFailed
<1>14. CASE ActUndo \/ ActUndoStage \/ ActUndoLaunch \/ ActUndoCheck \/ ActUndoFailed
  BY <1>2, <1>3, <1>4, <1>14, OffPath
     DEF ActUndo, ActUndoStage, ActUndoLaunch, ActUndoCheck, ActUndoFailed
<1>15. CASE ActReceipt \/ ActOperation
  BY <1>2, <1>4, <1>15, OffPath DEF ActReceipt, ActOperation
<1> QED BY <1>5, <1>6, <1>7, <1>8, <1>9, <1>10, <1>11, <1>12, <1>13, <1>14, <1>15
        DEF ActivatorStep

-----------------------------------------------------------------------------
(* The inductive invariant of the composition.                             *)

ActInv == Typed /\ Base /\ ActTyped /\ Journal /\ Reload

LEMMA RpcKept ==
    ASSUME ActTyped, ActivatorStep \/ HostStep
    PROVE  rpc' \in RpcType
<1>1. rpc \in RpcType /\ act \in ActType
  BY DEF ActTyped
<1>2. act.gen \in GenOrNone /\ act.prev \in GenOrNone
  BY <1>1 DEF ActType
<1>3. CASE ActSend
  BY <1>1, <1>2, <1>3, NoRpcType DEF ActSend, RpcType
<1>4. CASE HostStep
  BY <1>1, <1>4, NoRpcType DEF HostStep, HostBuilds, HostReloads, HostRefuses, RpcType
<1>5. CASE ActBuilding \/ ActDecide \/ ActEffect \/ ActAwait \/ ActRecord \/ ActMark \/ ActDrain
           \/ ActDrained \/ ActResume \/ ActFailClosed \/ ActRevoke \/ ActStop \/ ActStopped
  BY <1>1, <1>5
     DEF ActBuilding, ActDecide, ActEffect, ActAwait, ActRecord, ActMark, ActDrain, ActDrained,
         ActResume, ActFailClosed, ActRevoke, ActStop, ActStopped
<1>6. CASE ActForced \/ ActStage \/ ActLaunch \/ ActWait \/ ActFailed \/ ActUndo \/ ActUndoStage
           \/ ActUndoLaunch \/ ActUndoCheck \/ ActUndoFailed \/ ActReceipt \/ ActOperation
  BY <1>1, <1>6
     DEF ActForced, ActStage, ActLaunch, ActWait, ActFailed, ActUndo, ActUndoStage,
         ActUndoLaunch, ActUndoCheck, ActUndoFailed, ActReceipt, ActOperation
<1> QED BY <1>3, <1>4, <1>5, <1>6 DEF ActivatorStep

LEMMA InitActInv == ActInit => ActInv
<1> SUFFICES ASSUME ActInit PROVE ActInv
  OBVIOUS
<1>1. Typed /\ Base
  BY InitTyped, InitBase DEF ActInit
<1>2. NoReceipt \in ReceiptType /\ NoReceipt.op = "NONE"
  BY DEF NoReceipt, ReceiptType, GenOrNone
<1>3. ActTyped
  BY <1>2, IdleType, NoRpcType DEF ActInit, ActTyped
<1>4. OperationAgrees
  BY <1>2 DEF ActInit, OperationAgrees
<1>5. Journal
  BY <1>4, IdleType DEF ActInit, Journal, Named, OutSet, OutWritten
<1>6. Reload
  BY IdleType, NoRpcType DEF ActInit, Reload, StagedStill, ReachedStill, BuiltNamed, HotEnd
<1> QED BY <1>1, <1>3, <1>5, <1>6 DEF ActInv

LEMMA ActInvStep == ActInv /\ [ActNext]_vars => ActInv'
<1> SUFFICES ASSUME ActInv, [ActNext]_vars PROVE ActInv'
  OBVIOUS
<1>1. Typed /\ Base /\ ActTyped /\ Journal /\ Reload /\ ActOK /\ Named /\ OperationAgrees
  BY DEF ActInv, ActTyped, ActOK, Journal
<1>2. ASSUME Typed', Base', ActOK', rpc' \in RpcType, Reload'
      PROVE  ActInv'
  BY <1>2 DEF ActInv, ActTyped, ActOK
<1>3. CASE \E n \in Attempts, g \in Gens, d \in Deltas, m \in Modes : ActBegin(n, g, d, m)
  <2>1. PICK n \in Attempts, g \in Gens, d \in Deltas, m \in Modes : ActBegin(n, g, d, m)
    BY <1>3
  <2>2. Typed' /\ Base'
    BY <1>1, <2>1, RuntimeAlone DEF ActBegin
  <2>3. ptr \in Pointers /\ rec \in RecordType
    BY <1>1 DEF Typed, Core
  <2>4. ActOK' /\ act'.pc = "building"
    BY <1>1, <2>1, <2>3, BeginOKs
  <2>5. rpc' \in RpcType /\ rpc'.built = rpc.built /\ rpc'.req = rpc.req
    BY <1>1, <2>1 DEF ActBegin, ActTyped, RpcType
  <2>6. Reload'
    BY <1>1, <2>4, <2>5 DEF Reload, StagedStill, ReachedStill, BuiltNamed, HotEnd
  <2> QED BY <1>2, <2>2, <2>4, <2>5, <2>6
<1>4. CASE ActivatorStep
  BY <1>1, <1>2, <1>4, ActivatorKeepsRuntime, ActivatorOK, RpcKept, ActivatorReload
<1>5. CASE ActCrash
  <2>1. Typed' /\ Base'
    BY <1>1, <1>5, RuntimeFault DEF ActCrash
  <2>2. ActOK'
    BY <1>1, <1>5, RaisedOK DEF ActCrash
  <2>3. Reload'
    BY <1>1, <1>5, IdleType, OffPath DEF ActCrash, Raised
  <2> QED BY <1>1, <1>2, <1>5, <2>1, <2>2, <2>3 DEF ActCrash, ActTyped
<1>6. CASE HostStep
  <2>1. ActOK'
    <3>1. CASE HostBuilds
      BY <1>1, <3>1, SweepOK DEF HostBuilds, ActTyped
    <3>2. CASE HostReloads \/ HostRefuses
      BY <1>1, <3>2 DEF HostReloads, HostRefuses, ActOK, Journal, Named, OutSet, OutWritten,
                        OperationAgrees
    <3> QED BY <1>6, <3>1, <3>2 DEF HostStep
  <2> QED BY <1>1, <1>2, <1>6, <2>1, HostKeepsRuntime, RpcKept, HostReload
<1>7. CASE OtherBuild
  <2>1. Typed' /\ Base'
    BY <1>1, <1>7, RuntimeAlone DEF OtherBuild
  <2>2. ActOK'
    BY <1>1, <1>7, SweepOK DEF OtherBuild, ActTyped
  <2>3. Reload'
    BY <1>1, <1>7
       DEF OtherBuild, supVars, Reload, StagedStill, ReachedStill, BuiltNamed, HotEnd
  <2> QED BY <1>1, <1>2, <1>7, <2>1, <2>2, <2>3 DEF OtherBuild, ActTyped
<1>8. CASE Surroundings
  <2>1. Typed' /\ Base'
    BY <1>1, <1>8, OuterType, SupervisorStepType, ChildStepType, OuterBase, SupervisorStepBase,
       ChildStepBase DEF Surroundings, ChildStep
  <2>2. /\ act' \in ActType /\ act'.pc = act.pc /\ act'.n = act.n
        /\ act'.gen = act.gen /\ act'.out = act.out
        /\ rpc' \in RpcType
        /\ rpc'.built => rpc.built /\ rpc'.req = rpc.req
    BY <1>1, <1>8, AgedType DEF Surroundings
  <2>3. ActOK'
    <3>1. CASE jrn' = jrn
      BY <1>1, <2>2, <3>1 DEF ActOK, Journal, Named, OutSet, OutWritten, OperationAgrees
    <3>2. CASE Sweep
      BY <1>1, <2>2, <3>2, SweepOK
    <3> QED BY <1>8, <3>1, <3>2 DEF Surroundings
  <2>4. Moves
    BY <1>1, <1>8, SupervisorMoves DEF Surroundings
  <2>5. Reload'
    BY <1>1, <2>2, <2>4, MovesKeep
  <2> QED BY <1>2, <2>1, <2>2, <2>3, <2>5
<1>9. CASE UNCHANGED vars
  <2>1. Typed' /\ Base'
    BY <1>1, <1>9, RuntimeAlone DEF vars
  <2>2. ActOK' /\ rpc' \in RpcType
    BY <1>1, <1>9
       DEF vars, actVars, ActTyped, ActOK, Journal, Named, OutSet, OutWritten, OperationAgrees
  <2>3. Reload'
    BY <1>1, <1>9
       DEF vars, actVars, supVars, Reload, StagedStill, ReachedStill, BuiltNamed, HotEnd
  <2> QED BY <1>2, <2>1, <2>2, <2>3
<1> QED BY <1>3, <1>4, <1>5, <1>6, <1>7, <1>8, <1>9 DEF ActNext

(* The activator, its journal, the request at the host and the runtime     *)
(* around them keep their types, whoever dies and whenever.                *)
THEOREM ActTypeCorrect == ActSpec => []ActTypeOK
<1>1. ActInv => ActTypeOK
  BY ActTypedParts DEF ActInv
<1> QED BY InitActInv, ActInvStep, <1>1, PTL DEF ActSpec

(* Whoever closes an attempt - its activator, or a reconciler that runs    *)
(* between the receipt and the operation - the two never contradict each   *)
(* other.                                                                  *)
THEOREM JournalAgrees == ActSpec => []OperationAgrees
<1>1. ActInv => OperationAgrees
  BY DEF ActInv, Journal
<1> QED BY InitActInv, ActInvStep, <1>1, PTL DEF ActSpec

(* The activator moves, stops, kills and launches the runtime from         *)
(* outside, and the supervisor's guarantees hold all the same.             *)
THEOREM SupervisorKeptByActivator == ActSpec => [](ResidentServesNobody /\ RestartBudget)
<1>1. ActInv => ResidentServesNobody /\ RestartBudget
  BY CountersNat DEF ActInv, Base, Serving, Budget, ResidentServesNobody, RestartBudget
<1> QED BY InitActInv, ActInvStep, <1>1, PTL DEF ActSpec

(* Only the activator's own write of the receipt closes an attempt as a    *)
(* success: beginnings, effects, operations and reconcilers never do.      *)
Successes == TargetActive \cup {"ROLLED_BACK"}

LEMMA ReceiptCloses ==
    ASSUME ActInv, ActNext, NEW n \in Attempts, jrn'[n].class # jrn[n].class,
           jrn'[n].class \in Successes
    PROVE  ActReceipt /\ n = act.n /\ jrn'[n].class = act.out
<1>1. jrn \in [Attempts -> ReceiptType] /\ OperationAgrees /\ Named
  BY DEF ActInv, ActTyped, Journal
<1>2. ~Sweep
  BY <1>1, ReconciledAgrees DEF Sweep, OperationAgrees, Successes, TargetActive
<1>3. jrn' # jrn
  OBVIOUS
<1>4. \A k \in Attempts, g \in Gens, d \in Deltas, m \in Modes : ~ActBegin(k, g, d, m)
  <2> SUFFICES ASSUME NEW k \in Attempts, NEW g \in Gens, NEW d \in Deltas, NEW m \in Modes,
                      ActBegin(k, g, d, m)
               PROVE  FALSE
    OBVIOUS
  <2> DEFINE r == [NoReceipt EXCEPT !.class = "ACCEPTED", !.op = "PENDING", !.gen = g,
                                    !.prev = ptr.active]
  <2>1. jrn' = [jrn EXCEPT ![k] = r]
    BY DEF ActBegin
  <2>2. r.class = "ACCEPTED"
    BY DEF NoReceipt
  <2> HIDE DEF r
  <2> QED BY <1>1, <2>1, <2>2 DEF Successes, TargetActive
<1>5. ~ActOperation /\ ~ActEffect /\ ~ActMark /\ ~ActStage
  <2>1. ASSUME jrn' = [jrn EXCEPT ![act.n].effect = TRUE], act.n \in Attempts PROVE FALSE
    BY <1>1, <2>1 DEF ReceiptType
  <2>2. ASSUME NEW o, jrn' = [jrn EXCEPT ![act.n].op = o], act.n \in Attempts PROVE FALSE
    BY <1>1, <2>2 DEF ReceiptType
  <2> QED BY <1>1, <1>3, <2>1, <2>2
          DEF ActOperation, ActEffect, ActMark, ActStage, MarkEffect, Named
<1>6. ~ActBuilding
  <2>1. ASSUME NEW c \in {"BUILDING", "RELOAD_FAILED"}, NEW o,
               jrn' = [jrn EXCEPT ![act.n].class = c, ![act.n].op = o], act.n \in Attempts
        PROVE  FALSE
    BY <1>1, <2>1 DEF ReceiptType, Successes, TargetActive
  <2> QED BY <1>1, <1>3, <2>1 DEF ActBuilding, Named
<1>7. ActReceipt
  BY <1>2, <1>3, <1>4, <1>5, <1>6
     DEF ActNext, ActivatorStep, ActDecide, ActSend, ActAwait, ActRecord, ActDrain, ActDrained,
         ActResume, ActFailClosed, ActRevoke, ActStop, ActStopped, ActForced, ActLaunch, ActWait,
         ActFailed, ActUndo, ActUndoStage, ActUndoLaunch, ActUndoCheck, ActUndoFailed, ActCrash,
         HostStep, HostBuilds, HostReloads, HostRefuses, OtherBuild, Surroundings
<1>8. act.n \in Attempts
  BY <1>1, <1>7 DEF ActReceipt, Named
<1>9. jrn' = [jrn EXCEPT ![act.n].class = act.out, ![act.n].effect = TRUE]
  BY <1>3, <1>7 DEF ActReceipt
<1> QED BY <1>1, <1>7, <1>8, <1>9 DEF ReceiptType

(* An attempt is closed as reloaded, whether the host answered or only the *)
(* pointer was seen, while the active pointer names its generation: the    *)
(* part of SuccessIsReal that holds for any number of attempts, with a     *)
(* request of an earlier attempt still at the host.                        *)
ReloadIsReal ==
    [][\A n \in Attempts :
          (jrn'[n].class # jrn[n].class /\ jrn'[n].class \in HotClass)
              => ptr.active = jrn[n].gen]_vars

THEOREM ReloadAlwaysReal == ActSpec => ReloadIsReal
<1>1. ASSUME ActInv, ActNext, NEW n \in Attempts, jrn'[n].class # jrn[n].class,
             jrn'[n].class \in HotClass
      PROVE  ptr.active = jrn[n].gen
  <2>1. ActReceipt /\ n = act.n /\ jrn'[n].class = act.out
    BY <1>1, ReceiptCloses DEF Successes, TargetActive, HotClass
  <2>2. jrn[act.n].gen = act.gen
    BY <1>1, <2>1 DEF ActReceipt, ActInv, Journal, Named
  <2> QED BY <1>1, <2>1, <2>2 DEF ActReceipt, ActInv, Reload, ReachedStill, HotEnd
<1>2. ActInv /\ [ActNext]_vars =>
        [\A n \in Attempts :
            (jrn'[n].class # jrn[n].class /\ jrn'[n].class \in HotClass)
                => ptr.active = jrn[n].gen]_vars
  BY <1>1
<1> QED BY InitActInv, ActInvStep, <1>2, PTL DEF ActSpec, ReloadIsReal

-----------------------------------------------------------------------------
(* The restart and the rollback.  The health the activator waits for is    *)
(* read from a record, and a record may be older than the pointer.  So the *)
(* invariant follows generations through records, copies and supervisors:  *)
(* nothing names a generation that no attempt has yet brought in, and what *)
(* names a generation brought in by the attempt under way was written      *)
(* after it had become active.                                             *)

(* The generation of attempt n was not in use before it. *)
FreshGen(n) == \A m \in Attempts : m < n => jrn[n].gen \notin {First, jrn[m].gen}

Known == {0, First} \cup {jrn[m].gen : m \in Attempts}

Familiar == {ptr.active, ptr.target, sup.gen, rec.active, sup.cur.active, act.copy.active}
               \subseteq Known

(* Attempts begin in order, and those to come have no generation yet. *)
Prefix == \A m, k \in Attempts : jrn[m].class = "NONE" /\ m <= k => jrn[k].gen = 0

(* The generations to follow: all, until an attempt begins; then its own. *)
Unclaimed == \A m \in Attempts : jrn[m].gen = 0

Tracked(x) == Unclaimed \/ (act.pc # "idle" /\ act.gen = x /\ FreshGen(act.n))

(* The supervisor has committed, and works for what it committed. *)
HeldPcs == {"publish", "watch", "observe", "judge", "restart"}

Genuine(x) ==
    /\ ptr.active = x => ptr.target \in {0, x}
    /\ sup.pc \in HeldPcs /\ sup.gen = x => ptr.active = x
    /\ x \in {rec.active, sup.cur.active, act.copy.active} => ptr.active = x

AllGenuine == \A x \in Gens : Tracked(x) => Genuine(x)

(* What the activator knows on its way to the two ends. *)
HotRecord == act.pc = "record" => act.out \in HotClass

PrevNamed == act.pc # "idle" => jrn[act.n].prev = act.prev

UndoNamed == act.pc \in {"undo", "undostage", "undolaunch", "undocheck"} => act.prev # 0

Undoing == \/ act.pc \in {"undolaunch", "undocheck"}
           \/ act.pc = "receipt" /\ act.out = "ROLLED_BACK"

Undone == Undoing => act.prev # 0 /\ ptr.active = act.prev /\ ptr.target \in {0, act.prev}

RestartEnd ==
    act.pc = "receipt" /\ act.out = "RESTART_FALLBACK" /\ FreshGen(act.n)
        => ptr.active = act.gen

Ends == HotRecord /\ UndoNamed /\ Undone /\ RestartEnd

FreshInv == Familiar /\ Prefix /\ AllGenuine /\ PrevNamed /\ Ends

(* The sources of the generations a step of the runtime writes. *)
Flow ==
    /\ \/ rec'.active \in {0, rec.active, sup.cur.active}
       \/ sup.pc \in HeldPcs /\ rec'.active \in {sup.gen, ptr.active}
    /\ sup'.cur.active \in {0, rec.active, sup.cur.active}
    /\ sup'.gen \in {sup.gen, ptr.active, ptr.target, First}
    /\ sup'.pc \in HeldPcs => \/ sup.pc \in HeldPcs /\ sup'.gen \in {sup.gen, ptr.active}
                              \/ sup'.gen = ptr'.active

LEMMA RecordActive ==
    ASSUME NEW r \in RecordType
    PROVE  /\ Observed(r).active \in {0, r.active}
           /\ ChildGone(r).active = r.active
           /\ SupervisorGone(r).active = r.active
           /\ \A p : [r EXCEPT !.phase = p].active = r.active
BY DEF Observed, ChildGone, SupervisorGone, RecordType, NoRecord

LEMMA NewRecordActive ==
    ASSUME NEW p \in Phases, NEW a \in GenOrNone, NEW g \in GenOrNone,
           NEW k \in Life, NEW s \in BOOLEAN
    PROVE  /\ Record(p, a, g, k, s).active = a
           /\ SupervisorGone(Record(p, a, g, k, s)).active = a
<1>1. Record(p, a, g, k, s) \in RecordType
  BY NewRecordType
<1>2. Record(p, a, g, k, s).active = a
  BY DEF Record
<1> QED BY <1>1, <1>2, RecordActive

LEMMA FailClosedFlow ==
    ASSUME Typed, NEW g \in GenOrNone, NEW a \in GenOrNone, NEW o \in BOOLEAN, FailClosed(g, a, o)
    PROVE  /\ rec'.active \in {a, rec.active} /\ sup'.cur.active = 0
           /\ sup'.gen = g /\ sup'.pc = "resident"
<1>1. sup \in SupType /\ rec \in RecordType
  BY DEF Typed, Core
<1>2. "FAIL_CLOSED" \in Phases /\ "none" \in Life
  BY DEF Phases, Life
<1>3. rec' = Record("FAIL_CLOSED", a, g, "none", TRUE) \/ rec' = ChildGone(rec)
  BY DEF FailClosed
<1>4. Record("FAIL_CLOSED", a, g, "none", TRUE).active = a
  BY <1>2, NewRecordActive
<1>5. ChildGone(rec).active = rec.active
  BY <1>1, RecordActive
<1>6. rec'.active \in {a, rec.active}
  BY <1>3, <1>4, <1>5
<1> QED BY <1>1, <1>6 DEF FailClosed, SupType, NoRecord

LEMMA ExitFailedFlow ==
    ASSUME Typed, NEW g \in GenOrNone, NEW a \in GenOrNone, ExitFailed(g, a)
    PROVE  /\ rec'.active = a /\ sup'.cur.active = 0
           /\ sup'.gen = sup.gen /\ sup'.pc = "crashed"
<1>1. sup \in SupType
  BY DEF Typed, Core
<1>2. "FAILED" \in Phases /\ "none" \in Life
  BY DEF Phases, Life
<1>3. rec'.active = a
  BY <1>2, NewRecordActive DEF ExitFailed
<1> QED BY <1>1, <1>3 DEF ExitFailed, SupType, NoRecord

LEMMA ExitStoppedFlow ==
    ASSUME Typed, NEW c \in RecordType, ExitStopped(c)
    PROVE  /\ rec'.active \in {0, rec.active} /\ sup'.cur.active = 0
           /\ sup'.gen = sup.gen /\ sup'.pc = "off"
<1>1. sup \in SupType /\ rec \in RecordType
  BY DEF Typed, Core
<1>2. [c EXCEPT !.phase = "STOPPED", !.pid = "none", !.child = "none", !.active = 0].active = 0
  BY DEF RecordType
<1>3. rec'.active \in {0, rec.active}
  BY <1>1, <1>2, RecordActive DEF ExitStopped
<1> QED BY <1>1, <1>3 DEF ExitStopped, SupType, NoRecord

LEMMA LaunchFlow ==
    ASSUME Typed, NEW g, Launch(g)
    PROVE  sup'.cur = sup.cur /\ sup'.gen = g /\ sup'.pc = "begin"
BY DEF Typed, Core, Launch, SupType

(* Steps that leave the record, and the supervisor its generation. *)
LEMMA FlowQuiet ==
    ASSUME sup'.gen = sup.gen, sup'.cur.active \in {0, rec.active, sup.cur.active},
           rec'.active \in {0, rec.active, sup.cur.active},
           sup'.pc \in HeldPcs => sup.pc \in HeldPcs
    PROVE  Flow
BY DEF Flow

LEMMA OuterFlow ==
    ASSUME Typed, OperatorStart \/ Relaunch \/ Shutdown \/ Crash
    PROVE  Flow
<1>1. sup \in SupType /\ rec \in RecordType /\ SupervisorGone(rec).active = rec.active
  BY RecordActive DEF Typed, Core
<1>2. CASE OperatorStart
  <2>1. PICK g \in {ptr.active, First} : Launch(g)
    BY <1>2 DEF OperatorStart
  <2> QED BY <1>2, <2>1, LaunchFlow DEF OperatorStart, Flow, HeldPcs
<1>3. CASE Relaunch
  <2>1. PICK g \in {ptr.active, ptr.target, First} : Launch(g)
    BY <1>3 DEF Relaunch, StartChoice
  <2> QED BY <1>3, <2>1, LaunchFlow DEF Relaunch, Flow, HeldPcs
<1>4. CASE Shutdown
  BY <1>1, <1>4, FlowQuiet DEF Shutdown, SupType
<1>5. CASE Crash
  BY <1>1, <1>5, FlowQuiet DEF Crash, SupType, NoRecord, HeldPcs
<1> QED BY <1>2, <1>3, <1>4, <1>5

LEMMA ChildFlow ==
    ASSUME Typed, ChildUnbuilt \/ ChildDies \/ ChildSick \/ ChildWell \/ ChildUp
    PROVE  Flow
<1>1. sup \in SupType /\ rec \in RecordType /\ sup.cur \in RecordType
  BY DEF Typed, Core, SupType
<1>2. CASE ChildUnbuilt \/ ChildDies
  <2>1. rec' = ChildGone(rec) /\ sup' = [sup EXCEPT !.cur = ChildGone(sup.cur)]
    BY <1>2 DEF ChildUnbuilt, ChildDies, ChildEnds
  <2>2. sup'.gen = sup.gen /\ sup'.pc = sup.pc /\ sup'.cur = ChildGone(sup.cur)
    BY <1>1, <2>1 DEF SupType
  <2> QED BY <1>1, <2>1, <2>2, RecordActive, FlowQuiet
<1>3. CASE ChildSick \/ ChildWell \/ ChildUp
  BY <1>3, FlowQuiet DEF ChildSick, ChildWell, ChildUp
<1> QED BY <1>2, <1>3

LEMMA StartFlow ==
    ASSUME Typed, Begin \/ StartChild \/ Gate \/ Commit \/ Publish
    PROVE  Flow
<1>1. /\ sup \in SupType /\ rec \in RecordType /\ ptr \in Pointers
      /\ sup.gen \in GenOrNone /\ ptr.active \in GenOrNone /\ 0 \in GenOrNone
      /\ AdoptedGen \in {sup.gen, ptr.active}
  BY DEF Typed, Core, SupType, Pointers, GenOrNone, AdoptedGen
<1>2. "STARTING" \in Phases /\ "HEALTHY" \in Phases /\ {"none", "live", "gone"} \subseteq Life
  BY DEF Phases, Life
<1>3. CASE Begin
  <2>1. CASE BeginOK
    BY <1>1, <2>1, FlowQuiet DEF BeginOK, SupType, HeldPcs
  <2>2. CASE BeginFailed
    BY <1>1, <2>2, ExitFailedFlow, FlowQuiet DEF BeginFailed, HeldPcs
  <2>3. CASE BeginUnreadable \/ BeginLatched \/ BeginRefused
    BY <1>1, <2>3, FailClosedFlow, FlowQuiet
       DEF BeginUnreadable, BeginLatched, BeginRefused, HeldPcs
  <2> QED BY <1>3, <2>1, <2>2, <2>3 DEF Begin
<1>4. CASE StartChild
  <2> DEFINE new == Record("STARTING", 0, AdoptedGen, "none", FALSE)
  <2>0. new.active = 0
    BY DEF Record
  <2>1. rec'.active = 0
    <3> HIDE DEF new
    <3>1. rec' = new
      BY <1>4 DEF StartChild, new
    <3> QED BY <2>0, <3>1
  <2>2. sup'.gen = AdoptedGen /\ sup'.cur = sup.cur /\ sup'.pc \in {"gate", "retry"}
    BY <1>1, <1>4 DEF StartChild, SupType
  <2> QED BY <1>1, <2>1, <2>2 DEF Flow, HeldPcs
<1>5. CASE Gate
  BY <1>1, <1>5, RecordActive, FlowQuiet DEF Gate, GatePassed, GateFailed, SupType, HeldPcs
<1>6. CASE Commit
  <2>1. CASE ExitFailed(sup.gen, 0)
    BY <1>1, <2>1, ExitFailedFlow, FlowQuiet DEF HeldPcs
  <2>2. CASE ~ExitFailed(sup.gen, 0)
    <3>1. sup' = [sup EXCEPT !.pc = "publish"] /\ rec' = rec
      BY <1>6, <2>2 DEF Commit
    <3>2. sup'.gen = sup.gen /\ sup'.cur = sup.cur
      BY <1>1, <3>1 DEF SupType
    <3>3. ptr'.active = sup.gen
      BY <1>1, <1>6, <2>2, PointerTarget DEF Commit
    <3> QED BY <3>1, <3>2, <3>3 DEF Flow
  <2> QED BY <2>1, <2>2
<1>7. CASE Publish
  <2>0. PICK k \in Life : rec' = Record("HEALTHY", sup.gen, sup.gen, k, FALSE)
    BY <1>2, <1>7 DEF Publish
  <2>1. Record("HEALTHY", sup.gen, sup.gen, k, FALSE).active = sup.gen
    BY DEF Record
  <2>2. sup'.gen = sup.gen /\ sup'.cur = sup.cur /\ sup.pc \in HeldPcs
    BY <1>1, <1>7 DEF Publish, SupType, HeldPcs
  <2> QED BY <2>0, <2>1, <2>2 DEF Flow
<1> QED BY <1>3, <1>4, <1>5, <1>6, <1>7

LEMMA WatchFlow ==
    ASSUME Typed, Watch \/ WorkerUnregistered \/ Observe \/ Judge \/ WatchEnded
    PROVE  Flow
<1>1. /\ sup \in SupType /\ rec \in RecordType /\ sup.cur \in RecordType
      /\ sup.gen \in GenOrNone /\ 0 \in GenOrNone
      /\ AdoptedGen \in {sup.gen, ptr.active}
  BY DEF Typed, Core, SupType, GenOrNone, AdoptedGen
<1>2. CASE Watch
  <2>1. sup'.gen = AdoptedGen /\ sup'.cur = sup.cur /\ sup.pc \in HeldPcs /\ rec' = rec
    BY <1>1, <1>2 DEF Watch, SupType, HeldPcs
  <2> QED BY <1>1, <2>1 DEF Flow
<1>3. CASE WorkerUnregistered
  BY <1>1, <1>3, FailClosedFlow, FlowQuiet DEF WorkerUnregistered, HeldPcs
<1>4. CASE Observe
  <2>1. PICK c \in {Observed(rec), NoRecord}, u \in BOOLEAN :
           sup' = [sup EXCEPT !.pc = "judge", !.ok = Healthy(sup.gen), !.unread = u, !.cur = c]
    BY <1>4 DEF Observe
  <2>2. sup'.gen = sup.gen /\ sup'.cur = c /\ rec' = rec /\ sup.pc \in HeldPcs
    BY <1>1, <1>4, <2>1 DEF Observe, SupType, HeldPcs
  <2>3. c.active \in {0, rec.active}
    BY <1>1, <2>1, RecordActive DEF NoRecord
  <2> QED BY <2>2, <2>3, FlowQuiet
<1>5. CASE JudgeHealthy
  <2> DEFINE fresh == [sup.cur EXCEPT !.phase = "HEALTHY", !.active = sup.gen, !.accepted = sup.gen]
  <2>1. rec' \in {rec, fresh} /\ sup.pc \in HeldPcs
    BY <1>5 DEF JudgeHealthy, HeldPcs
  <2>2. fresh.active = sup.gen
    BY <1>1 DEF RecordType
  <2>3. sup'.gen = sup.gen /\ sup'.cur = NoRecord /\ NoRecord.active = 0
    BY <1>1, <1>5 DEF JudgeHealthy, SupType, NoRecord
  <2> HIDE DEF fresh
  <2> QED BY <2>1, <2>2, <2>3 DEF Flow
<1>6. CASE JudgeUnread \/ JudgeUnhealthy
  <2> DEFINE degraded == IF sup.cur = NoRecord THEN rec ELSE [sup.cur EXCEPT !.phase = "DEGRADED"]
  <2>1. degraded \in RecordType /\ degraded.active \in {rec.active, sup.cur.active}
    BY <1>1 DEF RecordType, Phases
  <2>2. rec' \in {degraded, ChildGone(degraded)} /\ sup.pc \in HeldPcs
    BY <1>6 DEF JudgeUnread, JudgeUnhealthy, HeldPcs
  <2>3. sup'.gen = sup.gen /\ sup'.cur = NoRecord /\ NoRecord.active = 0
    BY <1>1, <1>6 DEF JudgeUnread, JudgeUnhealthy, SupType, NoRecord
  <2> HIDE DEF degraded
  <2> QED BY <2>1, <2>2, <2>3, RecordActive, FlowQuiet
<1>7. CASE WatchEnded
  BY <1>1, <1>7, FlowQuiet DEF WatchEnded, SupType, HeldPcs
<1> QED BY <1>2, <1>3, <1>4, <1>5, <1>6, <1>7 DEF Judge

LEMMA EndFlow ==
    ASSUME Typed, Retry \/ Restart \/ SupervisorFails \/ Stop \/ ResidentStop
    PROVE  Flow
<1>1. /\ sup \in SupType /\ rec \in RecordType /\ ptr.active \in GenOrNone
      /\ sup.gen \in GenOrNone /\ 0 \in GenOrNone
      /\ AdoptedGen \in {sup.gen, ptr.active}
  BY DEF Typed, Core, SupType, Pointers, GenOrNone, AdoptedGen
<1>2. {"FAILED", "FAIL_CLOSED"} \subseteq Phases /\ "none" \in Life
  BY DEF Phases, Life
<1>3. ASSUME NEW g \in GenOrNone, NEW a \in GenOrNone, AgainOrFailClosed(g, a)
      PROVE  /\ rec'.active \in {0, a, rec.active} /\ sup'.cur.active \in {0, sup.cur.active}
             /\ sup'.gen = g /\ sup'.pc \in {"loop", "resident"}
  <2>1. CASE rec' = rec /\ sup' = [sup EXCEPT !.pc = "loop", !.gen = g, !.count = sup.count + 1]
    BY <1>1, <2>1 DEF SupType
  <2>2. CASE FailClosed(g, a, FALSE) \/ FailClosed(g, 0, TRUE)
    BY <1>1, <2>2, FailClosedFlow
  <2> QED BY <1>3, <2>1, <2>2 DEF AgainOrFailClosed
<1>4. CASE Retry
  BY <1>1, <1>3, <1>4, FlowQuiet DEF Retry, HeldPcs
<1>5. CASE Restart
  <2>1. AdoptedGen \in GenOrNone /\ sup.pc \in HeldPcs
    BY <1>1, <1>5 DEF Restart, HeldPcs
  <2>2. CASE AgainOrFailClosed(AdoptedGen, AdoptedGen)
    BY <1>1, <1>3, <2>1, <2>2 DEF Flow, HeldPcs
  <2>3. CASE ExitFailed(AdoptedGen, AdoptedGen)
    BY <1>1, <2>1, <2>3, ExitFailedFlow DEF Flow, HeldPcs
  <2> QED BY <1>5, <2>2, <2>3 DEF Restart
<1>6. CASE SupervisorFails
  <2> DEFINE new == SupervisorGone(Record("FAILED", 0, sup.gen, "none", FALSE))
  <2>0. new.active = 0 /\ SupervisorGone(rec).active = rec.active
    BY <1>1, RecordActive DEF Record, SupervisorGone, ChildGone
  <2>3. rec' \in {SupervisorGone(rec), new}
    BY <1>6 DEF SupervisorFails
  <2> HIDE DEF new
  <2>1. rec'.active \in {0, rec.active}
    BY <2>0, <2>3
  <2> QED BY <1>1, <1>6, <2>1, FlowQuiet DEF SupervisorFails, SupType, NoRecord, HeldPcs
<1>7. CASE Stop \/ ResidentStop
  <2>1. Observed(rec) \in RecordType /\ Record("FAIL_CLOSED", 0, sup.gen, "none", TRUE) \in RecordType
    BY <1>1, <1>2, RecordOpsType, NewRecordType
  <2>2. PICK c \in RecordType : ExitStopped(c)
    BY <1>7, <2>1 DEF Stop, ResidentStop
  <2> QED BY <2>2, ExitStoppedFlow, FlowQuiet DEF HeldPcs
<1> QED BY <1>4, <1>5, <1>6, <1>7

LEMMA RuntimeFlow ==
    ASSUME Typed,
           \/ OperatorStart \/ Relaunch \/ Shutdown \/ Crash \/ SupervisorStep
           \/ ChildUnbuilt \/ ChildDies \/ ChildSick \/ ChildWell \/ ChildUp
    PROVE  Flow
BY OuterFlow, ChildFlow, StartFlow, WatchFlow, EndFlow DEF SupervisorStep

(* The same for the steps of the activator.  It works on its copy, never   *)
(* moves the active pointer and never makes a supervisor commit.           *)
ActFlow ==
    /\ \/ rec'.active \in {0, rec.active, act.copy.active}
       \/ act.pc = "record" /\ rec'.active = act.gen
    /\ sup'.cur.active \in {0, sup.cur.active}
    /\ sup'.gen \in {sup.gen, ptr.active, ptr.target, First}
    /\ sup'.pc \in HeldPcs => sup.pc \in HeldPcs /\ sup'.gen = sup.gen
    /\ ptr'.active = ptr.active
    /\ \/ ptr'.target \in {0, ptr.target, act.gen}
       \/ act.prev # 0 /\ ptr.active = act.prev /\ ptr'.target = act.prev

LEMMA CopyActive ==
    ASSUME act \in ActType, NEW p \in Phases, NEW s \in BOOLEAN
    PROVE  /\ [act.copy EXCEPT !.phase = p, !.accepted = act.gen].active = act.copy.active
           /\ [act.copy EXCEPT !.accepted = act.gen].active = act.copy.active
           /\ [act.copy EXCEPT !.phase = p, !.active = act.gen, !.accepted = act.gen].active
                 = act.gen
           /\ TerminalRecord(p, s).active \in {0, act.copy.active}
<1>1. act.copy \in RecordType /\ act.gen \in GenOrNone
  BY DEF ActType
<1>2. /\ [act.copy EXCEPT !.phase = p, !.accepted = act.gen] \in RecordType
      /\ [act.copy EXCEPT !.phase = p, !.accepted = act.gen].active = act.copy.active
      /\ [act.copy EXCEPT !.accepted = act.gen].active = act.copy.active
  BY <1>1 DEF RecordType
<1>3. [act.copy EXCEPT !.phase = p, !.active = act.gen, !.accepted = act.gen].active = act.gen
  BY <1>1 DEF RecordType
<1>4. \A r \in RecordType : [r EXCEPT !.pid = "none", !.child = "none", !.active = 0].active = 0
  BY DEF RecordType
<1>5. TerminalRecord(p, s).active \in {0, act.copy.active}
  BY <1>2, <1>4 DEF TerminalRecord
<1> QED BY <1>2, <1>3, <1>5

(* Steps that leave the supervisor where it is, and only stage or clear. *)
LEMMA ActFlowQuiet ==
    ASSUME \/ rec'.active \in {0, rec.active, act.copy.active}
           \/ act.pc = "record" /\ rec'.active = act.gen,
           sup'.cur.active \in {0, sup.cur.active}, sup'.gen = sup.gen,
           sup'.pc \in HeldPcs => sup.pc \in HeldPcs,
           ptr' = ptr
    PROVE  ActFlow
BY DEF ActFlow

LEMMA StopFlow ==
    ASSUME Typed, sup' = [sup EXCEPT !.stop = Running] \/ Killed \/ sup' = sup
    PROVE  /\ sup'.cur.active \in {0, sup.cur.active} /\ sup'.gen = sup.gen
           /\ sup'.pc \in HeldPcs => sup.pc \in HeldPcs
<1>1. sup \in SupType
  BY DEF Typed, Core
<1>2. CASE sup' = [sup EXCEPT !.stop = Running]
  <2>1. sup'.cur = sup.cur /\ sup'.gen = sup.gen /\ sup'.pc = sup.pc
    BY <1>1, <1>2 DEF SupType
  <2> QED BY <2>1
<1>3. CASE Killed
  <2>1. sup'.cur = NoRecord /\ sup'.gen = sup.gen /\ sup'.pc = "crashed"
    BY <1>1, <1>3 DEF Killed, SupType
  <2> QED BY <2>1 DEF NoRecord, HeldPcs
<1> QED BY <1>2, <1>3

LEMMA LaunchedFlow ==
    ASSUME Typed, Launched \/ LaunchFails, UNCHANGED <<ptr, rec>>
    PROVE  ActFlow
<1>1. CASE UNCHANGED sup
  BY <1>1, ActFlowQuiet
<1>2. CASE Launch(StartChoice)
  <2>1. PICK g \in {ptr.active, ptr.target, First} : Launch(g)
    BY <1>2 DEF StartChoice
  <2> QED BY <2>1, LaunchFlow DEF ActFlow, HeldPcs
<1> QED BY <1>1, <1>2 DEF Launched, LaunchFails

LEMMA ActivatorFlow ==
    ASSUME Typed, ActTyped, UndoNamed, ActivatorStep
    PROVE  ActFlow
<1>1. ptr \in Pointers /\ rec \in RecordType /\ act \in ActType /\ sup \in SupType
  BY DEF Typed, Core, ActTyped
<1>2. \A g : /\ ClearTarget(ptr, g).active = ptr.active
             /\ ClearTarget(ptr, g).target \in {0, ptr.target}
             /\ Stage(ptr, g).active = ptr.active
             /\ Stage(ptr, g).target = g
  BY <1>1, PointerTarget
<1>3. {"HEALTHY", "DRAINING", "RELOADING", "FAIL_CLOSED", "FAILED"} \subseteq Phases
  BY DEF Phases
<1>4. /\ \A p \in Phases : /\ [act.copy EXCEPT !.phase = p, !.accepted = act.gen].active
                                = act.copy.active
                           /\ TerminalRecord(p, TRUE).active \in {0, act.copy.active}
                           /\ TerminalRecord(p, FALSE).active \in {0, act.copy.active}
      /\ [act.copy EXCEPT !.accepted = act.gen].active = act.copy.active
  BY <1>1, <1>3, CopyActive
<1>5. CASE UNCHANGED <<ptr, rec, sup>>
  BY <1>5, ActFlowQuiet
<1>6. CASE ActBuilding \/ ActEffect \/ ActSend \/ ActAwait \/ ActDrain \/ ActDrained \/ ActWait
           \/ ActUndoCheck \/ ActReceipt \/ ActOperation
  BY <1>5, <1>6
     DEF ActBuilding, ActEffect, ActSend, ActAwait, ActDrain, ActDrained, ActWait, ActUndoCheck,
         ActReceipt, ActOperation, supVars
<1>7. CASE ActDecide \/ ActStage
  BY <1>2, <1>7 DEF ActDecide, ActStage, ActFlow
<1>8. CASE ActRecord
  <2>1. rec' = [act.copy EXCEPT !.phase = "HEALTHY", !.active = act.gen, !.accepted = act.gen]
    BY <1>8 DEF ActRecord
  <2>2. [act.copy EXCEPT !.phase = "HEALTHY", !.active = act.gen, !.accepted = act.gen].active
           = act.gen
    BY <1>1, <1>3, CopyActive
  <2> QED BY <1>8, <2>1, <2>2, ActFlowQuiet DEF ActRecord
<1>9. CASE ActMark \/ ActResume
  <2>1. rec'.active \in {rec.active, act.copy.active}
    BY <1>3, <1>4, <1>9 DEF ActMark, ActResume
  <2> QED BY <1>9, <2>1, ActFlowQuiet DEF ActMark, ActResume
<1>10. CASE ActFailClosed \/ ActStop \/ ActUndo
  <2>1. rec'.active \in {rec.active, act.copy.active}
    BY <1>3, <1>4, <1>10 DEF ActFailClosed, ActStop, ActUndo
  <2>2. (sup' = [sup EXCEPT !.stop = Running] \/ Killed \/ sup' = sup) /\ ptr' = ptr
    BY <1>10 DEF ActFailClosed, ActStop, ActUndo
  <2> QED BY <2>1, <2>2, StopFlow, ActFlowQuiet
<1>11. CASE ActRevoke \/ ActStopped \/ ActForced
  <2>1. SupervisorGone(rec).active = rec.active
    BY <1>1, RecordActive
  <2>2. rec'.active \in {0, rec.active, act.copy.active}
    BY <1>3, <1>4, <1>11, <2>1 DEF ActRevoke, ActStopped, ActForced
  <2>3. (sup' = [sup EXCEPT !.stop = Running] \/ Killed \/ sup' = sup) /\ ptr' = ptr
    BY <1>11 DEF ActRevoke, ActStopped, ActForced
  <2> QED BY <2>2, <2>3, StopFlow, ActFlowQuiet
<1>12. CASE ActLaunch \/ ActUndoLaunch
  BY <1>12, LaunchedFlow DEF ActLaunch, ActUndoLaunch
<1>13. CASE ActFailed \/ ActUndoFailed
  <2>1. rec'.active \in {0, rec.active, act.copy.active}
    BY <1>3, <1>4, <1>13 DEF ActFailed, ActUndoFailed
  <2>2. ptr'.active = ptr.active /\ ptr'.target \in {0, ptr.target} /\ sup' = sup
    BY <1>2, <1>13 DEF ActFailed, ActUndoFailed
  <2> QED BY <2>1, <2>2 DEF ActFlow
<1>14. CASE ActUndoStage
  <2>1. act.prev # 0
    BY <1>14 DEF ActUndoStage, UndoNamed
  <2>2. CASE StaleActive
    BY <1>5, <1>14, <2>2 DEF ActUndoStage
  <2>3. CASE ~StaleActive
    <3>1. ptr.active = act.prev /\ ptr'.active = ptr.active /\ ptr'.target = act.prev
      BY <1>2, <1>14, <2>1, <2>3 DEF ActUndoStage, StaleActive
    <3> QED BY <1>14, <2>1, <3>1 DEF ActUndoStage, ActFlow
  <2> QED BY <2>2, <2>3
<1> QED BY <1>6, <1>7, <1>8, <1>9, <1>10, <1>11, <1>12, <1>13, <1>14 DEF ActivatorStep

-----------------------------------------------------------------------------
(* The journal keeps what an attempt is about; only a beginning changes it.*)

JrnKept ==
    \A n \in Attempts : /\ jrn'[n].gen = jrn[n].gen
                        /\ jrn'[n].prev = jrn[n].prev
                        /\ jrn'[n].class = "NONE" => jrn[n].class = "NONE"

LEMMA WriteKeeps ==
    ASSUME jrn \in [Attempts -> ReceiptType], NEW n \in Attempts, NEW r,
           jrn' = [jrn EXCEPT ![n] = r],
           r.gen = jrn[n].gen, r.prev = jrn[n].prev, r.class # "NONE" \/ r.class = jrn[n].class
    PROVE  JrnKept
BY DEF JrnKept

LEMMA SweepKeeps ==
    ASSUME jrn \in [Attempts -> ReceiptType], Sweep
    PROVE  JrnKept
<1>1. ASSUME NEW r \in ReceiptType
      PROVE  /\ Reconciled(r).gen = r.gen /\ Reconciled(r).prev = r.prev
             /\ Reconciled(r).class \in {r.class, "RELOAD_FAILED"}
  <2>1. CASE r.class \in {"ACCEPTED", "BUILDING"}
    <3>1. Reconciled(r) = [r EXCEPT !.class = "RELOAD_FAILED", !.op = "FAILED"]
      BY <2>1 DEF Reconciled, TerminalClass, TargetActive
    <3> QED BY <3>1 DEF ReceiptType
  <2>2. CASE r.class \in TerminalClass /\ r.op \in {"PENDING", "RUNNING"}
    <3>1. Reconciled(r) = [r EXCEPT !.op = IF r.class = "RELOAD_FAILED" THEN "FAILED" ELSE "SUCCEEDED"]
      BY <2>2 DEF Reconciled, TerminalClass, TargetActive
    <3> QED BY <3>1 DEF ReceiptType
  <2>3. CASE /\ r.class \notin {"ACCEPTED", "BUILDING"}
             /\ ~(r.class \in TerminalClass /\ r.op \in {"PENDING", "RUNNING"})
    BY <2>3 DEF Reconciled
  <2> QED BY <2>1, <2>2, <2>3
<1>2. CASE Swept
  <2>1. \A n \in Attempts : jrn[n] \in ReceiptType /\ jrn'[n] = Reconciled(jrn[n])
    BY <1>2 DEF Sweep
  <2> QED BY <1>1, <2>1 DEF JrnKept
<1>3. CASE ~Swept
  BY <1>3 DEF Sweep, JrnKept
<1> QED BY <1>2, <1>3

LEMMA ActivatorKeepsJournal ==
    ASSUME ActOK, ActivatorStep
    PROVE  JrnKept
<1>1. jrn \in [Attempts -> ReceiptType]
  BY DEF ActOK
<1>2. CASE jrn' = jrn
  BY <1>2 DEF JrnKept
<1>3. ASSUME act.n \in Attempts, jrn' = [jrn EXCEPT ![act.n].effect = TRUE] PROVE JrnKept
  BY <1>1, <1>3, WriteKeeps DEF ReceiptType
<1>4. ASSUME act.n \in Attempts, NEW o, jrn' = [jrn EXCEPT ![act.n].op = o] PROVE JrnKept
  BY <1>1, <1>4, WriteKeeps DEF ReceiptType
<1>5. ASSUME act.n \in Attempts, NEW c \in {"BUILDING", "RELOAD_FAILED"}, NEW o,
             jrn' = [jrn EXCEPT ![act.n].class = c, ![act.n].op = o]
      PROVE  JrnKept
  <2> DEFINE r == [jrn[act.n] EXCEPT !.class = c, !.op = o]
  <2>1. r.class = c /\ r.gen = jrn[act.n].gen /\ r.prev = jrn[act.n].prev
    BY <1>1, <1>5 DEF ReceiptType
  <2>2. jrn' = [jrn EXCEPT ![act.n] = r]
    BY <1>1, <1>5
  <2> HIDE DEF r
  <2> QED BY <1>1, <1>5, <2>1, <2>2, WriteKeeps
<1>6. ASSUME act.n \in Attempts, act.out \in TerminalClass,
             jrn' = [jrn EXCEPT ![act.n].class = act.out, ![act.n].effect = TRUE]
      PROVE  JrnKept
  <2> DEFINE r == [jrn[act.n] EXCEPT !.class = act.out, !.effect = TRUE]
  <2>1. r.class = act.out /\ r.gen = jrn[act.n].gen /\ r.prev = jrn[act.n].prev
    BY <1>1, <1>6 DEF ReceiptType
  <2>2. jrn' = [jrn EXCEPT ![act.n] = r]
    BY <1>1, <1>6
  <2>3. act.out # "NONE"
    BY <1>6 DEF TerminalClass, TargetActive
  <2> HIDE DEF r
  <2> QED BY <1>1, <1>6, <2>1, <2>2, <2>3, WriteKeeps
<1>7. CASE ActBuilding
  BY <1>2, <1>5, <1>7 DEF ActBuilding, ActOK, Journal, Named
<1>8. CASE ActEffect \/ ActMark \/ ActStage
  BY <1>2, <1>3, <1>8 DEF ActEffect, ActMark, ActStage, MarkEffect, ActOK, Journal, Named
<1>9. CASE ActReceipt
  BY <1>2, <1>6, <1>9 DEF ActReceipt, ActOK, Journal, Named, OutSet
<1>10. CASE ActOperation
  BY <1>2, <1>4, <1>10 DEF ActOperation, ActOK, Journal, Named
<1>11. CASE jrn' # jrn
  BY <1>7, <1>8, <1>9, <1>10, <1>11
     DEF ActivatorStep, ActDecide, ActSend, ActAwait, ActRecord, ActDrain, ActDrained,
         ActResume, ActFailClosed, ActRevoke, ActStop, ActStopped, ActForced, ActLaunch, ActWait,
         ActFailed, ActUndo, ActUndoStage, ActUndoLaunch, ActUndoCheck, ActUndoFailed
<1> QED BY <1>2, <1>11

(* The activator keeps its attempt and its copy until it is done. *)
ActStays == /\ act'.n = act.n /\ act'.gen = act.gen /\ act'.prev = act.prev
            /\ act'.copy = act.copy

LEMMA StaysOrIdle ==
    ASSUME act \in ActType, ActivatorStep
    PROVE  act.pc # "idle" /\ (act' = Idle \/ ActStays)
<1>1. \A p : Goto(p) => ActStays
  BY DEF Goto, ActType, ActStays
<1>2. \A c : End(c) => ActStays
  BY DEF End, ActType, ActStays
<1>3. Raised => act' = Idle
  BY DEF Raised
<1>4. CASE ActBuilding \/ ActDecide \/ ActEffect \/ ActSend \/ ActRecord \/ ActDrain \/ ActDrained
  BY <1>1, <1>3, <1>4 DEF ActBuilding, ActDecide, ActEffect, MarkEffect, ActSend, ActRecord,
                          ActDrain, ActDrained
<1>5. CASE ActAwait
  <2>1. CASE Goto("mark")
    BY <1>1, <1>5, <2>1 DEF ActAwait
  <2>2. CASE ~Goto("mark")
    <3>1. PICK c : act' = [act EXCEPT !.pc = "record", !.out = c]
      BY <1>5, <2>2 DEF ActAwait
    <3> QED BY <1>5, <3>1 DEF ActAwait, ActType, ActStays
  <2> QED BY <2>1, <2>2
<1>6. CASE ActMark
  <2>1. CASE Raised
    BY <1>3, <1>6, <2>1 DEF ActMark
  <2>2. CASE ~Raised
    <3>1. PICK b : act' = [act EXCEPT !.pc = "drain", !.drains = b]
      BY <1>6, <2>2 DEF ActMark
    <3> QED BY <1>6, <3>1 DEF ActMark, ActType, ActStays
  <2> QED BY <2>1, <2>2
<1>7. CASE ActResume \/ ActFailClosed \/ ActRevoke \/ ActStop \/ ActStopped \/ ActForced
  BY <1>1, <1>2, <1>7 DEF ActResume, ActFailClosed, ActRevoke, ActStop, ActStopped, ActForced
<1>8. CASE ActStage \/ ActLaunch \/ ActWait \/ ActFailed
  BY <1>1, <1>2, <1>3, <1>8 DEF ActStage, MarkEffect, ActLaunch, ActWait, ActFailed
<1>9. CASE ActUndo \/ ActUndoStage \/ ActUndoLaunch \/ ActUndoCheck \/ ActUndoFailed
  BY <1>1, <1>2, <1>3, <1>9 DEF ActUndo, ActUndoStage, ActUndoLaunch, ActUndoCheck, ActUndoFailed
<1>10. CASE ActReceipt \/ ActOperation
  BY <1>1, <1>3, <1>10 DEF ActReceipt, ActOperation
<1> QED BY <1>4, <1>5, <1>6, <1>7, <1>8, <1>9, <1>10 DEF ActivatorStep

LEMMA AgedKeeps ==
    ASSUME ActTyped, Aged
    PROVE  /\ act'.pc = act.pc /\ act'.n = act.n /\ act'.gen = act.gen /\ act'.prev = act.prev
           /\ act'.out = act.out /\ act'.copy.active = act.copy.active
<1>1. act \in ActType /\ act.copy \in RecordType
  BY DEF ActTyped, ActType
<1>2. /\ SupervisorGone(act.copy).active = act.copy.active
      /\ ChildGone(act.copy).active = act.copy.active
  BY <1>1, RecordActive
<1>3. PICK c \in {act.copy, SupervisorGone(act.copy), ChildGone(act.copy)} :
         act' = [act EXCEPT !.copy = c]
  BY DEF Aged
<1>4. /\ act'.pc = act.pc /\ act'.n = act.n /\ act'.gen = act.gen /\ act'.prev = act.prev
      /\ act'.out = act.out /\ act'.copy = c
  BY <1>1, <1>3 DEF ActType
<1> QED BY <1>2, <1>3, <1>4

-----------------------------------------------------------------------------
(* The steps of everyone but the activator.                                *)

LEMMA TrackedBefore ==
    ASSUME Named, JrnKept, NEW x, Tracked(x)',
           act'.pc # "idle" => act.pc # "idle" /\ act'.n = act.n /\ act'.gen = act.gen
    PROVE  Tracked(x)
<1>1. CASE Unclaimed'
  BY <1>1 DEF JrnKept, Unclaimed, Tracked
<1>2. CASE ~Unclaimed'
  <2>1. act'.pc # "idle" /\ act'.gen = x /\ FreshGen(act.n)'
    BY <1>2 DEF Tracked
  <2>2. act.pc # "idle" /\ act.gen = x /\ act.n \in Attempts /\ act'.n = act.n
    BY <2>1 DEF Named
  <2>3. FreshGen(act.n)
    BY <2>1, <2>2 DEF FreshGen, JrnKept
  <2> QED BY <2>2, <2>3 DEF Tracked
<1> QED BY <1>1, <1>2

LEMMA KnownKept == ASSUME JrnKept PROVE Known' = Known
BY DEF JrnKept, Known

LEMMA PrefixKept == ASSUME JrnKept, Prefix PROVE Prefix'
BY DEF JrnKept, Prefix

LEMMA GenuineKept ==
    ASSUME NEW x \in Gens, Genuine(x), Flow, Moves, act'.copy.active = act.copy.active
    PROVE  Genuine(x)'
<1>1. x # 0
  BY SupervisorAssumption
<1>2. ptr.active = x => ptr'.active = x
  BY <1>1 DEF Genuine, Moves
<1>3. ptr'.active = x => ptr'.target \in {0, x}
  BY <1>1 DEF Genuine, Moves
<1>4. sup'.pc \in HeldPcs /\ sup'.gen = x => ptr'.active = x
  BY <1>2 DEF Genuine, Flow
<1>5. x \in {rec'.active, sup'.cur.active, act'.copy.active} => ptr'.active = x
  BY <1>1, <1>2 DEF Genuine, Flow
<1> QED BY <1>3, <1>4, <1>5 DEF Genuine

LEMMA OthersKeepEnds ==
    ASSUME ActTyped, Named, AllGenuine, Ends, Moves, JrnKept,
           act'.pc = act.pc, act'.n = act.n, act'.gen = act.gen, act'.prev = act.prev,
           act'.out = act.out
    PROVE  Ends'
<1>1. HotRecord' /\ UndoNamed'
  BY DEF Ends, HotRecord, UndoNamed
<1>2. Undone'
  <2>1. Undoing' => Undoing
    BY DEF Undoing
  <2> QED BY <2>1 DEF Ends, Undone, Moves
<1>3. RestartEnd'
  <2> SUFFICES ASSUME act'.pc = "receipt", act'.out = "RESTART_FALLBACK", FreshGen(act.n)'
               PROVE  ptr'.active = act'.gen
    BY DEF RestartEnd
  <2>1. act.n \in Attempts /\ act.gen \in Gens /\ act.gen # 0
    BY DEF Named, ActTyped, ActType, GenOrNone
  <2>2. FreshGen(act.n)
    BY <2>1 DEF FreshGen, JrnKept
  <2>3. ptr.active = act.gen
    BY <2>2 DEF Ends, RestartEnd
  <2>4. Genuine(act.gen)
    BY <2>1, <2>2 DEF AllGenuine, Tracked
  <2> QED BY <2>1, <2>3, <2>4 DEF Genuine, Moves
<1> QED BY <1>1, <1>2, <1>3 DEF Ends

LEMMA OthersKeepFresh ==
    ASSUME ActInv, FreshInv, Flow, Moves, JrnKept,
           act'.pc = act.pc, act'.n = act.n, act'.gen = act.gen, act'.prev = act.prev,
           act'.out = act.out, act'.copy.active = act.copy.active
    PROVE  FreshInv'
<1>1. Named /\ ActTyped /\ Familiar /\ Prefix /\ AllGenuine /\ PrevNamed /\ Ends
  BY DEF ActInv, Journal, FreshInv
<1>2. Familiar'
  <2>1. {0, First} \subseteq Known
    BY DEF Known
  <2>2. {ptr'.active, ptr'.target} \subseteq Known
    BY <1>1, <2>1 DEF Moves, Familiar
  <2>3. {rec'.active, sup'.gen, sup'.cur.active, act'.copy.active} \subseteq Known
    BY <1>1, <2>1 DEF Flow, Familiar
  <2> QED BY <2>2, <2>3, KnownKept DEF Familiar
<1>3. AllGenuine'
  BY <1>1, TrackedBefore, GenuineKept DEF AllGenuine
<1>4. PrevNamed'
  BY <1>1 DEF PrevNamed, JrnKept, Named
<1> QED BY <1>1, <1>2, <1>3, <1>4, PrefixKept, OthersKeepEnds DEF FreshInv

LEMMA OthersFresh ==
    ASSUME ActInv, FreshInv, HostStep \/ OtherBuild \/ Surroundings \/ UNCHANGED vars
    PROVE  FreshInv'
<1>1. Typed /\ Base /\ ActTyped /\ Reload /\ jrn \in [Attempts -> ReceiptType]
  BY DEF ActInv, ActTyped
<1>2. CASE HostStep
  <2>1. UNCHANGED <<rec, sup, act>>
    BY <1>2 DEF HostStep, HostBuilds, HostReloads, HostRefuses
  <2>2. Flow /\ Moves
    BY <1>1, <1>2, <2>1, FlowQuiet, HostMoves
  <2>3. JrnKept
    BY <1>1, <1>2, SweepKeeps DEF HostStep, HostBuilds, HostReloads, HostRefuses, JrnKept
  <2> QED BY <2>1, <2>2, <2>3, OthersKeepFresh
<1>3. CASE OtherBuild \/ UNCHANGED vars
  <2>1. UNCHANGED <<ptr, rec, sup, act>>
    BY <1>3 DEF OtherBuild, vars, supVars, actVars
  <2>2. Flow /\ Moves
    BY <2>1, FlowQuiet DEF Moves
  <2>3. JrnKept
    BY <1>1, <1>3, SweepKeeps DEF OtherBuild, vars, actVars, JrnKept
  <2> QED BY <2>1, <2>2, <2>3, OthersKeepFresh
<1>4. CASE Surroundings
  <2>1. Flow /\ Moves
    BY <1>1, <1>4, RuntimeFlow, SupervisorMoves DEF Surroundings
  <2>2. JrnKept
    BY <1>1, <1>4, SweepKeeps DEF Surroundings, JrnKept
  <2>3. Aged
    BY <1>4 DEF Surroundings
  <2> QED BY <1>1, <2>1, <2>2, <2>3, AgedKeeps, OthersKeepFresh
<1> QED BY <1>2, <1>3, <1>4

-----------------------------------------------------------------------------
(* The steps of the activator.                                             *)

LEMMA EndsElsewhere ==
    ASSUME act'.pc \notin {"record", "undo", "undostage", "undolaunch", "undocheck"},
           act'.pc = "receipt" => act'.out \notin {"ROLLED_BACK", "RESTART_FALLBACK"}
    PROVE  Ends'
BY DEF Ends, HotRecord, UndoNamed, Undone, Undoing, RestartEnd

(* A healthy record of the attempt's generation was written for it. *)
LEMMA HealthIsGenuine ==
    ASSUME Typed, ActTyped, Named, AllGenuine, act.pc # "idle", FreshGen(act.n),
           SeenHealthy(act.gen)
    PROVE  ptr.active = act.gen
<1>1. rec \in RecordType /\ act.gen # 0 /\ act.gen \in Gens
  BY DEF Typed, Core, Named, ActTyped, ActType, GenOrNone
<1>2. rec.active = act.gen
  BY <1>1, RecordActive DEF SeenHealthy
<1> QED BY <1>1, <1>2 DEF AllGenuine, Tracked, Genuine

LEMMA ActivatorEnds ==
    ASSUME Typed, ActTyped, ActOK, AllGenuine, Ends, JrnKept, ActivatorStep
    PROVE  Ends'
<1>1. ptr \in Pointers /\ act \in ActType /\ Named
  BY DEF Typed, Core, ActTyped, ActOK, Journal
<1>2. \A p : Goto(p) => act'.pc = p /\ act'.n = act.n /\ act'.gen = act.gen
                        /\ act'.prev = act.prev /\ act'.out = act.out
  BY <1>1 DEF Goto, ActType
<1>3. \A c : End(c) => act'.pc = "receipt" /\ act'.n = act.n /\ act'.gen = act.gen
                       /\ act'.prev = act.prev /\ act'.out = c
  BY <1>1 DEF End, ActType
<1>4. Raised => act'.pc = "idle"
  BY IdleType DEF Raised
<1>5. CASE Raised
  BY <1>4, <1>5, EndsElsewhere
<1>6. ASSUME NEW p \in ActPcs \ {"record", "undo", "undostage", "undolaunch", "undocheck",
                                 "receipt"}, Goto(p)
      PROVE  Ends'
  BY <1>2, <1>6, EndsElsewhere
<1>7. CASE End("RELOAD_FAILED")
  BY <1>3, <1>7, EndsElsewhere
<1>8. CASE ActBuilding \/ ActDecide \/ ActEffect \/ ActSend \/ ActDrain \/ ActDrained
  BY <1>5, <1>6, <1>8
     DEF ActBuilding, ActDecide, ActEffect, MarkEffect, ActSend, ActDrain, ActDrained, ActPcs
<1>9. CASE ActAwait
  <2>1. CASE Goto("mark")
    BY <1>6, <2>1 DEF ActPcs
  <2>2. CASE ~Goto("mark")
    <3>1. PICK c \in HotClass : act' = [act EXCEPT !.pc = "record", !.out = c]
      BY <1>9, <2>2 DEF ActAwait, HotClass
    <3>2. act'.pc = "record" /\ act'.out = c
      BY <1>1, <3>1 DEF ActType
    <3> QED BY <3>1, <3>2 DEF Ends, HotRecord, UndoNamed, Undone, Undoing, RestartEnd
  <2> QED BY <2>1, <2>2
<1>10. CASE ActRecord
  <2>1. act.out \in HotClass
    BY <1>10 DEF ActRecord, Ends, HotRecord
  <2> QED BY <1>2, <1>10, <2>1, EndsElsewhere DEF ActRecord, HotClass
<1>11. CASE ActMark
  <2>1. act'.pc \in {"drain", "idle"}
    BY <1>1, <1>4, <1>11 DEF ActMark, ActType
  <2> QED BY <2>1, EndsElsewhere
<1>12. CASE ActResume \/ ActFailClosed \/ ActRevoke \/ ActStop \/ ActStopped \/ ActForced
  BY <1>6, <1>7, <1>12
     DEF ActResume, ActFailClosed, ActRevoke, ActStop, ActStopped, ActForced, ActPcs
<1>13. CASE ActStage \/ ActLaunch
  BY <1>5, <1>6, <1>13 DEF ActStage, MarkEffect, ActLaunch, ActPcs
<1>14. CASE ActWait
  <2>1. CASE ~SeenHealthy(act.gen)
    BY <1>6, <1>14, <2>1 DEF ActWait, ActPcs
  <2>2. CASE SeenHealthy(act.gen)
    <3>1. /\ act'.pc = "receipt" /\ act'.n = act.n /\ act'.gen = act.gen
          /\ act'.out = "RESTART_FALLBACK" /\ ptr' = ptr /\ jrn' = jrn
      BY <1>3, <1>14, <2>2 DEF ActWait, supVars
    <3>2. FreshGen(act.n)' => FreshGen(act.n)
      BY <3>1 DEF FreshGen
    <3>3. FreshGen(act.n) => ptr.active = act.gen
      BY <1>1, <1>14, <2>2, HealthIsGenuine DEF ActWait
    <3> QED BY <3>1, <3>2, <3>3 DEF Ends, HotRecord, UndoNamed, Undone, Undoing, RestartEnd
  <2> QED BY <2>1, <2>2
<1>15. CASE ActFailed
  <2>1. CASE End("RELOAD_FAILED")
    BY <1>7, <2>1
  <2>2. CASE ~End("RELOAD_FAILED")
    <3>1. act'.pc = "undo" /\ act'.prev = act.prev /\ act.prev # 0
      BY <1>2, <1>15, <2>2 DEF ActFailed
    <3> QED BY <3>1 DEF Ends, HotRecord, UndoNamed, Undone, Undoing, RestartEnd
  <2> QED BY <2>1, <2>2
<1>16. CASE ActUndo
  <2>1. act'.pc = "undostage" /\ act'.prev = act.prev /\ act.prev # 0
    BY <1>2, <1>16 DEF ActUndo, Ends, UndoNamed
  <2> QED BY <2>1 DEF Ends, HotRecord, UndoNamed, Undone, Undoing, RestartEnd
<1>17. CASE ActUndoStage
  <2>1. CASE StaleActive
    BY <1>5, <1>17, <2>1 DEF ActUndoStage
  <2>2. CASE ~StaleActive
    <3>1. act'.pc = "undolaunch" /\ act'.prev = act.prev /\ act.prev # 0
      BY <1>2, <1>17, <2>2 DEF ActUndoStage, Ends, UndoNamed
    <3>2. ptr'.active = act.prev /\ ptr'.target = act.prev
      BY <1>1, <1>17, <2>2, <3>1, PointerTarget DEF ActUndoStage, StaleActive
    <3> QED BY <3>1, <3>2 DEF Ends, HotRecord, UndoNamed, Undone, Undoing, RestartEnd
  <2> QED BY <2>1, <2>2
<1>18. CASE ActUndoLaunch
  <2>1. CASE Goto("undofailed")
    BY <1>6, <2>1 DEF ActPcs
  <2>2. CASE Goto("undocheck")
    BY <1>2, <1>18, <2>2
       DEF ActUndoLaunch, Ends, HotRecord, UndoNamed, Undone, Undoing, RestartEnd
  <2> QED BY <1>18, <2>1, <2>2 DEF ActUndoLaunch
<1>19. CASE ActUndoCheck
  <2>1. CASE Goto("undofailed")
    BY <1>6, <2>1 DEF ActPcs
  <2>2. CASE End("ROLLED_BACK")
    BY <1>3, <1>19, <2>2
       DEF ActUndoCheck, supVars, Ends, HotRecord, UndoNamed, Undone, Undoing, RestartEnd
  <2> QED BY <1>19, <2>1, <2>2 DEF ActUndoCheck
<1>20. CASE ActUndoFailed
  BY <1>7, <1>20 DEF ActUndoFailed
<1>21. CASE ActReceipt \/ ActOperation
  BY <1>5, <1>6, <1>21 DEF ActReceipt, ActOperation, ActPcs
<1> QED BY <1>8, <1>9, <1>10, <1>11, <1>12, <1>13, <1>14, <1>15, <1>16, <1>17, <1>18, <1>19,
           <1>20, <1>21 DEF ActivatorStep

LEMMA ActGenuineKept ==
    ASSUME act.gen # 0, Genuine(act.gen), ActFlow, act.pc = "record" => ptr.active = act.gen,
           act'.copy.active \in {0, act.copy.active}, NEW x, x = act.gen
    PROVE  Genuine(x)'
BY DEF Genuine, ActFlow

LEMMA ActivatorFresh ==
    ASSUME ActInv, FreshInv, ActivatorStep
    PROVE  FreshInv'
<1>1. /\ Typed /\ ActTyped /\ Named /\ Reload /\ ActOK /\ act \in ActType
      /\ Familiar /\ Prefix /\ AllGenuine /\ PrevNamed /\ Ends
  BY DEF ActInv, ActTyped, Journal, ActOK, FreshInv
<1>2. ActFlow /\ JrnKept
  BY <1>1, ActivatorFlow, ActivatorKeepsJournal DEF Ends
<1>3. act.pc # "idle" /\ (act' = Idle \/ ActStays)
  BY <1>1, StaysOrIdle
<1>4. act'.copy.active \in {0, act.copy.active}
  BY <1>3 DEF ActStays, Idle, NoRecord
<1>5. act.n \in Attempts /\ act.gen # 0 /\ jrn[act.n].gen = act.gen
  BY <1>1, <1>3 DEF Named
<1>6. act.pc = "record" => ptr.active = act.gen
  BY <1>1 DEF Ends, HotRecord, Reload, ReachedStill, HotEnd
<1>7. Familiar'
  <2>1. {0, First, act.gen} \subseteq Known
    BY <1>5 DEF Known
  <2>2. {ptr'.active, ptr'.target} \subseteq Known
    BY <1>1, <1>2, <2>1 DEF ActFlow, Familiar
  <2>3. {rec'.active, sup'.gen, sup'.cur.active, act'.copy.active} \subseteq Known
    BY <1>1, <1>2, <1>4, <2>1 DEF ActFlow, Familiar
  <2> QED BY <1>2, <2>2, <2>3, KnownKept DEF Familiar
<1>8. AllGenuine'
  <2> SUFFICES ASSUME NEW x \in Gens, Tracked(x)' PROVE Genuine(x)'
    BY DEF AllGenuine
  <2>1. act'.pc # "idle" => act'.n = act.n /\ act'.gen = act.gen
    BY <1>3, IdleType DEF ActStays
  <2>2. Tracked(x)
    BY <1>1, <1>2, <1>3, <2>1, TrackedBefore
  <2>3. x = act.gen
    BY <1>5, <2>2 DEF Tracked, Unclaimed
  <2>4. Genuine(act.gen)
    BY <1>1, <2>2, <2>3 DEF AllGenuine
  <2> QED BY <1>2, <1>4, <1>5, <1>6, <2>3, <2>4, ActGenuineKept
<1>9. PrevNamed'
  BY <1>1, <1>2, <1>3, <1>5, IdleType DEF ActStays, PrevNamed, JrnKept
<1>10. Prefix' /\ Ends'
  BY <1>1, <1>2, PrefixKept, ActivatorEnds
<1> QED BY <1>7, <1>8, <1>9, <1>10 DEF FreshInv

(* A crash of the activator loses what was tracked. *)
LEMMA CrashFresh ==
    ASSUME ActInv, FreshInv, ActCrash
    PROVE  FreshInv'
<1>1. Named /\ Familiar /\ Prefix /\ AllGenuine
  BY DEF ActInv, Journal, FreshInv
<1>2. /\ UNCHANGED <<ptr, rec, sup, jrn>> /\ act'.pc = "idle" /\ act'.copy.active = 0
      /\ act.pc # "idle"
  BY DEF ActCrash, Raised, Idle, NoRecord
<1>3. JrnKept
  BY <1>2 DEF JrnKept
<1>4. Familiar'
  BY <1>1, <1>2, <1>3, KnownKept DEF Familiar, Known
<1>5. AllGenuine'
  <2>1. ~Unclaimed'
    BY <1>1, <1>2 DEF Named, Unclaimed
  <2> QED BY <1>2, <2>1 DEF AllGenuine, Tracked
<1> QED BY <1>1, <1>2, <1>3, <1>4, <1>5, PrefixKept, EndsElsewhere DEF FreshInv, PrevNamed

(* A beginning: a generation nobody has named yet, or, for the first       *)
(* attempt, one that only a committed runtime names.                       *)
LEMMA BeginFresh ==
    ASSUME ActInv, FreshInv, NEW n \in Attempts, NEW g \in Gens, NEW d \in Deltas,
           NEW m \in Modes, ActBegin(n, g, d, m)
    PROVE  FreshInv'
<1>1. /\ jrn \in [Attempts -> ReceiptType] /\ rec \in RecordType
      /\ Familiar /\ Prefix /\ AllGenuine /\ g # 0 /\ n \in Nat
  BY SupervisorAssumption, ActivationAssumption
     DEF ActInv, ActTyped, Typed, Core, FreshInv, Attempts
<1>2. /\ act'.pc = "building" /\ act'.n = n /\ act'.gen = g /\ act'.prev = ptr.active
      /\ act'.copy = Observed(rec)
  BY DEF ActBegin, Idle
<1>3. UNCHANGED <<ptr, rec, sup>>
  BY DEF ActBegin, supVars
<1>4. act'.copy.active \in {0, rec.active}
  BY <1>1, <1>2, RecordActive
<1> DEFINE r == [NoReceipt EXCEPT !.class = "ACCEPTED", !.op = "PENDING", !.gen = g,
                                  !.prev = ptr.active]
<1>5. r.class = "ACCEPTED" /\ r.gen = g /\ r.prev = ptr.active
  BY DEF NoReceipt
<1>6. jrn' = [jrn EXCEPT ![n] = r]
  BY DEF ActBegin
<1> HIDE DEF r
<1>7. /\ jrn'[n].class = "ACCEPTED" /\ jrn'[n].gen = g /\ jrn'[n].prev = ptr.active
      /\ \A k \in Attempts : k # n => jrn'[k] = jrn[k]
  BY <1>1, <1>5, <1>6
<1>8. /\ jrn[n].class = "NONE"
      /\ \A k \in Attempts : k < n => jrn[k].class # "NONE"
  BY DEF ActBegin
<1>9. \A k \in Attempts : n <= k => jrn[k].gen = 0
  BY <1>1, <1>8 DEF Prefix
<1>10. Familiar'
  <2>1. Known \subseteq Known'
    <3>1. ASSUME NEW k \in Attempts PROVE jrn[k].gen \in Known'
      BY <1>1, <1>7, <1>9, <3>1 DEF Known
    <3> QED BY <3>1 DEF Known
  <2>2. 0 \in Known
    BY DEF Known
  <2> QED BY <1>1, <1>3, <1>4, <2>1, <2>2 DEF Familiar
<1>11. Prefix'
  <2> SUFFICES ASSUME NEW j \in Attempts, NEW k \in Attempts, jrn'[j].class = "NONE", j <= k
               PROVE  jrn'[k].gen = 0
    BY DEF Prefix
  <2>1. j # n /\ jrn[j].class = "NONE" /\ j \in Nat /\ k \in Nat
    BY <1>7 DEF Attempts
  <2>2. n < j
    BY <1>1, <1>8, <2>1
  <2>3. k # n /\ jrn[k].gen = 0
    BY <1>1, <2>1, <2>2 DEF Prefix
  <2> QED BY <1>7, <2>3
<1>12. AllGenuine'
  <2> SUFFICES ASSUME NEW x \in Gens, Tracked(x)' PROVE Genuine(x)'
    BY DEF AllGenuine
  <2>1. ~Unclaimed'
    BY <1>1, <1>7 DEF Unclaimed
  <2>2. x = g /\ FreshGen(act.n)'
    BY <1>2, <2>1 DEF Tracked
  <2>3. CASE Unclaimed
    <3>1. Genuine(x)
      BY <1>1, <2>3 DEF AllGenuine, Tracked
    <3> QED BY <1>1, <1>3, <1>4, <2>2, <3>1 DEF Genuine
  <2>4. CASE ~Unclaimed
    <3>1. PICK k \in Attempts : jrn[k].gen # 0
      BY <2>4 DEF Unclaimed
    <3>2. k < n /\ k \in Nat
      BY <1>1, <1>9, <3>1 DEF Attempts
    <3>3. \A j \in Attempts : j < n => g \notin {First, jrn[j].gen}
      BY <1>1, <1>2, <1>7, <2>2 DEF FreshGen, Attempts
    <3>4. g # First
      BY <3>2, <3>3
    <3>5. \A j \in Attempts : jrn[j].gen # g
      BY <1>1, <1>9, <3>3 DEF Attempts
    <3>6. g \notin Known
      BY <1>1, <3>4, <3>5 DEF Known
    <3>7. g \notin {ptr.active, ptr.target, sup.gen, rec.active, sup.cur.active}
      BY <1>1, <3>6 DEF Familiar
    <3> QED BY <1>1, <1>3, <1>4, <2>2, <3>7 DEF Genuine
  <2> QED BY <2>3, <2>4
<1>13. PrevNamed'
  BY <1>2, <1>7 DEF PrevNamed
<1> QED BY <1>2, <1>10, <1>11, <1>12, <1>13, EndsElsewhere DEF FreshInv

LEMMA InitFresh == ActInit => FreshInv
<1> SUFFICES ASSUME ActInit PROVE FreshInv
  OBVIOUS
<1>1. /\ ptr.active = 0 /\ ptr.target = 0 /\ rec.active = 0 /\ sup.gen = 0 /\ sup.cur.active = 0
      /\ act.copy.active = 0 /\ act.pc = "idle"
  BY DEF ActInit, Init, NoRecord, Idle
<1>2. \A m \in Attempts : jrn[m].gen = 0
  BY DEF ActInit, NoReceipt
<1>3. Familiar /\ Prefix
  BY <1>1, <1>2 DEF Familiar, Known, Prefix
<1>4. AllGenuine
  BY <1>1, SupervisorAssumption DEF AllGenuine, Genuine
<1> QED BY <1>1, <1>3, <1>4
        DEF FreshInv, PrevNamed, Ends, HotRecord, UndoNamed, Undone, Undoing, RestartEnd

LEMMA FreshStep == ActInv /\ FreshInv /\ [ActNext]_vars => FreshInv'
BY BeginFresh, ActivatorFresh, CrashFresh, OthersFresh DEF ActNext

-----------------------------------------------------------------------------
(* What a success class says, at the write of the receipt that says it.    *)
LEMMA ClosedIsReal ==
    ASSUME ActInv, FreshInv, ActNext, NEW n \in Attempts, jrn'[n].class # jrn[n].class
    PROVE  /\ jrn'[n].class \in TargetActive /\ FreshGen(n) => ptr.active = jrn[n].gen
           /\ jrn'[n].class = "ROLLED_BACK" => ptr.active = jrn[n].prev
<1> SUFFICES ASSUME jrn'[n].class \in Successes
             PROVE  /\ jrn'[n].class \in TargetActive /\ FreshGen(n) => ptr.active = jrn[n].gen
                    /\ jrn'[n].class = "ROLLED_BACK" => ptr.active = jrn[n].prev
  BY DEF Successes
<1>1. act.pc = "receipt" /\ n = act.n /\ jrn'[n].class = act.out
  BY ReceiptCloses DEF ActReceipt
<1>2. jrn[n].gen = act.gen /\ jrn[n].prev = act.prev
  BY <1>1 DEF ActInv, Journal, Named, FreshInv, PrevNamed
<1>3. act.out \in HotClass => ptr.active = act.gen
  BY <1>1 DEF ActInv, Reload, ReachedStill, HotEnd
<1>4. act.out = "RESTART_FALLBACK" /\ FreshGen(n) => ptr.active = act.gen
  BY <1>1 DEF FreshInv, Ends, RestartEnd
<1>5. act.out = "ROLLED_BACK" => ptr.active = act.prev
  BY <1>1 DEF FreshInv, Ends, Undone, Undoing
<1> QED BY <1>1, <1>2, <1>3, <1>4, <1>5 DEF TargetActive, HotClass

(* SuccessIsReal for any number of attempts, reconciled or not, as far as  *)
(* it holds: a rollback is always real, and a restart is when it brought   *)
(* in a generation that was not in use before.  A restart to an older      *)
(* generation may be taken for done on a record older than the pointer.    *)
FreshSuccessIsReal ==
    [][\A n \in Attempts : jrn'[n].class # jrn[n].class =>
          /\ jrn'[n].class \in TargetActive /\ FreshGen(n) => ptr.active = jrn[n].gen
          /\ jrn'[n].class = "ROLLED_BACK" => ptr.active = jrn[n].prev]_vars

THEOREM FreshSuccessAlwaysReal == ActSpec => FreshSuccessIsReal
<1>1. ActInv /\ FreshInv /\ [ActNext]_vars =>
        [\A n \in Attempts : jrn'[n].class # jrn[n].class =>
          /\ jrn'[n].class \in TargetActive /\ FreshGen(n) => ptr.active = jrn[n].gen
          /\ jrn'[n].class = "ROLLED_BACK" => ptr.active = jrn[n].prev]_vars
  BY ClosedIsReal
<1> QED BY InitActInv, ActInvStep, InitFresh, FreshStep, <1>1, PTL DEF ActSpec, FreshSuccessIsReal

(* An attempt is closed as active, or as rolled back, only while the       *)
(* active pointer names that generation: the whole of SuccessIsReal for    *)
(* one attempt, whatever restarts, crashes and reloads come between, and   *)
(* whether its journal is reconciled or not.                               *)
THEOREM SuccessAlwaysReal ==
    ASSUME MaxAttempts = 1
    PROVE  ActSpec => SuccessIsReal
<1>1. \A n \in Attempts : FreshGen(n)
  BY DEF FreshGen, Attempts
<1>2. ActInv /\ FreshInv /\ [ActNext]_vars =>
        [\A n \in Attempts : jrn'[n].class # jrn[n].class =>
          /\ jrn'[n].class \in TargetActive => ptr.active = jrn[n].gen
          /\ jrn'[n].class = "ROLLED_BACK" => ptr.active = jrn[n].prev]_vars
  BY <1>1, ClosedIsReal
<1> QED BY InitActInv, ActInvStep, InitFresh, FreshStep, <1>2, PTL DEF ActSpec, SuccessIsReal

=============================================================================
