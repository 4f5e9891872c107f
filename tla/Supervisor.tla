----------------------------- MODULE Supervisor -----------------------------
(***************************************************************************)
(* The managed runtime: the supervisor process (RuntimeSupervisor.run),    *)
(* the tunnel child that carries the MCP host, the runtime record and the  *)
(* restart ledger they keep on disk, and the configuration store's two     *)
(* pointers.  Around them: launchd, which relaunches a supervisor that did *)
(* not exit cleanly; the operator's start and stop; and the configuration  *)
(* tools of the MCP host, which reload a generation inside the child.      *)
(*                                                                         *)
(* A record names its supervisor and its child by pid and start identity.  *)
(* What a reader learns from them is whether the process still lives, so   *)
(* here they are "none", "live" or "gone", and the step in which a process *)
(* dies turns its "live" into "gone".  All incarnations run one release.   *)
(***************************************************************************)
EXTENDS Naturals, FiniteSets

CONSTANTS
    Gens,           \* configuration generations, positive numbers
    First,          \* the generation accepted before the first start
    Broken,         \* generations whose service container cannot be built
    MaxRestarts,    \* max_restarts
    Threshold,      \* health_failure_threshold
    MaxFaults,      \* bound on the faults the environment makes
    MaxStarts,      \* bound on the starts by the operator
    MaxReloads,     \* bound on the reloads by the host's configuration tools
    Crashes         \* TRUE: a supervisor may be killed, or end with an exception

ASSUME SupervisorAssumption ==
    /\ Gens \subseteq Nat \ {0}
    /\ First \in Gens
    /\ Broken \subseteq Gens
    /\ MaxRestarts \in Nat
    /\ Threshold \in Nat \ {0}
    /\ MaxFaults \in Nat
    /\ MaxStarts \in Nat
    /\ MaxReloads \in Nat
    /\ Crashes \in BOOLEAN

VARIABLES
    ptr,        \* the active and the activation-target pointers (0: no file)
    rec,        \* managed-runtime-v3.json
    sup,        \* the supervisor process
    child,      \* the tunnel child and the MCP host it runs
    ledger,     \* managed-runtime-restart-history-v1.json
    used,       \* faults, starts and reloads so far
    spawns,     \* history: children started since the restart count was last 0
    restarts    \* history: restarts decided

supVars == <<ptr, rec, sup, child, ledger, used, spawns, restarts>>

GenOrNone == Gens \cup {0}

Phases == {"STOPPED", "STARTING", "HEALTHY", "DEGRADED", "DRAINING", "RELOADING",
           "STOPPING", "FAILED", "FAIL_CLOSED"}

Life == {"none", "live", "gone"}

NoRecord == [phase |-> "ABSENT", active |-> 0, accepted |-> 0,
             pid |-> "none", child |-> "none", since |-> FALSE]

Record(phase, active, accepted, kid, since) ==
    [phase |-> phase, active |-> active, accepted |-> accepted,
     pid |-> "live", child |-> kid, since |-> since]

NoChild == [alive |-> FALSE, serves |-> 0, well |-> FALSE, reload |-> 0, gate |-> "open"]

(* What a reader of the record sees: nothing once the recorded supervisor  *)
(* is gone, and a degraded runtime once only the recorded child is.        *)
Observed(r) ==
    CASE r.pid = "gone"   -> NoRecord
      [] r.pid # "gone" /\ r.child = "gone" ->
            [r EXCEPT !.phase = "DEGRADED", !.child = "none"]
      [] OTHER            -> r

ChildGone(r) == [r EXCEPT !.child = IF @ = "live" THEN "gone" ELSE @]

SupervisorGone(r) == [ChildGone(r) EXCEPT !.pid = IF @ = "live" THEN "gone" ELSE @]

RecordType == [phase : Phases \cup {"ABSENT"}, active : GenOrNone, accepted : GenOrNone,
               pid : Life, child : Life, since : BOOLEAN]

TypeOK ==
    /\ ptr \in [active : GenOrNone, target : GenOrNone]
    /\ rec \in RecordType
    /\ sup \in [pc : {"off", "crashed", "begin", "loop", "gate", "commit", "publish",
                      "watch", "observe", "judge", "retry", "restart", "resident"},
                gen : GenOrNone, count : Nat, fails : 0..Threshold,
                ok : BOOLEAN, unread : BOOLEAN, cur : RecordType,
                stop : BOOLEAN, override : BOOLEAN]
    /\ child \in [alive : BOOLEAN, serves : GenOrNone, well : BOOLEAN, reload : GenOrNone,
                  gate : {"open", "draining", "fail_closed"}]
    /\ ledger \in [total : Nat, event : Nat]
    /\ used \in [faults : 0..MaxFaults, starts : 0..MaxStarts, reloads : 0..MaxReloads]
    /\ spawns \in Nat
    /\ restarts \in Nat

Init ==
    /\ ptr = [active |-> 0, target |-> 0]
    /\ rec = NoRecord
    /\ sup = [pc |-> "off", gen |-> 0, count |-> 0, fails |-> 0, ok |-> FALSE,
              unread |-> FALSE, cur |-> NoRecord, stop |-> FALSE, override |-> FALSE]
    /\ child = NoChild
    /\ ledger = [total |-> 0, event |-> 0]
    /\ used = [faults |-> 0, starts |-> 0, reloads |-> 0]
    /\ spawns = 0
    /\ restarts = 0

Running == sup.pc \notin {"off", "crashed"}

Fault == used.faults < MaxFaults /\ used' = [used EXCEPT !.faults = @ + 1]

-----------------------------------------------------------------------------
(* The configuration store: clear_activation_target, activate, and the     *)
(* generation a process that starts chooses.                               *)

ClearTarget(p, g) == IF p.target \in {0, g} THEN [p EXCEPT !.target = 0] ELSE p

Stage(p, g) == [p EXCEPT !.target = g]

\* Mutant: the commit does not ask whether the target is still the one staged.
CanActivateUnstaged(p, g, expected) == p.active \in {g, expected}

CanActivate(p, g, expected) ==
    \/ p.active = g
    \/ /\ p.active = expected
       /\ p.target = g

Activated(p, g) ==
    IF p.active = g THEN ClearTarget(p, g) ELSE [active |-> g, target |-> 0]

StartChoice == CASE ptr.target # 0 -> ptr.target
                 [] ptr.target = 0 /\ ptr.active # 0 -> ptr.active
                 [] OTHER -> First

-----------------------------------------------------------------------------
(* Launching and killing a supervisor.                                     *)

(* A new process has a fresh identity, under which the ledger has recorded *)
(* nothing.                                                                *)
Launch(g) ==
    /\ ~Running
    /\ sup' = [sup EXCEPT !.pc = "begin", !.gen = g, !.count = 0, !.fails = 0,
                          !.override = FALSE]
    /\ ledger' = [ledger EXCEPT !.event = 0]
    /\ spawns' = 0

(* rf runtime start: refused unless the record shows a runtime that has    *)
(* ended; stages the active (or the first accepted) generation.            *)
OperatorStart ==
    /\ used.starts < MaxStarts
    /\ used' = [used EXCEPT !.starts = @ + 1]
    /\ Observed(rec).phase \in {"ABSENT", "STOPPED", "FAILED"}
    /\ LET g == IF ptr.active # 0 THEN ptr.active ELSE First
       IN  ptr' = Stage(ptr, g) /\ Launch(g)
    /\ UNCHANGED <<rec, child, restarts>>

(* launchd's KeepAlive: SuccessfulExit FALSE, Crashed TRUE.  The worker    *)
(* reads the pointers as it starts.                                        *)
Relaunch ==
    /\ sup.pc = "crashed"
    /\ ptr.target # 0 \/ ptr.active # 0
    /\ Launch(StartChoice)
    /\ UNCHANGED <<ptr, rec, child, used, restarts>>

(* A SHUTDOWN request on the supervisor's control socket, or SIGTERM. *)
Shutdown ==
    /\ Running
    /\ ~sup.stop
    /\ sup' = [sup EXCEPT !.stop = TRUE]
    /\ UNCHANGED <<ptr, rec, child, ledger, used, spawns, restarts>>

(* The supervisor is killed; its process group, the child included, dies. *)
Crash ==
    /\ Crashes
    /\ Running
    /\ Fault
    /\ sup' = [sup EXCEPT !.pc = "crashed", !.cur = NoRecord, !.stop = FALSE]
    /\ rec' = SupervisorGone(rec)
    /\ child' = NoChild
    /\ UNCHANGED <<ptr, ledger, spawns, restarts>>

-----------------------------------------------------------------------------
(* The tunnel child and the MCP host in it.                                *)

(* The host starts: it serves the staged generation, or the active one. *)
ChildUp ==
    /\ child.alive
    /\ child.serves = 0
    /\ StartChoice \notin Broken
    /\ child' = [child EXCEPT !.serves = StartChoice]
    /\ UNCHANGED <<ptr, rec, sup, ledger, used, spawns, restarts>>

ChildEnds ==
    /\ child' = NoChild
    /\ rec' = ChildGone(rec)
    /\ sup' = [sup EXCEPT !.cur = ChildGone(@)]
    /\ UNCHANGED <<ptr, ledger, spawns, restarts>>

(* A host that cannot build its generation exits at once. *)
ChildUnbuilt ==
    /\ child.alive /\ child.serves = 0 /\ StartChoice \in Broken
    /\ ChildEnds
    /\ UNCHANGED used

ChildDies == child.alive /\ Fault /\ ChildEnds

(* The tunnel or the host stops answering its health probes, or answers    *)
(* them again.                                                             *)
ChildSick ==
    /\ child.alive /\ child.well
    /\ Fault
    /\ child' = [child EXCEPT !.well = FALSE]
    /\ UNCHANGED <<ptr, rec, sup, ledger, spawns, restarts>>

ChildWell ==
    /\ child.alive /\ ~child.well
    /\ child' = [child EXCEPT !.well = TRUE]
    /\ UNCHANGED <<ptr, rec, sup, ledger, used, spawns, restarts>>

(* reload_in_process: stage, then the hot reload commits the pointer and   *)
(* the host's own state file, or fails and clears the target.  Nothing     *)
(* here touches the runtime record.                                        *)
ReloadStage(g) ==
    /\ child.alive /\ child.serves # 0 /\ child.reload = 0
    /\ g # child.serves
    /\ used.reloads < MaxReloads
    /\ used' = [used EXCEPT !.reloads = @ + 1]
    /\ ptr' = Stage(ptr, g)
    /\ child' = [child EXCEPT !.reload = g]
    /\ UNCHANGED <<rec, sup, ledger, spawns, restarts>>

HostCommits(g) ==
    /\ g \notin Broken
    /\ CanActivate(ptr, g, child.serves)
    /\ ptr' = Activated(ptr, g)
    /\ child' = [child EXCEPT !.serves = g, !.reload = 0]

ReloadCommit ==
    /\ child.alive /\ child.reload # 0
    /\ HostCommits(child.reload)
    /\ UNCHANGED <<rec, sup, ledger, used, spawns, restarts>>

ReloadFail ==
    /\ child.alive /\ child.reload # 0
    /\ \/ /\ child.reload \in Broken \/ ~CanActivate(ptr, child.reload, child.serves)
          /\ UNCHANGED used
       \/ Fault
    /\ ptr' = ClearTarget(ptr, child.reload)
    /\ child' = [child EXCEPT !.reload = 0]
    /\ UNCHANGED <<rec, sup, ledger, spawns, restarts>>

-----------------------------------------------------------------------------
(* The supervisor: what it writes, and how it ends.                        *)

(* _serve_fail_closed and the record written before it.  `override': the   *)
(* durable write is only attempted, and the reason is kept in memory.      *)
FailClosed(gen, active, override) ==
    /\ sup' = [sup EXCEPT !.pc = "resident", !.gen = gen, !.override = override,
                          !.cur = NoRecord]
    /\ rec' \in {Record("FAIL_CLOSED", active, gen, "none", TRUE)}
                 \cup (IF override THEN {ChildGone(rec)} ELSE {})
    /\ ptr' = ClearTarget(ptr, gen)
    /\ child' = NoChild

(* return 2: a FAILED record whose pid is gone with this step. *)
ExitFailed(gen, active) ==
    /\ sup' = [sup EXCEPT !.pc = "crashed", !.cur = NoRecord, !.stop = FALSE]
    /\ rec' = SupervisorGone(Record("FAILED", active, gen, "none", FALSE))
    /\ ptr' = ClearTarget(ptr, gen)
    /\ child' = NoChild

(* return 0 after an explicit stop: STOPPED, no pid, no active generation. *)
ExitStopped(current) ==
    /\ sup' = [sup EXCEPT !.pc = "off", !.cur = NoRecord, !.stop = FALSE]
    /\ rec' = IF current = NoRecord THEN ChildGone(rec)
              ELSE [current EXCEPT !.phase = "STOPPED", !.pid = "none",
                                   !.child = "none", !.active = 0]
    /\ child' = NoChild

(* _adopt_committed_runtime_generation *)
AdoptedGen ==
    LET r == Observed(rec)
    IN  IF ptr.active # 0 /\ r.active = ptr.active /\ r.accepted = ptr.active
        THEN ptr.active
        ELSE sup.gen

(* _durable_fail_closed, on the record as read() returns it *)
DurableFailClosed(prior) ==
    /\ prior.since
    /\ prior.phase \in {"FAILED", "FAIL_CLOSED", "STOPPED"}

(* JsonRestartHistoryStore.record_restart: the event is named by the       *)
(* incarnation and its restart count.                                      *)
RecordRestart(count) ==
    /\ ledger' = IF ledger.event = count THEN ledger
                 ELSE [total |-> ledger.total + 1, event |-> count]
    /\ restarts' = restarts + 1

-----------------------------------------------------------------------------
(* Starting up.                                                            *)

(* The prior record cannot be read: nothing is proved about a latch. *)
BeginUnreadable ==
    /\ sup.pc = "begin"
    /\ Fault
    /\ FailClosed(sup.gen, 0, TRUE)
    /\ UNCHANGED <<ledger, spawns, restarts>>

BeginLatched ==
    /\ sup.pc = "begin"
    /\ DurableFailClosed(Observed(rec))
    /\ FailClosed(sup.gen, 0, FALSE)
    /\ UNCHANGED <<ledger, used, spawns, restarts>>

(* The preflight, the reclamation of old execution workers or the          *)
(* registration of the new one fails.                                      *)
BeginRefused ==
    /\ sup.pc = "begin"
    /\ ~DurableFailClosed(Observed(rec))
    /\ Fault
    /\ FailClosed(sup.gen, 0, FALSE)
    /\ UNCHANGED <<ledger, spawns, restarts>>

(* The tunnel's doctor or the start of the execution worker fails. *)
BeginFailed ==
    /\ sup.pc = "begin"
    /\ ~DurableFailClosed(Observed(rec))
    /\ Fault
    /\ ExitFailed(sup.gen, 0)
    /\ UNCHANGED <<ledger, spawns, restarts>>

BeginOK ==
    /\ sup.pc = "begin"
    /\ ~DurableFailClosed(Observed(rec))
    /\ sup' = [sup EXCEPT !.pc = "loop"]
    /\ UNCHANGED <<ptr, rec, child, ledger, used, spawns, restarts>>

(* The head of the run loop: adopt, publish STARTING, start the child. *)
StartChild ==
    /\ sup.pc = "loop"
    /\ ~sup.stop
    /\ rec' = Record("STARTING", 0, AdoptedGen, "none", FALSE)
    /\ \/ /\ sup' = [sup EXCEPT !.pc = "gate", !.gen = AdoptedGen]
          /\ child' = [NoChild EXCEPT !.alive = TRUE, !.well = TRUE]
          /\ spawns' = spawns + 1
          /\ UNCHANGED used
       \/ /\ Fault
          /\ sup' = [sup EXCEPT !.pc = "retry", !.gen = AdoptedGen]
          /\ UNCHANGED <<child, spawns>>
    /\ UNCHANGED <<ptr, ledger, restarts>>

(* _observe_health; the host answers HEALTH well only with an open gate *)
Healthy(g) == child.alive /\ child.well /\ child.serves = g /\ child.gate = "open"

GatePassed ==
    /\ sup.pc = "gate"
    /\ Healthy(sup.gen)
    /\ sup' = [sup EXCEPT !.pc = "commit"]
    /\ UNCHANGED <<ptr, rec, child, ledger, used, spawns, restarts>>

(* _wait_healthy gave up: the child died, or the time is over.  A child    *)
(* that has yet to come up may still be too slow.                          *)
GateFailed ==
    /\ sup.pc = "gate"
    /\ \/ ~child.alive /\ UNCHANGED used
       \/ child.serves # 0 /\ ~Healthy(sup.gen) /\ UNCHANGED used
       \/ Fault
    /\ child' = NoChild
    /\ rec' = ChildGone(rec)
    /\ sup' = [sup EXCEPT !.pc = "retry"]
    /\ UNCHANGED <<ptr, ledger, spawns, restarts>>

(* The health gate is passed: commit the active pointer. *)
Commit ==
    /\ sup.pc = "commit"
    /\ \/ /\ CanActivate(ptr, sup.gen, ptr.active)
          /\ ptr' = IF ptr.active = sup.gen THEN ptr ELSE Activated(ptr, sup.gen)
          /\ sup' = [sup EXCEPT !.pc = "publish"]
          /\ UNCHANGED <<rec, child>>
       \/ /\ ~CanActivate(ptr, sup.gen, ptr.active)
          /\ ExitFailed(sup.gen, 0)
    /\ UNCHANGED <<ledger, used, spawns, restarts>>

Publish ==
    /\ sup.pc = "publish"
    /\ rec' = Record("HEALTHY", sup.gen, sup.gen,
                     IF child.alive THEN "live" ELSE "gone", FALSE)
    /\ sup' = [sup EXCEPT !.pc = "watch", !.fails = 0]
    /\ UNCHANGED <<ptr, child, ledger, used, spawns, restarts>>

-----------------------------------------------------------------------------
(* The watchdog.                                                           *)

(* One round begins: adopt, and keep the execution worker running. *)
Watch ==
    /\ sup.pc = "watch"
    /\ ~sup.stop
    /\ child.alive
    /\ sup' = [sup EXCEPT !.pc = "observe", !.gen = AdoptedGen]
    /\ UNCHANGED <<ptr, rec, child, ledger, used, spawns, restarts>>

\* Mutant: the supervisor fails closed without terminating its child.
WorkerUnregisteredServing ==
    /\ sup.pc = "observe"
    /\ Fault
    /\ sup' = [sup EXCEPT !.pc = "resident"]
    /\ rec' = Record("FAIL_CLOSED", 0, sup.gen, "none", TRUE)
    /\ ptr' = ClearTarget(ptr, sup.gen)
    /\ UNCHANGED <<child, ledger, spawns, restarts>>

WorkerUnregistered ==
    /\ sup.pc = "observe"
    /\ Fault
    /\ FailClosed(sup.gen, 0, FALSE)
    /\ UNCHANGED <<ledger, spawns, restarts>>

(* Probe the child, then read the record.  `unread': the read of the       *)
(* record in the adoption failed, which alone is no failure of service.    *)
Observe ==
    /\ sup.pc = "observe"
    /\ \/ /\ sup' = [sup EXCEPT !.pc = "judge", !.ok = Healthy(sup.gen), !.unread = FALSE,
                                !.cur = Observed(rec)]
          /\ UNCHANGED used
       \/ /\ Fault
          /\ \E c \in {Observed(rec), NoRecord} :
                sup' = [sup EXCEPT !.pc = "judge", !.ok = Healthy(sup.gen),
                                   !.unread = TRUE, !.cur = c]
    /\ UNCHANGED <<ptr, rec, child, ledger, spawns, restarts>>

\* Mutant: a degraded record is refreshed only when the text of a check changed.
JudgeHealthyLazily ==
    /\ sup.pc = "judge" /\ sup.ok /\ ~sup.unread
    /\ sup' = [sup EXCEPT !.pc = "watch", !.fails = 0, !.cur = NoRecord]
    /\ UNCHANGED <<ptr, rec, child, ledger, used, spawns, restarts>>

(* All is well.  The record is refreshed when it was degraded or when the  *)
(* text of a check changed, and the count is reset after a stable time.    *)
JudgeHealthy ==
    /\ sup.pc = "judge" /\ sup.ok /\ ~sup.unread
    /\ \E count \in {0, sup.count} :
          /\ sup' = [sup EXCEPT !.pc = "watch", !.fails = 0, !.count = count,
                                !.cur = NoRecord]
          /\ spawns' = IF count = 0 THEN 1 ELSE spawns
          /\ LET fresh == [sup.cur EXCEPT !.phase = "HEALTHY", !.active = sup.gen,
                                          !.accepted = sup.gen]
                 must  == sup.cur.phase = "DEGRADED" \/ count # sup.count
             IN  CASE sup.cur = NoRecord           -> rec' = rec
                   [] sup.cur # NoRecord /\ must   -> rec' = fresh
                   [] OTHER                        -> rec' \in {rec, fresh}
    /\ UNCHANGED <<ptr, child, ledger, used, restarts>>

(* Only the record could not be read: degraded, but the child is kept. *)
JudgeUnread ==
    /\ sup.pc = "judge" /\ sup.ok /\ sup.unread
    /\ sup' = [sup EXCEPT !.pc = "watch", !.cur = NoRecord]
    /\ rec' = IF sup.cur = NoRecord THEN rec ELSE [sup.cur EXCEPT !.phase = "DEGRADED"]
    /\ UNCHANGED <<ptr, child, ledger, used, spawns, restarts>>

\* Mutant: the streak may exceed the threshold.
JudgeUnhealthyLate ==
    /\ sup.pc = "judge" /\ ~sup.ok
    /\ sup' = [sup EXCEPT !.pc = IF sup.fails <= Threshold THEN "watch" ELSE "restart",
                          !.fails = @ + 1, !.cur = NoRecord]
    /\ UNCHANGED <<ptr, rec, child, ledger, used, spawns, restarts>>

JudgeUnhealthy ==
    /\ sup.pc = "judge" /\ ~sup.ok
    /\ LET degraded == IF sup.cur = NoRecord THEN rec
                       ELSE [sup.cur EXCEPT !.phase = "DEGRADED"]
       IN  IF sup.fails + 1 < Threshold
           THEN /\ sup' = [sup EXCEPT !.pc = "watch", !.fails = @ + 1, !.cur = NoRecord]
                /\ rec' = degraded
                /\ UNCHANGED child
           ELSE /\ sup' = [sup EXCEPT !.pc = "restart", !.fails = @ + 1, !.cur = NoRecord]
                /\ rec' = ChildGone(degraded)
                /\ child' = NoChild
    /\ UNCHANGED <<ptr, ledger, used, spawns, restarts>>

(* The child exited by itself. *)
WatchEnded ==
    /\ sup.pc = "watch"
    /\ ~sup.stop
    /\ ~child.alive
    /\ sup' = [sup EXCEPT !.pc = "restart"]
    /\ UNCHANGED <<ptr, rec, child, ledger, used, spawns, restarts>>

\* Mutant: the budget is compared before the restart is counted.
AgainOffByOne(gen, active) ==
    LET count == sup.count + 1
    IN  \/ /\ RecordRestart(count)
           /\ sup.count <= MaxRestarts
           /\ sup' = [sup EXCEPT !.pc = "loop", !.gen = gen, !.count = count]
           /\ UNCHANGED <<ptr, rec, child, used>>
        \/ /\ RecordRestart(count)
           /\ sup.count > MaxRestarts
           /\ FailClosed(gen, active, FALSE)
           /\ UNCHANGED used

(* One more restart: counted in the ledger, or the ledger cannot be        *)
(* written; within the budget, or fail closed in place.                    *)
AgainOrFailClosed(gen, active) ==
    LET count == sup.count + 1
    IN  \/ /\ RecordRestart(count)
           /\ count <= MaxRestarts
           /\ sup' = [sup EXCEPT !.pc = "loop", !.gen = gen, !.count = count]
           /\ UNCHANGED <<ptr, rec, child, used>>
        \/ /\ RecordRestart(count)
           /\ count > MaxRestarts
           /\ FailClosed(gen, active, FALSE)
           /\ UNCHANGED used
        \/ /\ Fault
           /\ FailClosed(gen, 0, TRUE)
           /\ UNCHANGED <<ledger, restarts>>

(* The child did not start, or did not pass the gate. *)
Retry ==
    /\ sup.pc = "retry"
    /\ AgainOrFailClosed(sup.gen, 0)
    /\ UNCHANGED spawns

(* The child died or was killed under the watchdog, which adopts first and *)
(* asks the tunnel's doctor before it starts another.                      *)
Restart ==
    /\ sup.pc = "restart"
    /\ ~sup.stop
    /\ \/ AgainOrFailClosed(AdoptedGen, AdoptedGen)
       \/ /\ Fault
          /\ sup.count < MaxRestarts
          /\ RecordRestart(sup.count + 1)
          /\ ExitFailed(AdoptedGen, AdoptedGen)
    /\ UNCHANGED spawns

(* The handler around the run loop: any other exception, a record that     *)
(* cannot be written above all, ends the children and the supervisor.  Its *)
(* own FAILED record is only attempted.                                    *)
SupervisorFails ==
    /\ Crashes
    /\ sup.pc \in {"begin", "loop", "gate", "publish", "judge", "restart"}
    /\ Fault
    /\ sup' = [sup EXCEPT !.pc = "crashed", !.cur = NoRecord, !.stop = FALSE]
    /\ rec' \in {SupervisorGone(rec),
                 SupervisorGone(Record("FAILED", 0, sup.gen, "none", FALSE))}
    /\ ptr' = ClearTarget(ptr, sup.gen)
    /\ child' = NoChild
    /\ UNCHANGED <<ledger, spawns, restarts>>

-----------------------------------------------------------------------------
(* Stopping.                                                               *)

Stop ==
    /\ sup.stop
    /\ sup.pc \in {"loop", "watch", "restart"}
    /\ ExitStopped(Observed(rec))
    /\ UNCHANGED <<ptr, ledger, used, spawns, restarts>>

ResidentStop ==
    /\ sup.pc = "resident"
    /\ sup.stop
    /\ ExitStopped(IF sup.override THEN Record("FAIL_CLOSED", 0, sup.gen, "none", TRUE)
                   ELSE Observed(rec))
    /\ UNCHANGED <<ptr, ledger, used, spawns, restarts>>

-----------------------------------------------------------------------------
Begin == BeginUnreadable \/ BeginLatched \/ BeginRefused \/ BeginFailed \/ BeginOK

Gate == GatePassed \/ GateFailed

Judge == JudgeHealthy \/ JudgeUnread \/ JudgeUnhealthy

SupervisorStep ==
    \/ Begin \/ StartChild \/ Gate \/ Commit \/ Publish
    \/ Watch \/ WorkerUnregistered \/ Observe \/ Judge \/ WatchEnded
    \/ Retry \/ Restart \/ SupervisorFails \/ Stop \/ ResidentStop

ChildStep ==
    \/ ChildUp \/ ChildUnbuilt \/ ChildDies \/ ChildSick \/ ChildWell
    \/ (\E g \in Gens : ReloadStage(g)) \/ ReloadCommit \/ ReloadFail

Next ==
    \/ OperatorStart \/ Relaunch \/ Shutdown \/ Crash
    \/ ChildStep
    \/ SupervisorStep

Spec == Init /\ [][Next]_supVars

(* A process that runs goes on or ends, launchd relaunches, and a reload   *)
(* that was begun ends.  Nothing forces a fault, an operator or a recovery.*)
FairSpec ==
    /\ Spec
    /\ WF_supVars(SupervisorStep)
    /\ WF_supVars(Relaunch)
    /\ WF_supVars(ChildUp \/ ChildUnbuilt)
    /\ WF_supVars(ReloadCommit \/ ReloadFail)

-----------------------------------------------------------------------------
(* Properties.                                                             *)

(* A supervisor that failed closed and stays resident for the sake of its  *)
(* control socket has no child left: nobody is served.                     *)
ResidentServesNobody == sup.pc = "resident" => ~child.alive

(* One supervisor starts at most MaxRestarts + 1 children between two      *)
(* stable periods, whatever mixture of failed starts, failed gates and     *)
(* watchdog kills it meets.                                                *)
RestartBudget == spawns <= MaxRestarts + 1

(* The active pointer moves only to the generation the MCP child serves,   *)
(* whether the supervisor commits after its gate or the host after a       *)
(* reload, and whatever the other one does in between; or to the one the   *)
(* child is reloading, when it has left the generation the gate saw and is *)
(* on its way back.                                                        *)
CommitsWhatIsServed ==
    [][ptr'.active # ptr.active =>
          \/ ptr'.active \in {child'.serves, child'.reload}
          \/ ~child'.alive]_supVars

(* A supervisor that runs ends with everyone agreeing (record, pointer and *)
(* child name one generation, the record is healthy), or failed closed, or *)
(* gone.                                                                   *)
Agreed == /\ rec.phase = "HEALTHY" /\ rec.pid = "live"
          /\ rec.active = ptr.active /\ child.serves = ptr.active

Settles == Running ~> (Agreed \/ sup.pc = "resident" \/ ~Running)

(* As long as supervisors end by an explicit stop, none of the same        *)
(* release starts a child after one of them had failed closed.             *)
Latched == rec.since /\ rec.phase = "STOPPED"

LatchHolds == [](Latched => []~child.alive)

-----------------------------------------------------------------------------
(* What the code says of itself, and does not keep.                        *)

(* supervisor.py says a relaunched supervisor does not reset a             *)
(* deterministic failure: once failed closed, none of this release starts  *)
(* a child.                                                                *)
FailureNotReset ==
    []((rec.phase = "FAIL_CLOSED" /\ rec.since /\ ~child.alive) => []~child.alive)

(* supervisor.py says the watchdog does not restart a genuinely healthy    *)
(* child, which is one that is well and serves the committed generation.   *)
HealthyChildKept ==
    [][(sup.pc = "judge" /\ child.alive /\ ~child'.alive) =>
          ~(child.well /\ child.serves = ptr.active)]_supVars

(* state_store.py says record_restart counts a logical restart exactly     *)
(* once.                                                                   *)
RestartsCounted == ledger.total = restarts

=============================================================================
