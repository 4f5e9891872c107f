-------------------------- MODULE RuntimeActivation --------------------------
(***************************************************************************)
(* GenerationActivator.activate, the process that moves the managed        *)
(* runtime to another configuration generation, composed with the          *)
(* supervisor, the child and the pointers of module Supervisor.            *)
(*                                                                         *)
(* The activator journals each attempt as an operation and a receipt, asks *)
(* the MCP host to reload, and falls back to drain, stop, launch, wait and *)
(* roll back.  It works on the copy of the runtime record it read when it  *)
(* began, and may die between any two steps.  Interrupted attempts are     *)
(* closed by the reconciler that every application build runs, provided it *)
(* looks where the attempt's journal is.                                   *)
(*                                                                         *)
(* Every wait of the activator has a deadline, so every wait may end       *)
(* early, whatever the other processes are about to do.                    *)
(***************************************************************************)
EXTENDS Supervisor

CONSTANTS
    MaxAttempts,    \* bound on the attempts
    Deltas,         \* capability deltas tried: a subset of DeltaKinds
    Modes,          \* ways of calling tried: a subset of ModeKinds
    Swept           \* TRUE: the journal is in the root that builds reconcile

VARIABLES
    act,        \* the activator process
    jrn,        \* receipt and operation of each attempt
    rpc         \* the RELOAD request at the host, and its answer

actVars == <<act, jrn, rpc>>
vars == <<supVars, actVars>>

DeltaKinds == {"EXPANSION", "RESTRICTION", "INCOMPATIBLE"}
ModeKinds  == {"rollback", "norollback", "nowait"}

ASSUME ActivationAssumption ==
    /\ MaxAttempts \in Nat \ {0}
    /\ Deltas \subseteq DeltaKinds
    /\ Modes \subseteq ModeKinds
    /\ Swept \in BOOLEAN

Attempts == 1..MaxAttempts

TargetActive == {"HOT_RELOAD", "RESTART_FALLBACK", "ACTIVE_BUT_CLIENT_STALE"}
TerminalClass == TargetActive \cup {"ROLLED_BACK", "RELOAD_FAILED"}
TerminalOp == {"SUCCEEDED", "FAILED"}

NoReceipt == [class |-> "NONE", effect |-> FALSE, op |-> "NONE", gen |-> 0, prev |-> 0]

Idle == [pc |-> "idle", n |-> 0, gen |-> 0, prev |-> 0, delta |-> "EXPANSION",
         mode |-> "rollback", copy |-> NoRecord, drains |-> FALSE, out |-> "NONE"]

NoRpc == [req |-> 0, expected |-> 0, built |-> FALSE, ans |-> "none"]

ActTypeOK ==
    /\ TypeOK
    /\ act \in [pc : {"idle", "building", "decide", "effect", "send", "await", "record",
                      "mark", "drain", "draining", "undrained", "revoke", "stop",
                      "stopwait", "forced", "stage", "launch", "wait", "failed", "undo",
                      "undostage", "undolaunch", "undocheck", "undofailed", "receipt",
                      "operation"},
                n : 0..MaxAttempts, gen : GenOrNone, prev : GenOrNone,
                delta : DeltaKinds, mode : ModeKinds, copy : RecordType,
                drains : BOOLEAN, out : TerminalClass \cup {"NONE"}]
    /\ jrn \in [Attempts -> [class : TerminalClass \cup {"NONE", "ACCEPTED", "BUILDING"},
                             effect : BOOLEAN,
                             op : TerminalOp \cup {"NONE", "PENDING", "RUNNING"},
                             gen : GenOrNone, prev : GenOrNone]]
    /\ rpc \in [req : GenOrNone, expected : GenOrNone, built : BOOLEAN,
                ans : {"none", "ok", "failed"}]

ActInit ==
    /\ Init
    /\ act = Idle
    /\ jrn = [n \in Attempts |-> NoReceipt]
    /\ rpc = NoRpc

Goto(pc) == act' = [act EXCEPT !.pc = pc]

-----------------------------------------------------------------------------
(* The journal.                                                            *)

\* Mutant: the operation of a closed receipt is not repaired.
ReconciledOpenOnly(r) ==
    IF r.class \in {"ACCEPTED", "BUILDING"}
    THEN [r EXCEPT !.class = "RELOAD_FAILED", !.op = "FAILED"] ELSE r

(* RuntimeActivationReconciler.reconcile for one receipt.  No runtime      *)
(* record lies in the reconciled root, so an attempt is never found to be  *)
(* active.                                                                 *)
Reconciled(r) ==
    CASE r.class \in {"ACCEPTED", "BUILDING"} ->
            [r EXCEPT !.class = "RELOAD_FAILED", !.op = "FAILED"]
      [] r.class \in TerminalClass /\ r.op \in {"PENDING", "RUNNING"} ->
            [r EXCEPT !.op = IF r.class = "RELOAD_FAILED" THEN "FAILED" ELSE "SUCCEEDED"]
      [] OTHER -> r

Sweep == jrn' = IF Swept THEN [n \in Attempts |-> Reconciled(jrn[n])] ELSE jrn

(* The rest of the journal's writes are the activator's.  A receipt that   *)
(* is closed refuses them: the exception ends the activator.               *)
Open(n) == jrn[n].class = "BUILDING"

Raised == act' = Idle

MarkEffect(pc) ==
    IF Open(act.n)
    THEN jrn' = [jrn EXCEPT ![act.n].effect = TRUE] /\ Goto(pc)
    ELSE jrn' = jrn /\ Raised

End(class) == act' = [act EXCEPT !.pc = "receipt", !.out = class]

-----------------------------------------------------------------------------
(* Beginning.                                                              *)

ActBegin(n, g, delta, mode) ==
    /\ act.pc = "idle"
    /\ jrn[n].class = "NONE"
    /\ \A m \in Attempts : m < n => jrn[m].class # "NONE"
    /\ act' = [Idle EXCEPT !.pc = "building", !.n = n, !.gen = g, !.prev = ptr.active,
                           !.delta = delta, !.mode = mode, !.copy = Observed(rec)]
    /\ jrn' = [jrn EXCEPT ![n] = [NoReceipt EXCEPT !.class = "ACCEPTED", !.op = "PENDING",
                                                   !.gen = g, !.prev = ptr.active]]
    /\ rpc' = [rpc EXCEPT !.ans = "none"]
    /\ UNCHANGED supVars

(* mark_building; the contract artifacts may turn out to be invalid. *)
ActBuilding ==
    /\ act.pc = "building"
    /\ \/ /\ jrn[act.n].class = "ACCEPTED"
          /\ jrn' = [jrn EXCEPT ![act.n].class = "BUILDING", ![act.n].op = "RUNNING"]
          /\ Goto("decide")
          /\ UNCHANGED supVars
       \/ /\ jrn[act.n].class = "ACCEPTED"
          /\ Fault
          /\ jrn' = [jrn EXCEPT ![act.n].class = "RELOAD_FAILED", ![act.n].op = "FAILED"]
          /\ Raised
          /\ UNCHANGED <<ptr, rec, sup, child, ledger, spawns, restarts>>
       \/ /\ jrn[act.n].class # "ACCEPTED"
          /\ Raised
          /\ UNCHANGED <<jrn, supVars>>
    /\ UNCHANGED rpc

(* The copy of the record shows no runtime that has to be stopped. *)
NothingRan(r) == r.phase \in {"ABSENT", "STOPPED", "FAILED"}

StaleActive == act.prev # 0 /\ ptr.active # act.prev

ActDecide ==
    /\ act.pc = "decide"
    /\ CASE act.copy.phase \in {"HEALTHY", "DEGRADED"} /\ act.delta # "INCOMPATIBLE" ->
              IF StaleActive THEN Raised /\ UNCHANGED ptr
              ELSE ptr' = Stage(ptr, act.gen) /\ Goto("effect")
         [] NothingRan(act.copy) ->
              Goto("stage") /\ UNCHANGED ptr
         [] OTHER -> Goto("mark") /\ UNCHANGED ptr
    /\ UNCHANGED <<rec, sup, child, ledger, used, spawns, restarts, jrn, rpc>>

-----------------------------------------------------------------------------
(* The hot reload.                                                         *)

ActEffect ==
    /\ act.pc = "effect"
    /\ MarkEffect("send")
    /\ UNCHANGED <<supVars, rpc>>

ActSend ==
    /\ act.pc = "send"
    /\ rpc' = IF child.alive /\ child.serves # 0 /\ rpc.req = 0
              THEN [NoRpc EXCEPT !.req = act.gen, !.expected = act.prev]
              ELSE rpc
    /\ Goto("await")
    /\ UNCHANGED <<supVars, jrn>>

(* The host: build the candidate (a build of the application, which        *)
(* reconciles), drain the old gate, commit and swap, answer; or fail - the *)
(* build, the drain in time, the commit - and open that gate again.        *)
HostBuilds ==
    /\ rpc.req \notin Broken \cup {0} /\ child.alive
    /\ ~rpc.built
    /\ rpc.expected \in {0, child.serves}
    /\ child' = [child EXCEPT !.gate = "draining"]
    /\ rpc' = [rpc EXCEPT !.built = TRUE]
    /\ Sweep
    /\ UNCHANGED <<ptr, rec, sup, ledger, used, spawns, restarts, act>>

HostReloads ==
    /\ rpc.built /\ child.alive
    /\ rpc.req # child.serves
    /\ CanActivate(ptr, rpc.req, child.serves)
    /\ ptr' = Activated(ptr, rpc.req)
    /\ child' = [child EXCEPT !.serves = rpc.req, !.gate = "open"]
    /\ rpc' = [NoRpc EXCEPT !.ans = "ok"]
    /\ UNCHANGED <<rec, sup, ledger, used, spawns, restarts, act, jrn>>

HostRefuses ==
    /\ rpc.req # 0 /\ child.alive
    /\ rpc' = [NoRpc EXCEPT !.ans = "failed"]
    /\ child' = IF rpc.built THEN [child EXCEPT !.gate = "open"] ELSE child
    /\ UNCHANGED <<ptr, rec, sup, ledger, used, spawns, restarts, act, jrn>>

\* Mutant: a reload without an answer is taken for done.
ActAwaitTrusting ==
    /\ act.pc = "await"
    /\ IF rpc.ans = "failed" THEN Goto("mark")
       ELSE act' = [act EXCEPT !.pc = "record", !.out = "HOT_RELOAD"]
    /\ UNCHANGED <<supVars, jrn, rpc>>

(* The answer, or none in time; the pointer decides. *)
ActAwait ==
    /\ act.pc = "await"
    /\ LET lost == rpc.ans = "none"
       IN  IF ptr.active = act.gen /\ (lost \/ rpc.ans = "ok")
           THEN act' = [act EXCEPT !.pc = "record",
                            !.out = IF lost THEN "ACTIVE_BUT_CLIENT_STALE" ELSE "HOT_RELOAD"]
           ELSE Goto("mark")
    /\ UNCHANGED <<supVars, jrn, rpc>>

ActRecord ==
    /\ act.pc = "record"
    /\ rec' = [act.copy EXCEPT !.phase = "HEALTHY", !.active = act.gen, !.accepted = act.gen]
    /\ Goto("receipt")
    /\ UNCHANGED <<ptr, sup, child, ledger, used, spawns, restarts, jrn, rpc>>

-----------------------------------------------------------------------------
(* The restart: drain.                                                     *)

ActMark ==
    /\ act.pc = "mark"
    /\ IF Open(act.n)
       THEN LET drains == act.copy.phase \in {"HEALTHY", "DEGRADED"}
            IN  /\ jrn' = [jrn EXCEPT ![act.n].effect = TRUE]
                /\ act' = [act EXCEPT !.pc = "drain", !.drains = drains]
                /\ rec' = IF drains THEN [act.copy EXCEPT !.phase = "DRAINING",
                                                          !.accepted = act.gen]
                          ELSE rec
       ELSE Raised /\ UNCHANGED <<jrn, rec>>
    /\ UNCHANGED <<ptr, sup, child, ledger, used, spawns, restarts, rpc>>

ActDrain ==
    /\ act.pc = "drain"
    /\ IF child.alive /\ child.serves # 0
       THEN child' = [child EXCEPT !.gate = "draining"] /\ Goto("draining")
       ELSE Goto("undrained") /\ UNCHANGED child
    /\ UNCHANGED <<ptr, rec, sup, ledger, used, spawns, restarts, jrn, rpc>>

(* Idle in time, or not, or the host died. *)
ActDrained ==
    /\ act.pc = "draining"
    /\ \/ child.alive /\ child.gate = "draining" /\ Goto("stop")
       \/ Goto("undrained")
    /\ UNCHANGED <<supVars, jrn, rpc>>

(* _mark_terminal_failure *)
TerminalRecord(phase, stopped) ==
    LET r == [act.copy EXCEPT !.phase = phase, !.accepted = act.gen]
    IN  IF stopped \/ act.copy = NoRecord
        THEN [r EXCEPT !.pid = "none", !.child = "none", !.active = 0]
        ELSE r

(* Not drained, and nothing is restricted: back to the open gate. *)
ActResume ==
    /\ act.pc = "undrained"
    /\ act.delta # "RESTRICTION"
    /\ child' = IF child.alive THEN [child EXCEPT !.gate = "open"] ELSE child
    /\ rec' = IF act.drains THEN [act.copy EXCEPT !.accepted = act.gen] ELSE rec
    /\ End("RELOAD_FAILED")
    /\ UNCHANGED <<ptr, sup, ledger, used, spawns, restarts, jrn, rpc>>

(* Not drained, and a capability is to be removed: shut the gate, or stop  *)
(* the runtime if nobody answers at the gate.                              *)
ActFailClosed ==
    /\ act.pc = "undrained"
    /\ act.delta = "RESTRICTION"
    /\ IF child.alive /\ child.serves # 0
       THEN /\ child' = [child EXCEPT !.gate = "fail_closed"]
            /\ rec' = [act.copy EXCEPT !.phase = "FAIL_CLOSED", !.accepted = act.gen]
            /\ End("RELOAD_FAILED")
            /\ UNCHANGED sup
       ELSE /\ sup' = [sup EXCEPT !.stop = Running]
            /\ Goto("revoke")
            /\ UNCHANGED <<child, rec>>
    /\ UNCHANGED <<ptr, ledger, used, spawns, restarts, jrn, rpc>>

-----------------------------------------------------------------------------
(* The restart: stop.                                                      *)

SeenStopped == NothingRan(Observed(rec))

(* force_stop: only the supervisor the copy names is killed. *)
MayForce == act.copy.pid = "live" /\ Running

Killed ==
    /\ sup' = [sup EXCEPT !.pc = "crashed", !.cur = NoRecord, !.stop = FALSE]
    /\ child' = NoChild

ActRevoke ==
    /\ act.pc = "revoke"
    /\ \/ SeenStopped /\ rec' = TerminalRecord("FAIL_CLOSED", TRUE) /\ UNCHANGED <<sup, child>>
       \/ ~SeenStopped /\ MayForce /\ Killed /\ rec' = TerminalRecord("FAIL_CLOSED", TRUE)
       \/ /\ ~SeenStopped /\ ~MayForce
          /\ rec' = TerminalRecord("FAIL_CLOSED", FALSE)
          /\ UNCHANGED <<sup, child>>
    /\ End("RELOAD_FAILED")
    /\ UNCHANGED <<ptr, ledger, used, spawns, restarts, jrn, rpc>>

ActStop ==
    /\ act.pc = "stop"
    /\ rec' = IF act.drains THEN [act.copy EXCEPT !.phase = "RELOADING", !.accepted = act.gen]
              ELSE rec
    /\ sup' = [sup EXCEPT !.stop = Running]
    /\ Goto("stopwait")
    /\ UNCHANGED <<ptr, child, ledger, used, spawns, restarts, jrn, rpc>>

ActStopped ==
    /\ act.pc = "stopwait"
    /\ \/ SeenStopped /\ Goto("stage") /\ UNCHANGED <<rec, sup, child>>
       \/ ~SeenStopped /\ MayForce /\ Killed /\ rec' = SupervisorGone(rec) /\ Goto("forced")
       \/ /\ ~SeenStopped /\ ~MayForce
          /\ rec' = TerminalRecord(IF act.delta = "RESTRICTION" THEN "FAIL_CLOSED" ELSE "FAILED",
                                   FALSE)
          /\ End("RELOAD_FAILED")
          /\ UNCHANGED <<sup, child>>
    /\ UNCHANGED <<ptr, ledger, used, spawns, restarts, jrn, rpc>>

(* Killed by force; launchd may have relaunched it already. *)
ActForced ==
    /\ act.pc = "forced"
    /\ IF SeenStopped THEN Goto("stage") /\ UNCHANGED rec
       ELSE /\ rec' = TerminalRecord(IF act.delta = "RESTRICTION" THEN "FAIL_CLOSED"
                                     ELSE "FAILED", TRUE)
            /\ End("RELOAD_FAILED")
    /\ UNCHANGED <<ptr, sup, child, ledger, used, spawns, restarts, jrn, rpc>>

-----------------------------------------------------------------------------
(* The restart: launch and wait.                                           *)

ActStage ==
    /\ act.pc = "stage"
    /\ IF ptr.target = act.gen \/ ~StaleActive
       THEN /\ ptr' = Stage(ptr, act.gen)
            /\ IF NothingRan(act.copy) THEN MarkEffect("launch") ELSE Goto("launch") /\ jrn' = jrn
       ELSE Raised /\ UNCHANGED <<ptr, jrn>>
    /\ UNCHANGED <<rec, sup, child, ledger, used, spawns, restarts, rpc>>

(* A second supervisor gives up at the single-instance lock, so a launch   *)
(* while one runs does nothing.                                            *)
Launched ==
    /\ UNCHANGED used
    /\ \/ Launch(StartChoice)
       \/ Running /\ UNCHANGED <<sup, ledger, spawns>>

LaunchFails == Fault /\ UNCHANGED <<sup, ledger, spawns>>

ActLaunch ==
    /\ act.pc = "launch"
    /\ \/ Launched /\ IF act.mode = "nowait" THEN Raised ELSE Goto("wait")
       \/ LaunchFails /\ Goto("failed")
    /\ UNCHANGED <<ptr, rec, child, restarts, jrn, rpc>>

(* _wait_generation *)
SeenHealthy(g) == LET r == Observed(rec) IN r.phase = "HEALTHY" /\ r.active = g

ActWait ==
    /\ act.pc = "wait"
    /\ IF SeenHealthy(act.gen) THEN End("RESTART_FALLBACK") ELSE Goto("failed")
    /\ UNCHANGED <<supVars, jrn, rpc>>

(* The target is withdrawn; then the rollback, or none. *)
ActFailed ==
    /\ act.pc = "failed"
    /\ ptr' = ClearTarget(ptr, act.gen)
    /\ IF act.mode = "rollback" /\ act.delta # "RESTRICTION" /\ act.prev # 0
       THEN Goto("undo") /\ UNCHANGED rec
       ELSE End("RELOAD_FAILED") /\ rec' = TerminalRecord("FAIL_CLOSED", TRUE)
    /\ UNCHANGED <<sup, child, ledger, used, spawns, restarts, jrn, rpc>>

-----------------------------------------------------------------------------
(* The rollback.                                                           *)

ActUndo ==
    /\ act.pc = "undo"
    /\ sup' = [sup EXCEPT !.stop = Running]
    /\ Goto("undostage")
    /\ UNCHANGED <<ptr, rec, child, ledger, used, spawns, restarts, jrn, rpc>>

(* stage_activation(previous, expected_active=previous), after a wait for  *)
(* the stop whose outcome is ignored                                       *)
ActUndoStage ==
    /\ act.pc = "undostage"
    /\ IF StaleActive THEN Raised /\ UNCHANGED ptr
       ELSE ptr' = Stage(ptr, act.prev) /\ Goto("undolaunch")
    /\ UNCHANGED <<rec, sup, child, ledger, used, spawns, restarts, jrn, rpc>>

ActUndoLaunch ==
    /\ act.pc = "undolaunch"
    /\ \/ Launched /\ Goto("undocheck")
       \/ LaunchFails /\ Goto("undofailed")
    /\ UNCHANGED <<ptr, rec, child, restarts, jrn, rpc>>

ActUndoCheck ==
    /\ act.pc = "undocheck"
    /\ IF SeenHealthy(act.prev) THEN End("ROLLED_BACK") ELSE Goto("undofailed")
    /\ UNCHANGED <<supVars, jrn, rpc>>

ActUndoFailed ==
    /\ act.pc = "undofailed"
    /\ ptr' = ClearTarget(ptr, act.prev)
    /\ rec' = TerminalRecord("FAILED", TRUE)
    /\ End("RELOAD_FAILED")
    /\ UNCHANGED <<sup, child, ledger, used, spawns, restarts, jrn, rpc>>

-----------------------------------------------------------------------------
(* The end: the receipt, then the operation.                               *)

\* Mutant: a receipt that somebody closed is overwritten.
ActReceiptAnyway ==
    /\ act.pc = "receipt"
    /\ jrn' = [jrn EXCEPT ![act.n].class = act.out, ![act.n].effect = TRUE]
    /\ Goto("operation")
    /\ UNCHANGED <<supVars, rpc>>

ActReceipt ==
    /\ act.pc = "receipt"
    /\ IF Open(act.n)
       THEN /\ jrn' = [jrn EXCEPT ![act.n].class = act.out, ![act.n].effect = TRUE]
            /\ Goto("operation")
       ELSE Raised /\ UNCHANGED jrn
    /\ UNCHANGED <<supVars, rpc>>

ActOperation ==
    /\ act.pc = "operation"
    /\ jrn' = IF jrn[act.n].op = "RUNNING"
              THEN [jrn EXCEPT ![act.n].op = IF act.out = "RELOAD_FAILED" THEN "FAILED"
                                             ELSE "SUCCEEDED"]
              ELSE jrn
    /\ Raised
    /\ UNCHANGED <<supVars, rpc>>

ActCrash ==
    /\ act.pc # "idle"
    /\ Fault
    /\ Raised
    /\ UNCHANGED <<ptr, rec, sup, child, ledger, spawns, restarts, jrn, rpc>>

-----------------------------------------------------------------------------
(* Some other process builds the application and so reconciles. *)
OtherBuild ==
    /\ Sweep
    /\ jrn' # jrn
    /\ UNCHANGED <<supVars, act, rpc>>

(* What the death of a process does to the activator's copy of the record  *)
(* and to a request at the host.                                           *)
Aged ==
    LET childDied == child.alive /\ ~child'.alive
        supDied   == Running /\ sup'.pc \in {"off", "crashed"}
        copy      == CASE supDied   -> SupervisorGone(act.copy)
                       [] ~supDied /\ childDied -> ChildGone(act.copy)
                       [] OTHER     -> act.copy
    IN  /\ act' = [act EXCEPT !.copy = copy]
        /\ rpc' = IF childDied THEN [NoRpc EXCEPT !.ans = rpc.ans] ELSE rpc

(* The steps of module Supervisor; the host that starts is a build too. *)
Surroundings ==
    \/ (OperatorStart \/ Relaunch \/ Shutdown \/ Crash \/ SupervisorStep) /\ Aged /\ jrn' = jrn
    \/ (ChildUnbuilt \/ ChildDies \/ ChildSick \/ ChildWell) /\ Aged /\ jrn' = jrn
    \/ ChildUp /\ Aged /\ Sweep

HostStep == HostBuilds \/ HostReloads \/ HostRefuses

ActivatorStep ==
    \/ ActBuilding \/ ActDecide \/ ActEffect \/ ActSend \/ ActAwait \/ ActRecord
    \/ ActMark \/ ActDrain \/ ActDrained \/ ActResume \/ ActFailClosed \/ ActRevoke
    \/ ActStop \/ ActStopped \/ ActForced \/ ActStage \/ ActLaunch \/ ActWait \/ ActFailed
    \/ ActUndo \/ ActUndoStage \/ ActUndoLaunch \/ ActUndoCheck \/ ActUndoFailed
    \/ ActReceipt \/ ActOperation

ActNext ==
    \/ \E n \in Attempts, g \in Gens, d \in Deltas, m \in Modes : ActBegin(n, g, d, m)
    \/ ActivatorStep
    \/ ActCrash
    \/ HostStep
    \/ OtherBuild
    \/ Surroundings

ActSpec == ActInit /\ [][ActNext]_vars

(* Processes that run go on, and now and then something builds the         *)
(* application.                                                            *)
ActFairSpec ==
    /\ ActSpec
    /\ WF_vars(ActivatorStep)
    /\ WF_vars(OtherBuild)

-----------------------------------------------------------------------------
(* Properties.                                                             *)

(* The operation and the receipt of an attempt never contradict each       *)
(* other, whoever closes them and whenever the activator dies.             *)
OperationAgrees ==
    \A n \in Attempts :
        /\ jrn[n].op = "SUCCEEDED" => jrn[n].class \in TerminalClass \ {"RELOAD_FAILED"}
        /\ jrn[n].op = "FAILED" => jrn[n].class = "RELOAD_FAILED"

(* An attempt is closed as active, or as rolled back, only while the       *)
(* active pointer names that generation: a reload answered or only         *)
(* observed, or a healthy record of a supervisor that committed first.     *)
(* For MaxAttempts = 1: when the journal is not reconciled, a later        *)
(* attempt may take for its own the health that a relaunched supervisor    *)
(* observed before the earlier reload, and records after it.               *)
SuccessIsReal ==
    [][\A n \in Attempts : jrn'[n].class # jrn[n].class =>
          /\ jrn'[n].class \in TargetActive => ptr.active = jrn[n].gen
          /\ jrn'[n].class = "ROLLED_BACK" => ptr.active = jrn[n].prev]_vars

(* Every attempt that was accepted is closed in the end. *)
AttemptsSettle ==
    \A n \in Attempts :
        (jrn[n].class = "ACCEPTED") ~> (jrn[n].class \in TerminalClass /\ jrn[n].op \in TerminalOp)

-----------------------------------------------------------------------------
(* What the code or a document says, and the program does not keep.        *)

(* Said of the reconciler: it closes interrupted attempts.  So an attempt  *)
(* whose activator is at work is closed by nobody else.                    *)
LiveAttemptKept ==
    [][\A n \in Attempts : (act.n = n /\ act' = act) => jrn'[n].class = jrn[n].class]_vars

(* Said of the record read at startup: it decides whether a pending        *)
(* attempt landed.  So an attempt that nobody works on any more is not     *)
(* closed as failed while the runtime record shows its generation active.  *)
Landed(n) == /\ Observed(rec).phase \in {"HEALTHY", "DEGRADED"}
             /\ Observed(rec).active = jrn[n].gen

LandedIsFound ==
    [][\A n \in Attempts :
          (act.n # n /\ jrn[n].class # "RELOAD_FAILED" /\ jrn'[n].class = "RELOAD_FAILED")
             => ~Landed(n)]_vars

(* Said of an attempt that fails because the work in flight did not drain: *)
(* it was not started, and the active generation remains.  So the last     *)
(* attempt, once it has failed without moving the pointer, does not move   *)
(* it any more.                                                            *)
LastFailed == LET r == jrn[MaxAttempts]
              IN  /\ act.pc = "idle"
                  /\ r.class = "RELOAD_FAILED" /\ r.effect
                  /\ r.prev \notin {0, r.gen}
                  /\ ptr.active = r.prev

FailedStaysInactive == [](LastFailed => [](ptr.active # jrn[MaxAttempts].gen))

(* Said of operations in flight: they are drained, never interrupted.  So  *)
(* the watchdog does not kill a child that is well and is draining.        *)
DrainNotKilled ==
    [][(sup.pc = "judge" /\ child.alive /\ ~child'.alive) =>
          ~(child.well /\ child.serves = sup.gen /\ child.gate = "draining")]_vars

(* Said of a removed capability: it fails closed until the activation      *)
(* completes.  So after an attempt to restrict has failed, nobody serves   *)
(* the generation it should have replaced.  (For Deltas = {RESTRICTION}.)  *)
RestrictionNotUndone ==
    LastFailed => ~(child.serves = jrn[MaxAttempts].prev /\ child.gate = "open")
=============================================================================
