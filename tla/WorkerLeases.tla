---------------------------- MODULE WorkerLeases ----------------------------
(***************************************************************************)
(* Execution-worker processes and the registry that names them: the        *)
(* process lease (worker_registrar.py, worker_lifecycle.py), the binding   *)
(* beside it, the child's own claim (child_lease_claim.py), the            *)
(* reconciler every supervisor runs before it spawns                       *)
(* (execution_worker_reconciler.py), and the restarter that replaces one   *)
(* supervisor by another behind the admission fence                        *)
(* (adapters/activation/build.py, json_admission_epoch.py).                *)
(*                                                                         *)
(* A worker outlives the supervisor that started it, so what a later       *)
(* supervisor may do depends on what the registry still says.  A worker id *)
(* whose records are history stands for the next fresh id, a supervisor    *)
(* number nobody's record names for the next incarnation.                  *)
(***************************************************************************)
EXTENDS Naturals, FiniteSets

CONSTANTS Workers,       \* worker ids; one more than faults always suffices
          Supervisors,   \* supervisor incarnations
          MaxFaults      \* crashes, failing writes, deaths, survived kills

ASSUME WorkerAssumption == Workers \subseteq Nat \ {0}
ASSUME SupervisorAssumption == Supervisors \subseteq Nat \ {0}
ASSUME FaultAssumption == MaxFaults \in Nat

VARIABLES lease,    \* the process lease of each worker
          bind,     \* its execution-worker binding
          proc,     \* where its process is, and which supervisor started it
          sup,      \* the supervisor that holds runtime-single-instance
          rst,      \* the restarter, when a handoff is under way
          epoch,    \* the worker-admission epoch and its permit
          escaped,  \* workers a supervisor left alive that no record named then
          faults    \* faults left

registry == <<lease, bind>>
vars == <<lease, bind, proc, sup, rst, epoch, escaped, faults>>

LeaseStates == {"history", "registered", "ready", "unproven", "running",
                "terminating", "killed"}
ActiveLease == LeaseStates \ {"history"}
FenceLease == {"registered", "ready"}
ActiveBind == {"running", "refused_unproven", "survived_kill"}
BindStates == ActiveBind \cup {"none", "terminal"}
ProcStates == {"boot", "claim", "bind", "ack", "work", "dead"}
SupStates == {"down", "boot", "pass", "spawn", "popen", "pid", "ident", "bindput",
              "ready", "running", "up", "reap", "reaped", "abort", "abort_reap", "closed"}
RstStates == {"idle", "planned", "fenced", "stop", "reclaim", "launch", "await"}

\* An id without a process: not used yet, or its lease is TERMINATED.
NoLease == [st |-> "history", pid |-> FALSE, group |-> FALSE, token |-> FALSE, owner |-> 0]
NoBind == [st |-> "none", token |-> FALSE, owner |-> 0]
NoProc == [st |-> "dead", sup |-> 0]
NoSup == [id |-> 0, pc |-> "down", w |-> 0, todo |-> {}, blocked |-> FALSE, permit |-> FALSE]
NoRst == [pc |-> "idle", old |-> 0, todo |-> {}, blocked |-> FALSE, plan |-> {}]

Owners == Supervisors \cup {0}
Concerns == [w : Workers, token : BOOLEAN, group : BOOLEAN, owner : Owners, bound : BOOLEAN]

\* The types; a reconciliation works from at most one concern per worker.
TypeOK ==
    /\ lease \in [Workers -> [st : LeaseStates, pid : BOOLEAN, group : BOOLEAN,
                              token : BOOLEAN, owner : Owners]]
    /\ bind \in [Workers -> [st : BindStates, token : BOOLEAN, owner : Owners]]
    /\ proc \in [Workers -> [st : ProcStates, sup : Owners]]
    /\ sup.id \in Owners /\ sup.pc \in SupStates /\ sup.w \in Workers \cup {0}
    /\ sup.todo \subseteq Concerns /\ sup.blocked \in BOOLEAN /\ sup.permit \in BOOLEAN
    /\ rst.pc \in RstStates /\ rst.old \in Owners
    /\ rst.todo \subseteq Concerns /\ rst.blocked \in BOOLEAN
    /\ \A c, d \in sup.todo : c.w = d.w => c = d
    /\ \A c, d \in rst.todo : c.w = d.w => c = d
    /\ epoch \in [st : {"open", "closing"}, permit : {"none", "fresh", "used"}]
    /\ escaped \subseteq Workers
    /\ faults \in 0 .. MaxFaults

Init ==
    /\ lease = [w \in Workers |-> NoLease]
    /\ bind = [w \in Workers |-> NoBind]
    /\ proc = [w \in Workers |-> NoProc]
    /\ sup = NoSup /\ rst = NoRst
    /\ epoch = [st |-> "open", permit |-> "none"]
    /\ escaped = {}
    /\ faults = MaxFaults

Fault == faults > 0 /\ faults' = faults - 1

-----------------------------------------------------------------------------
(* What the registry says of a worker, and what can be proved from it.     *)

Alive(w) == proc[w].st # "dead"
SupAlive(s) == sup.pc # "down" /\ sup.id = s

\* Somebody who reads the registry learns that this process exists.
Named(w) == \/ bind[w].st \in ActiveBind
            \/ lease[w].st \in ActiveLease /\ lease[w].pid

\* The record a pass works from: the binding, or the lease alone.
Concern(w) ==
    IF bind[w].st \in ActiveBind
    THEN [w |-> w, token |-> bind[w].token, group |-> TRUE, owner |-> bind[w].owner,
          bound |-> TRUE]
    ELSE [w |-> w, token |-> lease[w].token, group |-> lease[w].group,
          owner |-> lease[w].owner, bound |-> FALSE]

\* Mutant: a lease whose binding was lost is never looked at.
ListedBound == {Concern(w) : w \in {v \in Workers : bind[v].st \in ActiveBind}}

\* What a pass lists: active bindings, and leases with a pid and no binding.
Listed == {Concern(w) : w \in {v \in Workers : Named(v)}}

\* collect_terminal: bindings already terminal leave the active store.
Collected == [w \in Workers |-> IF bind[w].st = "terminal" THEN NoBind ELSE bind[w]]

\* Only a binding carries the release, so only a binding can be departing.
StillOwned(c, departing) == c.owner # 0 /\ SupAlive(c.owner) /\ ~(departing /\ c.bound)
Proven(c) == c.token /\ Alive(c.w)
ProvablyGone(c) == ~Alive(c.w) /\ c.group

Terminal == {"reclaimed", "already_gone"}

\* The reaper's answer.  Surviving SIGKILL is a fault.
Outcome(c, outcome) ==
    \/ Proven(c) /\ outcome = "reclaimed" /\ UNCHANGED faults
    \/ Proven(c) /\ outcome = "survived_kill" /\ Fault
    \/ ~Proven(c) /\ UNCHANGED faults
       /\ outcome = IF ProvablyGone(c) THEN "already_gone" ELSE "refused_unproven"

\* WorkerLifecycleStore.apply_outcome: the lease first, then the binding.
LeaseAfter(l, outcome) ==
    CASE outcome \in Terminal /\ l.st \in ActiveLease -> NoLease
      [] outcome = "survived_kill" /\ l.st \in {"running", "terminating"} ->
             [l EXCEPT !.st = "killed"]
      [] outcome = "refused_unproven" /\ l.st \in {"ready", "running"} ->
             [l EXCEPT !.st = "unproven"]
      [] OTHER -> l

\* Mutant: the outcome becomes the binding's state and nothing is archived.
BindKept(b, outcome) == IF b.st = "none" THEN b ELSE [b EXCEPT !.st = outcome]

BindAfter(b, outcome) ==
    CASE b.st = "none" -> b
      [] b.st # "none" /\ outcome \in Terminal -> NoBind
      [] OTHER -> [b EXCEPT !.st = outcome]

\* The two scans: leases without the evidence, and pairs that cannot
\* describe one worker.
Incomplete == {w \in Workers : \/ lease[w].st \in FenceLease
                               \/ /\ lease[w].st = "running" /\ bind[w].st = "running"
                                  /\ ~(lease[w].pid /\ lease[w].token)}

Pairs(b) == CASE b = "running" -> {"running", "terminating"}
              [] b = "refused_unproven" -> {"unproven"}
              [] b = "survived_kill" -> {"killed"}
              [] OTHER -> {}

Divergent == {w \in Workers \ Incomplete :
                IF lease[w].st \in ActiveLease THEN lease[w].st \notin Pairs(bind[w].st)
                ELSE bind[w].st \in ActiveBind}

\* The lease set the registry digest is computed over.
Digest == {<<w, lease[w]>> : w \in {v \in Workers : lease[v].st \in ActiveLease}}

\* One worker of a pass: proof, reap and both writes.
Reconciled(c, outcome) ==
    /\ Outcome(c, outcome)
    /\ proc' = [proc EXCEPT ![c.w] = IF outcome = "reclaimed" THEN NoProc ELSE @]
    /\ lease' = [lease EXCEPT ![c.w] = LeaseAfter(@, outcome)]
    /\ bind' = [bind EXCEPT ![c.w] = BindAfter(@, outcome)]

\* The process that reconciles dies between two of the writes: RUNNING has
\* become TERMINATING, or the lease is written and its binding is not, or the
\* binding is terminal but still listed.
ReconciledTorn(c) ==
    \/ /\ Proven(c) /\ lease[c.w].st = "running"
       /\ proc' = [proc EXCEPT ![c.w] = NoProc]
       /\ lease' = [lease EXCEPT ![c.w].st = "terminating"] /\ bind' = bind
    \/ /\ Proven(c) \/ ProvablyGone(c)
       /\ proc' = [proc EXCEPT ![c.w] = NoProc]
       /\ lease' = [lease EXCEPT ![c.w] = LeaseAfter(@, "reclaimed")]
       /\ bind[c.w].st # "none"
       /\ \/ bind' = bind
          \/ bind' = [bind EXCEPT ![c.w] = [NoBind EXCEPT !.st = "terminal"]]

-----------------------------------------------------------------------------
(* The supervisor: reconcile, then spawn one registered worker.            *)

LockHeld == rst.pc \in {"fenced", "stop", "reclaim"}

\* A number no record, process or restarter still knows; the life of the
\* model ends (bound) when Supervisors has none left.
KnownSups == {lease[w].owner : w \in Workers} \cup {bind[w].owner : w \in Workers}
             \cup {proc[w].sup : w \in Workers} \cup {c.owner : c \in rst.todo}
             \cup {rst.old, sup.id}
FreshSup == CHOOSE s \in Supervisors : s \notin KnownSups

\* The runtime process starts and takes runtime-single-instance.
Boots(permit) ==
    /\ sup.pc = "down" /\ \E s \in Supervisors : s \notin KnownSups
    /\ sup' = [NoSup EXCEPT !.id = FreshSup, !.pc = "boot", !.permit = permit]

\* The supervisor's process ends; what it leaves alive is on its own.
Left(unnamed) ==
    /\ sup' = NoSup
    /\ escaped' = escaped \cup unnamed

Unnamed == {w \in Workers : Alive(w) /\ ~Named(w)}

Goes(pc) == sup' = [sup EXCEPT !.pc = pc]

\* launchd or an operator starts the runtime; once the replacement has been
\* launched its job definition carries the permit.
Relaunch ==
    /\ \E p \in BOOLEAN :
          /\ p => epoch.permit = "fresh" /\ rst.pc # "launch"
          /\ Boots(p)
    /\ UNCHANGED <<registry, proc, rst, epoch, escaped, faults>>

BeginPass ==
    /\ sup.pc = "boot"
    /\ bind' = Collected
    /\ sup' = [sup EXCEPT !.pc = "pass", !.todo = Listed]
    /\ UNCHANGED <<lease, proc, rst, epoch, escaped, faults>>

PassOne(c) ==
    /\ sup.pc = "pass" /\ c \in sup.todo
    /\ \/ /\ StillOwned(c, FALSE)
          /\ sup' = [sup EXCEPT !.todo = @ \ {c}]
          /\ UNCHANGED <<registry, proc, faults>>
       \/ /\ ~StillOwned(c, FALSE)
          /\ \E outcome \in Terminal \cup {"survived_kill", "refused_unproven"} :
                /\ Reconciled(c, outcome)
                /\ sup' = [sup EXCEPT !.todo = @ \ {c},
                                      !.blocked = @ \/ outcome \notin Terminal]
    /\ UNCHANGED <<rst, epoch, escaped>>

\* Mutant: the report of the pass is not looked at.
EndPassRegardless ==
    /\ sup.pc = "pass" /\ sup.todo = {}
    /\ sup' = [sup EXCEPT !.pc = "spawn", !.blocked = FALSE]
    /\ UNCHANGED <<registry, proc, rst, epoch, escaped, faults>>

\* The boot gate looks at unproven and surviving workers only.
EndPass ==
    /\ sup.pc = "pass" /\ sup.todo = {}
    /\ sup' = [sup EXCEPT !.pc = IF sup.blocked THEN "closed" ELSE "spawn", !.blocked = FALSE]
    /\ UNCHANGED <<registry, proc, rst, epoch, escaped, faults>>

\* Mutant: the token is not compared with the permit.
AdmittedAnyone == epoch.st = "open" \/ epoch.permit = "fresh"

Admitted == epoch.st = "open" \/ (sup.permit /\ epoch.permit = "fresh")
Spawning == sup.pc = "spawn" \/ (sup.pc = "up" /\ sup.w = 0)
Free(w) == lease[w].st \notin ActiveLease /\ bind[w].st = "none" /\ ~Alive(w)

\* create_intent, before any process exists.
Intent(w) ==
    /\ Spawning /\ ~LockHeld /\ Admitted
    /\ Free(w) /\ \A v \in Workers : Free(v) => w <= v
    /\ lease' = [lease EXCEPT ![w] = [NoLease EXCEPT !.st = "registered"]]
    /\ epoch' = [epoch EXCEPT !.permit = IF epoch.st = "open" THEN @ ELSE "used"]
    /\ sup' = [sup EXCEPT !.pc = "popen", !.w = w, !.permit = FALSE]
    /\ escaped' = escaped \ {w}
    /\ UNCHANGED <<bind, proc, rst, faults>>

\* Refused or timed out at boot: FAILED, the process exits.  The watchdog of
\* a supervisor that is up swallows it and tries again.
IntentRefused ==
    /\ sup.pc = "spawn" /\ (LockHeld \/ ~Admitted)
    /\ Left({})
    /\ UNCHANGED <<registry, proc, rst, epoch, faults>>

Popen ==
    /\ sup.pc = "popen"
    /\ \/ /\ proc' = [proc EXCEPT ![sup.w] = [st |-> "boot", sup |-> sup.id]]
          /\ Goes("pid") /\ UNCHANGED faults
       \/ /\ Fault /\ Goes("reaped") /\ UNCHANGED proc
    /\ UNCHANGED <<registry, rst, epoch, escaped>>

\* The call in start() passes neither group nor start token.
RecordPid ==
    /\ sup.pc = "pid"
    /\ \/ /\ lease' = [lease EXCEPT ![sup.w].pid = TRUE, ![sup.w].owner = sup.id]
          /\ Goes("ident") /\ UNCHANGED faults
       \/ /\ Fault /\ Goes("reap") /\ UNCHANGED lease
    /\ UNCHANGED <<bind, proc, rst, epoch, escaped>>

EstablishIdentity ==
    /\ sup.pc = "ident"
    /\ \/ Alive(sup.w) /\ Goes("bindput") /\ UNCHANGED faults
       \/ ~Alive(sup.w) /\ Goes("abort") /\ UNCHANGED faults
       \/ Alive(sup.w) /\ Fault /\ Goes("abort")
    /\ UNCHANGED <<registry, proc, rst, epoch, escaped>>

RegisterBinding ==
    /\ sup.pc = "bindput"
    /\ \/ /\ bind' = [bind EXCEPT ![sup.w] =
                 [st |-> IF Alive(sup.w) THEN "running" ELSE "refused_unproven",
                  token |-> Alive(sup.w), owner |-> sup.id]]
          /\ Goes("ready") /\ UNCHANGED faults
       \/ /\ Fault /\ Goes("abort") /\ UNCHANGED bind
    /\ UNCHANGED <<lease, proc, rst, epoch, escaped>>

\* complete_registration saves READY, then RUNNING.
MarkReady ==
    /\ sup.pc = "ready"
    /\ \/ /\ lease' = [lease EXCEPT ![sup.w].st = "ready", ![sup.w].token = Alive(sup.w)]
          /\ Goes("running") /\ UNCHANGED faults
       \/ /\ Fault /\ Goes("reap") /\ UNCHANGED lease
    /\ UNCHANGED <<bind, proc, rst, epoch, escaped>>

MarkRunning ==
    /\ sup.pc = "running"
    /\ \/ /\ lease' = [lease EXCEPT ![sup.w].st = "running"]
          /\ Goes("up") /\ UNCHANGED faults
       \/ /\ Fault /\ Goes("reap") /\ UNCHANGED lease
    /\ UNCHANGED <<bind, proc, rst, epoch, escaped>>

\* start()'s handler: reap, then abort; a worker not proven dead ends it.
ReapUnregistered ==
    /\ sup.pc = "reap"
    /\ \/ /\ proc' = [proc EXCEPT ![sup.w] = NoProc]
          /\ Goes("reaped") /\ UNCHANGED faults
       \/ /\ Alive(sup.w) /\ Fault /\ Goes("closed") /\ UNCHANGED proc
    /\ UNCHANGED <<registry, rst, epoch, escaped>>

\* The revision start() holds is stale once READY was saved.
AbortIntent ==
    /\ sup.pc = "reaped"
    /\ lease' = [lease EXCEPT ![sup.w] = IF @.st = "registered"
                                         THEN NoLease ELSE @]
    /\ Goes("closed")
    /\ UNCHANGED <<bind, proc, rst, epoch, escaped, faults>>

\* _fail_registration: abort, then reap.
FailRegistration ==
    \/ /\ sup.pc = "abort"
       /\ lease' = [lease EXCEPT ![sup.w] = NoLease]
       /\ Goes("abort_reap")
       /\ UNCHANGED <<bind, proc, rst, epoch, escaped, faults>>
    \/ /\ sup.pc = "abort_reap" /\ Goes("closed")
       /\ \/ proc' = [proc EXCEPT ![sup.w] = NoProc] /\ UNCHANGED faults
          \/ Alive(sup.w) /\ Fault /\ UNCHANGED proc
       /\ UNCHANGED <<registry, rst, epoch, escaped>>

HasWorker == sup.w # 0 /\ Alive(sup.w)

\* The watchdog finds the worker gone: it starts another, and the dead
\* worker's records stay as they are.
WorkerMissed ==
    /\ sup.pc = "up" /\ sup.w # 0 /\ ~Alive(sup.w)
    /\ sup' = [sup EXCEPT !.w = 0]
    /\ UNCHANGED <<registry, proc, rst, epoch, escaped, faults>>

\* terminate(): the token is read from the process, the records by outcome.
Own(w) == [w |-> w, token |-> TRUE, group |-> TRUE, owner |-> sup.id, bound |-> TRUE]

\* An unhealthy worker, or one of another generation, is replaced.
Recycle ==
    /\ sup.pc = "up" /\ HasWorker
    /\ \/ Reconciled(Own(sup.w), "reclaimed") /\ sup' = [sup EXCEPT !.w = 0]
       \/ Reconciled(Own(sup.w), "survived_kill") /\ Goes("closed")
    /\ UNCHANGED <<rst, epoch, escaped>>

\* A SHUTDOWN is answered while the supervisor is up or closed.
Shutdown ==
    /\ \/ /\ sup.pc = "up" /\ HasWorker
          /\ \/ Reconciled(Own(sup.w), "reclaimed")
             \/ Reconciled(Own(sup.w), "survived_kill")
       \/ /\ sup.pc = "closed" \/ (sup.pc = "up" /\ ~HasWorker)
          /\ UNCHANGED <<registry, proc, faults>>
    /\ Left(Unnamed)
    /\ UNCHANGED <<rst, epoch>>

SupCrash ==
    /\ sup.pc # "down" /\ Fault
    /\ \/ UNCHANGED <<registry, proc>>
       \/ sup.pc = "pass" /\ \E c \in sup.todo : ~StillOwned(c, FALSE) /\ ReconciledTorn(c)
       \/ sup.pc = "up" /\ HasWorker /\ ReconciledTorn(Own(sup.w))
    /\ Left(Unnamed)
    /\ UNCHANGED <<rst, epoch>>

-----------------------------------------------------------------------------
(* The worker's own side of the handshake.                                 *)

Steps(w, st) == proc' = [proc EXCEPT ![w].st = st]
Exits(w) == proc' = [proc EXCEPT ![w] = NoProc]

\* claim_child_lease: while its parent lives, the parent owns the records.
ChildStart(w) ==
    /\ proc[w].st = "boot"
    /\ Steps(w, IF SupAlive(proc[w].sup) THEN "work" ELSE "claim")
    /\ UNCHANGED <<registry, sup, rst, epoch, escaped, faults>>

ChildClaim(w) ==
    /\ proc[w].st = "claim"
    /\ CASE lease[w].st = "registered" ->
              /\ lease' = [lease EXCEPT ![w] = [st |-> "ready", pid |-> TRUE, group |-> TRUE,
                                                token |-> TRUE, owner |-> proc[w].sup]]
              /\ Steps(w, "bind")
         [] lease[w].st = "ready" -> Steps(w, "bind") /\ UNCHANGED lease
         [] lease[w].st = "running" -> Steps(w, "work") /\ UNCHANGED lease
         [] OTHER -> Exits(w) /\ UNCHANGED lease
    /\ UNCHANGED <<bind, sup, rst, epoch, escaped, faults>>

ChildBind(w) ==
    /\ proc[w].st = "bind"
    /\ bind' = [bind EXCEPT ![w] = [st |-> "running", token |-> TRUE, owner |-> proc[w].sup]]
    /\ Steps(w, "ack")
    /\ UNCHANGED <<lease, sup, rst, epoch, escaped, faults>>

\* complete_claim: a lease somebody else moved on makes the worker exit.
ChildAck(w) ==
    /\ proc[w].st = "ack"
    /\ \/ /\ lease[w].st = "ready"
          /\ lease' = [lease EXCEPT ![w].st = "running"] /\ Steps(w, "work")
       \/ lease[w].st # "ready" /\ Exits(w) /\ UNCHANGED lease
    /\ UNCHANGED <<bind, sup, rst, epoch, escaped, faults>>

WorkerDies(w) ==
    /\ Alive(w) /\ Fault
    /\ Exits(w)
    /\ UNCHANGED <<registry, sup, rst, epoch, escaped>>

Child(w) == ChildStart(w) \/ ChildClaim(w) \/ ChildBind(w) \/ ChildAck(w)

-----------------------------------------------------------------------------
(* The restarter: plan, fence, stop, reclaim, launch, reopen.              *)

\* reconcile(read_only=True) and _reclaim_gate.
GateRefuses ==
    \/ Incomplete # {} \/ Divergent # {}
    \/ \E c \in Listed :
          /\ c.bound /\ ~StillOwned(c, TRUE)
          /\ \/ Proven(c) /\ bind[c.w].st = "survived_kill"
             \/ ~Proven(c) /\ ~ProvablyGone(c)

Phase(pc) == rst' = [rst EXCEPT !.pc = pc]

\* Mutant: the restart returns and the epoch stays closed.
ReturnedClosed ==
    /\ epoch' = epoch
    /\ rst' = NoRst

\* open_next, and the restart returns.
Reopened ==
    /\ epoch' = [st |-> "open", permit |-> "none"]
    /\ rst' = NoRst

\* The plan remembers the incumbent and the registry it was read from.
Plan ==
    /\ rst.pc = "idle" /\ ~GateRefuses
    /\ rst' = [NoRst EXCEPT !.pc = "planned", !.old = sup.id, !.plan = Digest]
    /\ UNCHANGED <<registry, proc, sup, epoch, escaped, faults>>

Fence ==
    /\ rst.pc = "planned" /\ Phase("fenced")
    /\ epoch' = [st |-> "closing", permit |-> "none"]
    /\ sup' = [sup EXCEPT !.permit = FALSE]
    /\ UNCHANGED <<registry, proc, escaped, faults>>

\* The registry is read again under the lock before anything is stopped.
Verify ==
    /\ rst.pc = "fenced"
    /\ IF GateRefuses \/ Digest # rst.plan
       THEN Reopened
       ELSE rst' = [rst EXCEPT !.pc = "stop", !.plan = {}] /\ UNCHANGED epoch
    /\ UNCHANGED <<registry, proc, sup, escaped, faults>>

\* The SHUTDOWN it sends is the supervisor's own action; if nothing comes of
\* it the incumbent is killed, and if that fails the handoff is given up.
StopIncumbent ==
    /\ rst.pc = "stop" /\ SupAlive(rst.old)
    /\ \/ Left(Unnamed) /\ UNCHANGED <<rst, epoch, faults>>
       \/ Fault /\ Reopened /\ UNCHANGED <<sup, escaped>>
    /\ UNCHANGED <<registry, proc>>

\* reconcile(departing): leases without a binding are reclaimed before the
\* scan, so only the others count as incomplete or divergent here.
ListDeparting ==
    /\ rst.pc = "stop" /\ ~SupAlive(rst.old)
    /\ bind' = Collected
    /\ LET lone == {c.w : c \in {d \in Listed : ~d.bound}}
       IN  rst' = [rst EXCEPT !.pc = "reclaim", !.old = 0, !.todo = Listed,
                              !.blocked = (Incomplete \cup Divergent) \ lone # {}]
    /\ UNCHANGED <<lease, proc, sup, epoch, escaped, faults>>

ReclaimOne(c) ==
    /\ rst.pc = "reclaim" /\ c \in rst.todo
    /\ \/ /\ StillOwned(c, TRUE)
          /\ rst' = [rst EXCEPT !.todo = @ \ {c}, !.blocked = TRUE]
          /\ UNCHANGED <<registry, proc, faults>>
       \/ /\ ~StillOwned(c, TRUE)
          /\ \E outcome \in Terminal \cup {"survived_kill", "refused_unproven"} :
                /\ Reconciled(c, outcome)
                /\ rst' = [rst EXCEPT !.todo = @ \ {c},
                                      !.blocked = @ \/ outcome \notin Terminal]
    /\ UNCHANGED <<sup, epoch, escaped>>

\* The permit is issued under the lock, which is released before the launch.
EndReclaim ==
    /\ rst.pc = "reclaim" /\ rst.todo = {}
    /\ IF rst.blocked
       THEN Reopened
       ELSE Phase("launch") /\ epoch' = [epoch EXCEPT !.permit = "fresh"]
    /\ UNCHANGED <<registry, proc, sup, escaped, faults>>

\* Somebody else's supervisor may hold the runtime lock already.
Launch ==
    /\ rst.pc = "launch"
    /\ \/ Boots(TRUE) /\ Phase("await") /\ UNCHANGED <<epoch, faults>>
       \/ sup.pc # "down" /\ Phase("await") /\ UNCHANGED <<sup, epoch, faults>>
       \/ Fault /\ Reopened /\ UNCHANGED sup
    /\ UNCHANGED <<registry, proc, escaped>>

\* The live record appeared, or the wait for it timed out.
Reopen ==
    /\ rst.pc = "await" /\ Reopened
    /\ UNCHANGED <<registry, proc, sup, escaped, faults>>

\* Nothing reopens the epoch a dead restarter closed.
RestarterCrash ==
    /\ rst.pc # "idle" /\ Fault
    /\ \/ UNCHANGED <<registry, proc>>
       \/ rst.pc = "reclaim" /\ \E c \in rst.todo : ~StillOwned(c, TRUE) /\ ReconciledTorn(c)
    /\ rst' = NoRst
    /\ UNCHANGED <<sup, epoch, escaped>>

-----------------------------------------------------------------------------
Registering == Popen \/ RecordPid \/ EstablishIdentity \/ RegisterBinding \/ MarkReady
               \/ MarkRunning \/ ReapUnregistered \/ AbortIntent \/ FailRegistration

Supervise == BeginPass \/ (\E c \in sup.todo : PassOne(c)) \/ EndPass
             \/ (\E w \in Workers : Intent(w)) \/ IntentRefused \/ Registering \/ WorkerMissed

Restart == Fence \/ Verify \/ StopIncumbent \/ ListDeparting
           \/ (\E c \in rst.todo : ReclaimOne(c)) \/ EndReclaim
           \/ Launch \/ Reopen

Next ==
    \/ Relaunch \/ Supervise \/ Recycle \/ Shutdown \/ SupCrash
    \/ \E w \in Workers : Child(w) \/ WorkerDies(w)
    \/ Plan \/ Restart \/ RestarterCrash

Spec == Init /\ [][Next]_vars

(***************************************************************************)
(* Fairness: what has begun goes on, launchd relaunches a supervisor that  *)
(* is not there, and an operator shuts down one that failed closed, and    *)
(* one that is up when a handoff died and left admission closed, and then  *)
(* repeats the handoff.  Nothing makes a worker unhealthy, another         *)
(* supervisor stop or a fault happen.                                      *)
(***************************************************************************)
NeedsOperator ==
    sup.pc = "closed" \/ (sup.pc = "up" /\ epoch.st = "closing" /\ rst.pc = "idle")

FairSpec ==
    /\ Spec
    /\ WF_vars(Relaunch) /\ WF_vars(Supervise) /\ WF_vars(Restart)
    /\ \A w \in Workers : WF_vars(Child(w))
    /\ WF_vars(NeedsOperator /\ Shutdown)
    /\ WF_vars(epoch.st = "closing" /\ Plan)

-----------------------------------------------------------------------------
(***************************************************************************)
(* Two execution workers never run at once -- over crashes at every write  *)
(* of the registration, of the reconciliation and of the handoff, a worker *)
(* that claims late, a kill that is survived -- except for a worker whose  *)
(* supervisor went away before any record named its process.               *)
(***************************************************************************)
OneWorker ==
    \A v, w \in Workers : v # w /\ Alive(v) /\ Alive(w) => {v, w} \cap escaped # {}

(***************************************************************************)
(* When the restarter lets the replacement in, no worker the registry      *)
(* names is left alive: nobody registered one between the plan, the fence, *)
(* the stop and the permit, and nothing listed was passed over.  (A worker *)
(* that escaped may still claim its lease meanwhile.)                      *)
(***************************************************************************)
HandoffClean ==
    rst.pc = "launch" =>
        \A w \in Workers : Alive(w) /\ Named(w) => w \in escaped

\* A REGISTERED lease whose parent is gone and which its own worker will not
\* claim: without group and token no pass can prove anything about it.
Stuck(w) ==
    /\ lease[w].st = "registered" /\ bind[w].st = "none"
    /\ proc[w].st \in {"dead", "work"} /\ sup.w # w

Orphan(w) ==
    /\ lease[w].st \in ActiveLease
    /\ sup.w # w /\ ~SupAlive(lease[w].owner)

(***************************************************************************)
(* A worker whose supervisor is gone is proved dead or killed, and its     *)
(* lease becomes history, however the supervisors, the restarter and the   *)
(* worker itself crash on the way -- or it is one of the leases that        *)
(* nothing ever resolves.                                                  *)
(***************************************************************************)
OrphansSettle ==
    \A w \in Workers :
        Orphan(w) ~> \/ lease[w].st = "history" /\ ~Alive(w)
                     \/ Stuck(w) \/ w \in escaped

(***************************************************************************)
(* Admission a restarter closed is opened again, by it or after its crash  *)
(* by the next handoff -- unless a lease nothing resolves refuses every    *)
(* handoff.                                                                *)
(***************************************************************************)
AdmissionReopens ==
    epoch.st = "closing" ~> epoch.st = "open" \/ \E w \in Workers : Stuck(w)

=============================================================================
