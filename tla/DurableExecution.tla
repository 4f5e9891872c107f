-------------------------- MODULE DurableExecution --------------------------
(***************************************************************************)
(* The durable execution plane of RepoForge: control processes (the MCP    *)
(* server, the CLI) admit verification work and cancel it, an execution    *)
(* worker claims and runs it, and every process reconciles the durable     *)
(* records when it starts, the worker also periodically.  All processes    *)
(* share four JSON stores (operation records, work items, child bindings,  *)
(* results) and the workspace lock file; a store call is atomic, a         *)
(* sequence of them is not, and any process may crash between two.         *)
(*                                                                         *)
(* A read-modify-write that ends in a compare-and-set is one atomic step:  *)
(* when the set succeeds nothing was written since the read.  A lost       *)
(* compare-and-set of a worker is the set "raced"; one of a recovery pass  *)
(* skips the item, as a pass that never reached it would.                  *)
(***************************************************************************)
EXTENDS OperationRecords, FiniteSets

CONSTANTS
    Ops,         \* operation ids that admission may mint
    Controls,    \* control-plane processes
    Starting,    \* the control processes that start, and so run recovery
    Generation,  \* configuration generation each process serves
    Request,     \* the exact request each operation id is minted for
    MaxLive,     \* execution workers the supervisor lets live at once
    MaxSpawns,   \* bound: child processes created in all
    MaxFaults,   \* bound: faults of a live worker and control crashes
    ReapMayFail  \* TRUE: a child may survive containment

Procs == Workers \cup Controls

ASSUME ProcsAssumption ==
    /\ Workers \cap Controls = {} /\ Starting \subseteq Controls
    /\ None \notin Procs \cup Ops
    /\ Generation \in [Procs -> Nat \ {0}]

ASSUME BoundsAssumption ==
    /\ MaxLive \in Nat /\ MaxSpawns \in Nat /\ MaxFaults \in Nat
    /\ ReapMayFail \in BOOLEAN

VARIABLES
    task,     \* operation store
    work,     \* work queue
    binding,  \* worker binding store
    result,   \* operations whose result payload is stored
    lock,     \* pid left in each operation's workspace lock file
    aged,     \* operations older than the admission grace window
    child,    \* child process of each worker incarnation
    pids,     \* child processes created so far
    faults,   \* faults and control crashes so far
    wk,       \* execution-worker locals
    raced,    \* workers whose pending compare-and-set was overtaken
    rc,       \* locals of recovery, cancellation and admission
    spawned   \* history: the claims that created a child, per operation

vars == <<task, work, binding, result, lock, aged, child, pids, faults, wk,
          raced, rc, spawned>>

-----------------------------------------------------------------------------
(* Worker locals: pc, claimed operation and attempt, the binding this run  *)
(* put, whether the heartbeat thread reported an error, and the state the  *)
(* run is about to commit.                                                 *)
WorkerOff == [pc |-> "off", op |-> None, attempt |-> 0, bnd |-> NoBinding,
              err |-> FALSE, goal |-> "failed"]

Idle(w) == [WorkerOff EXCEPT !.pc = "idle"]

WorkerPcs == {"off", "boot", "handoff", "idle", "claimed", "ready", "locked",
              "spawn", "gated", "bind", "gate", "running", "returned",
              "except", "commit", "recommit", "unbind", "drop", "dead"}

Live(w) == wk[w].pc \notin {"off", "dead"}

(* The workspace lock is held from AcquireLock until the handler ends. *)
Locking == {"locked", "spawn", "gated", "bind", "gate", "running"}

(* bind_child holds state_lock, which the heartbeat thread needs too. *)
Beating == {"ready", "returned"} \cup (Locking \ {"bind"})

Committing == {"claimed", "commit", "recommit"}

(* A lock file may name a dead process; the lock itself is then free. *)
LockHeld(o) == lock[o] # None /\ Live(lock[o])

Unlocked(w) == [lock EXCEPT ![wk[w].op] = None]

(* Recovery locals: the pages listed at the start of a pass, what is left  *)
(* to visit, and the transition being applied to op.                       *)
RecOff == [pc |-> "off", startup |-> FALSE,
           work |-> [o \in Ops |-> NoItem], task |-> [o \in Ops |-> NoTask],
           todo |-> {}, miss |-> {}, op |-> None, goal |-> "failed",
           owner |-> None, bnd |-> NoBinding, back |-> "off"]

RecPcs == {"off", "list", "sweep", "settle", "drop", "requeue", "glist",
           "gsweep", "gdelete", "look", "record", "enqueue"}

NoChild == [st |-> "none", op |-> None, pid |-> 0]

Init ==
    /\ task = [o \in Ops |-> NoTask]
    /\ work = [o \in Ops |-> NoItem]
    /\ binding = [o \in Ops |-> NoBinding]
    /\ result = {}
    /\ lock = [o \in Ops |-> None]
    /\ aged = {}
    /\ child = [w \in Workers |-> NoChild]
    /\ pids = 0
    /\ faults = 0
    /\ wk = [w \in Workers |-> WorkerOff]
    /\ raced = {}
    /\ rc = [p \in Procs |-> RecOff]
    /\ spawned = [o \in Ops |-> {}]

-----------------------------------------------------------------------------
(* Store calls.                                                            *)

(* A write of o's record by process p overtakes every other worker that is *)
(* between its read of that record and its compare-and-set.                *)
WriteTask(p, o, t) ==
    /\ task' = [task EXCEPT ![o] = t]
    /\ raced' = (raced \cup {v \in Workers : wk[v].op = o
                                             /\ wk[v].pc \in Committing}) \ {p}

KeepTask(p) == UNCHANGED task /\ raced' = raced \ {p}

DeleteItem(o) == work' = [work EXCEPT ![o] = NoItem]

DeleteBindingIfUnchanged(o, b) ==
    binding' = IF binding[o] = b THEN [binding EXCEPT ![o] = NoBinding]
                                 ELSE binding

(* ProcessReaper.reap: the process group named by b is gone afterwards, or *)
(* it survives and is left alone.                                          *)
Alive(b) == {w \in Workers : child[w].st # "none" /\ child[w].pid = b.pid}

ReapSucceeds(b) ==
    child' = [w \in Workers |-> IF w \in Alive(b) THEN NoChild ELSE child[w]]

ReapFails(b) == ReapMayFail /\ Alive(b) # {} /\ UNCHANGED child

-----------------------------------------------------------------------------
(* Admission (control process c).                                          *)

(* _in_flight_match: unfinished operations queued for the same request. *)
InFlight(request) ==
    {x \in Ops : /\ work[x].state # "absent" /\ Request[x] = request
                 /\ task[x].state \in {"pending", "running"}}

(* admit: no identical request is in flight, so mint operation o. *)
AdmitCheck(c, o) ==
    /\ rc[c].pc = "off"
    /\ task[o].state = "absent"
    /\ \A d \in Controls : rc[d].op # o
    /\ InFlight(Request[o]) = {}
    /\ rc' = [rc EXCEPT ![c].pc = "record", ![c].op = o]
    /\ UNCHANGED <<task, work, binding, result, lock, aged, child, pids,
                   faults, wk, raced, spawned>>

AdmitRecord(c) ==
    /\ rc[c].pc = "record"
    /\ WriteTask(c, rc[c].op, NewTask)
    /\ rc' = [rc EXCEPT ![c].pc = "enqueue"]
    /\ UNCHANGED <<work, binding, result, lock, aged, child, pids, faults,
                   wk, spawned>>

AdmitEnqueue(c) ==
    /\ rc[c].pc = "enqueue"
    /\ work' = [work EXCEPT ![rc[c].op] = NewItem(Generation[c])]
    /\ rc' = [rc EXCEPT ![c] = RecOff]
    /\ UNCHANGED <<task, binding, result, lock, aged, child, pids, faults,
                   wk, raced, spawned>>

(* The work item could not be created: the operation is failed. *)
AdmitFails(c) ==
    /\ rc[c].pc = "enqueue"
    /\ LET o == rc[c].op IN
          IF TransitionWrites(task[o], "failed", None)
          THEN WriteTask(c, o, Terminalized(task[o], "failed"))
          ELSE KeepTask(c)
    /\ rc' = [rc EXCEPT ![c] = RecOff]
    /\ UNCHANGED <<work, binding, result, lock, aged, child, pids, faults,
                   wk, spawned>>

(* Time passes: a record without its item outlives the grace window. *)
GraceElapses(o) ==
    /\ o \notin aged
    /\ task[o].state = "pending" /\ work[o].state = "absent"
    /\ aged' = aged \cup {o}
    /\ UNCHANGED <<task, work, binding, result, lock, child, pids, faults,
                   wk, raced, rc, spawned>>

-----------------------------------------------------------------------------
(* Execution worker w: OperationWorkLoop.run_once.                         *)

(* The supervisor starts a worker only when fewer than MaxLive are alive.  *)
(* It first runs the startup recovery of build_application.                *)
StartWorker(w) ==
    /\ wk[w].pc = "off"
    /\ Cardinality({v \in Workers : Live(v)}) < MaxLive
    /\ wk' = [wk EXCEPT ![w].pc = "boot"]
    /\ rc' = [rc EXCEPT ![w] = [RecOff EXCEPT !.pc = "list", !.work = work,
                                   !.startup = TRUE]]
    /\ UNCHANGED <<task, work, binding, result, lock, aged, child, pids,
                   faults, raced, spawned>>

(* reconcile_before_admit: every binding is another process's, so its      *)
(* child is reaped and the binding released; a survivor makes w exit.      *)
Handoff(w) ==
    /\ wk[w].pc = "handoff"
    /\ LET bound == {o \in Ops : binding[o] # NoBinding}
           named == {v \in Workers : child[v].st # "none"
                        /\ \E o \in bound : child[v].pid = binding[o].pid}
       IN \/ /\ child' = [v \in Workers |-> IF v \in named THEN NoChild
                                                         ELSE child[v]]
             /\ binding' = [o \in Ops |-> NoBinding]
             /\ wk' = [wk EXCEPT ![w] = Idle(w)]
          \/ /\ ReapMayFail /\ named # {}
             /\ wk' = [wk EXCEPT ![w] = [WorkerOff EXCEPT !.pc = "dead"]]
             /\ UNCHANGED <<child, binding>>
    /\ UNCHANGED <<task, work, result, lock, aged, pids, faults, raced, rc,
                   spawned>>

(* claim_next: a queued item of the worker's own generation. *)
ClaimNext(w, o) ==
    /\ wk[w].pc = "idle" /\ rc[w].pc = "off"
    /\ work[o].state = "queued" /\ work[o].gen = Generation[w]
    /\ work' = [work EXCEPT ![o] = ClaimedItem(work[o], w)]
    /\ wk' = [wk EXCEPT ![w] = [Idle(w) EXCEPT !.pc = "claimed", !.op = o,
                                   !.attempt = work[o].attempt + 1]]
    /\ UNCHANGED <<task, binding, result, lock, aged, child, pids, faults,
                   raced, rc, spawned>>

(* operations.start with the deadline computed before the claim. *)
StartTask(w) ==
    /\ wk[w].pc = "claimed"
    /\ LET o == wk[w].op
           held == HoldsClaim(work[o], w, wk[w].attempt)
           deadline == IF held THEN work[o].lease ELSE "expired"
       IN /\ StartAccepted(task[o], w, wk[w].attempt)
          /\ WriteTask(w, o, Started(task[o], w, wk[w].attempt, deadline))
    /\ wk' = [wk EXCEPT ![w].pc = "ready"]
    /\ UNCHANGED <<work, binding, result, lock, aged, child, pids, faults,
                   rc, spawned>>

(* start raised: no record, so the item is discarded; anything else leaves *)
(* the item claimed and the loop goes on.                                  *)
StartRaises(w) ==
    /\ wk[w].pc = "claimed"
    /\ ~StartAccepted(task[wk[w].op], w, wk[w].attempt) \/ w \in raced
    /\ IF task[wk[w].op].state = "absent" THEN DeleteItem(wk[w].op)
                                          ELSE UNCHANGED work
    /\ KeepTask(w)
    /\ wk' = [wk EXCEPT ![w] = Idle(w)]
    /\ UNCHANGED <<binding, result, lock, aged, child, pids, faults, rc,
                   spawned>>

AcquireLock(w) ==
    /\ wk[w].pc = "ready"
    /\ ~LockHeld(wk[w].op)
    /\ lock' = [lock EXCEPT ![wk[w].op] = w]
    /\ wk' = [wk EXCEPT ![w].pc = "locked"]
    /\ UNCHANGED <<task, work, binding, result, aged, child, pids, faults,
                   raced, rc, spawned>>

(* cross_spawn_boundary, called by CommandExecutor before Popen. *)
CrossSpawnBoundary(w) ==
    /\ wk[w].pc = "locked"
    /\ LET o == wk[w].op IN
          IF HoldsClaim(work[o], w, wk[w].attempt)
          THEN /\ work' = [work EXCEPT ![o] = ItemStarted(work[o])]
               /\ wk' = [wk EXCEPT ![w].pc = "spawn"]
               /\ UNCHANGED lock
          ELSE /\ wk' = [wk EXCEPT ![w].pc = "except"]
               /\ lock' = Unlocked(w)
               /\ UNCHANGED work
    /\ UNCHANGED <<task, binding, result, aged, child, pids, faults, raced,
                   rc, spawned>>

(* Popen: the child exists but waits on the launch gate. *)
Spawn(w) ==
    /\ wk[w].pc = "spawn" /\ pids < MaxSpawns
    /\ pids' = pids + 1
    /\ child' = [child EXCEPT ![w] = [st |-> "gated", op |-> wk[w].op,
                                      pid |-> pids + 1]]
    /\ spawned' = [spawned EXCEPT ![wk[w].op] =
                      @ \cup {<<w, wk[w].attempt>>}]
    /\ wk' = [wk EXCEPT ![w].pc = "gated"]
    /\ UNCHANGED <<task, work, binding, result, lock, aged, faults, raced,
                   rc>>

(* bind_child, first half: the claim and the operation are still ours; a   *)
(* refusal kills the gated child.                                          *)
BindCheck(w) ==
    /\ wk[w].pc = "gated"
    /\ LET o == wk[w].op IN
          IF /\ HoldsClaim(work[o], w, wk[w].attempt)
             /\ RenewAccepted(task[o], w)
          THEN /\ wk' = [wk EXCEPT ![w].pc = "bind"]
               /\ UNCHANGED <<child, lock>>
          ELSE /\ wk' = [wk EXCEPT ![w].pc = "except"]
               /\ child' = [child EXCEPT ![w] = NoChild]
               /\ lock' = Unlocked(w)
    /\ UNCHANGED <<task, work, binding, result, aged, pids, faults, raced,
                   rc, spawned>>

(* bind_child, second half: the identity becomes durable. *)
BindPut(w) ==
    /\ wk[w].pc = "bind"
    /\ LET b == [owner |-> w, attempt |-> wk[w].attempt, pid |-> child[w].pid]
       IN /\ binding' = [binding EXCEPT ![wk[w].op] = b]
          /\ wk' = [wk EXCEPT ![w].pc = "gate", ![w].bnd = b]
    /\ UNCHANGED <<task, work, result, lock, aged, child, pids, faults,
                   raced, rc, spawned>>

(* The gate opens and the command runs, unless somebody reaped it. *)
OpenGate(w) ==
    /\ wk[w].pc = "gate"
    /\ child' = IF child[w].st = "gated"
                THEN [child EXCEPT ![w].st = "running"] ELSE child
    /\ wk' = [wk EXCEPT ![w].pc = "running"]
    /\ UNCHANGED <<task, work, binding, result, lock, aged, pids, faults,
                   raced, rc, spawned>>

(* The command ends by itself, by its timeout or by the cancellation       *)
(* token's SIGTERM.                                                        *)
ChildExits(w) ==
    /\ child[w].st = "running"
    /\ child' = [child EXCEPT ![w] = NoChild]
    /\ UNCHANGED <<task, work, binding, result, lock, aged, pids, faults,
                   wk, raced, rc, spawned>>

(* A profile or an argv sequence runs its next command. *)
NextCommand(w) ==
    /\ wk[w].pc = "running" /\ child[w].st = "none" /\ pids < MaxSpawns
    /\ wk' = [wk EXCEPT ![w].pc = "locked"]
    /\ UNCHANGED <<task, work, binding, result, lock, aged, child, pids,
                   faults, raced, rc, spawned>>

HandlerReturns(w) ==
    /\ wk[w].pc = "running" /\ child[w].st = "none"
    /\ wk' = [wk EXCEPT ![w].pc = "returned"]
    /\ lock' = Unlocked(w)
    /\ UNCHANGED <<task, work, binding, result, aged, child, pids, faults,
                   raced, rc, spawned>>

HandlerRaises(w) ==
    /\ wk[w].pc \in {"ready", "locked", "spawn", "running"}
    /\ child[w].st = "none"
    /\ wk' = [wk EXCEPT ![w].pc = "except"]
    /\ lock' = IF wk[w].pc = "ready" THEN lock ELSE Unlocked(w)
    /\ UNCHANGED <<task, work, binding, result, aged, child, pids, faults,
                   raced, rc, spawned>>

(* renew_claims of the heartbeat thread.  Once a cancellation is requested *)
(* it renews nothing and only signals the child.                           *)
Heartbeat(w) ==
    /\ wk[w].pc \in Beating /\ ~wk[w].err
    /\ ~task[wk[w].op].cancel
    /\ LET o == wk[w].op
           item == CanRenewItem(work[o], w)
           renew == item /\ RenewAccepted(task[o], w)
       IN /\ work' = IF item THEN [work EXCEPT ![o] = RenewedItem(work[o])]
                             ELSE work
          /\ IF renew THEN WriteTask(w, o, Renewed(task[o])) ELSE KeepTask(w)
          /\ wk' = [wk EXCEPT ![w].err = ~renew]
    /\ UNCHANGED <<binding, result, lock, aged, child, pids, faults, rc,
                   spawned>>

(* The handler returned: stop the heartbeat, then store the result, or     *)
(* drop it when a cancellation was requested.                              *)
StoreResult(w) ==
    /\ wk[w].pc = "returned" /\ ~wk[w].err
    /\ LET o == wk[w].op IN
          /\ result' = IF task[o].cancel THEN result \ {o} ELSE result \cup {o}
          /\ wk' = [wk EXCEPT ![w].pc = "commit",
                              ![w].goal = IF task[o].cancel THEN "cancelled"
                                                            ELSE "succeeded"]
    /\ UNCHANGED <<task, work, binding, lock, aged, child, pids, faults,
                   raced, rc, spawned>>

(* The except clause: no result survives, cancelled or failed follows. *)
HandleException(w) ==
    /\ wk[w].pc = "except" \/ (wk[w].pc = "returned" /\ wk[w].err)
    /\ result' = result \ {wk[w].op}
    /\ wk' = [wk EXCEPT ![w].pc = "recommit",
                        ![w].goal = IF task[wk[w].op].cancel THEN "cancelled"
                                                             ELSE "failed"]
    /\ UNCHANGED <<task, work, binding, lock, aged, child, pids, faults,
                   raced, rc, spawned>>

(* succeed, cancelled or fail with the worker's owner_id. *)
Commit(w) ==
    /\ wk[w].pc \in {"commit", "recommit"}
    /\ LET o == wk[w].op
           t == task[o]
       IN \/ /\ TransitionWrites(t, wk[w].goal, w)
             /\ WriteTask(w, o, Terminalized(t, wk[w].goal))
          \/ TransitionRepeats(t, wk[w].goal, w) /\ KeepTask(w)
    /\ wk' = [wk EXCEPT ![w].pc = "unbind"]
    /\ UNCHANGED <<work, binding, result, lock, aged, child, pids, faults,
                   rc, spawned>>

(* The transition raised: from the try block into the except clause, from  *)
(* there out of run_once through finally.                                  *)
CommitRaises(w) ==
    /\ wk[w].pc \in {"commit", "recommit"}
    /\ \/ w \in raced
       \/ /\ ~TransitionWrites(task[wk[w].op], wk[w].goal, w)
          /\ ~TransitionRepeats(task[wk[w].op], wk[w].goal, w)
    /\ KeepTask(w)
    /\ wk' = [wk EXCEPT ![w].pc = IF wk[w].pc = "commit" THEN "except"
                                                         ELSE "unbind"]
    /\ UNCHANGED <<work, binding, result, lock, aged, child, pids, faults,
                   rc, spawned>>

(* finally: release the exact binding, then delete the item. *)
ReleaseBinding(w) ==
    /\ wk[w].pc = "unbind"
    /\ IF wk[w].bnd = NoBinding THEN UNCHANGED binding
       ELSE DeleteBindingIfUnchanged(wk[w].op, wk[w].bnd)
    /\ wk' = [wk EXCEPT ![w].pc = "drop"]
    /\ UNCHANGED <<task, work, result, lock, aged, child, pids, faults,
                   raced, rc, spawned>>

DiscardItem(w) ==
    /\ wk[w].pc = "drop"
    /\ DeleteItem(wk[w].op)
    /\ wk' = [wk EXCEPT ![w] = Idle(w)]
    /\ UNCHANGED <<task, binding, result, lock, aged, child, pids, faults,
                   raced, rc, spawned>>

(* The worker dies or is killed.  A gated child reads end-of-file and      *)
(* exits; a running one has its own session and survives.  The lock is     *)
(* free but its file still names the dead pid.                             *)
WorkerCrash(w) ==
    /\ Live(w)
    /\ wk' = [wk EXCEPT ![w] = [WorkerOff EXCEPT !.pc = "dead"]]
    /\ rc' = [rc EXCEPT ![w] = RecOff]
    /\ raced' = raced \ {w}
    /\ child' = IF child[w].st = "gated" THEN [child EXCEPT ![w] = NoChild]
                                         ELSE child
    /\ UNCHANGED <<task, work, binding, result, lock, aged, pids, faults,
                   spawned>>

(* Ninety seconds pass without a renewal: always possible when no worker   *)
(* attends the claim or its heartbeat renews nothing, a fault when a       *)
(* worker that would renew it is suspended.                                *)
Attended(o) ==
    \E w \in Workers :
       /\ wk[w].op = o
       /\ wk[w].pc \in Beating => ~wk[w].err /\ ~task[o].cancel

LeaseExpires(o) ==
    /\ work[o].lease = "live" \/ task[o].lease = "live"
    /\ IF Attended(o) THEN faults < MaxFaults /\ faults' = faults + 1
                      ELSE UNCHANGED faults
    /\ work' = [work EXCEPT ![o].lease = IF @ = "live" THEN "expired" ELSE @]
    /\ task' = [task EXCEPT ![o].lease = IF @ = "live" THEN "expired" ELSE @]
    /\ UNCHANGED <<binding, result, lock, aged, child, pids, wk, raced, rc,
                   spawned>>

-----------------------------------------------------------------------------
(* Recovery: recover_operation_work by process p, on the two pages it      *)
(* lists first, then (at startup) recover_operations.                      *)

RestUnchanged == UNCHANGED <<result, aged, pids, faults, spawned>>

Goto(p, pc) == rc' = [rc EXCEPT ![p].pc = pc]

(* Back in the loop over the page, with nothing pending. *)
Resume(p) ==
    LET back == IF rc[p].pc = "requeue" THEN "sweep" ELSE rc[p].back IN
    rc' = [rc EXCEPT ![p] =
              [rc[p] EXCEPT !.pc = back, !.op = None, !.goal = "failed",
                            !.owner = None, !.bnd = NoBinding,
                            !.back = "off"]]

(* The rest of a visit goes on without the page entries of o, which no     *)
(* later step of the pass reads.                                           *)
Visited(p, o) == [rc[p] EXCEPT !.todo = @ \ {o}, !.work[o] = NoItem,
                               !.task[o] = NoTask]

Visit(p, o) == rc' = [rc EXCEPT ![p] = Visited(p, o)]

(* An exception that is no conflict ends the pass: a starting process      *)
(* exits, the loop of a running worker goes on.                            *)
Abort(p) ==
    /\ rc' = [rc EXCEPT ![p] = RecOff]
    /\ wk' = IF p \in Workers /\ wk[p].pc = "boot"
             THEN [wk EXCEPT ![p] = [WorkerOff EXCEPT !.pc = "dead"]] ELSE wk

(* A control process starts, or the worker's recovery interval elapses. *)
RecoveryBegins(p) ==
    /\ rc[p].pc = "off"
    /\ IF p \in Workers THEN wk[p].pc = "idle" ELSE p \in Starting
    /\ rc' = [rc EXCEPT ![p] = [RecOff EXCEPT !.pc = "list",
                                   !.work = work, !.startup = p \in Controls]]
    /\ UNCHANGED <<task, work, binding, lock, child, wk, raced>>
    /\ RestUnchanged

(* The work page was listed first; now the operation page. *)
ListTasks(p) ==
    /\ rc[p].pc = "list"
    /\ rc' = [rc EXCEPT ![p].pc = "sweep", ![p].task = task,
                 ![p].todo = {o \in Ops : rc[p].work[o].state # "absent"},
                 ![p].miss = {o \in aged : /\ task[o].state = "pending"
                                           /\ rc[p].work[o].state = "absent"}]
    /\ UNCHANGED <<task, work, binding, lock, child, wk, raced>>
    /\ RestUnchanged

(* Mutant: newer work counts as stale too. *)
OtherGeneration(p, i) == i.gen # Generation[p]

(* What the pass decides about an item, from its two pages alone. *)
StaleGeneration(p, i) == i.gen < Generation[p]

(* Mutant: expired claims are left alone. *)
DispositionWithoutExpiry(p, i, t) ==
    CASE t.state \in TerminalStates \cup {"absent"}   -> "discard"
      [] t.cancel                                     -> "cancelled"
      [] StaleGeneration(p, i) /\ t.state = "running" -> "orphaned"
      [] StaleGeneration(p, i)                        -> "failed"
      [] OTHER                                        -> "leave"

Disposition(p, i, t) ==
    CASE t.state \in TerminalStates \cup {"absent"}   -> "discard"
      [] t.cancel                                     -> "cancelled"
      [] StaleGeneration(p, i) /\ t.state = "running" -> "orphaned"
      [] StaleGeneration(p, i)                        -> "failed"
      [] i.state = "claimed" /\ i.lease = "expired"   ->
            IF i.started THEN "orphaned" ELSE "requeue"
      [] OTHER                                        -> "leave"

Decision(p, o) == Disposition(p, rc[p].work[o], rc[p].task[o])

NeedsContainment(p, o) ==
    /\ rc[p].work[o].started
    /\ Decision(p, o) \in {"cancelled", "orphaned"}

DiscardOrphanItem(p, o) ==
    /\ rc[p].pc = "sweep" /\ o \in rc[p].todo
    /\ Decision(p, o) = "discard"
    /\ DeleteItem(o)
    /\ Visit(p, o)
    /\ UNCHANGED <<task, binding, lock, child, wk, raced>>
    /\ RestUnchanged

LeaveItem(p, o) ==
    /\ rc[p].pc = "sweep" /\ o \in rc[p].todo
    /\ Decision(p, o) = "leave"
    /\ Visit(p, o)
    /\ UNCHANGED <<task, work, binding, lock, child, wk, raced>>
    /\ RestUnchanged

(* The transition to apply next; cancelled passes the page's owner. *)
Settling(p, o, goal, b) ==
    rc' = [rc EXCEPT ![p] =
              [Visited(p, o) EXCEPT
                 !.pc = "settle", !.op = o, !.goal = goal, !.bnd = b,
                 !.back = "sweep",
                 !.owner = IF goal = "cancelled" THEN rc[p].task[o].owner
                                                 ELSE None]]

SettleUnstarted(p, o) ==
    /\ rc[p].pc = "sweep" /\ o \in rc[p].todo
    /\ Decision(p, o) \in {"cancelled", "orphaned", "failed"}
    /\ ~NeedsContainment(p, o)
    /\ Settling(p, o, Decision(p, o), NoBinding)
    /\ UNCHANGED <<task, work, binding, lock, child, wk, raced>>
    /\ RestUnchanged

(* _contain_work_child: only a matching binding may be reaped. *)
Contain(p, o) ==
    /\ rc[p].pc = "sweep" /\ o \in rc[p].todo
    /\ NeedsContainment(p, o)
    /\ BindingMatches(rc[p].work[o], binding[o])
    /\ ReapSucceeds(binding[o])
    /\ Settling(p, o, Decision(p, o), binding[o])
    /\ UNCHANGED <<task, work, binding, lock, wk, raced>>
    /\ RestUnchanged

(* record_blocker: nothing is changed. *)
Blocked(p, o) ==
    /\ rc[p].pc = "sweep" /\ o \in rc[p].todo
    /\ NeedsContainment(p, o)
    /\ ~BindingMatches(rc[p].work[o], binding[o]) \/ ReapFails(binding[o])
    /\ Visit(p, o)
    /\ UNCHANGED <<task, work, binding, lock, child, wk, raced>>
    /\ RestUnchanged

(* requeue_unstarted_work, saved against the listed revision: a changed    *)
(* item is a conflict, a missing one an error that ends the pass.          *)
RequeueItem(p, o) ==
    /\ rc[p].pc = "sweep" /\ o \in rc[p].todo
    /\ Decision(p, o) = "requeue"
    /\ \/ /\ work[o] = rc[p].work[o] /\ CanRequeueItem(work[o])
          /\ work' = [work EXCEPT ![o] = RequeuedItem(work[o])]
          /\ IF rc[p].task[o].state = "running"
             THEN rc' = [rc EXCEPT ![p] = [Visited(p, o) EXCEPT
                                             !.op = o, !.pc = "requeue"]]
             ELSE Visit(p, o)
          /\ UNCHANGED wk
       \/ /\ work[o] # rc[p].work[o] /\ work[o].state # "absent"
          /\ Visit(p, o)
          /\ UNCHANGED <<work, wk>>
       \/ /\ work[o].state = "absent"
          /\ Abort(p)
          /\ UNCHANGED work
    /\ UNCHANGED <<task, binding, lock, child, raced>>
    /\ RestUnchanged

(* manager.requeue reads the record again and asks only that it is running. *)
RequeueTask(p) ==
    /\ rc[p].pc = "requeue"
    /\ LET t == task[rc[p].op] IN
          IF RequeueAccepted(t)
          THEN /\ WriteTask(p, rc[p].op, Requeued(t))
               /\ Resume(p)
               /\ UNCHANGED wk
          ELSE KeepTask(p) /\ Abort(p)
    /\ UNCHANGED <<work, binding, lock, child>>
    /\ RestUnchanged

(* manager.cancelled, orphan or fail on the current record. *)
Settle(p) ==
    /\ rc[p].pc = "settle"
    /\ LET o == rc[p].op
           t == task[o]
           goal == rc[p].goal
           owner == rc[p].owner
           Done == IF rc[p].back = "gsweep" THEN Resume(p)
                                            ELSE Goto(p, "drop")
       IN \/ /\ TransitionWrites(t, goal, owner)
             /\ WriteTask(p, o, Terminalized(t, goal))
             /\ Done /\ UNCHANGED wk
          \/ /\ TransitionRepeats(t, goal, owner)
             /\ KeepTask(p)
             /\ Done /\ UNCHANGED wk
          \/ /\ TransitionIsStale(t, goal, owner) /\ rc[p].back # "off"
             /\ KeepTask(p)
             /\ Resume(p) /\ UNCHANGED wk
          \/ /\ ~TransitionWrites(t, goal, owner)
             /\ ~TransitionRepeats(t, goal, owner)
             /\ ~TransitionIsStale(t, goal, owner) \/ rc[p].back = "off"
             /\ KeepTask(p) /\ Abort(p)
    /\ UNCHANGED <<work, binding, lock, child>>
    /\ RestUnchanged

(* The operation is terminal: delete the item, release the exact binding. *)
Drop(p) ==
    /\ rc[p].pc = "drop"
    /\ DeleteItem(rc[p].op)
    /\ IF rc[p].bnd = NoBinding THEN UNCHANGED binding
       ELSE DeleteBindingIfUnchanged(rc[p].op, rc[p].bnd)
    /\ IF rc[p].back = "off" THEN rc' = [rc EXCEPT ![p] = RecOff]
                             ELSE Resume(p)
    /\ UNCHANGED <<task, lock, child, wk, raced>>
    /\ RestUnchanged

(* Queued operations past the grace window that had no item are failed. *)
FailMissing(p, o) ==
    /\ rc[p].pc = "sweep" /\ rc[p].todo = {} /\ o \in rc[p].miss
    /\ IF TransitionWrites(task[o], "failed", None)
       THEN /\ WriteTask(p, o, Terminalized(task[o], "failed"))
            /\ rc' = [rc EXCEPT ![p].miss = @ \ {o}]
            /\ UNCHANGED wk
       ELSE KeepTask(p) /\ Abort(p)
    /\ UNCHANGED <<work, binding, lock, child>>
    /\ RestUnchanged

PassEnds(p) ==
    /\ rc[p].pc = "sweep" /\ rc[p].todo = {} /\ rc[p].miss = {}
    /\ rc' = [rc EXCEPT ![p] =
                 IF rc[p].startup THEN [RecOff EXCEPT !.pc = "glist"]
                                  ELSE RecOff]
    /\ UNCHANGED <<task, work, binding, lock, child, wk, raced>>
    /\ RestUnchanged

(* recover_operations: a fresh page, of which running records matter. *)
GenericList(p) ==
    /\ rc[p].pc = "glist"
    /\ rc' = [rc EXCEPT ![p].pc = "gsweep", ![p].task = task,
                 ![p].todo = {o \in Ops : task[o].state = "running"}]
    /\ UNCHANGED <<task, work, binding, lock, child, wk, raced>>
    /\ RestUnchanged

(* _background_operation_liveness takes the free lock to look at it, and   *)
(* its release truncates the file.  Only a dead pid in it proves a loss.   *)
OwnerLost(p, o) ==
    \/ rc[p].task[o].lease = "expired"
    \/ lock[o] # None /\ ~LockHeld(o)

Probed(p, o) ==
    lock' = IF rc[p].task[o].lease = "expired" \/ LockHeld(o) THEN lock
            ELSE [lock EXCEPT ![o] = None]

GenericLeave(p, o) ==
    /\ rc[p].pc = "gsweep" /\ o \in rc[p].todo
    /\ ~OwnerLost(p, o)
    /\ Probed(p, o)
    /\ Visit(p, o)
    /\ UNCHANGED <<task, work, binding, child, wk, raced>>
    /\ RestUnchanged

(* _reap_and_describe reaps whatever child is bound, best effort. *)
GenericReap(p, o) ==
    /\ rc[p].pc = "gsweep" /\ o \in rc[p].todo
    /\ OwnerLost(p, o)
    /\ Probed(p, o)
    /\ ReapSucceeds(binding[o]) \/ ReapFails(binding[o])
    /\ rc' = [rc EXCEPT ![p] =
                 [Visited(p, o) EXCEPT
                    !.op = o, !.goal = "orphaned", !.back = "gsweep",
                    !.owner = None, !.bnd = NoBinding,
                    !.pc = IF binding[o] = NoBinding THEN "settle"
                                                     ELSE "gdelete"]]
    /\ UNCHANGED <<task, work, binding, wk, raced>>
    /\ RestUnchanged

(* ... and deletes the binding that is stored by then. *)
GenericDelete(p) ==
    /\ rc[p].pc = "gdelete"
    /\ binding' = [binding EXCEPT ![rc[p].op] = NoBinding]
    /\ Goto(p, "settle")
    /\ UNCHANGED <<task, work, lock, child, wk, raced>>
    /\ RestUnchanged

(* _prune_bindings: bindings of missing or terminal operations go. *)
PruneBindings(p) ==
    /\ rc[p].pc = "gsweep" /\ rc[p].todo = {}
    /\ binding' = [o \in Ops |->
                      IF task[o].state \in TerminalStates \cup {"absent"}
                      THEN NoBinding ELSE binding[o]]
    /\ rc' = [rc EXCEPT ![p] = RecOff]
    /\ wk' = IF p \in Workers THEN [wk EXCEPT ![p].pc = "handoff"] ELSE wk
    /\ UNCHANGED <<task, work, lock, child, raced>>
    /\ RestUnchanged

-----------------------------------------------------------------------------
(* Cancellation (control process c): OperationCancellationRequester.       *)

CancelOperation(c, o) ==
    /\ rc[c].pc = "off"
    /\ task[o].state \in {"pending", "running"}
    /\ task[o].state = "running" => ~task[o].cancel
    /\ IF task[o].cancel THEN KeepTask(c)
       ELSE WriteTask(c, o, CancelRequested(task[o]))
    /\ rc' = [rc EXCEPT ![c] = [RecOff EXCEPT !.pc = "look", !.op = o,
                                   !.goal = "cancelled", !.task[o] = task[o]]]
    /\ UNCHANGED <<work, binding, lock, child, wk>>
    /\ RestUnchanged

(* A pending operation with an item is cancelled as unowned; a running one *)
(* only after its bound child was reaped.                                  *)
CancelLooks(c) ==
    /\ rc[c].pc = "look"
    /\ LET o == rc[c].op
           seen == rc[c].task[o]
           owner == IF seen.state = "pending" THEN None ELSE seen.owner
           settle(b) == rc' = [rc EXCEPT ![c] =
                                 [rc[c] EXCEPT !.pc = "settle", !.bnd = b,
                                               !.owner = owner]]
       IN \/ /\ seen.state = "pending" /\ work[o].state # "absent"
             /\ settle(NoBinding) /\ UNCHANGED child
          \/ /\ seen.state = "running" /\ binding[o] # NoBinding
             /\ ReapSucceeds(binding[o]) /\ settle(binding[o])
          \/ /\ \/ seen.state = "pending" /\ work[o].state = "absent"
                \/ seen.state = "running" /\ binding[o] = NoBinding
                \/ seen.state = "running" /\ ReapFails(binding[o])
             /\ rc' = [rc EXCEPT ![c] = RecOff] /\ UNCHANGED child
    /\ UNCHANGED <<task, work, binding, lock, wk, raced>>
    /\ RestUnchanged

(* A control process dies between two store calls. *)
ControlCrash(c) ==
    /\ rc[c].pc # "off" /\ faults < MaxFaults
    /\ faults' = faults + 1
    /\ rc' = [rc EXCEPT ![c] = RecOff]
    /\ UNCHANGED <<task, work, binding, result, lock, aged, child, pids, wk,
                   raced, spawned>>

-----------------------------------------------------------------------------
Admission(c) ==
    \/ \E o \in Ops : AdmitCheck(c, o)
    \/ AdmitRecord(c) \/ AdmitEnqueue(c) \/ AdmitFails(c)

Cancellation(c) ==
    \/ \E o \in Ops : CancelOperation(c, o)
    \/ CancelLooks(c)

RecoveryStep(p) ==
    \/ \E o \in Ops :
          \/ DiscardOrphanItem(p, o) \/ LeaveItem(p, o) \/ Blocked(p, o)
          \/ SettleUnstarted(p, o) \/ Contain(p, o) \/ RequeueItem(p, o)
          \/ FailMissing(p, o) \/ GenericLeave(p, o) \/ GenericReap(p, o)
    \/ ListTasks(p) \/ RequeueTask(p) \/ Settle(p) \/ Drop(p)
    \/ PassEnds(p) \/ GenericList(p) \/ GenericDelete(p)
    \/ PruneBindings(p)

WorkerStep(w) ==
    \/ Handoff(w) \/ StartTask(w) \/ StartRaises(w) \/ AcquireLock(w)
    \/ CrossSpawnBoundary(w) \/ Spawn(w) \/ BindCheck(w) \/ BindPut(w)
    \/ OpenGate(w) \/ NextCommand(w) \/ HandlerReturns(w)
    \/ HandlerRaises(w) \/ StoreResult(w) \/ HandleException(w)
    \/ Commit(w) \/ CommitRaises(w) \/ ReleaseBinding(w) \/ DiscardItem(w)
    \/ \E o \in Ops : ClaimNext(w, o)

Next ==
    \/ \E c \in Controls : Admission(c) \/ Cancellation(c) \/ ControlCrash(c)
    \/ \E w \in Workers : \/ StartWorker(w) \/ WorkerStep(w) \/ Heartbeat(w)
                           \/ ChildExits(w) \/ WorkerCrash(w)
    \/ \E p \in Procs : RecoveryBegins(p) \/ RecoveryStep(p)
    \/ \E o \in Ops : GraceElapses(o) \/ LeaseExpires(o)

Spec == Init /\ [][Next]_vars

(***************************************************************************)
(* Fairness.  Threads of a live process keep running; the supervisor       *)
(* starts a worker when none is alive; commands have timeouts while their  *)
(* worker lives; the worker loop alternates recovery passes and claims, so *)
(* neither is put off for ever (SF); unrenewed leases and grace windows    *)
(* run out.  Nothing is assumed of clients and of new control processes.   *)
(***************************************************************************)
ControlStep(c) ==
    AdmitRecord(c) \/ AdmitEnqueue(c) \/ CancelLooks(c) \/ RecoveryStep(c)

ExecutionStep(w) ==
    \/ StartWorker(w) \/ WorkerStep(w) \/ RecoveryStep(w)
    \/ Live(w) /\ ChildExits(w)

WorkerFairness ==
    /\ \A w \in Workers :
          /\ WF_vars(ExecutionStep(w))
          /\ SF_vars(\E o \in Ops : ClaimNext(w, o))
          /\ SF_vars(RecoveryBegins(w))
    /\ \A c \in Controls : WF_vars(ControlStep(c))
    /\ \A o \in Ops : WF_vars(GraceElapses(o)) /\ WF_vars(LeaseExpires(o))

FairSpec == Spec /\ WorkerFairness

-----------------------------------------------------------------------------
(* Properties.                                                             *)

WorkerRecord ==
    [pc : WorkerPcs, op : Ops \cup {None}, attempt : Nat,
     bnd : BindingRecord, err : BOOLEAN, goal : TerminalStates]

RecoveryRecord ==
    [pc : RecPcs, startup : BOOLEAN, work : [Ops -> ItemRecord],
     task : [Ops -> TaskRecord], todo : SUBSET Ops, miss : SUBSET Ops,
     op : Ops \cup {None}, goal : TerminalStates, owner : Owners,
     bnd : BindingRecord, back : {"off", "sweep", "gsweep"}]

ChildRecord ==
    [st : {"none", "gated", "running"}, op : Ops \cup {None}, pid : Nat]

(* Every durable record and every local of the processes has the shape the *)
(* stores' codecs accept.                                                  *)
TypeOK ==
    /\ task \in [Ops -> TaskRecord]
    /\ work \in [Ops -> ItemRecord]
    /\ binding \in [Ops -> BindingRecord]
    /\ result \in SUBSET Ops
    /\ lock \in [Ops -> Owners]
    /\ aged \in SUBSET Ops
    /\ child \in [Workers -> ChildRecord]
    /\ pids \in Nat /\ faults \in Nat
    /\ wk \in [Workers -> WorkerRecord]
    /\ raced \in SUBSET Workers
    /\ rc \in [Procs -> RecoveryRecord]
    /\ spawned \in [Ops -> SUBSET (Workers \X Nat)]

(* However claims expire, are requeued, race or crash, at most one claim   *)
(* of an operation ever creates child processes: the spawn boundary        *)
(* (cross_spawn_boundary, requeue_unstarted_work) makes execution          *)
(* at-most-once.                                                           *)
AtMostOneExecution ==
    \A o \in Ops : \A x, y \in spawned[o] : x = y

(* While a child exists and its item is still queued or claimed, the item  *)
(* is the started claim of that child's worker: no recovery pass has       *)
(* handed the work to anybody else.                                        *)
ChildHoldsItem ==
    \A w \in Workers :
       child[w].st # "none" /\ work[child[w].op].state # "absent"
          => /\ work[child[w].op].state = "claimed"
             /\ work[child[w].op].started
             /\ work[child[w].op].owner = w

-----------------------------------------------------------------------------
(* The inductive strengthening of the two properties above.                *)

Engaged == WorkerPcs \ {"off", "boot", "handoff", "idle", "dead"}

Applying == {"settle", "drop", "requeue", "gdelete", "look", "record",
             "enqueue"}

(* A process inside a multi-step operation knows which one it is about. *)
OpsKnown ==
    /\ \A w \in Workers : wk[w].pc \in Engaged => wk[w].op \in Ops
    /\ \A p \in Procs : rc[p].pc \in Applying => rc[p].op \in Ops

(* Between cross_spawn_boundary and Popen. *)
AtBoundary(w, o) == wk[w].pc = "spawn" /\ wk[w].op = o

Untouched(o) ==
    /\ work[o].state = "absent" /\ spawned[o] = {}
    /\ \A w \in Workers : ~AtBoundary(w, o)

Admitting(p, o) == rc[p].pc \in {"record", "enqueue"} /\ rc[p].op = o

(* An item is created once, before anything ran, by one admission. *)
ItemsCreatedOnce ==
    \A o \in Ops :
       /\ task[o].state = "absent" => Untouched(o)
       /\ \A p, q \in Procs :
             Admitting(p, o) => /\ p \in Controls /\ Untouched(o)
                                /\ Admitting(q, o) => p = q
                                /\ rc[p].pc = "enqueue"
                                      => task[o].state # "absent"

(* Whoever crossed the boundary holds the started claim as long as the     *)
(* item exists, and nobody else's child was ever created.                  *)
BoundaryExclusive ==
    \A o \in Ops : \A w \in Workers :
       AtBoundary(w, o) =>
          /\ spawned[o] \subseteq {<<w, wk[w].attempt>>}
          /\ \/ work[o].state = "absent"
             \/ HoldsClaim(work[o], w, wk[w].attempt) /\ work[o].started
          /\ \A v \in Workers : AtBoundary(v, o) => v = w

(* Once a child was created the item is that claim, started, or gone. *)
SpawnedHoldsItem ==
    \A o \in Ops :
       \A x \in spawned[o] :
          /\ spawned[o] = {x}
          /\ \/ work[o].state = "absent"
             \/ HoldsClaim(work[o], x[1], x[2]) /\ work[o].started

(* Every child process was created by its worker for its operation. *)
ChildSpawned ==
    \A w \in Workers :
       child[w].st # "none" =>
          /\ child[w].op \in Ops
          /\ \E x \in spawned[child[w].op] : x[1] = w

SpawnInv ==
    /\ TypeOK /\ OpsKnown /\ ItemsCreatedOnce /\ BoundaryExclusive
    /\ SpawnedHoldsItem /\ ChildSpawned

-----------------------------------------------------------------------------
(* Work that no worker has claimed yet is not lost.  Its item goes only    *)
(* with its terminal operation, which is what the order of the two         *)
(* admission writes and of the two pages of a recovery pass is for; and    *)
(* within its grace window the operation is ended by its client or by the  *)
(* recovery pass of a process of a newer generation, never by an older one *)
(* that merely cannot run it.                                              *)
FreshWorkKept ==
    [][\A o \in Ops : work[o].state = "queued" /\ work[o].attempt = 0 =>
          /\ work'[o].state = "absent" => task[o].state \in TerminalStates
          /\ \/ o \in aged \/ task[o].cancel \/ task[o].state \in TerminalStates
             \/ task'[o].state \notin TerminalStates
             \/ \E p \in Procs : Generation[p] > work[o].gen /\ rc'[p] # rc[p]]_vars

(* The record a client polls is an implementation of OperationLifecycle:   *)
(* whatever admission, workers, recovery passes, cancellations and crashes *)
(* do, each operation only ever takes the documented steps, succeeds only  *)
(* with a stored result and without a cancellation request, and is run by  *)
(* at most one claim.                                                      *)
Lifecycle(o) ==
    INSTANCE OperationLifecycle WITH
       state <- task[o].state, attempt <- task[o].attempt,
       cancel <- task[o].cancel, stored <- o \in result, runs <- spawned[o]

ImplementsLifecycle ==
    /\ \A o \in Ops : Lifecycle(o)!Absent
    /\ [][\A o \in Ops :
            [Lifecycle(o)!LifecycleNext]_(Lifecycle(o)!lifecycle)]_vars

(* A worker's claim returns to the queue only when no child was started:   *)
(* a running operation never becomes pending while its command runs.       *)
RequeuedOnlyUnstarted ==
    [][\A o \in Ops :
          task[o].state = "running" /\ task'[o].state = "pending"
          => \A w \in Workers : ~(child[w].st = "running"
                                  /\ child[w].op = o)]_vars

(* An operation is orphaned by recovery only after its child's process     *)
(* group has been proven gone.                                             *)
OrphanedOnlyContained ==
    \A w \in Workers :
       child[w].st = "running" => task[child[w].op].state # "orphaned"

(* An operation is cancelled only after its child's process group has been *)
(* signalled and reaped.                                                   *)
CancelledOnlyContained ==
    \A w \in Workers :
       child[w].st = "running" => task[child[w].op].state # "cancelled"

(* Identical work in flight is joined, not duplicated: two unfinished      *)
(* operations with work items never have the same request.                 *)
SingleFlight ==
    \A x, y \in Ops :
       /\ Request[x] = Request[y]
       /\ \A o \in {x, y} : task[o].state \in {"pending", "running"}
                            /\ work[o].state # "absent"
       => x = y

(* No worker incarnation is left to run anything: the bound on restarts. *)
WorkersExhausted == \A w \in Workers : wk[w].pc = "dead"

(* The evidence recovery asks for is missing: the spawn boundary was       *)
(* crossed but no child identity is stored, or the run ended without being *)
(* able to commit and its item is gone.                                    *)
NeedsOperator(o) ==
    /\ task[o].state = "running" /\ \A w \in Workers : wk[w].op # o
    /\ \/ work[o].state = "absent"
       \/ work[o].started /\ binding[o] = NoBinding

(* Every operation a client was told about eventually becomes terminal and *)
(* its work item leaves the queue, whichever workers died meanwhile, or it *)
(* is one that recovery deliberately leaves to the operator.               *)
OperationSettles ==
    \A o \in Ops :
       task[o].state # "absent"
          ~> \/ task[o].state \in TerminalStates /\ work[o].state = "absent"
             \/ NeedsOperator(o)
             \/ WorkersExhausted


(* A child that outlived the worker that spawned it stays known by its     *)
(* binding, through which a later process can reap it.                     *)
StrayChildNamed ==
    \A w \in Workers :
       child[w].st = "running" /\ ~Live(w)
          => binding[child[w].op].pid = child[w].pid
=============================================================================
