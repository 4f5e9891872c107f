------------------------------- MODULE HotReload -------------------------------
(***************************************************************************)
(* The service router, the operation gates and the hot-reload coordinator  *)
(* of the MCP host process (application/runtime/hot_reload.py,             *)
(* adapters/runtime/operation_gate.py, interfaces/runtime/host.py).        *)
(*                                                                         *)
(* Threads: requests pin the active service container and enter its gate   *)
(* for each operation; one reload at a time builds a candidate, drains the *)
(* old gate, commits the durable pointer and swaps; control commands drain,*)
(* resume or fail-close whatever container was active when they looked;    *)
(* shutdown closes the router.  A step is one critical section of the      *)
(* router's or of a gate's condition variable.                             *)
(***************************************************************************)
EXTENDS Integers, FiniteSets

CONSTANTS
  Requests,      \* request threads
  Handlers,      \* worker threads of the control server
  Generations,   \* accepted configuration generations
  First,         \* the generation the process starts with
  MaxBuilds,     \* bound: containers built in the life of the process
  Torn           \* may the commit fail after the active pointer is written

ASSUME HotReloadAssumption ==
  /\ IsFiniteSet(Requests)
  /\ Generations \subseteq Nat \ {0}
  /\ First \in Generations
  /\ MaxBuilds \in Nat \ {0}
  /\ Torn \in BOOLEAN

VARIABLES
  cont,      \* container -> its generation, gate and whether it was disposed
  built,     \* containers built so far
  active,    \* the router's active container
  count,     \* generation -> requests pinned to it, as the router counts
  retired,   \* generation -> its container while old requests use it, or None
  closed,    \* router: "open", "closing", "closed", "abandoned"
  request,   \* request thread -> where it is and the container it pinned
  reload,    \* the call that holds the coordinator's lock
  host,      \* control thread -> the command and container in its hands
  told,      \* the last hold a control client was promised
  pointer    \* the store's active and activation-target pointers

vars == <<cont, built, active, count, retired, closed, request, reload, host,
          told, pointer>>

Containers == 1 .. MaxBuilds
None == 0
NoGen == 0
GateStates == {"open", "draining", "fail_closed"}
Commands == {"drain", "resume", "fail_closed"}

NewContainer(g) == [gen |-> g, gate |-> "open", busy |-> 0, disposed |-> FALSE]
NoReload == [pc |-> "idle", gen |-> First, current |-> First, cand |-> None]
Idle == [pc |-> "idle", cmd |-> "resume", on |-> 1]

Init ==
  /\ cont = [c \in Containers |-> NewContainer(First)]
  /\ built = 1
  /\ active = 1
  /\ count = [g \in Generations |-> 0]
  /\ retired = [g \in Generations |-> None]
  /\ closed = "open"
  /\ request = [r \in Requests |-> [pc |-> "idle", on |-> 1]]
  /\ reload = NoReload
  /\ host = [h \in Handlers |-> Idle]
  /\ told = "open"
  /\ pointer = [active |-> First, target |-> NoGen]

-----------------------------------------------------------------------------
(* The gate: begin_drain, fail_closed and reopen overwrite the state        *)
(* whatever it was; dispose is the callback that fail-closes the gate.      *)

Gate(C, c, state) == [C EXCEPT ![c].gate = state]
Dispose(C, c) == [C EXCEPT ![c].gate = "fail_closed", ![c].disposed = TRUE]

-----------------------------------------------------------------------------
(* Requests *)

\* AtomicServiceRouter.acquire: pin the active container.
Acquire(r) ==
  /\ request[r].pc = "idle"
  /\ closed = "open"
  /\ request' = [request EXCEPT ![r] = [pc |-> "pinned", on |-> active]]
  /\ count' = [count EXCEPT ![cont[active].gen] = @ + 1]
  /\ UNCHANGED <<cont, built, active, retired, closed, reload, host, told, pointer>>

\* Entering the gate: refused (the request goes on without the operation)
\* unless the gate is open.
Enter(r) ==
  /\ request[r].pc = "pinned"
  /\ cont[request[r].on].gate = "open"
  /\ request' = [request EXCEPT ![r].pc = "running"]
  /\ cont' = [cont EXCEPT ![request[r].on].busy = @ + 1]
  /\ UNCHANGED <<built, active, count, retired, closed, reload, host, told, pointer>>

\* Mutant: leaving the gate decrements the counter twice (a nested finally).
LeaveTwice(r) ==
  /\ request[r].pc = "running"
  /\ request' = [request EXCEPT ![r].pc = "pinned"]
  /\ cont' = [cont EXCEPT ![request[r].on].busy = @ - 2]
  /\ UNCHANGED <<built, active, count, retired, closed, reload, host, told, pointer>>

Leave(r) ==
  /\ request[r].pc = "running"
  /\ request' = [request EXCEPT ![r].pc = "pinned"]
  /\ cont' = [cont EXCEPT ![request[r].on].busy = @ - 1]
  /\ UNCHANGED <<built, active, count, retired, closed, reload, host, told, pointer>>

\* Mutant: the last request of a retired generation forgets to dispose it.
ReleaseOnly(r) ==
  LET g == cont[request[r].on].gen IN
  /\ request[r].pc = "pinned"
  /\ request' = [request EXCEPT ![r].pc = "idle"]
  /\ count' = [count EXCEPT ![g] = @ - 1]
  /\ UNCHANGED <<cont, built, active, retired, closed, reload, host, told, pointer>>

\* The end of acquire: the last request of a retired generation disposes it.
\* The callback runs after the lock is released, when nothing can pin the
\* container any more.
Release(r) ==
  LET g == cont[request[r].on].gen
      last == count[g] = 1 /\ retired[g] # None IN
  /\ request[r].pc = "pinned"
  /\ request' = [request EXCEPT ![r].pc = "idle"]
  /\ count' = [count EXCEPT ![g] = @ - 1]
  /\ retired' = IF last THEN [retired EXCEPT ![g] = None] ELSE retired
  /\ cont' = IF last THEN Dispose(cont, retired[g]) ELSE cont
  /\ UNCHANGED <<built, active, closed, reload, host, told, pointer>>

-----------------------------------------------------------------------------
(* Staging of the activation target by the callers of reload *)

\* stage_activation with the active generation the caller read before.
Stage(g) ==
  /\ pointer.target # g
  /\ pointer' = [pointer EXCEPT !.target = g]
  /\ UNCHANGED <<cont, built, active, count, retired, closed, request, reload, host, told>>

ClearTarget ==
  /\ pointer.target # NoGen
  /\ pointer' = [pointer EXCEPT !.target = NoGen]
  /\ UNCHANGED <<cont, built, active, count, retired, closed, request, reload, host, told>>

-----------------------------------------------------------------------------
(* HotReloadCoordinator.reload, under the coordinator's lock *)

\* A stale expected_active is refused before anything is built: the call
\* returns and leaves no trace, so only the accepted call is a step.
ReloadBegin(g) ==
  /\ reload.pc = "idle"
  /\ reload' = [pc |-> "building", gen |-> g, current |-> cont[active].gen, cand |-> None]
  /\ UNCHANGED <<cont, built, active, count, retired, closed, request, host, told, pointer>>

\* The candidate is built and passes its self-check.
ReloadBuilt ==
  /\ reload.pc = "building"
  /\ built < MaxBuilds
  /\ built' = built + 1
  /\ cont' = [cont EXCEPT ![built + 1] = NewContainer(reload.gen)]
  /\ reload' = [reload EXCEPT !.pc = "drain", !.cand = built + 1]
  /\ UNCHANGED <<active, count, retired, closed, request, host, told, pointer>>

\* The build raises; a candidate that fails its self-check is disposed.
ReloadBuildFails ==
  /\ reload.pc = "building"
  /\ reload' = NoReload
  /\ UNCHANGED <<cont, built, active, count, retired, closed, request, host, told, pointer>>

ReloadDrains ==
  /\ reload.pc = "drain"
  /\ cont' = Gate(cont, active, "draining")
  /\ reload' = [reload EXCEPT !.pc = "wait"]
  /\ UNCHANGED <<built, active, count, retired, closed, request, host, told, pointer>>

\* The contract identity of the candidate cannot be computed.
ReloadHandoffFails ==
  /\ reload.pc = "drain"
  /\ cont' = Dispose(cont, reload.cand)
  /\ reload' = NoReload
  /\ UNCHANGED <<built, active, count, retired, closed, request, host, told, pointer>>

ReloadIdle ==
  /\ reload.pc = "wait"
  /\ cont[active].busy = 0
  /\ reload' = [reload EXCEPT !.pc = "commit"]
  /\ UNCHANGED <<cont, built, active, count, retired, closed, request, host, told, pointer>>

\* Mutant: a failed reload disposes its candidate and leaves the gate shut.
AbandonShut(C) == Dispose(C, reload.cand)

\* The drained gate is reopened, whoever closed it in the meantime.
Abandon(C) == Dispose(Gate(C, active, "open"), reload.cand)

ReloadDrainTimeout ==
  /\ reload.pc = "wait"
  /\ cont[active].busy > 0
  /\ cont' = Abandon(cont)
  /\ reload' = NoReload
  /\ UNCHANGED <<built, active, count, retired, closed, request, host, told, pointer>>

\* _validate_swap_locked
MaySwap ==
  /\ closed = "open"
  /\ reload.gen # cont[active].gen
  /\ retired[reload.gen] = None

\* GenerationStore.activate: the pointer moves if it is where the reload
\* found it and the generation is staged; repeating a commit is allowed.
MayCommit ==
  \/ pointer.active = reload.gen
  \/ /\ pointer.active = reload.current
     /\ pointer.target = reload.gen

Committed ==
  [active |-> reload.gen,
   target |-> IF pointer.active = reload.gen /\ pointer.target # reload.gen
                THEN pointer.target ELSE NoGen]

\* Mutant: the error of the store's commit is swallowed.
ReloadCommitsRegardless ==
  LET old == cont[active].gen IN
  /\ reload.pc = "commit"
  /\ MaySwap
  /\ pointer' = IF MayCommit THEN Committed ELSE pointer
  /\ active' = reload.cand
  /\ retired' = IF count[old] = 0 THEN retired ELSE [retired EXCEPT ![old] = active]
  /\ cont' = IF count[old] = 0 THEN Dispose(cont, active) ELSE cont
  /\ reload' = NoReload
  /\ told' = "open"
  /\ UNCHANGED <<built, count, closed, request, host>>

\* Mutant: the old container is disposed at once, in use or not.
ReloadCommitsEagerly ==
  /\ reload.pc = "commit"
  /\ MaySwap
  /\ MayCommit
  /\ pointer' = Committed
  /\ active' = reload.cand
  /\ cont' = Dispose(cont, active)
  /\ reload' = NoReload
  /\ told' = "open"
  /\ UNCHANGED <<built, count, retired, closed, request, host>>

\* commit_swap: the commit and the swap under the router's lock.
\* _install_locked retires the old container, or disposes it when unused.
ReloadCommits ==
  LET old == cont[active].gen IN
  /\ reload.pc = "commit"
  /\ MaySwap
  /\ MayCommit
  /\ pointer' = Committed
  /\ active' = reload.cand
  /\ retired' = IF count[old] = 0 THEN retired ELSE [retired EXCEPT ![old] = active]
  /\ cont' = IF count[old] = 0 THEN Dispose(cont, active) ELSE cont
  /\ reload' = NoReload
  /\ told' = "open"
  /\ UNCHANGED <<built, count, closed, request, host>>

\* The swap is refused or the commit raises; with Torn, also after the
\* store has written its active pointer.
ReloadCommitFails ==
  /\ reload.pc = "commit"
  /\ pointer' \in {pointer} \cup
       (IF Torn /\ MaySwap /\ MayCommit THEN {[pointer EXCEPT !.active = reload.gen]} ELSE {})
  /\ cont' = Abandon(cont)
  /\ reload' = NoReload
  /\ UNCHANGED <<built, active, count, retired, closed, request, host, told>>

-----------------------------------------------------------------------------
(* McpRuntimeHost.handle: the control commands *)

\* The handler looks up the active container and then acts on that one.
Receive(h, cmd) ==
  /\ host[h].pc = "idle"
  /\ host' = [host EXCEPT ![h] = [pc |-> "act", cmd |-> cmd, on |-> active]]
  /\ UNCHANGED <<cont, built, active, count, retired, closed, request, reload, told, pointer>>

BeginDrain(h) ==
  /\ host[h].pc = "act" /\ host[h].cmd = "drain"
  /\ cont' = Gate(cont, host[h].on, "draining")
  /\ host' = [host EXCEPT ![h].pc = "wait"]
  /\ UNCHANGED <<built, active, count, retired, closed, request, reload, told, pointer>>

Drained(h) ==
  /\ host[h].pc = "wait"
  /\ cont[host[h].on].busy = 0
  /\ told' = "drained"
  /\ host' = [host EXCEPT ![h].pc = "idle"]
  /\ UNCHANGED <<cont, built, active, count, retired, closed, request, reload, pointer>>

DrainTimeout(h) ==
  /\ host[h].pc = "wait"
  /\ cont[host[h].on].busy > 0
  /\ host' = [host EXCEPT ![h].pc = "idle"]
  /\ UNCHANGED <<cont, built, active, count, retired, closed, request, reload, told, pointer>>

Resume(h) ==
  /\ host[h].pc = "act" /\ host[h].cmd = "resume"
  /\ cont' = Gate(cont, host[h].on, "open")
  /\ told' = "open"
  /\ host' = [host EXCEPT ![h].pc = "idle"]
  /\ UNCHANGED <<built, active, count, retired, closed, request, reload, pointer>>

FailClosed(h) ==
  /\ host[h].pc = "act" /\ host[h].cmd = "fail_closed"
  /\ cont' = Gate(cont, host[h].on, "fail_closed")
  /\ told' = "fail_closed"
  /\ host' = [host EXCEPT ![h].pc = "idle"]
  /\ UNCHANGED <<built, active, count, retired, closed, request, reload, pointer>>

-----------------------------------------------------------------------------
(* AtomicServiceRouter.close *)

CloseBegin ==
  /\ closed = "open"
  /\ closed' = "closing"
  /\ UNCHANGED <<cont, built, active, count, retired, request, reload, host, told, pointer>>

CloseDone ==
  /\ closed = "closing"
  /\ \A g \in Generations : count[g] = 0
  /\ closed' = "closed"
  /\ retired' = [g \in Generations |-> None]
  /\ cont' = [c \in Containers |->
                IF c = active \/ \E g \in Generations : retired[g] = c
                  THEN [cont[c] EXCEPT !.gate = "fail_closed", !.disposed = TRUE]
                  ELSE cont[c]]
  /\ UNCHANGED <<built, active, count, request, reload, host, told, pointer>>

CloseTimeout ==
  /\ closed = "closing"
  /\ \E g \in Generations : count[g] > 0
  /\ closed' = "abandoned"
  /\ UNCHANGED <<cont, built, active, count, retired, request, reload, host, told, pointer>>

-----------------------------------------------------------------------------

Serve(r) == Acquire(r) \/ Enter(r) \/ Leave(r) \/ Release(r)

ReloadStep ==
  \/ ReloadBuilt \/ ReloadBuildFails
  \/ ReloadDrains \/ ReloadHandoffFails
  \/ ReloadIdle \/ ReloadDrainTimeout
  \/ ReloadCommits \/ ReloadCommitFails

Handle(h) == BeginDrain(h) \/ Drained(h) \/ DrainTimeout(h) \/ Resume(h) \/ FailClosed(h)

Next ==
  \/ \E r \in Requests : Serve(r)
  \/ \E g \in Generations : Stage(g) \/ ReloadBegin(g)
  \/ ClearTarget
  \/ ReloadStep
  \/ \E h \in Handlers : Handle(h) \/ \E cmd \in Commands : Receive(h, cmd)
  \/ CloseBegin \/ CloseDone \/ CloseTimeout

Spec == Init /\ [][Next]_vars

\* Every thread that has begun goes on, and a request is over after finitely
\* many operations (SF); nobody is obliged to begin.
Fairness ==
  /\ \A r \in Requests : WF_vars(Leave(r)) /\ SF_vars(Release(r))
  /\ WF_vars(ReloadStep)
  /\ \A h \in Handlers : WF_vars(Handle(h))
  /\ WF_vars(CloseDone \/ CloseTimeout)

FairSpec == Spec /\ Fairness

-----------------------------------------------------------------------------
(* Properties *)

TypeOK ==
  /\ cont \in [Containers -> [gen : Generations, gate : GateStates,
                              busy : Nat, disposed : BOOLEAN]]
  /\ built \in Containers
  /\ active \in Containers
  /\ count \in [Generations -> Nat]
  /\ retired \in [Generations -> Containers \cup {None}]
  /\ closed \in {"open", "closing", "closed", "abandoned"}
  /\ request \in [Requests -> [pc : {"idle", "pinned", "running"}, on : Containers]]
  /\ reload \in [pc : {"idle", "building", "drain", "wait", "commit"},
                 gen : Generations, current : Generations,
                 cand : Containers \cup {None}]
  /\ host \in [Handlers -> [pc : {"idle", "act", "wait"}, cmd : Commands,
                            on : Containers]]
  /\ told \in {"open", "drained", "fail_closed"}
  /\ pointer \in [active : Generations, target : Generations \cup {NoGen}]

\* A container is never disposed under a request that pinned it, although
\* the router counts pins by generation and not by container.
PinnedIsAlive ==
  \A r \in Requests : request[r].pc # "idle" => ~cont[request[r].on].disposed

\* Without control commands, operations of two generations never overlap: a
\* swap happens only once the old gate is idle, and it stays shut.
OneGenerationRuns ==
  \A r \in Requests : request[r].pc = "running" => request[r].on = active

\* Unless the commit was torn, the process serves the generation the store
\* names as active, whatever step of a reload failed.
ServesCommitted ==
  cont[active].gen = pointer.active

\* A reload that has begun to drain ends with an open active gate, however
\* it ends and whatever control commands come between, or the router is
\* being closed.
ServesAgain ==
  reload.pc \in {"wait", "commit"}
    ~> (cont[active].gate = "open" \/ closed # "open")

\* A retired container is disposed once its requests are over.
RetiredIsDisposed ==
  \A c \in Containers :
    (\E g \in Generations : retired[g] = c) ~> cont[c].disposed

\* No operation starts after a client was told that the runtime is
\* fail-closed, until a resume or a new generation.
FailClosedHolds ==
  [][\A r \in Requests : Enter(r) => told # "fail_closed"]_vars

\* No operation starts after a client was told that the runtime is drained,
\* until a resume or a new generation.
DrainedHolds ==
  [][\A r \in Requests : Enter(r) => told # "drained"]_vars

=============================================================================
