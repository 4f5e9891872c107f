--------------------------- MODULE HotReloadProofs ---------------------------
(***************************************************************************)
(* Proofs about the router, the gates and the hot reload of the MCP host,  *)
(* for any number of requests, control threads, generations and builds.    *)
(***************************************************************************)
EXTENDS HotReload, FiniteSetTheorems, TLAPS

-----------------------------------------------------------------------------
(* Counting requests.                                                      *)

(* The requests pinned to a container of generation g, and the ones with   *)
(* an operation under the gate of container c.                             *)
Pins(g) == {r \in Requests : request[r].pc # "idle" /\ cont[request[r].on].gen = g}
Runs(c) == {r \in Requests : request[r].pc = "running" /\ request[r].on = c}

LEMMA CountIsNat ==
    ASSUME NEW S \in SUBSET Requests
    PROVE  IsFiniteSet(S) /\ Cardinality(S) \in Nat
BY HotReloadAssumption, FS_Subset, FS_CardinalityType

LEMMA CountAdd ==
    ASSUME NEW S \in SUBSET Requests, NEW r \in Requests, r \notin S
    PROVE  Cardinality(S \cup {r}) = Cardinality(S) + 1
BY CountIsNat, FS_AddElement

LEMMA CountRemove ==
    ASSUME NEW S \in SUBSET Requests, NEW r \in S
    PROVE  /\ Cardinality(S \ {r}) = Cardinality(S) - 1
           /\ Cardinality(S) # 0
           /\ Cardinality(S) = 1 => S = {r}
<1>1. IsFiniteSet(S) /\ Cardinality(S) \in Nat
  BY CountIsNat
<1>2. Cardinality(S \ {r}) = Cardinality(S) - 1
  BY <1>1, FS_RemoveElement
<1>3. Cardinality(S) # 0
  BY <1>1, FS_EmptySet
<1>4. Cardinality(S) = 1 => S = {r}
  <2>1. S \ {r} \in SUBSET Requests /\ IsFiniteSet(S \ {r})
    BY CountIsNat
  <2>2. Cardinality(S) = 1 => S \ {r} = {}
    BY <1>2, <2>1, FS_EmptySet
  <2> QED BY <2>2
<1> QED BY <1>2, <1>3, <1>4

-----------------------------------------------------------------------------
(* Containers.                                                             *)

ContType == [gen : Generations, gate : GateStates, busy : Nat, disposed : BOOLEAN]

LEMMA GateShape ==
    ASSUME NEW C \in [Containers -> ContType], NEW c \in Containers, NEW s \in GateStates
    PROVE  /\ Gate(C, c, s) \in [Containers -> ContType]
           /\ \A d \in Containers : /\ Gate(C, c, s)[d].gen = C[d].gen
                                    /\ Gate(C, c, s)[d].busy = C[d].busy
                                    /\ Gate(C, c, s)[d].disposed = C[d].disposed
BY DEF Gate, ContType

LEMMA DisposeShape ==
    ASSUME NEW C \in [Containers -> ContType], NEW c \in Containers
    PROVE  /\ Dispose(C, c) \in [Containers -> ContType]
           /\ \A d \in Containers : /\ Dispose(C, c)[d].gen = C[d].gen
                                    /\ Dispose(C, c)[d].busy = C[d].busy
                                    /\ d # c => Dispose(C, c)[d].disposed = C[d].disposed
BY DEF Dispose, ContType, GateStates

LEMMA NewShape ==
    ASSUME NEW g \in Generations
    PROVE  /\ NewContainer(g) \in ContType
           /\ NewContainer(g).gen = g /\ NewContainer(g).busy = 0 /\ ~NewContainer(g).disposed
BY DEF NewContainer, ContType, GateStates

-----------------------------------------------------------------------------
(* The inductive invariant.                                                *)

ReqType == [Requests -> [pc : {"idle", "pinned", "running"}, on : Containers]]
ReloadType == [pc : {"idle", "building", "drain", "wait", "commit"},
               gen : Generations, current : Generations, cand : Containers \cup {None}]
HostType == [Handlers -> [pc : {"idle", "act", "wait"}, cmd : Commands, on : Containers]]
PointerType == [active : Generations, target : Generations \cup {NoGen}]

Typed == /\ cont \in [Containers -> ContType]
         /\ built \in Containers
         /\ active \in Containers
         /\ count \in [Generations -> Nat]
         /\ retired \in [Generations -> Containers \cup {None}]
         /\ closed \in {"open", "closing", "closed", "abandoned"}
         /\ request \in ReqType
         /\ reload \in ReloadType
         /\ host \in HostType
         /\ told \in {"open", "drained", "fail_closed"}
         /\ pointer \in PointerType

LEMMA TypedParts == Typed <=> TypeOK
BY DEF Typed, TypeOK, ContType, ReqType, ReloadType, HostType, PointerType

(* The active container is one that was built, its generation is not       *)
(* retired at the same time, and only the end of the router disposes it.   *)
ActivePlaced ==
    /\ active <= built
    /\ retired[cont[active].gen] = None
    /\ closed # "closed" => ~cont[active].disposed

(* A retired container is an old one of the generation it is filed under.  *)
RetiredPlaced ==
    \A g \in Generations : retired[g] # None =>
        /\ retired[g] <= built
        /\ retired[g] # active
        /\ cont[retired[g]].gen = g
        /\ ~cont[retired[g]].disposed

(* A candidate belongs to nobody but the reload that built it. *)
CandPlaced ==
    reload.pc \in {"drain", "wait", "commit"} =>
        /\ reload.cand \in 1..built
        /\ reload.cand # active
        /\ \A g \in Generations : retired[g] # reload.cand
        /\ cont[reload.cand].gen = reload.gen
        /\ ~cont[reload.cand].disposed

(* A request holds the active container or the one its generation retired. *)
PinsPlaced ==
    \A r \in Requests : request[r].pc # "idle" =>
        /\ closed # "closed"
        /\ request[r].on = active \/ retired[cont[request[r].on].gen] = request[r].on

Counted == \A g \in Generations : count[g] = Cardinality(Pins(g))

BusyCounted == \A c \in Containers : cont[c].busy = Cardinality(Runs(c))

Placed == ActivePlaced /\ RetiredPlaced /\ CandPlaced /\ PinsPlaced

IInv == Typed /\ Placed /\ Counted /\ BusyCounted

LEMMA ContainersNat == Containers \subseteq Nat /\ None \notin Containers /\ 1 \in Containers
BY HotReloadAssumption DEF Containers, None

(* A step that leaves the requests alone, and the generation of every      *)
(* container a request holds, changes no count of pins.                    *)
LEMMA SamePins ==
    ASSUME request' = request, count' = count, Counted,
           \A r \in Requests : request[r].pc # "idle" =>
               cont'[request[r].on].gen = cont[request[r].on].gen
    PROVE  Counted'
<1>1. \A g : Pins(g)' = Pins(g)
  BY DEF Pins
<1> QED BY <1>1 DEF Counted

LEMMA SameRuns ==
    ASSUME request' = request, BusyCounted,
           \A c \in Containers : cont'[c].busy = cont[c].busy
    PROVE  BusyCounted'
<1>1. \A c : Runs(c)' = Runs(c)
  BY DEF Runs
<1> QED BY <1>1 DEF BusyCounted

(* The holder of a container finds it built and not disposed. *)
LEMMA HeldIsBuilt ==
    ASSUME Typed, Placed, NEW r \in Requests, request[r].pc # "idle"
    PROVE  /\ request[r].on \in Containers
           /\ request[r].on <= built
           /\ ~cont[request[r].on].disposed
           /\ reload.pc \in {"drain", "wait", "commit"} => request[r].on # reload.cand
           /\ r \in Pins(cont[request[r].on].gen)
           /\ cont[request[r].on].gen \in Generations
<1>1. request[r].on \in Containers /\ cont[request[r].on].gen \in Generations
  BY DEF Typed, ReqType, ContType
<1>2. request[r].on # None
  BY <1>1, ContainersNat
<1> QED BY <1>1, <1>2
        DEF Placed, ActivePlaced, RetiredPlaced, CandPlaced, PinsPlaced, Pins

-----------------------------------------------------------------------------
(* Steps of the callers and of the control threads.                        *)

(* Only the gates differ. *)
GatesOnly ==
    /\ cont' \in [Containers -> ContType]
    /\ \A c \in Containers : /\ cont'[c].gen = cont[c].gen
                             /\ cont'[c].busy = cont[c].busy
                             /\ cont'[c].disposed = cont[c].disposed

LEMMA GatesKeep ==
    ASSUME IInv, GatesOnly, UNCHANGED <<built, active, count, retired, closed, request>>,
           reload'.pc \in {"drain", "wait", "commit"} =>
               /\ reload.pc \in {"drain", "wait", "commit"}
               /\ reload'.cand = reload.cand
               /\ reload'.gen = reload.gen
    PROVE  Placed' /\ Counted' /\ BusyCounted'
<1>1. \A r \in Requests : request[r].on \in Containers
  BY DEF IInv, Typed, ReqType
<1>2. Counted' /\ BusyCounted'
  BY <1>1, SamePins, SameRuns DEF IInv, GatesOnly
<1>3. active \in Containers /\ \A g \in Generations : retired[g] # None => retired[g] \in Containers
  BY DEF IInv, Typed
<1>4. ActivePlaced' /\ RetiredPlaced'
  BY <1>3 DEF IInv, Placed, GatesOnly, ActivePlaced, RetiredPlaced
<1>5. PinsPlaced'
  BY <1>1 DEF IInv, Placed, GatesOnly, PinsPlaced
<1>6. built \in Containers /\ 1..built \subseteq Containers
  BY HotReloadAssumption DEF IInv, Typed, Containers
<1>7. CandPlaced'
  BY <1>6 DEF IInv, Placed, GatesOnly, CandPlaced
<1> QED BY <1>2, <1>4, <1>5, <1>7 DEF Placed

LEMMA SameGates ==
    ASSUME IInv, UNCHANGED cont PROVE GatesOnly
BY DEF IInv, Typed, GatesOnly

LEMMA QuietStep ==
    ASSUME IInv, \/ \E g \in Generations : Stage(g)
                 \/ ClearTarget
                 \/ \E h \in Handlers : \/ Drained(h) \/ DrainTimeout(h)
                                        \/ \E cmd \in Commands : Receive(h, cmd)
    PROVE  IInv'
<1>1. UNCHANGED <<cont, built, active, count, retired, closed, request, reload>>
  BY DEF Stage, ClearTarget, Drained, DrainTimeout, Receive
<1>2. pointer' \in PointerType
  BY DEF IInv, Typed, Stage, ClearTarget, Drained, DrainTimeout, Receive, PointerType
<1>3. host' \in HostType /\ told' \in {"open", "drained", "fail_closed"}
  BY DEF IInv, Typed, Stage, ClearTarget, Drained, DrainTimeout, Receive, HostType
<1>4. Typed'
  BY <1>1, <1>2, <1>3 DEF IInv, Typed
<1> QED BY <1>1, <1>4, SameGates, GatesKeep DEF IInv

LEMMA CommandStep ==
    ASSUME IInv, NEW h \in Handlers, BeginDrain(h) \/ Resume(h) \/ FailClosed(h)
    PROVE  IInv'
<1>1. host[h].on \in Containers /\ cont \in [Containers -> ContType]
  BY DEF IInv, Typed, HostType
<1>2. PICK s \in GateStates : cont' = Gate(cont, host[h].on, s)
  BY DEF BeginDrain, Resume, FailClosed, GateStates
<1>3. GatesOnly
  BY <1>1, <1>2, GateShape DEF GatesOnly
<1>4. UNCHANGED <<built, active, count, retired, closed, request, reload, pointer>>
  BY DEF BeginDrain, Resume, FailClosed
<1>5. host' \in HostType
  BY DEF IInv, Typed, BeginDrain, Resume, FailClosed, HostType
<1>6. told' \in {"open", "drained", "fail_closed"}
  BY DEF IInv, Typed, BeginDrain, Resume, FailClosed
<1>7. Typed'
  BY <1>3, <1>4, <1>5, <1>6 DEF IInv, Typed, GatesOnly
<1> QED BY <1>3, <1>4, <1>7, GatesKeep DEF IInv

-----------------------------------------------------------------------------
(* Steps of the requests.                                                  *)

LEMMA AcquireStep ==
    ASSUME IInv, NEW r \in Requests, Acquire(r)
    PROVE  IInv'
<1> USE DEF IInv
<1>1. /\ active \in Containers /\ cont[active].gen \in Generations
      /\ request \in ReqType /\ count \in [Generations -> Nat]
  BY DEF Typed, ContType
<1>a. PICK ga \in Generations : ga = cont[active].gen
  BY <1>1
<1>2. /\ request' \in ReqType
      /\ request'[r] = [pc |-> "pinned", on |-> active]
      /\ \A q \in Requests : q # r => request'[q] = request[q]
  BY <1>1 DEF Acquire, ReqType
<1>3. /\ count' \in [Generations -> Nat]
      /\ count'[ga] = count[ga] + 1
      /\ \A g \in Generations : g # ga => count'[g] = count[g]
  BY <1>1, <1>a DEF Acquire
<1>4. Typed'
  BY <1>2, <1>3 DEF Typed, Acquire
<1>5. Placed'
  <2>1. ActivePlaced' /\ RetiredPlaced' /\ CandPlaced'
    BY DEF Placed, Acquire, ActivePlaced, RetiredPlaced, CandPlaced
  <2>2. PinsPlaced'
    BY <1>2 DEF Placed, Acquire, PinsPlaced
  <2> QED BY <2>1, <2>2 DEF Placed
<1>6. Counted'
  <2>1. Pins(ga)' = Pins(ga) \cup {r} /\ r \notin Pins(ga)
    BY <1>a, <1>2 DEF Pins, Acquire
  <2>2. \A g \in Generations : g # ga => Pins(g)' = Pins(g)
    BY <1>a, <1>2 DEF Pins, Acquire
  <2>3. Pins(ga) \in SUBSET Requests
    BY DEF Pins
  <2>4. Cardinality(Pins(ga)') = Cardinality(Pins(ga)) + 1
    BY <2>1, <2>3, CountAdd
  <2> QED BY <1>1, <1>3, <2>2, <2>4 DEF Counted
<1>7. BusyCounted'
  <2>1. \A c \in Containers : Runs(c)' = Runs(c)
    BY <1>2 DEF Runs, Acquire
  <2> QED BY <2>1 DEF BusyCounted, Acquire
<1> QED BY <1>4, <1>5, <1>6, <1>7

(* Entering and leaving a gate. *)
LEMMA GateStep ==
    ASSUME IInv, NEW r \in Requests, Enter(r) \/ Leave(r)
    PROVE  IInv'
<1> USE DEF IInv
<1>0. request[r].on \in Containers
  BY DEF Typed, ReqType
<1>a. PICK c \in Containers : c = request[r].on
  BY <1>0
<1> DEFINE p == IF Enter(r) THEN "running" ELSE "pinned"
           n == IF Enter(r) THEN cont[c].busy + 1 ELSE cont[c].busy - 1
<1>1. c \in Containers /\ request \in ReqType /\ cont \in [Containers -> ContType]
      /\ cont[c].busy \in Nat
  BY DEF Typed, ContType
<1>2. /\ request[r].pc # "idle"
      /\ request' = [request EXCEPT ![r].pc = p]
      /\ cont' = [cont EXCEPT ![c].busy = n]
      /\ UNCHANGED <<built, active, count, retired, closed, reload, host, told, pointer>>
  BY <1>a DEF Enter, Leave
<1>3. /\ request' \in ReqType
      /\ request'[r].pc = p /\ request'[r].on = c
      /\ \A q \in Requests : q # r => request'[q] = request[q]
  BY <1>a, <1>1, <1>2 DEF ReqType
<1>4. Runs(c) \in SUBSET Requests /\ cont[c].busy = Cardinality(Runs(c))
  BY <1>1 DEF Runs, BusyCounted
<1>5. n \in Nat /\ n = Cardinality(Runs(c)')
  <2>1. CASE Enter(r)
    <3>1. Runs(c)' = Runs(c) \cup {r} /\ r \notin Runs(c)
      BY <1>a, <1>3, <2>1 DEF Runs, Enter
    <3> QED BY <1>1, <1>4, <2>1, <3>1, CountAdd
  <2>2. CASE ~Enter(r)
    <3>1. Runs(c)' = Runs(c) \ {r} /\ r \in Runs(c)
      BY <1>a, <1>3, <2>2 DEF Runs, Leave
    <3>2. cont[c].busy # 0
      BY <1>4, <3>1, CountRemove
    <3> QED BY <1>1, <1>4, <2>2, <3>1, <3>2, CountRemove
  <2> QED BY <2>1, <2>2
<1> HIDE DEF n, p
<1>6. /\ cont' \in [Containers -> ContType]
      /\ cont'[c].busy = n
      /\ \A d \in Containers : /\ cont'[d].gen = cont[d].gen
                               /\ cont'[d].disposed = cont[d].disposed
                               /\ d # c => cont'[d].busy = cont[d].busy
  BY <1>1, <1>2, <1>5 DEF ContType
<1>7. Typed'
  BY <1>2, <1>3, <1>6 DEF Typed
<1>8. p # "idle"
  BY DEF p
<1>9. \A q \in Requests : request'[q].on = request[q].on
                          /\ (request'[q].pc # "idle" <=> request[q].pc # "idle")
                          /\ request[q].on \in Containers
  BY <1>a, <1>1, <1>2, <1>3, <1>8 DEF ReqType
<1>10. Placed'
  <2>1. active \in Containers /\ \A g \in Generations : retired[g] # None => retired[g] \in Containers
    BY DEF Typed
  <2>2. ActivePlaced' /\ RetiredPlaced'
    BY <1>2, <1>6, <2>1 DEF Placed, ActivePlaced, RetiredPlaced
  <2>3. PinsPlaced'
    BY <1>2, <1>6, <1>9 DEF Placed, PinsPlaced
  <2>4. 1..built \subseteq Containers
    BY HotReloadAssumption DEF Typed, Containers
  <2>5. CandPlaced'
    BY <1>2, <1>6, <2>4 DEF Placed, CandPlaced
  <2> QED BY <2>2, <2>3, <2>5 DEF Placed
<1>11. Counted'
  <2>1. \A g : Pins(g)' = Pins(g)
    BY <1>6, <1>9 DEF Pins
  <2> QED BY <1>2, <2>1 DEF Counted
<1>12. BusyCounted'
  <2>1. \A d \in Containers : d # c => Runs(d)' = Runs(d)
    BY <1>a, <1>3 DEF Runs
  <2> QED BY <1>1, <1>5, <1>6, <2>1 DEF BusyCounted
<1> QED BY <1>7, <1>10, <1>11, <1>12

LEMMA ReleaseStep ==
    ASSUME IInv, NEW r \in Requests, Release(r)
    PROVE  IInv'
<1> USE DEF IInv
<1>1. request[r].pc = "pinned" /\ request \in ReqType
  BY DEF Release, Typed
<1>2. PICK g \in Generations : g = cont[request[r].on].gen
  BY <1>1, HeldIsBuilt
<1>3. Pins(g) \in SUBSET Requests /\ r \in Pins(g) /\ count[g] = Cardinality(Pins(g))
      /\ count \in [Generations -> Nat]
  BY <1>1, <1>2, HeldIsBuilt DEF Counted, Typed, Pins
<1>4. count[g] # 0 /\ (count[g] = 1 => Pins(g) = {r})
      /\ Cardinality(Pins(g) \ {r}) = count[g] - 1
  BY <1>3, CountRemove
<1>5. /\ request' \in ReqType
      /\ request'[r].pc = "idle"
      /\ \A q \in Requests : q # r => request'[q] = request[q]
  BY <1>1 DEF Release, ReqType
<1>6. /\ count' \in [Generations -> Nat]
      /\ count'[g] = count[g] - 1
      /\ \A k \in Generations : k # g => count'[k] = count[k]
  BY <1>2, <1>3, <1>4 DEF Release
<1>7. \A q \in Requests : request[q].on \in Containers
  BY <1>1 DEF ReqType
<1>8. ASSUME \A c \in Containers : cont'[c].gen = cont[c].gen /\ cont'[c].busy = cont[c].busy
      PROVE  Counted' /\ BusyCounted'
  <2>1. Pins(g)' = Pins(g) \ {r}
    BY <1>5, <1>7, <1>8 DEF Pins
  <2>2. \A k \in Generations : k # g => Pins(k)' = Pins(k)
    BY <1>2, <1>5, <1>7, <1>8 DEF Pins
  <2>3. \A c \in Containers : Runs(c)' = Runs(c)
    BY <1>1, <1>5 DEF Runs
  <2>4. Counted'
    BY <1>4, <1>6, <2>1, <2>2 DEF Counted
  <2> QED BY <1>8, <2>3, <2>4 DEF BusyCounted
<1>9. CASE ~(count[g] = 1 /\ retired[g] # None)
  <2>1. UNCHANGED <<cont, built, active, retired, closed, reload, host, told, pointer>>
    BY <1>2, <1>9 DEF Release
  <2>2. Typed'
    BY <1>5, <1>6, <2>1 DEF Typed
  <2>3. Placed'
    BY <1>5, <2>1 DEF Placed, ActivePlaced, RetiredPlaced, CandPlaced, PinsPlaced
  <2> QED BY <1>8, <2>1, <2>2, <2>3
<1>10. CASE count[g] = 1 /\ retired[g] # None
  <2>1. PICK x \in Containers : x = retired[g]
    BY <1>10 DEF Typed
  <2>2. /\ cont' = Dispose(cont, x) /\ retired' = [retired EXCEPT ![g] = None]
        /\ UNCHANGED <<built, active, closed, reload, host, told, pointer>>
    BY <1>2, <1>10, <2>1 DEF Release
  <2>3. /\ cont' \in [Containers -> ContType]
        /\ \A d \in Containers : /\ cont'[d].gen = cont[d].gen
                                 /\ cont'[d].busy = cont[d].busy
                                 /\ d # x => cont'[d].disposed = cont[d].disposed
    BY <2>1, <2>2, DisposeShape DEF Typed
  <2>4. /\ retired' \in [Generations -> Containers \cup {None}]
        /\ retired'[g] = None
        /\ \A k \in Generations : k # g => retired'[k] = retired[k]
    BY <2>2 DEF Typed
  <2>5. Typed'
    BY <1>5, <1>6, <2>2, <2>3, <2>4 DEF Typed
  <2>6. x # active /\ cont[x].gen = g /\ active \in Containers /\ cont[active].gen \in Generations
    BY <2>1, ContainersNat DEF Typed, Placed, RetiredPlaced, ContType
  <2>7. ActivePlaced'
    BY <2>2, <2>3, <2>4, <2>6 DEF Placed, ActivePlaced
  <2>8. RetiredPlaced'
    BY <2>1, <2>2, <2>3, <2>4, <2>6 DEF Typed, Placed, RetiredPlaced
  <2>9. CandPlaced'
    <3>1. 1..built \subseteq Containers
      BY HotReloadAssumption DEF Typed, Containers
    <3>2. reload.pc \in {"drain", "wait", "commit"} => reload.cand # x /\ reload.cand # None
      BY <2>1, <3>1, ContainersNat DEF Placed, CandPlaced
    <3> QED BY <2>2, <2>3, <2>4, <3>1, <3>2 DEF Placed, CandPlaced
  <2>10. PinsPlaced'
    <3> SUFFICES ASSUME NEW q \in Requests, (request[q].pc # "idle")'
                 PROVE  /\ closed' # "closed"
                        /\ (request[q].on = active \/ retired[cont[request[q].on].gen] = request[q].on)'
      BY DEF PinsPlaced
    <3>1. q # r /\ request'[q] = request[q] /\ request[q].pc # "idle"
      BY <1>5
    <3>2. q \notin Pins(g)
      BY <1>4, <1>10, <3>1
    <3>3. cont[request[q].on].gen # g /\ cont[request[q].on].gen \in Generations
          /\ request[q].on \in Containers
      BY <3>1, <3>2, HeldIsBuilt DEF Pins
    <3> QED BY <2>2, <2>3, <2>4, <3>1, <3>3 DEF Placed, PinsPlaced
  <2> QED BY <1>8, <2>3, <2>5, <2>7, <2>8, <2>9, <2>10 DEF Placed
<1> QED BY <1>9, <1>10

-----------------------------------------------------------------------------
(* Steps of the reload.                                                    *)

LEMMA NoReloadType == NoReload \in ReloadType /\ NoReload.pc = "idle"
BY HotReloadAssumption DEF NoReload, ReloadType

LEMMA BuiltRange == ASSUME Typed PROVE 1..built \subseteq Containers
BY HotReloadAssumption DEF Typed, Containers

LEMMA ReloadQuiet ==
    ASSUME IInv, (\E g \in Generations : ReloadBegin(g)) \/ ReloadBuildFails \/ ReloadDrains
                 \/ ReloadIdle
    PROVE  IInv'
<1> USE DEF IInv
<1>1. /\ cont \in [Containers -> ContType] /\ active \in Containers /\ reload \in ReloadType
      /\ cont[active].gen \in Generations
  BY DEF Typed, ContType
<1>2. GatesOnly
  <2>1. CASE ReloadDrains
    BY <1>1, <2>1, GateShape DEF ReloadDrains, GatesOnly, GateStates
  <2>2. CASE ~ReloadDrains
    BY <2>2, SameGates DEF ReloadBegin, ReloadBuildFails, ReloadIdle
  <2> QED BY <2>1, <2>2
<1>3. UNCHANGED <<built, active, count, retired, closed, request, host, told, pointer>>
  BY DEF ReloadBegin, ReloadBuildFails, ReloadDrains, ReloadIdle
<1>4. reload' \in ReloadType
  BY <1>1, NoReloadType DEF ReloadBegin, ReloadBuildFails, ReloadDrains, ReloadIdle, ReloadType
<1>5. reload'.pc \in {"drain", "wait", "commit"} =>
         reload.pc \in {"drain", "wait", "commit"} /\ reload'.cand = reload.cand
         /\ reload'.gen = reload.gen
  BY <1>1, NoReloadType DEF ReloadBegin, ReloadBuildFails, ReloadDrains, ReloadIdle, ReloadType
<1>6. Typed'
  BY <1>2, <1>3, <1>4 DEF Typed, GatesOnly
<1> QED BY <1>2, <1>3, <1>5, <1>6, GatesKeep

LEMMA BuiltStep ==
    ASSUME IInv, ReloadBuilt
    PROVE  IInv'
<1> USE DEF IInv
<1>1. PICK b \in Containers : b = built + 1
  BY HotReloadAssumption DEF ReloadBuilt, Typed, Containers
<1>2. reload \in ReloadType /\ reload.gen \in Generations
  BY DEF Typed, ReloadType
<1>3. /\ cont' = [cont EXCEPT ![b] = NewContainer(reload.gen)]
      /\ built' = b
      /\ UNCHANGED <<active, count, retired, closed, request, host, told, pointer>>
  BY <1>1 DEF ReloadBuilt
<1>4. /\ cont' \in [Containers -> ContType]
      /\ \A d \in Containers : d # b => cont'[d] = cont[d]
      /\ cont'[b].gen = reload.gen /\ cont'[b].busy = 0 /\ ~cont'[b].disposed
  BY <1>2, <1>3, NewShape DEF Typed
<1>5. reload' \in ReloadType /\ reload'.cand = b /\ reload'.gen = reload.gen
  BY <1>1, <1>2 DEF ReloadBuilt, ReloadType
<1>6. Typed'
  BY <1>3, <1>4, <1>5 DEF Typed
<1>7. built \in Nat /\ built < b /\ active \in Containers /\ active # b
  BY <1>1, ContainersNat DEF Typed, Placed, ActivePlaced
<1>8. \A r \in Requests : request[r].pc # "idle" =>
         /\ request[r].on \in Containers /\ request[r].on <= built /\ request[r].on # b
  BY <1>7, HeldIsBuilt, ContainersNat
<1>9. Counted'
  BY <1>3, <1>4, <1>8, SamePins
<1>10. BusyCounted'
  <2>1. \A c \in Containers : Runs(c)' = Runs(c)
    BY <1>3 DEF Runs
  <2>2. Runs(b) = {}
    BY <1>8 DEF Runs
  <2>3. Cardinality(Runs(b)) = 0
    BY <2>2, FS_EmptySet
  <2> QED BY <1>4, <2>1, <2>3 DEF BusyCounted
<1>11. ActivePlaced'
  BY <1>3, <1>4, <1>7, ContainersNat DEF Typed, Placed, ActivePlaced
<1>12. \A g \in Generations : retired[g] # None =>
          retired[g] \in Containers /\ retired[g] <= built /\ retired[g] # b
  BY <1>7, ContainersNat DEF Typed, Placed, RetiredPlaced
<1>13. RetiredPlaced'
  <2>1. SUFFICES ASSUME NEW g \in Generations, retired[g] # None
                 PROVE  /\ retired[g] <= b
                        /\ retired[g] # active
                        /\ cont'[retired[g]].gen = g
                        /\ ~cont'[retired[g]].disposed
    BY <1>3 DEF RetiredPlaced
  <2>2. PICK x \in Containers : x = retired[g] /\ x <= built /\ x # b
    BY <1>12, <2>1
  <2>3. x # active /\ cont[x].gen = g /\ ~cont[x].disposed
    BY <2>1, <2>2 DEF Placed, RetiredPlaced
  <2>4. cont'[x] = cont[x] /\ x <= b
    BY <1>4, <1>7, <2>2, ContainersNat
  <2> QED BY <2>2, <2>3, <2>4
<1>14. CandPlaced'
  <2>1. b \in 1..b /\ b # None
    BY ContainersNat DEF Containers
  <2> QED BY <1>3, <1>4, <1>5, <1>7, <1>12, <2>1 DEF CandPlaced
<1>15. PinsPlaced'
  BY <1>3, <1>4, <1>8 DEF Placed, PinsPlaced
<1> QED BY <1>6, <1>9, <1>10, <1>11, <1>13, <1>14, <1>15 DEF Placed

(* A candidate that is given up is disposed; nobody else knew it. *)
LEMMA GiveUpStep ==
    ASSUME IInv, ReloadHandoffFails \/ ReloadDrainTimeout \/ ReloadCommitFails
    PROVE  IInv'
<1> USE DEF IInv
<1>1. reload.pc \in {"drain", "wait", "commit"}
  BY DEF ReloadHandoffFails, ReloadDrainTimeout, ReloadCommitFails
<1>2. PICK x \in Containers : x = reload.cand
  BY <1>1, BuiltRange DEF Placed, CandPlaced
<1>3. /\ x # active /\ active \in Containers
      /\ \A g \in Generations : retired[g] # None => retired[g] \in Containers /\ retired[g] # x
  BY <1>1, <1>2 DEF Typed, Placed, CandPlaced
<1>4. cont \in [Containers -> ContType]
  BY DEF Typed
<1>5. /\ cont' \in [Containers -> ContType]
      /\ \A d \in Containers : /\ cont'[d].gen = cont[d].gen
                               /\ cont'[d].busy = cont[d].busy
                               /\ d # x => cont'[d].disposed = cont[d].disposed
  <2>1. CASE ReloadHandoffFails
    BY <1>2, <1>4, <2>1, DisposeShape DEF ReloadHandoffFails
  <2>2. CASE ReloadDrainTimeout \/ ReloadCommitFails
    <3> DEFINE C == Gate(cont, active, "open")
    <3>1. cont' = Dispose(C, x)
      BY <1>2, <2>2 DEF ReloadDrainTimeout, ReloadCommitFails, Abandon
    <3>2. /\ C \in [Containers -> ContType]
          /\ \A d \in Containers : /\ C[d].gen = cont[d].gen
                                   /\ C[d].busy = cont[d].busy
                                   /\ C[d].disposed = cont[d].disposed
      BY <1>3, <1>4, GateShape DEF GateStates
    <3> HIDE DEF C
    <3> QED BY <3>1, <3>2, DisposeShape
  <2> QED BY <2>1, <2>2
<1>6. UNCHANGED <<built, active, count, retired, closed, request, host, told>> /\ reload' = NoReload
  BY DEF ReloadHandoffFails, ReloadDrainTimeout, ReloadCommitFails
<1>7. pointer' \in PointerType
  <2>1. reload.gen \in Generations /\ pointer \in PointerType
    BY DEF Typed, ReloadType
  <2>2. [pointer EXCEPT !.active = reload.gen] \in PointerType
    BY <2>1 DEF PointerType
  <2> QED BY <2>1, <2>2 DEF ReloadHandoffFails, ReloadDrainTimeout, ReloadCommitFails
<1>8. Typed'
  BY <1>5, <1>6, <1>7, NoReloadType DEF Typed
<1>9. \A r \in Requests : request[r].on \in Containers
  BY DEF Typed, ReqType
<1>10. Counted' /\ BusyCounted'
  BY <1>5, <1>6, <1>9, SamePins, SameRuns
<1>11. ActivePlaced' /\ RetiredPlaced'
  BY <1>3, <1>5, <1>6 DEF Placed, ActivePlaced, RetiredPlaced
<1>12. CandPlaced'
  BY <1>6, NoReloadType DEF CandPlaced
<1>13. PinsPlaced'
  BY <1>5, <1>6, <1>9 DEF Placed, PinsPlaced
<1> QED BY <1>8, <1>10, <1>11, <1>12, <1>13 DEF Placed

(* The swap: the old container is disposed when nobody holds it, and else  *)
(* filed under its generation, where its requests find it.                 *)
LEMMA CommitStep ==
    ASSUME IInv, ReloadCommits
    PROVE  IInv'
<1> USE DEF IInv
<1>1. /\ closed = "open" /\ reload.pc = "commit"
      /\ active' = reload.cand /\ reload' = NoReload /\ told' = "open"
      /\ UNCHANGED <<built, count, closed, request, host>>
      /\ retired[reload.gen] = None /\ reload.gen # cont[active].gen
  BY DEF ReloadCommits, MaySwap
<1>2. PICK a \in Containers, o \in Generations : a = active /\ o = cont[a].gen
  BY DEF Typed, ContType
<1>3. PICK c \in Containers, n \in Generations : c = reload.cand /\ n = reload.gen
  BY <1>1, BuiltRange DEF Typed, Placed, CandPlaced, ReloadType
<1>4. /\ c <= built /\ c # a /\ c # None /\ a <= built /\ a # None /\ n # o
      /\ cont[c].gen = n /\ ~cont[c].disposed /\ ~cont[a].disposed
      /\ retired[o] = None /\ retired[n] = None
      /\ \A g \in Generations : retired[g] # c /\ retired[g] # a
  BY <1>1, <1>2, <1>3, ContainersNat
     DEF Placed, ActivePlaced, RetiredPlaced, CandPlaced
<1>5. pointer' \in PointerType
  <2>1. reload.gen \in Generations /\ pointer.target \in Generations \cup {NoGen}
    BY DEF Typed, ReloadType, PointerType
  <2> QED BY <2>1 DEF ReloadCommits, Committed, PointerType
<1>6. \A r \in Requests : request[r].on \in Containers
  BY DEF Typed, ReqType
<1>7. CandPlaced'
  BY <1>1, NoReloadType DEF CandPlaced
<1>8. CASE count[o] = 0
  <2>1. retired' = retired /\ cont' = Dispose(cont, a)
    BY <1>2, <1>8 DEF ReloadCommits
  <2>2. /\ cont' \in [Containers -> ContType]
        /\ \A d \in Containers : /\ cont'[d].gen = cont[d].gen
                                 /\ cont'[d].busy = cont[d].busy
                                 /\ d # a => cont'[d].disposed = cont[d].disposed
    BY <2>1, DisposeShape DEF Typed
  <2>3. Pins(o) = {}
    <3>1. Pins(o) \in SUBSET Requests /\ Cardinality(Pins(o)) = 0
      BY <1>8 DEF Counted, Pins
    <3> QED BY <3>1, CountIsNat, FS_EmptySet
  <2>4. \A r \in Requests : request[r].pc # "idle" => request[r].on # a
    BY <1>2, <2>3 DEF Pins
  <2>5. Typed'
    BY <1>1, <1>3, <1>5, <2>1, <2>2, NoReloadType DEF Typed
  <2>6. Counted' /\ BusyCounted'
    BY <1>1, <1>6, <2>2, SamePins, SameRuns
  <2>7. ActivePlaced'
    BY <1>1, <1>3, <1>4, <2>1, <2>2 DEF ActivePlaced
  <2>8. RetiredPlaced'
    <3>1. \A g \in Generations : retired[g] # None => retired[g] \in Containers
      BY DEF Typed
    <3> QED BY <1>1, <1>3, <1>4, <2>1, <2>2, <3>1 DEF Placed, RetiredPlaced
  <2>9. PinsPlaced'
    BY <1>1, <1>2, <1>6, <2>1, <2>2, <2>4 DEF Placed, PinsPlaced
  <2> QED BY <1>7, <2>5, <2>6, <2>7, <2>8, <2>9 DEF Placed
<1>9. CASE count[o] # 0
  <2>1. cont' = cont /\ retired' = [retired EXCEPT ![o] = a]
    BY <1>2, <1>9 DEF ReloadCommits
  <2>2. /\ retired' \in [Generations -> Containers \cup {None}]
        /\ retired'[o] = a
        /\ \A g \in Generations : g # o => retired'[g] = retired[g]
    BY <2>1 DEF Typed
  <2>3. Typed'
    BY <1>1, <1>3, <1>5, <2>1, <2>2, NoReloadType DEF Typed
  <2>4. Counted' /\ BusyCounted'
    BY <1>1, <1>6, <2>1, SamePins, SameRuns
  <2>5. ActivePlaced'
    BY <1>1, <1>3, <1>4, <2>1, <2>2 DEF ActivePlaced
  <2>6. RetiredPlaced'
    BY <1>1, <1>2, <1>3, <1>4, <2>1, <2>2 DEF Placed, RetiredPlaced
  <2>7. PinsPlaced'
    <3>1. SUFFICES ASSUME NEW r \in Requests, request[r].pc # "idle"
                   PROVE  retired'[cont[request[r].on].gen] = request[r].on
      BY <1>1, <2>1 DEF PinsPlaced
    <3>2. CASE request[r].on = a
      BY <1>2, <2>2, <3>2
    <3>3. CASE request[r].on # a
      <4>1. retired[cont[request[r].on].gen] = request[r].on
        BY <1>2, <3>1, <3>3 DEF Placed, PinsPlaced
      <4>2. cont[request[r].on].gen \in Generations /\ request[r].on # None
        BY <1>6, ContainersNat DEF Typed, ContType
      <4> QED BY <1>4, <2>2, <4>1, <4>2
    <3> QED BY <3>2, <3>3
  <2> QED BY <1>7, <2>3, <2>4, <2>5, <2>6, <2>7 DEF Placed
<1> QED BY <1>8, <1>9

-----------------------------------------------------------------------------
(* The end of the router.                                                  *)

LEMMA CloseQuiet ==
    ASSUME IInv, CloseBegin \/ CloseTimeout
    PROVE  IInv'
<1> USE DEF IInv
<1>1. /\ closed = "open" \/ closed = "closing"
      /\ closed' \in {"closing", "abandoned"}
      /\ UNCHANGED <<cont, built, active, count, retired, request, reload, host, told, pointer>>
  BY DEF CloseBegin, CloseTimeout
<1>2. Typed'
  BY <1>1 DEF Typed
<1>3. Counted' /\ BusyCounted'
  BY <1>1, SamePins, SameRuns
<1>4. ActivePlaced' /\ RetiredPlaced' /\ CandPlaced'
  BY <1>1 DEF Placed, ActivePlaced, RetiredPlaced, CandPlaced
<1>5. PinsPlaced'
  BY <1>1 DEF Placed, PinsPlaced
<1> QED BY <1>2, <1>3, <1>4, <1>5 DEF Placed

(* Nobody holds a container when the router closes. *)
LEMMA CloseDoneStep ==
    ASSUME IInv, CloseDone
    PROVE  IInv'
<1> USE DEF IInv
<1> DEFINE Ends(c) == c = active \/ \E g \in Generations : retired[g] = c
<1>1. /\ \A g \in Generations : count[g] = 0
      /\ closed' = "closed"
      /\ retired' = [g \in Generations |-> None]
      /\ UNCHANGED <<built, active, count, request, reload, host, told, pointer>>
  BY DEF CloseDone
<1>2. /\ cont' \in [Containers -> ContType]
      /\ \A d \in Containers : /\ cont'[d].gen = cont[d].gen
                               /\ cont'[d].busy = cont[d].busy
                               /\ ~Ends(d) => cont'[d].disposed = cont[d].disposed
  <2>1. cont \in [Containers -> ContType]
    BY DEF Typed
  <2>2. \A d \in Containers : cont[d] \in ContType
    BY <2>1
  <2>3. \A d \in Containers :
          LET e == [cont[d] EXCEPT !.gate = "fail_closed", !.disposed = TRUE] IN
          e \in ContType /\ e.gen = cont[d].gen /\ e.busy = cont[d].busy
    BY <2>2 DEF ContType, GateStates
  <2>4. cont' = [d \in Containers |->
                   IF Ends(d) THEN [cont[d] EXCEPT !.gate = "fail_closed", !.disposed = TRUE]
                              ELSE cont[d]]
    BY DEF CloseDone
  <2> HIDE DEF Ends
  <2> QED BY <2>2, <2>3, <2>4
<1>3. \A r \in Requests : request[r].pc = "idle"
  <2>1. SUFFICES ASSUME NEW r \in Requests, request[r].pc # "idle" PROVE FALSE
    OBVIOUS
  <2>2. PICK g \in Generations : r \in Pins(g)
    BY <2>1, HeldIsBuilt
  <2>3. Pins(g) \in SUBSET Requests /\ Cardinality(Pins(g)) = 0
    BY <1>1 DEF Counted, Pins
  <2> QED BY <2>2, <2>3, CountRemove
<1>4. Typed'
  BY <1>1, <1>2 DEF Typed
<1>5. Counted' /\ BusyCounted'
  BY <1>1, <1>2, <1>3, SamePins, SameRuns
<1>6. PinsPlaced'
  BY <1>1, <1>3 DEF PinsPlaced
<1>7. ActivePlaced' /\ RetiredPlaced'
  <2>1. active \in Containers /\ cont'[active].gen \in Generations
    BY <1>2 DEF Typed, ContType
  <2> QED BY <1>1, <2>1 DEF Placed, ActivePlaced, RetiredPlaced
<1>8. CandPlaced'
  <2>1. SUFFICES ASSUME reload.pc \in {"drain", "wait", "commit"}
                 PROVE  /\ reload.cand \in 1..built
                        /\ reload.cand # active
                        /\ reload.cand # None
                        /\ cont'[reload.cand].gen = reload.gen
                        /\ ~cont'[reload.cand].disposed
    BY <1>1 DEF CandPlaced
  <2>2. PICK x \in Containers : x = reload.cand
    BY <2>1, BuiltRange DEF Placed, CandPlaced
  <2>3. ~Ends(x)
    BY <2>1, <2>2 DEF Placed, CandPlaced
  <2> HIDE DEF Ends
  <2> QED BY <1>2, <2>1, <2>2, <2>3, ContainersNat DEF Placed, CandPlaced
<1> QED BY <1>4, <1>5, <1>6, <1>7, <1>8 DEF Placed

-----------------------------------------------------------------------------
(* The whole specification.                                                *)

LEMMA InitInv == Init => IInv
<1>1. SUFFICES ASSUME Init PROVE IInv
  OBVIOUS
<1>2. First \in Generations /\ 1 \in Containers
  BY HotReloadAssumption, ContainersNat
<1>3. /\ cont \in [Containers -> ContType]
      /\ \A c \in Containers : /\ cont[c].gen = First
                               /\ cont[c].busy = 0
                               /\ ~cont[c].disposed
  BY <1>1, <1>2, NewShape DEF Init
<1>4. /\ request \in ReqType /\ \A r \in Requests : request[r].pc = "idle"
      /\ host \in HostType
  BY <1>1, <1>2 DEF Init, ReqType, HostType, Idle, Commands
<1>5. pointer \in PointerType /\ reload \in ReloadType /\ reload.pc = "idle"
  BY <1>1, <1>2, NoReloadType DEF Init, PointerType
<1>6. Typed
  BY <1>1, <1>2, <1>3, <1>4, <1>5 DEF Init, Typed
<1>7. Placed
  BY <1>1, <1>2, <1>3, <1>4, <1>5
     DEF Init, Placed, ActivePlaced, RetiredPlaced, CandPlaced, PinsPlaced
<1>8. Counted
  <2>1. \A g \in Generations : Pins(g) = {} /\ count[g] = 0
    BY <1>1, <1>4 DEF Init, Pins
  <2> QED BY <2>1, FS_EmptySet DEF Counted
<1>9. BusyCounted
  <2>1. \A c \in Containers : Runs(c) = {}
    BY <1>4 DEF Runs
  <2> QED BY <1>3, <2>1, FS_EmptySet DEF BusyCounted
<1> QED BY <1>6, <1>7, <1>8, <1>9 DEF IInv

LEMMA StutterStep ==
    ASSUME IInv, UNCHANGED vars PROVE IInv'
<1>1. UNCHANGED <<cont, built, active, count, retired, closed, request, reload, host,
                  told, pointer>>
  BY DEF vars
<1>2. Typed'
  BY <1>1 DEF IInv, Typed
<1> QED BY <1>1, <1>2, SameGates, GatesKeep DEF IInv

LEMMA NextStep ==
    ASSUME IInv, Next PROVE IInv'
<1>1. CASE \E r \in Requests : Serve(r)
  BY <1>1, AcquireStep, GateStep, ReleaseStep DEF Serve
<1>2. CASE \E g \in Generations : Stage(g) \/ ReloadBegin(g)
  BY <1>2, QuietStep, ReloadQuiet
<1>3. CASE ClearTarget
  BY <1>3, QuietStep
<1>4. CASE ReloadStep
  BY <1>4, BuiltStep, ReloadQuiet, GiveUpStep, CommitStep DEF ReloadStep
<1>5. CASE \E h \in Handlers : Handle(h) \/ \E cmd \in Commands : Receive(h, cmd)
  BY <1>5, QuietStep, CommandStep DEF Handle
<1>6. CASE CloseBegin \/ CloseDone \/ CloseTimeout
  BY <1>6, CloseQuiet, CloseDoneStep
<1> QED BY <1>1, <1>2, <1>3, <1>4, <1>5, <1>6 DEF Next

LEMMA Invariance == Spec => []IInv
<1>1. IInv /\ [Next]_vars => IInv'
  BY NextStep, StutterStep
<1> QED BY InitInv, <1>1, PTL DEF Spec

(* Every container, gate, pin and command keeps its type, whatever requests, *)
(* control threads, generations and builds there are.                       *)
THEOREM TypeCorrect == Spec => []TypeOK
<1>1. IInv => TypeOK
  BY TypedParts DEF IInv
<1> QED BY Invariance, <1>1, PTL

(* The router never disposes a container under a request that pinned it     *)
(* (hot_reload.py), although it counts pins by generation: the count is the *)
(* number of pins because no generation has two containers in use.          *)
THEOREM PinsKeepAlive == Spec => []PinnedIsAlive
<1>1. IInv => PinnedIsAlive
  BY HeldIsBuilt DEF IInv, PinnedIsAlive
<1> QED BY Invariance, <1>1, PTL

-----------------------------------------------------------------------------
(* The served generation and the durable pointer.                          *)

(* A container keeps its generation: only its building gives it one. *)
LEMMA GenKept ==
    ASSUME IInv, [Next]_vars, ~ReloadBuilt, NEW c \in Containers
    PROVE  cont'[c].gen = cont[c].gen
<1>1. /\ cont \in [Containers -> ContType] /\ active \in Containers
      /\ \A d \in Containers : cont[d] \in ContType
  BY DEF IInv, Typed
<1>2. CASE UNCHANGED cont
  BY <1>2
<1>3. CASE \E x \in Containers, s \in GateStates : cont' = Gate(cont, x, s)
  BY <1>1, <1>3, GateShape
<1>4. CASE \E x \in Containers : cont' = Dispose(cont, x)
  BY <1>1, <1>4, DisposeShape
<1>5. CASE \E x \in Containers : cont' = Dispose(Gate(cont, active, "open"), x)
  <2>1. "open" \in GateStates
    BY DEF GateStates
  <2>2. PICK C \in [Containers -> ContType] :
           C = Gate(cont, active, "open") /\ \A d \in Containers : C[d].gen = cont[d].gen
    BY <1>1, <2>1, GateShape
  <2> QED BY <1>5, <2>2, DisposeShape
<1>6. CASE \E r \in Requests : Enter(r) \/ Leave(r)
  BY <1>1, <1>6 DEF Enter, Leave, ContType
<1>7. CASE CloseDone
  BY <1>1, <1>7 DEF CloseDone, ContType
<1>8. CASE \E r \in Requests : Release(r)
  <2>1. PICK r \in Requests : Release(r)
    BY <1>8
  <2>2. cont[request[r].on].gen \in Generations
    BY DEF IInv, Typed, ReqType, ContType
  <2>3. UNCHANGED cont \/ \E x \in Containers : cont' = Dispose(cont, x)
    BY <2>1, <2>2 DEF Release, IInv, Typed
  <2> QED BY <1>2, <1>4, <2>3
<1>9. CASE \E h \in Handlers : BeginDrain(h) \/ Resume(h) \/ FailClosed(h)
  <2>1. \A h \in Handlers : host[h].on \in Containers
    BY DEF IInv, Typed, HostType
  <2> QED BY <1>3, <1>9, <2>1 DEF BeginDrain, Resume, FailClosed, GateStates
<1>10. CASE ReloadStep
  <2>1. CASE ReloadBuildFails \/ ReloadIdle
    BY <1>2, <2>1 DEF ReloadBuildFails, ReloadIdle
  <2>2. CASE ReloadDrains
    BY <1>1, <1>3, <2>2 DEF ReloadDrains, GateStates
  <2>3. CASE ReloadCommits
    BY <1>1, <1>2, <1>4, <2>3 DEF ReloadCommits
  <2>4. CASE ReloadHandoffFails \/ ReloadDrainTimeout \/ ReloadCommitFails
    <3>1. reload.cand \in Containers
      BY <2>4, BuiltRange
         DEF IInv, Placed, CandPlaced, ReloadHandoffFails, ReloadDrainTimeout, ReloadCommitFails
    <3> QED BY <1>4, <1>5, <2>4, <3>1
            DEF ReloadHandoffFails, ReloadDrainTimeout, ReloadCommitFails, Abandon
  <2> QED BY <1>10, <2>1, <2>2, <2>3, <2>4 DEF ReloadStep
<1>11. CASE \/ UNCHANGED vars
            \/ \E r \in Requests : Acquire(r)
            \/ \E g \in Generations : Stage(g) \/ ReloadBegin(g)
            \/ ClearTarget \/ CloseBegin \/ CloseTimeout
            \/ \E h \in Handlers : \/ Drained(h) \/ DrainTimeout(h)
                                   \/ \E cmd \in Commands : Receive(h, cmd)
  BY <1>2, <1>11 DEF vars, Acquire, Stage, ReloadBegin, ClearTarget, CloseBegin,
                     CloseTimeout, Drained, DrainTimeout, Receive
<1> QED BY <1>6, <1>7, <1>8, <1>9, <1>10, <1>11 DEF Next, Serve, Handle

LEMMA ServedStep ==
    ASSUME Torn = FALSE, IInv, ServesCommitted, [Next]_vars
    PROVE  ServesCommitted'
<1> USE DEF IInv
<1>1. active \in Containers /\ cont \in [Containers -> ContType]
  BY DEF Typed
<1>2. CASE ReloadCommits
  <2>1. /\ active' = reload.cand /\ pointer'.active = reload.gen
        /\ reload.pc = "commit"
        /\ cont' = cont \/ cont' = Dispose(cont, active)
    BY <1>2 DEF ReloadCommits, Committed
  <2>2. reload.cand \in Containers /\ cont[reload.cand].gen = reload.gen
    BY <2>1, BuiltRange DEF Placed, CandPlaced
  <2>3. cont'[reload.cand].gen = reload.gen
    BY <1>1, <2>1, <2>2, DisposeShape
  <2> QED BY <2>1, <2>3 DEF ServesCommitted
<1>3. CASE ~ReloadCommits
  <2>1. active' = active /\ pointer'.active = pointer.active
    <3>1. pointer \in PointerType
      BY DEF Typed
    <3>2. CASE (\E g \in Generations : Stage(g)) \/ ClearTarget
      BY <3>1, <3>2 DEF Stage, ClearTarget, PointerType
    <3>3. CASE UNCHANGED vars
      BY <3>3 DEF vars
    <3>4. CASE (\E r \in Requests : Serve(r)) \/ (\E g \in Generations : ReloadBegin(g))
      BY <3>4 DEF Serve, Acquire, Enter, Leave, Release, ReloadBegin
    <3>5. CASE ReloadStep
      BY <1>3, <3>5
         DEF ReloadStep, ReloadBuilt, ReloadBuildFails, ReloadDrains, ReloadHandoffFails,
             ReloadIdle, ReloadDrainTimeout, ReloadCommitFails
    <3>6. CASE \E h \in Handlers : Handle(h) \/ \E cmd \in Commands : Receive(h, cmd)
      BY <3>6 DEF Handle, BeginDrain, Drained, DrainTimeout, Resume, FailClosed, Receive
    <3>7. CASE CloseBegin \/ CloseDone \/ CloseTimeout
      BY <3>7 DEF CloseBegin, CloseDone, CloseTimeout
    <3> QED BY <3>2, <3>3, <3>4, <3>5, <3>6, <3>7 DEF Next
  <2>2. cont'[active].gen = cont[active].gen
    <3>1. CASE ReloadBuilt
      <4>1. active # built + 1
        BY <1>1, ContainersNat DEF Typed, Placed, ActivePlaced
      <4> QED BY <1>1, <3>1, <4>1 DEF ReloadBuilt
    <3>2. CASE ~ReloadBuilt
      BY <1>1, <1>3, <3>2, GenKept
    <3> QED BY <3>1, <3>2
  <2> QED BY <2>1, <2>2 DEF ServesCommitted
<1> QED BY <1>2, <1>3

(* When the store's commit is not torn (its pointer is not written by a      *)
(* commit that raises), the process serves the generation the store names as *)
(* active, whichever step of whichever reload failed and however the control *)
(* commands came between.                                                    *)
THEOREM ServedIsCommitted ==
    ASSUME Torn = FALSE
    PROVE  Spec => []ServesCommitted
<1>1. Init => ServesCommitted
  BY ContainersNat DEF Init, ServesCommitted, NewContainer
<1>2. IInv /\ ServesCommitted /\ [Next]_vars => ServesCommitted'
  BY ServedStep
<1> QED BY Invariance, <1>1, <1>2, PTL DEF Spec

=============================================================================
