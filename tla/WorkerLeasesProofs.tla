-------------------------- MODULE WorkerLeasesProofs --------------------------
(***************************************************************************)
(* Proofs about the execution workers, their registry and the handoff, for *)
(* any number of worker ids, supervisor incarnations and faults.           *)
(***************************************************************************)
EXTENDS WorkerLeases, TLAPS

LeaseType == [st : LeaseStates, pid : BOOLEAN, group : BOOLEAN, token : BOOLEAN, owner : Owners]
BindType == [st : BindStates, token : BOOLEAN, owner : Owners]
ProcType == [st : ProcStates, sup : Owners]
SupType == [id : Owners, pc : SupStates, w : Workers \cup {0}, todo : SUBSET Concerns,
            blocked : BOOLEAN, permit : BOOLEAN]
RstType == [pc : RstStates, old : Owners, todo : SUBSET Concerns, blocked : BOOLEAN,
            plan : SUBSET (Workers \X LeaseType)]
EpochType == [st : {"open", "closing"}, permit : {"none", "fresh", "used"}]

RegTyped == /\ lease \in [Workers -> LeaseType]
            /\ bind \in [Workers -> BindType]
            /\ proc \in [Workers -> ProcType]

OneEach(S) == \A c, d \in S : c.w = d.w => c = d

Typed == /\ RegTyped
         /\ sup \in SupType /\ OneEach(sup.todo)
         /\ rst \in RstType /\ OneEach(rst.todo)
         /\ epoch \in EpochType
         /\ escaped \subseteq Workers
         /\ faults \in 0 .. MaxFaults

LEMMA TypedImplies == Typed => TypeOK
BY DEF Typed, RegTyped, OneEach, TypeOK, LeaseType, BindType, ProcType, SupType, RstType,
       EpochType

-----------------------------------------------------------------------------
(* The inductive invariant.                                                *)

(* The phases in which the supervisor registers a worker it has an intent  *)
(* for, and the ones in which it has none.                                 *)
Registers == {"popen", "pid", "ident", "bindput", "ready", "running"}
Waits == {"down", "boot", "pass", "spawn"}
Undecided == {"down", "boot", "pass", "closed"}

(* A worker that runs and did not escape. *)
AtLarge(w) == Alive(w) /\ w \notin escaped

SupPlaced ==
    /\ sup.pc # "down" => sup.id # 0
    /\ sup.pc \in Waits => sup.w = 0
    /\ sup.pc \notin Waits \cup {"up", "closed"} => sup.w # 0

(* The supervisor's own worker is its child and leaves the records to it. *)
OwnWorker ==
    sup.w # 0 /\ Alive(sup.w) =>
        proc[sup.w].sup = sup.id /\ proc[sup.w].st \in {"boot", "work"}

(* Nothing names a supervisor that still reconciles: it skips no worker. *)
Newcomer ==
    sup.pc \in {"boot", "pass"} =>
        /\ \A w \in Workers : /\ lease[w].owner # sup.id
                              /\ bind[w].owner # sup.id
                              /\ proc[w].sup # sup.id
        /\ \A c \in sup.todo : c.owner # sup.id

(* Once its pass has found nothing in the way, nobody else's worker runs. *)
Alone ==
    sup.pc \notin Undecided => \A w \in Workers : AtLarge(w) => w = sup.w

InPass ==
    sup.pc = "pass" =>
        \A w \in Workers : AtLarge(w) => sup.blocked \/ \E c \in sup.todo : c.w = w

(* A process no record names is the child of the supervisor that lives. *)
Unheard == \A w \in Workers : AtLarge(w) /\ ~Named(w) => w = sup.w

(* Its lease is REGISTERED or READY as long as the registration goes on. *)
Pending ==
    /\ sup.pc \in Registers => lease[sup.w].st \in FenceLease
    /\ sup.pc = "popen" => ~Alive(sup.w) /\ bind[sup.w].st # "terminal"

TerminalDead == \A w \in Workers : bind[w].st = "terminal" => ~Alive(w)

(* Behind the fence nobody is admitted, and after the second look at the   *)
(* registry nobody is in the middle of a registration.                     *)
Fenced ==
    /\ rst.pc \in {"fenced", "stop", "reclaim", "launch"} => ~sup.permit /\ epoch.st = "closing"
    /\ rst.pc \in {"fenced", "stop", "reclaim"} => epoch.permit = "none"
    /\ rst.pc \in {"stop", "reclaim", "launch"} => sup.pc \notin Registers

Covered ==
    /\ rst.pc = "reclaim" =>
          \A w \in Workers : AtLarge(w) /\ Named(w) => rst.blocked \/ \E c \in rst.todo : c.w = w
    /\ HandoffClean

Single == \A v, w \in Workers : AtLarge(v) /\ AtLarge(w) => v = w

IInv == /\ Typed
        /\ SupPlaced /\ OwnWorker /\ Newcomer
        /\ Alone /\ InPass /\ Unheard /\ Pending /\ TerminalDead
        /\ Fenced /\ Covered /\ Single

LEMMA SingleIs == Single => OneWorker
BY DEF Single, OneWorker, AtLarge

LEMMA NoZero == 0 \notin Workers /\ 0 \notin Supervisors
BY WorkerAssumption, SupervisorAssumption

LEMMA NoneTyped ==
    /\ NoLease \in LeaseType /\ NoLease.st = "history" /\ NoLease.owner = 0
    /\ NoBind \in BindType /\ NoBind.st = "none" /\ NoBind.owner = 0
    /\ NoProc \in ProcType /\ NoProc.st = "dead" /\ NoProc.sup = 0
    /\ NoSup \in SupType /\ OneEach(NoSup.todo) /\ NoSup.pc = "down" /\ NoSup.w = 0
    /\ NoSup.todo = {} /\ NoSup.permit = FALSE /\ NoSup.id = 0
    /\ NoRst \in RstType /\ OneEach(NoRst.todo) /\ NoRst.pc = "idle"
<1>1. NoLease \in LeaseType /\ NoLease.st = "history" /\ NoLease.owner = 0
  BY DEF NoLease, LeaseType, LeaseStates, Owners
<1>2. NoBind \in BindType /\ NoBind.st = "none" /\ NoBind.owner = 0
  BY DEF NoBind, BindType, BindStates, Owners
<1>3. NoProc \in ProcType /\ NoProc.st = "dead" /\ NoProc.sup = 0
  BY DEF NoProc, ProcType, ProcStates, Owners
<1>4. /\ NoSup \in SupType /\ OneEach(NoSup.todo) /\ NoSup.pc = "down" /\ NoSup.w = 0
      /\ NoSup.todo = {} /\ NoSup.permit = FALSE /\ NoSup.id = 0
  BY DEF NoSup, SupType, SupStates, Owners, OneEach
<1>5. NoRst \in RstType /\ OneEach(NoRst.todo) /\ NoRst.pc = "idle"
  BY DEF NoRst, RstType, RstStates, Owners, OneEach
<1> QED BY <1>1, <1>2, <1>3, <1>4, <1>5

-----------------------------------------------------------------------------
(* What a pass lists.                                                      *)

LEMMA ListedTyped ==
    ASSUME RegTyped
    PROVE  /\ Listed \subseteq Concerns /\ OneEach(Listed)
           /\ \A c \in Listed : \E w \in Workers :
                 c.w = w /\ (c.owner = lease[w].owner \/ c.owner = bind[w].owner)
           /\ \A w \in Workers : Named(w) => \E c \in Listed : c.w = w
<1>1. \A w \in Workers : lease[w] \in LeaseType /\ bind[w] \in BindType
  BY DEF RegTyped
<1>2. \A w \in Workers :
        /\ Concern(w) \in Concerns /\ Concern(w).w = w
        /\ Concern(w).owner = lease[w].owner \/ Concern(w).owner = bind[w].owner
  BY <1>1 DEF Concern, Concerns, LeaseType, BindType
<1>3. \A c \in Listed : \E w \in Workers : c = Concern(w)
  BY DEF Listed
<1>4. \A w \in Workers : Named(w) => Concern(w) \in Listed
  BY DEF Listed
<1>5. Listed \subseteq Concerns /\ OneEach(Listed)
  BY <1>2, <1>3 DEF OneEach
<1>6. \A c \in Listed : \E w \in Workers :
          c.w = w /\ (c.owner = lease[w].owner \/ c.owner = bind[w].owner)
  BY <1>2, <1>3
<1>7. \A w \in Workers : Named(w) => \E c \in Listed : c.w = w
  BY <1>2, <1>4
<1> QED BY <1>5, <1>6, <1>7

-----------------------------------------------------------------------------
(* Steps that name nobody and start nobody.                                *)

(* The registry loses owners and processes; a worker that is left alive is *)
(* named as before.                                                        *)
RegKept ==
    /\ RegTyped'
    /\ \A w \in Workers :
          /\ lease'[w].owner \in {0, lease[w].owner}
          /\ bind'[w].owner \in {0, bind[w].owner}
          /\ proc'[w] \in {proc[w], NoProc}
          /\ Alive(w)' => (Named(w)' <=> Named(w))
          /\ bind'[w].st = "terminal" => ~Alive(w)'

LEMMA AliveKept ==
    ASSUME RegKept, escaped \subseteq escaped', NEW w \in Workers
    PROVE  /\ Alive(w)' => Alive(w) /\ proc'[w] = proc[w]
           /\ AtLarge(w)' => AtLarge(w) /\ (Named(w)' <=> Named(w))
<1>1. Alive(w)' => Alive(w) /\ proc'[w] = proc[w]
  BY NoneTyped DEF RegKept, Alive
<1> QED BY <1>1 DEF RegKept, AtLarge

LEMMA RegSame ==
    ASSUME Typed, TerminalDead, UNCHANGED <<lease, bind, proc>>
    PROVE  RegKept
<1>1. RegTyped'
  BY DEF Typed, RegTyped
<1>2. \A w \in Workers : (Named(w)' <=> Named(w)) /\ (Alive(w)' <=> Alive(w))
  BY DEF Named, Alive
<1> QED BY <1>1, <1>2 DEF RegKept, TerminalDead

(* What such a step keeps of the invariant, by what it does to the         *)
(* supervisor and to the restarter.                                        *)
LEMMA Keep ==
    ASSUME IInv, RegKept, escaped \subseteq escaped'
    PROVE  /\ Single' /\ TerminalDead'
           /\ sup'.w = sup.w => Unheard'
           /\ sup'.w = sup.w /\ sup'.id = sup.id => OwnWorker'
           /\ sup'.w = sup.w /\ (sup'.pc \notin Undecided => sup.pc \notin Undecided) => Alone'
           /\ (sup'.pc = "pass" => /\ sup.pc = "pass"
                                   /\ sup'.todo = sup.todo /\ sup'.blocked = sup.blocked) => InPass'
           /\ (sup'.pc \in {"boot", "pass"} => /\ sup.pc \in {"boot", "pass"}
                                               /\ sup'.id = sup.id
                                               /\ sup'.todo \subseteq sup.todo) => Newcomer'
           /\ /\ rst'.pc = "launch" => rst.pc = "launch"
              /\ rst'.pc = "reclaim" => /\ rst.pc = "reclaim"
                                        /\ rst'.todo = rst.todo /\ rst'.blocked = rst.blocked
              => Covered'
<1> USE DEF IInv
<1>1. \A w \in Workers : /\ Alive(w)' => Alive(w) /\ proc'[w] = proc[w]
                         /\ AtLarge(w)' => AtLarge(w) /\ (Named(w)' <=> Named(w))
  BY AliveKept
<1>2. Single'
  BY <1>1 DEF Single
<1>3. TerminalDead'
  BY DEF RegKept, TerminalDead
<1>4. sup'.w = sup.w => Unheard'
  BY <1>1 DEF Unheard
<1>5. sup'.w = sup.w /\ sup'.id = sup.id => OwnWorker'
  <2>1. sup.w \in Workers \cup {0}
    BY DEF Typed, SupType
  <2> QED BY <1>1, <2>1 DEF OwnWorker
<1>6. sup'.w = sup.w /\ (sup'.pc \notin Undecided => sup.pc \notin Undecided) => Alone'
  BY <1>1 DEF Alone
<1>7. (sup'.pc = "pass" => /\ sup.pc = "pass"
                           /\ sup'.todo = sup.todo /\ sup'.blocked = sup.blocked) => InPass'
  BY <1>1 DEF InPass
<1>8. (sup'.pc \in {"boot", "pass"} => /\ sup.pc \in {"boot", "pass"}
                                       /\ sup'.id = sup.id
                                       /\ sup'.todo \subseteq sup.todo) => Newcomer'
  <2>1. \A w \in Workers : proc'[w].sup \in {0, proc[w].sup}
    BY NoneTyped DEF RegKept
  <2>2. sup.pc \in {"boot", "pass"} => sup.id # 0
    BY DEF SupPlaced
  <2> QED BY <2>1, <2>2 DEF RegKept, Newcomer
<1>9. /\ rst'.pc = "launch" => rst.pc = "launch"
      /\ rst'.pc = "reclaim" => /\ rst.pc = "reclaim"
                                /\ rst'.todo = rst.todo /\ rst'.blocked = rst.blocked
      => Covered'
  BY <1>1 DEF Covered, HandoffClean, AtLarge
<1> QED BY <1>2, <1>3, <1>4, <1>5, <1>6, <1>7, <1>8, <1>9

-----------------------------------------------------------------------------
(* One worker of a reconciliation.                                         *)

Outcomes == Terminal \cup {"survived_kill", "refused_unproven"}

LEMMA FaultTyped ==
    ASSUME faults \in 0 .. MaxFaults, Fault \/ UNCHANGED faults
    PROVE  faults' \in 0 .. MaxFaults
BY FaultAssumption DEF Fault

LEMMA LeaseAfterShape ==
    ASSUME NEW l \in LeaseType, NEW o \in Outcomes
    PROVE  /\ LeaseAfter(l, o) \in LeaseType
           /\ LeaseAfter(l, o).owner \in {0, l.owner}
           /\ o \notin Terminal =>
                 /\ LeaseAfter(l, o).pid = l.pid
                 /\ LeaseAfter(l, o).st \in ActiveLease <=> l.st \in ActiveLease
<1>1. CASE LeaseAfter(l, o) = NoLease /\ o \in Terminal
  BY <1>1, NoneTyped
<1>2. CASE l.st \in {"running", "terminating"} /\ LeaseAfter(l, o) = [l EXCEPT !.st = "killed"]
  <2>1. l.st \in ActiveLease
    BY <1>2 DEF LeaseStates, ActiveLease
  <2> QED BY <1>2, <2>1 DEF LeaseType, LeaseStates, ActiveLease
<1>3. CASE l.st \in {"ready", "running"} /\ LeaseAfter(l, o) = [l EXCEPT !.st = "unproven"]
  <2>1. l.st \in ActiveLease
    BY <1>3 DEF LeaseStates, ActiveLease
  <2> QED BY <1>3, <2>1 DEF LeaseType, LeaseStates, ActiveLease
<1>4. CASE LeaseAfter(l, o) = l
  BY <1>4 DEF LeaseType
<1> QED BY <1>1, <1>2, <1>3, <1>4 DEF LeaseAfter

LEMMA BindAfterShape ==
    ASSUME NEW b \in BindType, NEW o \in Outcomes
    PROVE  /\ BindAfter(b, o) \in BindType
           /\ BindAfter(b, o).owner \in {0, b.owner}
           /\ BindAfter(b, o).st # "terminal"
           /\ o \notin Terminal =>
                 /\ b.st \in ActiveBind => BindAfter(b, o).st \in ActiveBind
                 /\ BindAfter(b, o).st \in ActiveBind => b.st # "none"
<1>1. CASE b.st = "none"
  <2>1. BindAfter(b, o) = b
    BY <1>1 DEF BindAfter
  <2>2. b.st # "terminal" /\ b.st \notin ActiveBind
    BY <1>1 DEF ActiveBind
  <2> QED BY <2>1, <2>2
<1>2. CASE b.st # "none" /\ o \in Terminal
  <2>1. BindAfter(b, o) = NoBind
    BY <1>2 DEF BindAfter
  <2>2. NoBind.st # "terminal" /\ NoBind.st \notin ActiveBind
    BY NoneTyped DEF ActiveBind
  <2> QED BY <1>2, <2>1, <2>2, NoneTyped
<1>3. CASE b.st # "none" /\ o \notin Terminal
  <2>1. o \in {"survived_kill", "refused_unproven"}
    BY <1>3 DEF Outcomes
  <2>2. BindAfter(b, o) = [b EXCEPT !.st = o]
    BY <1>3 DEF BindAfter
  <2> QED BY <1>3, <2>1, <2>2 DEF BindType, BindStates, ActiveBind
<1> QED BY <1>1, <1>2, <1>3

(* A binding that is not active and not "none" is terminal. *)
LEMMA BindCases ==
    ASSUME NEW b \in BindType PROVE b.st \in ActiveBind \/ b.st = "none" \/ b.st = "terminal"
BY DEF BindType, BindStates

LEMMA ReconciledKeeps ==
    ASSUME Typed, TerminalDead, NEW c \in Concerns, NEW o \in Outcomes, Reconciled(c, o)
    PROVE  /\ RegKept
           /\ faults' \in 0 .. MaxFaults
           /\ o \in Terminal => ~Alive(c.w)'
<1>1. PICK x \in Workers : x = c.w
  BY DEF Concerns
<1>2. /\ lease \in [Workers -> LeaseType] /\ lease[x] \in LeaseType
      /\ bind \in [Workers -> BindType] /\ bind[x] \in BindType
      /\ proc \in [Workers -> ProcType] /\ proc[x] \in ProcType
      /\ faults \in 0 .. MaxFaults
  BY DEF Typed, RegTyped
<1>3. /\ lease' = [lease EXCEPT ![x] = LeaseAfter(lease[x], o)]
      /\ bind' = [bind EXCEPT ![x] = BindAfter(bind[x], o)]
      /\ proc' = [proc EXCEPT ![x] = IF o = "reclaimed" THEN NoProc ELSE proc[x]]
  BY <1>1, <1>2 DEF Reconciled
<1>4. /\ RegTyped'
      /\ lease'[x] = LeaseAfter(lease[x], o)
      /\ bind'[x] = BindAfter(bind[x], o)
      /\ proc'[x] = IF o = "reclaimed" THEN NoProc ELSE proc[x]
      /\ \A w \in Workers : w # x =>
            lease'[w] = lease[w] /\ bind'[w] = bind[w] /\ proc'[w] = proc[w]
  BY <1>2, <1>3, LeaseAfterShape, BindAfterShape, NoneTyped DEF RegTyped
<1>5. o \in Terminal => ~Alive(x)'
  <2>1. CASE o = "reclaimed"
    BY <1>4, <2>1, NoneTyped DEF Alive
  <2>2. CASE o = "already_gone"
    <3>1. ~Alive(x)
      BY <1>1, <2>2 DEF Reconciled, Outcome, ProvablyGone
    <3> QED BY <1>4, <2>2, <3>1 DEF Alive
  <2> QED BY <2>1, <2>2 DEF Terminal
<1>6. Alive(x)' => (Named(x)' <=> Named(x)) /\ Alive(x)
  <2>1. SUFFICES ASSUME Alive(x)' PROVE (Named(x)' <=> Named(x)) /\ Alive(x)
    OBVIOUS
  <2>2. o \notin Terminal /\ Alive(x)
    BY <1>4, <1>5, <2>1, NoneTyped DEF Alive
  <2>3. bind[x].st # "terminal"
    BY <2>2 DEF TerminalDead
  <2>4. bind'[x].st \in ActiveBind <=> bind[x].st \in ActiveBind
    BY <1>2, <1>4, <2>2, <2>3, BindAfterShape, BindCases
  <2>5. /\ lease'[x].pid = lease[x].pid
        /\ lease'[x].st \in ActiveLease <=> lease[x].st \in ActiveLease
    BY <1>2, <1>4, <2>2, LeaseAfterShape
  <2> QED BY <2>2, <2>4, <2>5 DEF Named
<1>7. RegKept
  <2>1. \A w \in Workers : w # x => (Named(w)' <=> Named(w)) /\ (Alive(w)' <=> Alive(w))
    BY <1>4 DEF Named, Alive
  <2>2. \A w \in Workers : w # x => (bind'[w].st = "terminal" => ~Alive(w)')
    BY <1>4, <2>1 DEF TerminalDead
  <2>3. lease'[x].owner \in {0, lease[x].owner} /\ bind'[x].owner \in {0, bind[x].owner}
        /\ bind'[x].st # "terminal"
    BY <1>2, <1>4, LeaseAfterShape, BindAfterShape
  <2>4. proc'[x] \in {proc[x], NoProc}
    BY <1>4
  <2> QED BY <1>4, <1>6, <2>1, <2>2, <2>3, <2>4 DEF RegKept
<1>8. faults' \in 0 .. MaxFaults
  BY <1>2, FaultTyped DEF Reconciled, Outcome
<1> QED BY <1>1, <1>5, <1>7, <1>8

LEMMA TornKeeps ==
    ASSUME Typed, TerminalDead, NEW c \in Concerns, ReconciledTorn(c)
    PROVE  RegKept
<1>1. PICK x \in Workers : x = c.w
  BY DEF Concerns
<1>2. /\ lease \in [Workers -> LeaseType] /\ lease[x] \in LeaseType
      /\ bind \in [Workers -> BindType] /\ bind[x] \in BindType
      /\ proc \in [Workers -> ProcType]
  BY DEF Typed, RegTyped
<1>3. PICK l \in LeaseType, b \in BindType :
        /\ l.owner \in {0, lease[x].owner} /\ b.owner \in {0, bind[x].owner}
        /\ lease' = [lease EXCEPT ![x] = l]
        /\ bind' = [bind EXCEPT ![x] = b]
        /\ proc' = [proc EXCEPT ![x] = NoProc]
  <2>1. "reclaimed" \in Outcomes
    BY DEF Outcomes, Terminal
  <2>2. LeaseAfter(lease[x], "reclaimed") \in LeaseType
        /\ LeaseAfter(lease[x], "reclaimed").owner \in {0, lease[x].owner}
    BY <1>2, <2>1, LeaseAfterShape
  <2>3. [lease[x] EXCEPT !.st = "terminating"] \in LeaseType
        /\ [lease[x] EXCEPT !.st = "terminating"].owner = lease[x].owner
    BY <1>2 DEF LeaseType, LeaseStates
  <2>4. [NoBind EXCEPT !.st = "terminal"] \in BindType
        /\ [NoBind EXCEPT !.st = "terminal"].owner = 0
    BY DEF NoBind, BindType, BindStates, Owners
  <2>5. bind = [bind EXCEPT ![x] = bind[x]]
    BY <1>2
  <2>6. CASE lease' = [lease EXCEPT ![x].st = "terminating"] /\ bind' = bind
             /\ proc' = [proc EXCEPT ![x] = NoProc]
    BY <1>2, <2>3, <2>5, <2>6
  <2>7. CASE lease' = [lease EXCEPT ![x] = LeaseAfter(lease[x], "reclaimed")]
             /\ (bind' = bind \/ bind' = [bind EXCEPT ![x] = [NoBind EXCEPT !.st = "terminal"]])
             /\ proc' = [proc EXCEPT ![x] = NoProc]
    BY <1>2, <2>2, <2>4, <2>5, <2>7
  <2> QED BY <1>1, <1>2, <2>6, <2>7 DEF ReconciledTorn
<1>4. /\ RegTyped'
      /\ lease'[x] = l /\ bind'[x] = b /\ proc'[x] = NoProc
      /\ \A w \in Workers : w # x =>
            lease'[w] = lease[w] /\ bind'[w] = bind[w] /\ proc'[w] = proc[w]
  BY <1>2, <1>3, NoneTyped DEF RegTyped
<1>5. ~Alive(x)'
  BY <1>4, NoneTyped DEF Alive
<1>6. \A w \in Workers : w # x => (Named(w)' <=> Named(w)) /\ (Alive(w)' <=> Alive(w))
  BY <1>4 DEF Named, Alive
<1>7. \A w \in Workers : bind'[w].st = "terminal" => ~Alive(w)'
  BY <1>4, <1>5, <1>6 DEF TerminalDead
<1> QED BY <1>3, <1>4, <1>5, <1>6, <1>7 DEF RegKept

-----------------------------------------------------------------------------
(* Steps of the restarter: the supervisor goes on as it was.               *)

SupSame == /\ sup' \in SupType
           /\ sup'.pc = sup.pc /\ sup'.id = sup.id /\ sup'.w = sup.w
           /\ sup'.todo = sup.todo /\ sup'.blocked = sup.blocked

SupParts == SupPlaced /\ OwnWorker /\ Newcomer /\ Alone /\ InPass /\ Unheard /\ Pending
            /\ TerminalDead /\ Single

LEMMA SupKept ==
    ASSUME IInv, RegKept, SupSame, escaped \subseteq escaped',
           sup.pc \in Registers => UNCHANGED <<lease, bind, proc>>
    PROVE  SupParts'
<1>1. OwnWorker' /\ Newcomer' /\ Alone' /\ InPass' /\ Unheard' /\ TerminalDead' /\ Single'
  BY Keep DEF SupSame
<1>2. SupPlaced'
  BY DEF IInv, SupPlaced, SupSame
<1>3. Pending'
  BY DEF IInv, Pending, SupSame, Registers, Alive
<1> QED BY <1>1, <1>2, <1>3 DEF SupParts

LEMMA SupSameTrivial == ASSUME Typed, UNCHANGED sup PROVE SupSame
BY DEF Typed, SupSame

LEMMA PartsMake ==
    ASSUME SupParts, Typed, Fenced, Covered PROVE IInv
BY DEF SupParts, IInv

(* The steps that leave the registry and the processes alone. *)
LEMMA RestarterQuiet ==
    ASSUME IInv, UNCHANGED <<lease, bind, proc, escaped>>, SupSame,
           faults' \in 0 .. MaxFaults, epoch' \in EpochType,
           rst' \in RstType, OneEach(rst'.todo)
    PROVE  /\ Typed' /\ SupParts'
           /\ rst'.pc \notin {"reclaim", "launch"} => Covered'
           /\ rst'.pc \notin {"fenced", "stop", "reclaim", "launch"} => Fenced'
<1>1. RegKept
  BY RegSame DEF IInv
<1>2. SupParts'
  BY <1>1, SupKept
<1>3. Typed'
  BY <1>1 DEF IInv, Typed, RegKept, SupSame
<1>4. rst'.pc \notin {"reclaim", "launch"} => Covered'
  BY <1>1, Keep
<1>5. rst'.pc \notin {"fenced", "stop", "reclaim", "launch"} => Fenced'
  BY DEF Fenced
<1> QED BY <1>2, <1>3, <1>4, <1>5

LEMMA StutterStep == ASSUME IInv, UNCHANGED vars PROVE IInv'
<1>1. UNCHANGED <<lease, bind, proc, escaped>> /\ UNCHANGED <<sup, rst, epoch, faults>>
  BY DEF vars
<1>2. SupSame
  BY <1>1, SupSameTrivial DEF IInv
<1>3. /\ faults' \in 0 .. MaxFaults /\ epoch' \in EpochType
      /\ rst' \in RstType /\ OneEach(rst'.todo)
  BY <1>1 DEF IInv, Typed
<1>4. Typed' /\ SupParts'
  BY <1>1, <1>2, <1>3, RestarterQuiet
<1>5. RegKept
  BY <1>1, RegSame DEF IInv
<1>6. Covered'
  BY <1>1, <1>5, Keep
<1>7. Fenced'
  BY <1>1 DEF IInv, Fenced
<1> QED BY <1>4, <1>6, <1>7, PartsMake DEF IInv, SupParts

(* A handoff that is given up or over: the epoch is open again. *)
LEMMA ReopenedStep ==
    ASSUME IInv, Reopened, UNCHANGED <<lease, bind, proc, escaped, sup>>,
           faults' \in 0 .. MaxFaults
    PROVE  IInv'
<1>1. epoch' \in EpochType /\ rst' = NoRst
  BY DEF Reopened, EpochType
<1>2. SupSame
  BY SupSameTrivial DEF IInv
<1>3. Typed' /\ SupParts' /\ Covered' /\ Fenced'
  BY <1>1, <1>2, NoneTyped, RestarterQuiet
<1> QED BY <1>3 DEF IInv, SupParts

LEMMA PlanStep == ASSUME IInv, Plan PROVE IInv'
<1>1. UNCHANGED <<lease, bind, proc, escaped>> /\ UNCHANGED <<sup, epoch, faults>>
  BY DEF Plan, registry
<1>2. SupSame
  BY <1>1, SupSameTrivial DEF IInv
<1>3. Digest \in SUBSET (Workers \X LeaseType)
  BY DEF IInv, Typed, RegTyped, Digest
<1>4. rst' \in RstType /\ rst'.todo = {} /\ rst'.pc = "planned"
  <2>1. sup.id \in Owners
    BY DEF IInv, Typed, SupType
  <2> QED BY <1>3, <2>1 DEF Plan, NoRst, RstType, RstStates
<1>5. faults' \in 0 .. MaxFaults /\ epoch' \in EpochType /\ OneEach(rst'.todo)
  BY <1>1, <1>4 DEF IInv, Typed, OneEach
<1>6. Typed' /\ SupParts' /\ Covered' /\ Fenced'
  BY <1>1, <1>2, <1>4, <1>5, RestarterQuiet
<1> QED BY <1>6 DEF IInv, SupParts

LEMMA FenceStep == ASSUME IInv, Fence PROVE IInv'
<1>1. UNCHANGED <<lease, bind, proc, escaped>> /\ UNCHANGED faults
  BY DEF Fence, registry
<1>2. SupSame /\ ~sup'.permit
  BY DEF IInv, Typed, SupType, Fence, SupSame
<1>3. rst' \in RstType /\ rst'.todo = rst.todo /\ rst'.pc = "fenced"
  BY DEF IInv, Typed, RstType, Fence, Phase, RstStates
<1>4. epoch' \in EpochType /\ epoch'.st = "closing" /\ epoch'.permit = "none"
  BY DEF Fence, EpochType
<1>5. faults' \in 0 .. MaxFaults /\ OneEach(rst'.todo)
  BY <1>1, <1>3 DEF IInv, Typed
<1>6. Typed' /\ SupParts' /\ Covered'
  BY <1>1, <1>2, <1>3, <1>4, <1>5, RestarterQuiet
<1>7. Fenced'
  BY <1>2, <1>3, <1>4 DEF Fenced
<1> QED BY <1>6, <1>7 DEF IInv, SupParts

(* A registration that is under way shows as an incomplete lease. *)
LEMMA VerifyStep == ASSUME IInv, Verify PROVE IInv'
<1>1. UNCHANGED <<lease, bind, proc, escaped>> /\ UNCHANGED <<sup, faults>> /\ rst.pc = "fenced"
  BY DEF Verify, registry
<1>2. faults' \in 0 .. MaxFaults
  BY <1>1 DEF IInv, Typed
<1>3. CASE Reopened
  BY <1>1, <1>2, <1>3, ReopenedStep
<1>4. CASE ~Reopened
  <2>1. /\ rst' = [rst EXCEPT !.pc = "stop", !.plan = {}] /\ UNCHANGED epoch
        /\ Incomplete = {}
    BY <1>4 DEF Verify, GateRefuses
  <2>2. rst' \in RstType /\ rst'.todo = rst.todo /\ rst'.pc = "stop"
    BY <2>1 DEF IInv, Typed, RstType, RstStates
  <2>3. epoch' \in EpochType /\ OneEach(rst'.todo)
    BY <2>1, <2>2 DEF IInv, Typed
  <2>4. SupSame
    BY <1>1, SupSameTrivial DEF IInv
  <2>5. Typed' /\ SupParts' /\ Covered'
    BY <1>1, <1>2, <2>2, <2>3, <2>4, RestarterQuiet
  <2>6. sup.pc \notin Registers
    <3>1. \A w \in Workers : lease[w].st \notin FenceLease
      BY <2>1 DEF Incomplete
    <3>2. sup.pc \in Registers => sup.w \in Workers
      BY DEF IInv, Typed, SupType, SupPlaced, Registers, Waits
    <3> QED BY <3>1, <3>2 DEF IInv, Pending
  <2>7. Fenced'
    BY <1>1, <2>1, <2>2, <2>6 DEF IInv, Fenced
  <2> QED BY <2>5, <2>7 DEF IInv, SupParts
<1> QED BY <1>3, <1>4

LEMMA EndReclaimStep == ASSUME IInv, EndReclaim PROVE IInv'
<1>1. /\ UNCHANGED <<lease, bind, proc, escaped>> /\ UNCHANGED <<sup, faults>>
      /\ rst.pc = "reclaim" /\ rst.todo = {}
  BY DEF EndReclaim, registry
<1>2. faults' \in 0 .. MaxFaults
  BY <1>1 DEF IInv, Typed
<1>3. CASE Reopened
  BY <1>1, <1>2, <1>3, ReopenedStep
<1>4. CASE ~Reopened
  <2>1. /\ rst' = [rst EXCEPT !.pc = "launch"]
        /\ epoch' = [epoch EXCEPT !.permit = "fresh"]
        /\ ~rst.blocked
    BY <1>4 DEF EndReclaim, Phase
  <2>2. rst' \in RstType /\ rst'.todo = rst.todo /\ rst'.pc = "launch"
    BY <2>1 DEF IInv, Typed, RstType, RstStates
  <2>3. epoch' \in EpochType /\ epoch'.st = epoch.st /\ OneEach(rst'.todo)
    BY <2>1, <2>2 DEF IInv, Typed, EpochType
  <2>4. SupSame
    BY <1>1, SupSameTrivial DEF IInv
  <2>5. Typed' /\ SupParts'
    BY <1>1, <1>2, <2>2, <2>3, <2>4, RestarterQuiet
  <2>6. Covered'
    <3>1. \A w \in Workers : ~(AtLarge(w) /\ Named(w))
      BY <1>1, <2>1 DEF IInv, Covered
    <3> QED BY <1>1, <2>2, <3>1 DEF Covered, HandoffClean, AtLarge, Alive, Named
  <2>7. Fenced'
    BY <1>1, <2>2, <2>3 DEF IInv, Fenced
  <2> QED BY <2>5, <2>6, <2>7 DEF IInv, SupParts
<1> QED BY <1>3, <1>4

LEMMA ReopenStep == ASSUME IInv, Reopen PROVE IInv'
<1>1. faults' \in 0 .. MaxFaults
  BY DEF Reopen, IInv, Typed
<1> QED BY <1>1, ReopenedStep DEF Reopen, registry

LEMMA CollectedKeeps ==
    ASSUME Typed, TerminalDead, bind' = Collected, UNCHANGED <<lease, proc>>
    PROVE  RegKept
<1>1. bind \in [Workers -> BindType]
  BY DEF Typed, RegTyped
<1>2. \A w \in Workers : bind'[w] = IF bind[w].st = "terminal" THEN NoBind ELSE bind[w]
  BY DEF Collected
<1>3. bind' \in [Workers -> BindType]
  BY <1>1, NoneTyped DEF Collected
<1>4. RegTyped'
  BY <1>3 DEF Typed, RegTyped
<1>5. \A w \in Workers : (Named(w)' <=> Named(w)) /\ (Alive(w)' <=> Alive(w))
  <2>1. \A w \in Workers : bind'[w].st \in ActiveBind <=> bind[w].st \in ActiveBind
    BY <1>2, NoneTyped DEF ActiveBind
  <2> QED BY <2>1 DEF Named, Alive
<1>6. \A w \in Workers : bind'[w].owner \in {0, bind[w].owner} /\ bind'[w].st # "terminal"
  BY <1>2, NoneTyped
<1> QED BY <1>4, <1>5, <1>6 DEF RegKept

(* Every worker that is named is on the list when the reclaim begins. *)
LEMMA ListDepartingStep == ASSUME IInv, ListDeparting PROVE IInv'
<1>1. /\ UNCHANGED <<lease, proc>> /\ UNCHANGED <<sup, epoch, escaped, faults>>
      /\ bind' = Collected /\ rst.pc = "stop"
  BY DEF ListDeparting
<1>2. RegKept
  BY <1>1, CollectedKeeps DEF IInv
<1>3. SupSame /\ sup.pc \notin Registers
  BY <1>1, SupSameTrivial DEF IInv, Fenced
<1>4. SupParts'
  BY <1>1, <1>2, <1>3, SupKept
<1>5. /\ Listed \subseteq Concerns /\ OneEach(Listed)
      /\ \A w \in Workers : Named(w) => \E c \in Listed : c.w = w
  BY ListedTyped DEF IInv, Typed
<1>6. rst' \in RstType /\ rst'.todo = Listed /\ rst'.pc = "reclaim"
  BY <1>5 DEF IInv, Typed, RstType, RstStates, ListDeparting, Owners
<1>7. Typed'
  BY <1>1, <1>2, <1>3, <1>5, <1>6 DEF IInv, Typed, RegKept
<1>8. Covered'
  <2>1. \A w \in Workers : AtLarge(w)' => (Named(w)' <=> Named(w))
    BY <1>1, <1>2, AliveKept
  <2> QED BY <1>5, <1>6, <2>1 DEF Covered, HandoffClean
<1>9. Fenced'
  BY <1>1, <1>3, <1>6 DEF IInv, Fenced
<1> QED BY <1>4, <1>7, <1>8, <1>9 DEF IInv, SupParts

(* Nothing on the list is passed over: it is dead, or it blocks the launch. *)
LEMMA ReclaimOneStep ==
    ASSUME IInv, NEW c \in rst.todo, ReclaimOne(c) PROVE IInv'
<1>1. UNCHANGED <<sup, epoch, escaped>> /\ rst.pc = "reclaim"
  BY DEF ReclaimOne
<1>2. c \in Concerns /\ rst.todo \subseteq Concerns
  BY DEF IInv, Typed, RstType
<1>3. PICK b \in BOOLEAN :
        /\ rst' = [rst EXCEPT !.todo = rst.todo \ {c}, !.blocked = b]
        /\ rst.blocked => b
        /\ RegKept /\ faults' \in 0 .. MaxFaults
        /\ b \/ ~Alive(c.w)'
  <2>1. CASE StillOwned(c, TRUE)
    <3>1. UNCHANGED <<lease, bind, proc>> /\ UNCHANGED faults
          /\ rst' = [rst EXCEPT !.todo = rst.todo \ {c}, !.blocked = TRUE]
      BY <2>1 DEF ReclaimOne, registry
    <3>2. RegKept /\ faults' \in 0 .. MaxFaults
      BY <3>1, RegSame DEF IInv, Typed
    <3> QED BY <3>1, <3>2
  <2>2. CASE ~StillOwned(c, TRUE)
    <3>1. PICK o \in Outcomes :
             /\ Reconciled(c, o)
             /\ rst' = [rst EXCEPT !.todo = rst.todo \ {c},
                                   !.blocked = rst.blocked \/ o \notin Terminal]
      BY <2>2 DEF ReclaimOne, Outcomes
    <3>2. RegKept /\ faults' \in 0 .. MaxFaults /\ (o \in Terminal => ~Alive(c.w)')
      BY <1>2, <3>1, ReconciledKeeps DEF IInv
    <3>3. (rst.blocked \/ o \notin Terminal) \in BOOLEAN
      OBVIOUS
    <3> QED BY <3>1, <3>2, <3>3
  <2> QED BY <2>1, <2>2
<1>4. SupSame /\ sup.pc \notin Registers
  BY <1>1, SupSameTrivial DEF IInv, Fenced
<1>5. SupParts'
  BY <1>1, <1>3, <1>4, SupKept
<1>6. /\ rst' \in RstType /\ rst'.todo = rst.todo \ {c} /\ rst'.blocked = b
      /\ rst'.pc = "reclaim"
  BY <1>1, <1>2, <1>3 DEF IInv, Typed, RstType
<1>7. Typed'
  BY <1>1, <1>3, <1>6 DEF IInv, Typed, RegKept, OneEach
<1>8. Covered'
  <2>1. SUFFICES ASSUME NEW w \in Workers, AtLarge(w)', Named(w)'
                 PROVE  b \/ \E d \in rst.todo \ {c} : d.w = w
    BY <1>6 DEF Covered, HandoffClean
  <2>2. AtLarge(w) /\ Named(w)
    BY <1>1, <1>3, <2>1, AliveKept
  <2>3. rst.blocked \/ \E d \in rst.todo : d.w = w
    BY <1>1, <2>2 DEF IInv, Covered
  <2>4. c.w = w => b
    BY <1>3, <2>1 DEF AtLarge, Alive
  <2> QED BY <1>3, <2>3, <2>4
<1>9. Fenced'
  BY <1>1, <1>6 DEF IInv, Fenced
<1> QED BY <1>5, <1>7, <1>8, <1>9 DEF IInv, SupParts

LEMMA RestarterCrashStep == ASSUME IInv, RestarterCrash PROVE IInv'
<1>1. UNCHANGED <<sup, epoch, escaped>> /\ rst' = NoRst /\ faults' \in 0 .. MaxFaults
  BY FaultTyped DEF RestarterCrash, IInv, Typed
<1>2. RegKept /\ (sup.pc \in Registers => UNCHANGED <<lease, bind, proc>>)
  <2>1. CASE UNCHANGED <<registry, proc>>
    BY <2>1, RegSame DEF IInv, registry
  <2>2. CASE rst.pc = "reclaim" /\ \E c \in rst.todo : ReconciledTorn(c)
    <3>1. rst.todo \subseteq Concerns
      BY DEF IInv, Typed, RstType
    <3> QED BY <2>2, <3>1, TornKeeps DEF IInv, Fenced
  <2> QED BY <2>1, <2>2 DEF RestarterCrash
<1>3. SupSame
  BY <1>1, SupSameTrivial DEF IInv
<1>4. SupParts'
  BY <1>1, <1>2, <1>3, SupKept
<1>5. Typed'
  BY <1>1, <1>2, NoneTyped DEF IInv, Typed, RegKept
<1>6. Covered' /\ Fenced'
  BY <1>1, NoneTyped DEF Covered, HandoffClean, Fenced
<1> QED BY <1>4, <1>5, <1>6 DEF IInv, SupParts

-----------------------------------------------------------------------------
(* The supervisor comes and goes.                                          *)

(* It leaves: what no record names escapes. *)
LEMMA Leaves ==
    ASSUME IInv, RegKept, sup' = NoSup, UNCHANGED <<rst, epoch>>,
           faults' \in 0 .. MaxFaults,
           NEW U \in SUBSET Workers, escaped' = escaped \cup U,
           \A w \in Workers : AtLarge(w) /\ ~Named(w) => w \in U
    PROVE  IInv'
<1>1. Typed'
  BY NoneTyped DEF IInv, Typed, RegKept
<1>2. Single' /\ TerminalDead' /\ Covered' /\ Alone' /\ InPass' /\ Newcomer'
  <2>1. Single' /\ TerminalDead' /\ Covered'
    BY Keep
  <2>2. Alone' /\ InPass' /\ Newcomer'
    BY NoneTyped DEF Alone, InPass, Newcomer, Undecided
  <2> QED BY <2>1, <2>2
<1>3. Unheard'
  <2>1. SUFFICES ASSUME NEW w \in Workers, AtLarge(w)', ~Named(w)' PROVE FALSE
    BY DEF Unheard
  <2>2. AtLarge(w) /\ ~Named(w) /\ w \notin U
    BY <2>1, AliveKept DEF AtLarge
  <2> QED BY <2>2
<1>4. SupPlaced' /\ OwnWorker' /\ Pending'
  BY NoneTyped DEF SupPlaced, OwnWorker, Pending, Waits, Registers
<1>5. Fenced'
  BY NoneTyped DEF IInv, Fenced, Registers
<1> QED BY <1>1, <1>2, <1>3, <1>4, <1>5 DEF IInv

LEMMA LeavesUnnamed ==
    ASSUME IInv, RegKept, Left(Unnamed), UNCHANGED <<rst, epoch>>, faults' \in 0 .. MaxFaults
    PROVE  IInv'
<1>1. Unnamed \in SUBSET Workers /\ \A w \in Workers : AtLarge(w) /\ ~Named(w) => w \in Unnamed
  BY DEF Unnamed, AtLarge
<1> QED BY <1>1, Leaves DEF Left

LEMMA OwnConcern == ASSUME IInv, sup.w # 0 PROVE Own(sup.w) \in Concerns /\ Own(sup.w).w = sup.w
BY DEF IInv, Typed, SupType, Own, Concerns

LEMMA LeaveStep ==
    ASSUME IInv, IntentRefused \/ Shutdown \/ SupCrash PROVE IInv'
<1>1. CASE IntentRefused
  <2>1. UNCHANGED <<lease, bind, proc>> /\ UNCHANGED <<rst, epoch, faults>>
        /\ Left({}) /\ sup.pc = "spawn"
    BY <1>1 DEF IntentRefused, registry
  <2>2. \A w \in Workers : ~AtLarge(w)
    BY <2>1, NoZero DEF IInv, Alone, SupPlaced, Waits, Undecided
  <2>3. RegKept /\ faults' \in 0 .. MaxFaults
    BY <2>1, RegSame DEF IInv, Typed
  <2>4. PICK U \in SUBSET Workers : U = {} /\ escaped' = escaped \cup U
    BY <2>1 DEF Left
  <2>5. sup' = NoSup /\ UNCHANGED <<rst, epoch>>
    BY <2>1 DEF Left
  <2> QED BY <2>2, <2>3, <2>4, <2>5, Leaves
<1>2. CASE Shutdown
  <2>1. RegKept /\ faults' \in 0 .. MaxFaults
    <3>1. CASE HasWorker /\ \E o \in {"reclaimed", "survived_kill"} : Reconciled(Own(sup.w), o)
      BY <3>1, OwnConcern, ReconciledKeeps DEF IInv, HasWorker, Outcomes, Terminal
    <3>2. CASE UNCHANGED <<registry, proc, faults>>
      BY <3>2, RegSame DEF IInv, Typed, registry
    <3> QED BY <1>2, <3>1, <3>2 DEF Shutdown
  <2> QED BY <1>2, <2>1, LeavesUnnamed DEF Shutdown
<1>3. CASE SupCrash
  <2>1. faults' \in 0 .. MaxFaults
    BY <1>3, FaultTyped DEF SupCrash, IInv, Typed
  <2>2. RegKept
    <3>1. CASE UNCHANGED <<registry, proc>>
      BY <3>1, RegSame DEF IInv, registry
    <3>2. CASE \E c \in sup.todo : ReconciledTorn(c)
      <4>1. sup.todo \subseteq Concerns
        BY DEF IInv, Typed, SupType
      <4> QED BY <3>2, <4>1, TornKeeps DEF IInv
    <3>3. CASE HasWorker /\ ReconciledTorn(Own(sup.w))
      BY <3>3, OwnConcern, TornKeeps DEF IInv, HasWorker
    <3> QED BY <1>3, <3>1, <3>2, <3>3 DEF SupCrash
  <2> QED BY <1>3, <2>1, <2>2, LeavesUnnamed DEF SupCrash
<1> QED BY <1>1, <1>2, <1>3

LEMMA StopStep == ASSUME IInv, StopIncumbent PROVE IInv'
<1>1. UNCHANGED <<lease, bind, proc>>
  BY DEF StopIncumbent, registry
<1>2. RegKept
  BY <1>1, RegSame DEF IInv
<1>3. faults' \in 0 .. MaxFaults
  BY FaultTyped DEF StopIncumbent, IInv, Typed
<1>4. CASE Left(Unnamed) /\ UNCHANGED <<rst, epoch>>
  BY <1>2, <1>3, <1>4, LeavesUnnamed
<1>5. CASE Reopened /\ UNCHANGED <<sup, escaped>>
  BY <1>1, <1>3, <1>5, ReopenedStep
<1> QED BY <1>4, <1>5 DEF StopIncumbent

LEMMA FreshIs ==
    ASSUME \E s \in Supervisors : s \notin KnownSups
    PROVE  FreshSup \in Supervisors /\ FreshSup \notin KnownSups
BY DEF FreshSup

(* A new supervisor, which nothing names. *)
LEMMA BootsKeeps ==
    ASSUME IInv, UNCHANGED <<lease, bind, proc, escaped>>, NEW p \in BOOLEAN, Boots(p)
    PROVE  /\ SupParts' /\ sup' \in SupType /\ OneEach(sup'.todo)
           /\ sup'.permit = p /\ sup'.pc = "boot"
<1>1. /\ sup' \in SupType /\ sup'.pc = "boot" /\ sup'.w = 0 /\ sup'.todo = {}
      /\ sup'.id = FreshSup /\ sup'.permit = p
  BY FreshIs DEF Boots, NoSup, SupType, SupStates, Owners
<1>2. sup'.id # 0 /\ \A w \in Workers :
         sup'.id # lease[w].owner /\ sup'.id # bind[w].owner /\ sup'.id # proc[w].sup
  BY <1>1, FreshIs, NoZero DEF Boots, KnownSups
<1>3. RegKept
  BY RegSame DEF IInv
<1>4. sup.w = 0
  BY DEF Boots, IInv, SupPlaced, Waits
<1>5. Single' /\ TerminalDead' /\ Unheard'
  BY <1>1, <1>3, <1>4, Keep
<1>6. SupPlaced' /\ OwnWorker' /\ Alone' /\ InPass' /\ Pending' /\ OneEach(sup'.todo)
  BY <1>1, <1>2
     DEF SupPlaced, OwnWorker, Alone, InPass, Pending, OneEach, Undecided, Waits, Registers
<1>7. Newcomer'
  BY <1>1, <1>2 DEF Newcomer
<1> QED BY <1>1, <1>5, <1>6, <1>7 DEF SupParts

LEMMA RelaunchStep == ASSUME IInv, Relaunch PROVE IInv'
<1>1. UNCHANGED <<lease, bind, proc, escaped>> /\ UNCHANGED <<rst, epoch, faults>>
  BY DEF Relaunch, registry
<1>2. PICK p \in BOOLEAN : (p => epoch.permit = "fresh" /\ rst.pc # "launch") /\ Boots(p)
  BY DEF Relaunch
<1>3. /\ SupParts' /\ sup' \in SupType /\ OneEach(sup'.todo)
      /\ sup'.permit = p /\ sup'.pc = "boot"
  BY <1>1, <1>2, BootsKeeps
<1>4. RegKept
  BY <1>1, RegSame DEF IInv
<1>5. Typed'
  BY <1>1, <1>3, <1>4 DEF IInv, Typed, RegKept
<1>6. Covered'
  BY <1>1, <1>4, Keep
<1>7. Fenced'
  <2>1. rst.pc \in {"fenced", "stop", "reclaim", "launch"} => ~p
    BY <1>2 DEF IInv, Fenced
  <2> QED BY <1>1, <1>3, <2>1 DEF IInv, Fenced, Registers
<1> QED BY <1>3, <1>5, <1>6, <1>7 DEF IInv, SupParts

LEMMA LaunchStep == ASSUME IInv, Launch PROVE IInv'
<1>1. UNCHANGED <<lease, bind, proc, escaped>>
  BY DEF Launch, registry
<1>2. faults' \in 0 .. MaxFaults
  BY FaultTyped DEF Launch, IInv, Typed
<1>3. CASE Reopened /\ UNCHANGED sup
  BY <1>1, <1>2, <1>3, ReopenedStep
<1>4. CASE Phase("await") /\ UNCHANGED epoch
  <2>1. rst' \in RstType /\ rst'.todo = rst.todo /\ rst'.pc = "await"
    BY <1>4 DEF IInv, Typed, RstType, Phase, RstStates
  <2>2. SupParts' /\ sup' \in SupType /\ OneEach(sup'.todo)
    <3>1. CASE Boots(TRUE)
      BY <1>1, <3>1, BootsKeeps
    <3>2. CASE UNCHANGED sup
      BY <1>1, <3>2, RegSame, SupKept, SupSameTrivial DEF IInv, Typed
    <3> QED BY <1>4, <3>1, <3>2 DEF Launch
  <2>3. RegKept
    BY <1>1, RegSame DEF IInv
  <2>4. Typed'
    BY <1>1, <1>2, <1>4, <2>1, <2>2, <2>3 DEF IInv, Typed, RegKept
  <2>5. Covered' /\ Fenced'
    BY <2>1 DEF Covered, HandoffClean, Fenced
  <2> QED BY <2>2, <2>4, <2>5 DEF IInv, SupParts
<1> QED BY <1>3, <1>4 DEF Launch

-----------------------------------------------------------------------------
(* The boot pass.                                                          *)

(* What the fence asks of a step that gives nobody a permit. *)
LEMMA FenceKept ==
    ASSUME IInv, UNCHANGED <<rst, epoch>>, sup'.permit => sup.permit,
           sup'.pc \in Registers => sup.pc \in Registers
    PROVE  Fenced'
BY DEF IInv, Fenced

LEMMA BeginPassStep == ASSUME IInv, BeginPass PROVE IInv'
<1>1. /\ UNCHANGED <<lease, proc>> /\ UNCHANGED <<rst, epoch, escaped, faults>>
      /\ bind' = Collected /\ sup.pc = "boot"
  BY DEF BeginPass
<1>2. RegKept
  BY <1>1, CollectedKeeps DEF IInv
<1>3. /\ Listed \subseteq Concerns /\ OneEach(Listed)
      /\ \A c \in Listed : \E w \in Workers :
            c.w = w /\ (c.owner = lease[w].owner \/ c.owner = bind[w].owner)
      /\ \A w \in Workers : Named(w) => \E c \in Listed : c.w = w
  BY ListedTyped DEF IInv, Typed
<1>4. /\ sup' \in SupType /\ sup'.todo = Listed /\ sup'.pc = "pass"
      /\ sup'.id = sup.id /\ sup'.w = sup.w /\ sup'.permit = sup.permit
  BY <1>3 DEF IInv, Typed, SupType, SupStates, BeginPass
<1>5. Typed'
  BY <1>1, <1>2, <1>3, <1>4 DEF IInv, Typed, RegKept
<1>6. Single' /\ TerminalDead' /\ Unheard' /\ OwnWorker' /\ Alone' /\ Covered'
  <2>1. sup'.pc \in Undecided
    BY <1>4 DEF Undecided
  <2> QED BY <1>1, <1>2, <1>4, <2>1, Keep
<1>7. InPass'
  <2>1. \A w \in Workers : AtLarge(w) => Named(w)
    BY <1>1, NoZero DEF IInv, Unheard, SupPlaced, Waits
  <2> QED BY <1>1, <1>2, <1>3, <1>4, <2>1, AliveKept DEF InPass
<1>8. Newcomer'
  <2>1. /\ sup.id # 0
        /\ \A w \in Workers : /\ lease[w].owner # sup.id
                              /\ bind[w].owner # sup.id
                              /\ proc[w].sup # sup.id
    BY <1>1 DEF IInv, Newcomer, SupPlaced
  <2> QED BY <1>1, <1>2, <1>3, <1>4, <2>1 DEF Newcomer, RegKept
<1>9. SupPlaced' /\ Pending'
  BY <1>1, <1>4 DEF IInv, SupPlaced, Pending, Waits, Registers
<1>10. Fenced'
  BY <1>1, <1>4, FenceKept DEF Registers
<1> QED BY <1>5, <1>6, <1>7, <1>8, <1>9, <1>10 DEF IInv

(* A worker of the list is dead afterwards, or the boot is blocked. *)
LEMMA PassOneStep ==
    ASSUME IInv, NEW c \in sup.todo, PassOne(c) PROVE IInv'
<1>1. UNCHANGED <<rst, epoch, escaped>> /\ sup.pc = "pass"
  BY DEF PassOne
<1>2. c \in Concerns /\ sup.todo \subseteq Concerns
  BY DEF IInv, Typed, SupType
<1>3. ~StillOwned(c, FALSE)
  BY <1>1 DEF IInv, Newcomer, StillOwned, SupAlive
<1>4. PICK o \in Outcomes :
        /\ Reconciled(c, o)
        /\ sup' = [sup EXCEPT !.todo = sup.todo \ {c},
                              !.blocked = sup.blocked \/ o \notin Terminal]
  BY <1>3 DEF PassOne, Outcomes
<1>5. RegKept /\ faults' \in 0 .. MaxFaults /\ (o \in Terminal => ~Alive(c.w)')
  BY <1>2, <1>4, ReconciledKeeps DEF IInv
<1>6. /\ sup' \in SupType /\ sup'.todo = sup.todo \ {c}
      /\ sup'.blocked = (sup.blocked \/ o \notin Terminal)
      /\ sup'.pc = sup.pc /\ sup'.id = sup.id /\ sup'.w = sup.w /\ sup'.permit = sup.permit
  BY <1>2, <1>4 DEF IInv, Typed, SupType
<1>7. Typed'
  BY <1>1, <1>5, <1>6 DEF IInv, Typed, RegKept, OneEach
<1>8. Single' /\ TerminalDead' /\ Unheard' /\ OwnWorker' /\ Alone' /\ Covered' /\ Newcomer'
  <2>1. sup'.todo \subseteq sup.todo
    BY <1>6
  <2> QED BY <1>1, <1>5, <1>6, <2>1, Keep
<1>9. InPass'
  <2>1. SUFFICES ASSUME NEW w \in Workers, AtLarge(w)'
                 PROVE  sup.blocked \/ o \notin Terminal \/ \E d \in sup.todo \ {c} : d.w = w
    BY <1>6 DEF InPass
  <2>2. sup.blocked \/ \E d \in sup.todo : d.w = w
    BY <1>1, <1>5, <2>1, AliveKept DEF IInv, InPass
  <2>3. c.w = w => o \notin Terminal
    BY <1>5, <2>1 DEF AtLarge, Alive
  <2> QED BY <2>2, <2>3
<1>10. SupPlaced' /\ Pending'
  BY <1>1, <1>6 DEF IInv, SupPlaced, Pending, Waits, Registers
<1>11. Fenced'
  BY <1>1, <1>6, FenceKept
<1> QED BY <1>7, <1>8, <1>9, <1>10, <1>11 DEF IInv

LEMMA EndPassStep == ASSUME IInv, EndPass PROVE IInv'
<1>1. /\ UNCHANGED <<lease, bind, proc, escaped>> /\ UNCHANGED <<rst, epoch, faults>>
      /\ sup.pc = "pass" /\ sup.todo = {}
  BY DEF EndPass, registry
<1>2. RegKept
  BY <1>1, RegSame DEF IInv
<1>3. /\ sup' \in SupType /\ sup'.todo = sup.todo
      /\ sup'.pc = IF sup.blocked THEN "closed" ELSE "spawn"
      /\ sup'.id = sup.id /\ sup'.w = sup.w /\ sup'.permit = sup.permit
  BY DEF IInv, Typed, SupType, SupStates, EndPass
<1>4. Typed'
  BY <1>1, <1>2, <1>3 DEF IInv, Typed, RegKept
<1>5. Single' /\ TerminalDead' /\ Unheard' /\ OwnWorker' /\ InPass' /\ Covered' /\ Newcomer'
  BY <1>1, <1>2, <1>3, Keep
<1>6. Alone'
  <2>1. ~sup.blocked => \A w \in Workers : ~AtLarge(w)
    BY <1>1 DEF IInv, InPass
  <2> QED BY <1>1, <1>3, <2>1 DEF Alone, Undecided, AtLarge, Alive
<1>7. SupPlaced' /\ Pending'
  BY <1>1, <1>3 DEF IInv, SupPlaced, Pending, Waits, Registers
<1>8. Fenced'
  BY <1>1, <1>3, FenceKept DEF Registers
<1> QED BY <1>4, <1>5, <1>6, <1>7, <1>8 DEF IInv

-----------------------------------------------------------------------------
(* The supervisor and its own worker.                                      *)

LEMMA KilledKeeps ==
    ASSUME Typed, TerminalDead, NEW w \in Workers, UNCHANGED <<lease, bind>>,
           proc' = [proc EXCEPT ![w] = NoProc]
    PROVE  RegKept
<1>1. /\ RegTyped' /\ proc'[w] = NoProc
      /\ \A v \in Workers : v # w => proc'[v] = proc[v]
  BY NoneTyped DEF Typed, RegTyped
<1>2. \A v \in Workers : (Named(v)' <=> Named(v)) /\ (Alive(v)' => Alive(v))
  BY <1>1, NoneTyped DEF Named, Alive
<1> QED BY <1>1, <1>2 DEF RegKept, TerminalDead

LEMMA GoesTyped ==
    ASSUME Typed, NEW pc \in SupStates, Goes(pc)
    PROVE  /\ sup' \in SupType /\ sup'.pc = pc
           /\ sup'.id = sup.id /\ sup'.w = sup.w /\ sup'.todo = sup.todo
           /\ sup'.blocked = sup.blocked /\ sup'.permit = sup.permit
BY DEF Typed, SupType, Goes

(* It goes on with its worker, or gives it up. *)
LEMMA GoesOn ==
    ASSUME IInv, RegKept, UNCHANGED <<rst, epoch, escaped>>, faults' \in 0 .. MaxFaults,
           sup.pc \notin Undecided, sup.w # 0,
           NEW pc \in SupStates \ (Waits \cup {"popen"}), Goes(pc),
           pc \in Registers => sup.pc \in Registers /\ lease'[sup.w].st \in FenceLease
    PROVE  IInv'
<1>1. /\ sup' \in SupType /\ sup'.pc = pc
      /\ sup'.id = sup.id /\ sup'.w = sup.w /\ sup'.todo = sup.todo
      /\ sup'.permit = sup.permit
  BY GoesTyped DEF IInv
<1>2. Typed'
  BY <1>1 DEF IInv, Typed, RegKept
<1>3. pc \notin {"boot", "pass", "down", "spawn", "popen"}
  BY DEF Waits
<1>4. /\ Single' /\ TerminalDead' /\ Unheard' /\ OwnWorker' /\ Alone' /\ InPass'
      /\ Covered' /\ Newcomer'
  BY <1>1, <1>3, Keep
<1>5. SupPlaced' /\ Pending'
  BY <1>1, <1>3 DEF IInv, SupPlaced, Pending, Waits, Undecided
<1>6. Fenced'
  BY <1>1, FenceKept
<1> QED BY <1>2, <1>4, <1>5, <1>6 DEF IInv

(* It has none any more: its worker is dead. *)
LEMMA Drops ==
    ASSUME IInv, RegKept, UNCHANGED <<rst, epoch, escaped>>, faults' \in 0 .. MaxFaults,
           sup.pc = "up", sup.w \in Workers, ~(proc'[sup.w].st # "dead"),
           sup' = [sup EXCEPT !.w = 0]
    PROVE  IInv'
<1>1. /\ sup' \in SupType /\ sup'.pc = "up" /\ sup'.w = 0
      /\ sup'.id = sup.id /\ sup'.todo = sup.todo /\ sup'.permit = sup.permit
  BY DEF IInv, Typed, SupType
<1>2. Typed'
  BY <1>1 DEF IInv, Typed, RegKept
<1>3. Single' /\ TerminalDead' /\ InPass' /\ Covered' /\ Newcomer'
  BY <1>1, Keep
<1>4. \A w \in Workers : ~AtLarge(w)'
  <2>1. SUFFICES ASSUME NEW w \in Workers, AtLarge(w)' PROVE FALSE
    OBVIOUS
  <2>2. w = sup.w
    BY <2>1, AliveKept DEF IInv, Alone, Undecided
  <2> QED BY <2>1, <2>2 DEF AtLarge, Alive
<1>5. Alone' /\ Unheard'
  BY <1>4 DEF Alone, Unheard
<1>6. SupPlaced' /\ Pending' /\ OwnWorker'
  BY <1>1 DEF IInv, SupPlaced, Pending, OwnWorker, Waits, Registers
<1>7. Fenced'
  BY <1>1, FenceKept
<1> QED BY <1>2, <1>3, <1>5, <1>6, <1>7 DEF IInv

LEMMA WorkerMissedStep == ASSUME IInv, WorkerMissed PROVE IInv'
<1>1. UNCHANGED <<lease, bind, proc>> /\ UNCHANGED <<rst, epoch, escaped>> /\ UNCHANGED faults
  BY DEF WorkerMissed, registry
<1>2. sup.w \in Workers /\ faults' \in 0 .. MaxFaults
  BY <1>1 DEF IInv, Typed, SupType, WorkerMissed
<1>3. RegKept
  BY <1>1, RegSame DEF IInv
<1> QED BY <1>1, <1>2, <1>3, Drops DEF WorkerMissed, Alive

LEMMA RecycleStep == ASSUME IInv, Recycle PROVE IInv'
<1>1. UNCHANGED <<rst, epoch, escaped>> /\ sup.pc = "up" /\ sup.w # 0
  BY DEF Recycle, HasWorker
<1>2. sup.w \in Workers /\ Own(sup.w) \in Concerns /\ Own(sup.w).w = sup.w
  BY <1>1, OwnConcern DEF IInv, Typed, SupType
<1>3. CASE Reconciled(Own(sup.w), "reclaimed") /\ sup' = [sup EXCEPT !.w = 0]
  <2>1. "reclaimed" \in Outcomes
    BY DEF Outcomes, Terminal
  <2>2. RegKept /\ faults' \in 0 .. MaxFaults
    BY <1>2, <1>3, <2>1, ReconciledKeeps DEF IInv
  <2>3. proc'[sup.w] = NoProc
    BY <1>2, <1>3 DEF Reconciled, IInv, Typed, RegTyped
  <2> QED BY <1>1, <1>2, <1>3, <2>2, <2>3, NoneTyped, Drops
<1>4. CASE Reconciled(Own(sup.w), "survived_kill") /\ Goes("closed")
  <2>1. "survived_kill" \in Outcomes
    BY DEF Outcomes
  <2>2. RegKept /\ faults' \in 0 .. MaxFaults
    BY <1>2, <1>4, <2>1, ReconciledKeeps DEF IInv
  <2>3. "closed" \in SupStates \ (Waits \cup {"popen"}) /\ "closed" \notin Registers
        /\ sup.pc \notin Undecided
    BY <1>1 DEF SupStates, Waits, Registers, Undecided
  <2> QED BY <1>1, <1>4, <2>2, <2>3, GoesOn
<1> QED BY <1>3, <1>4 DEF Recycle

(* A write of the registration that fails, and the steps without a write. *)
LEMMA QuietGoes ==
    ASSUME IInv, UNCHANGED <<lease, bind, proc>>, UNCHANGED <<rst, epoch, escaped>>,
           UNCHANGED faults \/ Fault,
           sup.pc \notin Undecided, sup.w # 0,
           NEW pc \in SupStates \ (Waits \cup {"popen"}), Goes(pc),
           pc \in Registers => sup.pc \in Registers
    PROVE  IInv'
<1>1. RegKept /\ faults' \in 0 .. MaxFaults
  BY RegSame, FaultTyped DEF IInv, Typed
<1>2. pc \in Registers => lease'[sup.w].st \in FenceLease
  BY DEF IInv, Pending
<1> QED BY <1>1, <1>2, GoesOn

(* The supervisor changes a record of its own worker. *)
LEMMA OwnRecord ==
    ASSUME IInv, UNCHANGED <<proc, escaped, rst, epoch>>,
           UNCHANGED faults \/ Fault,
           sup.pc \notin Undecided, sup.w \in Workers,
           RegTyped',
           \A w \in Workers : w # sup.w => lease'[w] = lease[w] /\ bind'[w] = bind[w],
           bind'[sup.w].st = "terminal" => bind[sup.w].st = "terminal",
           sup.pc \in Registers \/ (bind' = bind /\ lease'[sup.w] \in {lease[sup.w], NoLease}),
           NEW pc \in SupStates \ (Waits \cup {"popen"}), Goes(pc),
           pc \in Registers => sup.pc \in Registers /\ lease'[sup.w].st \in FenceLease
    PROVE  IInv'
<1>1. /\ sup' \in SupType /\ sup'.pc = pc
      /\ sup'.id = sup.id /\ sup'.w = sup.w /\ sup'.todo = sup.todo
      /\ sup'.permit = sup.permit
  BY GoesTyped DEF IInv
<1>2. Typed'
  BY <1>1, FaultTyped DEF IInv, Typed
<1>3. pc \notin {"boot", "pass", "down", "spawn", "popen"}
  BY DEF Waits
<1>4. \A w \in Workers : /\ (AtLarge(w)' <=> AtLarge(w)) /\ (Alive(w)' <=> Alive(w))
                         /\ w # sup.w => (Named(w)' <=> Named(w))
  BY DEF AtLarge, Alive, Named
<1>5. Single' /\ Unheard' /\ OwnWorker' /\ Alone' /\ TerminalDead'
  <2>1. Single' /\ Unheard' /\ Alone'
    BY <1>1, <1>4 DEF IInv, Single, Unheard, Alone
  <2>2. OwnWorker'
    BY <1>1, <1>4 DEF IInv, OwnWorker
  <2>3. TerminalDead'
    BY <1>4 DEF IInv, TerminalDead
  <2> QED BY <2>1, <2>2, <2>3
<1>6. InPass' /\ Newcomer' /\ SupPlaced' /\ Pending'
  BY <1>1, <1>3, NoZero DEF IInv, InPass, Newcomer, SupPlaced, Pending, Waits, Undecided
<1>7. Fenced'
  BY <1>1, FenceKept
<1>8. Covered'
  <2>1. CASE sup.pc \in Registers
    BY <2>1 DEF IInv, Fenced, Covered, HandoffClean
  <2>2. CASE bind' = bind /\ lease'[sup.w] \in {lease[sup.w], NoLease}
    <3>1. PICK x \in Workers : x = sup.w
      OBVIOUS
    <3>2. Named(x)' => Named(x)
      BY <2>2, <3>1, NoneTyped DEF Named, ActiveLease
    <3>3. \A w \in Workers : Named(w)' => Named(w)
      BY <1>4, <3>1, <3>2
    <3> QED BY <1>4, <3>3 DEF IInv, Covered, HandoffClean, AtLarge
  <2> QED BY <2>1, <2>2
<1> QED BY <1>2, <1>5, <1>6, <1>7, <1>8 DEF IInv

(* Where the registration is, and whose. *)
LEMMA AtWork ==
    ASSUME IInv, sup.pc \in Registers \cup {"reap", "reaped", "abort", "abort_reap"}
    PROVE  /\ sup.w \in Workers /\ sup.w # 0 /\ sup.pc \notin Undecided
           /\ lease[sup.w] \in LeaseType /\ bind[sup.w] \in BindType /\ sup.id \in Owners
<1>1. sup.pc \notin Waits \cup {"up", "closed"} /\ sup.pc \notin Undecided
  BY DEF Registers, Waits, Undecided
<1>2. sup.w # 0 /\ sup.w \in Workers
  BY <1>1 DEF IInv, SupPlaced, Typed, SupType
<1> QED BY <1>1, <1>2 DEF IInv, Typed, RegTyped, SupType

LEMMA Targets ==
    /\ {"pid", "ident", "bindput", "ready", "running", "up", "reap", "reaped", "abort",
        "abort_reap", "closed"} \subseteq SupStates \ (Waits \cup {"popen"})
    /\ {"up", "reap", "reaped", "abort", "abort_reap", "closed"} \cap Registers = {}
    /\ {"pid", "ident", "bindput", "ready", "running"} \subseteq Registers
BY DEF SupStates, Waits, Registers

LEMMA IntentStep == ASSUME IInv, NEW w \in Workers, Intent(w) PROVE IInv'
<1>1. /\ UNCHANGED <<bind, proc, rst, faults>>
      /\ lease' = [lease EXCEPT ![w] = [NoLease EXCEPT !.st = "registered"]]
      /\ epoch' = [epoch EXCEPT !.permit = IF epoch.st = "open" THEN @ ELSE "used"]
      /\ sup' = [sup EXCEPT !.pc = "popen", !.w = w, !.permit = FALSE]
      /\ escaped' = escaped \ {w}
      /\ Spawning /\ ~LockHeld /\ Admitted /\ Free(w)
  BY DEF Intent
<1>2. ~Alive(w) /\ bind[w].st = "none" /\ w # 0
  BY <1>1, NoZero DEF Free
<1>3. sup.w = 0 /\ sup.id # 0 /\ sup.pc \in {"spawn", "up"}
  BY <1>1 DEF IInv, SupPlaced, Spawning, Waits
<1>4. \A v \in Workers : ~AtLarge(v)
  BY <1>3, NoZero DEF IInv, Alone, Undecided
<1>5. \A v \in Workers : ~AtLarge(v)' /\ (Alive(v)' => v \in escaped')
  <2>1. \A v \in Workers : Alive(v)' <=> Alive(v)
    BY <1>1 DEF Alive
  <2> QED BY <1>1, <1>2, <1>4, <2>1 DEF AtLarge
<1>6. /\ sup' \in SupType /\ sup'.pc = "popen" /\ sup'.w = w /\ sup'.id = sup.id
      /\ sup'.todo = sup.todo
  BY <1>1 DEF IInv, Typed, SupType, SupStates
<1>7. /\ lease' \in [Workers -> LeaseType] /\ lease'[w].st = "registered"
  <2>1. [NoLease EXCEPT !.st = "registered"] \in LeaseType
        /\ [NoLease EXCEPT !.st = "registered"].st = "registered"
    BY DEF NoLease, LeaseType, LeaseStates, Owners
  <2> QED BY <1>1, <2>1 DEF IInv, Typed, RegTyped
<1>8. epoch' \in EpochType
  BY <1>1 DEF IInv, Typed, EpochType
<1>9. Typed'
  BY <1>1, <1>6, <1>7, <1>8 DEF IInv, Typed, RegTyped
<1>10. Single' /\ Alone' /\ Unheard' /\ Covered'
  BY <1>5 DEF Single, Alone, Unheard, Covered, HandoffClean
<1>11. TerminalDead'
  BY <1>1 DEF IInv, TerminalDead, Alive
<1>12. OwnWorker' /\ Pending'
  <2>1. ~(proc'[w].st # "dead") /\ bind'[w].st = "none"
    BY <1>1, <1>2 DEF Alive
  <2> QED BY <1>6, <1>7, <2>1 DEF OwnWorker, Pending, FenceLease, Alive
<1>13. SupPlaced' /\ Newcomer' /\ InPass'
  BY <1>2, <1>3, <1>6 DEF SupPlaced, Newcomer, InPass, Waits
<1>14. Fenced'
  <2>1. rst.pc \notin {"fenced", "stop", "reclaim", "launch"}
    BY <1>1 DEF LockHeld, Admitted, IInv, Fenced
  <2> QED BY <1>1, <2>1 DEF Fenced
<1> QED BY <1>9, <1>10, <1>11, <1>12, <1>13, <1>14 DEF IInv

LEMMA PopenStep == ASSUME IInv, Popen PROVE IInv'
<1>1. UNCHANGED <<lease, bind>> /\ UNCHANGED <<rst, epoch, escaped>> /\ sup.pc = "popen"
  BY DEF Popen, registry
<1>2. /\ sup.w \in Workers /\ sup.w # 0 /\ sup.pc \notin Undecided
      /\ sup.id \in Owners /\ sup.pc \in Registers
  BY <1>1, AtWork DEF Registers
<1>3. CASE Fault /\ Goes("reaped") /\ UNCHANGED proc
  BY <1>1, <1>2, <1>3, Targets, QuietGoes
<1>4. CASE /\ proc' = [proc EXCEPT ![sup.w] = [st |-> "boot", sup |-> sup.id]]
           /\ Goes("pid") /\ UNCHANGED faults
  <2>1. PICK x \in Workers : x = sup.w
    BY <1>2
  <2>2. /\ sup' \in SupType /\ sup'.pc = "pid"
        /\ sup'.id = sup.id /\ sup'.w = sup.w /\ sup'.todo = sup.todo
        /\ sup'.permit = sup.permit
    BY <1>4, Targets, GoesTyped DEF IInv
  <2>3. /\ proc' \in [Workers -> ProcType]
        /\ proc'[x] = [st |-> "boot", sup |-> sup.id]
        /\ \A v \in Workers : v # x => proc'[v] = proc[v]
    BY <1>2, <1>4, <2>1 DEF IInv, Typed, RegTyped, ProcType, ProcStates
  <2>4. Typed'
    BY <1>1, <1>4, <2>2, <2>3 DEF IInv, Typed, RegTyped
  <2>5. \A v \in Workers : AtLarge(v)' => v = x
    BY <1>1, <1>2, <2>1, <2>3 DEF IInv, Alone, AtLarge, Alive
  <2>6. Single' /\ Alone' /\ Unheard'
    BY <2>1, <2>2, <2>5 DEF Single, Alone, Unheard
  <2>7. OwnWorker'
    BY <2>1, <2>2, <2>3 DEF OwnWorker
  <2>8. TerminalDead'
    <3>1. bind[x].st # "terminal"
      BY <1>1, <2>1 DEF IInv, Pending
    <3> QED BY <1>1, <2>3, <3>1 DEF IInv, TerminalDead, Alive
  <2>9. SupPlaced' /\ Newcomer' /\ InPass' /\ Pending'
    BY <1>1, <1>2, <2>2 DEF IInv, SupPlaced, Newcomer, InPass, Pending, Waits
  <2>10. Fenced' /\ Covered'
    BY <1>1, <1>2, <2>2 DEF IInv, Fenced, Covered, HandoffClean
  <2> QED BY <2>4, <2>6, <2>7, <2>8, <2>9, <2>10 DEF IInv
<1> QED BY <1>3, <1>4 DEF Popen

(* The writes of the registration. *)
LEMMA RecordStep ==
    ASSUME IInv, RecordPid \/ EstablishIdentity \/ RegisterBinding \/ MarkReady \/ MarkRunning
    PROVE  IInv'
<1>1. UNCHANGED <<proc, escaped, rst, epoch>> /\ (UNCHANGED faults \/ Fault)
      /\ sup.pc \in Registers
  BY DEF RecordPid, EstablishIdentity, RegisterBinding, MarkReady, MarkRunning, Registers
<1>2. /\ sup.w \in Workers /\ sup.w # 0 /\ sup.pc \notin Undecided
      /\ lease[sup.w] \in LeaseType /\ bind[sup.w] \in BindType /\ sup.id \in Owners
  BY <1>1, AtWork
<1>3. /\ lease \in [Workers -> LeaseType] /\ bind \in [Workers -> BindType] /\ RegTyped
      /\ lease[sup.w].st \in FenceLease
  BY <1>1 DEF IInv, Typed, RegTyped, Pending
<1>4. CASE UNCHANGED <<lease, bind>>
  <2>1. PICK pc \in {"ident", "bindput", "ready", "running", "up", "reap", "abort"} : Goes(pc)
    BY DEF RecordPid, EstablishIdentity, RegisterBinding, MarkReady, MarkRunning
  <2> QED BY <1>1, <1>2, <1>4, <2>1, Targets, QuietGoes
<1>5. CASE UNCHANGED bind /\ RecordPid /\ ~UNCHANGED lease
  <2>1. /\ lease' = [lease EXCEPT ![sup.w].pid = TRUE, ![sup.w].owner = sup.id]
        /\ Goes("ident")
    BY <1>5 DEF RecordPid
  <2>2. /\ lease' \in [Workers -> LeaseType] /\ lease'[sup.w].st = lease[sup.w].st
        /\ \A w \in Workers : w # sup.w => lease'[w] = lease[w]
    BY <1>2, <1>3, <2>1 DEF LeaseType
  <2>3. RegTyped'
    BY <1>1, <1>3, <1>5, <2>2 DEF RegTyped
  <2> QED BY <1>1, <1>2, <1>3, <1>5, <2>1, <2>2, <2>3, Targets, OwnRecord
<1>6. CASE UNCHANGED bind /\ MarkReady /\ ~UNCHANGED lease
  <2>1. /\ lease' = [lease EXCEPT ![sup.w].st = "ready", ![sup.w].token = Alive(sup.w)]
        /\ Goes("running")
    BY <1>6 DEF MarkReady
  <2>2. /\ lease' \in [Workers -> LeaseType] /\ lease'[sup.w].st = "ready"
        /\ \A w \in Workers : w # sup.w => lease'[w] = lease[w]
    BY <1>2, <1>3, <2>1 DEF LeaseType, LeaseStates, Alive
  <2>3. RegTyped' /\ lease'[sup.w].st \in FenceLease
    BY <1>1, <1>3, <1>6, <2>2 DEF RegTyped, FenceLease
  <2> QED BY <1>1, <1>2, <1>3, <1>6, <2>1, <2>2, <2>3, Targets, OwnRecord
<1>7. CASE UNCHANGED bind /\ MarkRunning /\ ~UNCHANGED lease
  <2>1. /\ lease' = [lease EXCEPT ![sup.w].st = "running"] /\ Goes("up")
    BY <1>7 DEF MarkRunning
  <2>2. /\ lease' \in [Workers -> LeaseType]
        /\ \A w \in Workers : w # sup.w => lease'[w] = lease[w]
    BY <1>2, <1>3, <2>1 DEF LeaseType, LeaseStates
  <2>3. RegTyped'
    BY <1>1, <1>3, <1>7, <2>2 DEF RegTyped
  <2> QED BY <1>1, <1>2, <1>3, <1>7, <2>1, <2>2, <2>3, Targets, OwnRecord
<1>8. CASE UNCHANGED lease /\ RegisterBinding /\ ~UNCHANGED bind
  <2>1. PICK b \in BindType : bind' = [bind EXCEPT ![sup.w] = b] /\ b.st # "terminal"
                              /\ Goes("ready")
    <3>1. /\ bind' = [bind EXCEPT ![sup.w] =
                 [st |-> IF Alive(sup.w) THEN "running" ELSE "refused_unproven",
                  token |-> Alive(sup.w), owner |-> sup.id]]
          /\ Goes("ready")
      BY <1>8 DEF RegisterBinding
    <3>2. Alive(sup.w) \in BOOLEAN
      BY DEF Alive
    <3>3. [st |-> IF Alive(sup.w) THEN "running" ELSE "refused_unproven",
           token |-> Alive(sup.w), owner |-> sup.id] \in BindType
      BY <1>2, <3>2 DEF BindType, BindStates, ActiveBind
    <3> QED BY <3>1, <3>3
  <2>2. /\ bind' \in [Workers -> BindType] /\ bind'[sup.w].st # "terminal"
        /\ \A w \in Workers : w # sup.w => bind'[w] = bind[w]
    BY <1>2, <1>3, <2>1
  <2>3. RegTyped'
    BY <1>1, <1>3, <1>8, <2>2 DEF RegTyped
  <2> QED BY <1>1, <1>2, <1>3, <1>8, <2>1, <2>2, <2>3, Targets, OwnRecord
<1>9. /\ RecordPid \/ MarkReady \/ MarkRunning => UNCHANGED bind
      /\ RegisterBinding => UNCHANGED lease
      /\ EstablishIdentity => UNCHANGED <<lease, bind>>
  BY DEF RecordPid, EstablishIdentity, RegisterBinding, MarkReady, MarkRunning, registry
<1> QED BY <1>4, <1>5, <1>6, <1>7, <1>8, <1>9

(* A registration that failed: the intent is aborted, the process reaped. *)
LEMMA GiveUpStep ==
    ASSUME IInv, ReapUnregistered \/ AbortIntent \/ FailRegistration
    PROVE  IInv'
<1>1. UNCHANGED <<rst, epoch, escaped>> /\ (UNCHANGED faults \/ Fault)
      /\ sup.pc \in {"reap", "reaped", "abort", "abort_reap"} /\ sup.pc \notin Registers
  BY DEF ReapUnregistered, AbortIntent, FailRegistration, Registers
<1>2. /\ sup.w \in Workers /\ sup.w # 0 /\ sup.pc \notin Undecided
      /\ lease[sup.w] \in LeaseType
  BY <1>1, AtWork
<1>3. PICK pc \in {"reaped", "abort_reap", "closed"} : Goes(pc)
  BY DEF ReapUnregistered, AbortIntent, FailRegistration
<1>4. faults' \in 0 .. MaxFaults
  BY <1>1, FaultTyped DEF IInv, Typed
<1>5. CASE UNCHANGED <<lease, bind, proc>>
  BY <1>1, <1>2, <1>3, <1>5, Targets, QuietGoes
<1>6. CASE UNCHANGED <<lease, bind>> /\ proc' = [proc EXCEPT ![sup.w] = NoProc]
  <2>1. RegKept
    BY <1>2, <1>6, KilledKeeps DEF IInv
  <2> QED BY <1>1, <1>2, <1>3, <1>4, <2>1, Targets, GoesOn
<1>7. CASE /\ UNCHANGED <<bind, proc>>
           /\ \E l \in {lease[sup.w], NoLease} : lease' = [lease EXCEPT ![sup.w] = l]
  <2>1. lease \in [Workers -> LeaseType] /\ bind \in [Workers -> BindType] /\ RegTyped
    BY DEF IInv, Typed, RegTyped
  <2>2. /\ lease' \in [Workers -> LeaseType]
        /\ lease'[sup.w] \in {lease[sup.w], NoLease}
        /\ \A w \in Workers : w # sup.w => lease'[w] = lease[w]
    BY <1>2, <1>7, <2>1, NoneTyped
  <2>3. RegTyped'
    BY <1>7, <2>1, <2>2 DEF RegTyped
  <2> QED BY <1>1, <1>2, <1>3, <1>7, <2>2, <2>3, Targets, OwnRecord
<1>8. ReapUnregistered => \/ UNCHANGED <<lease, bind, proc>>
                          \/ UNCHANGED <<lease, bind>> /\ proc' = [proc EXCEPT ![sup.w] = NoProc]
  BY DEF ReapUnregistered, registry
<1>9. AbortIntent => /\ UNCHANGED <<bind, proc>>
                     /\ \E l \in {lease[sup.w], NoLease} : lease' = [lease EXCEPT ![sup.w] = l]
  BY <1>2 DEF AbortIntent
<1>10. FailRegistration =>
         \/ UNCHANGED <<lease, bind, proc>>
         \/ UNCHANGED <<lease, bind>> /\ proc' = [proc EXCEPT ![sup.w] = NoProc]
         \/ /\ UNCHANGED <<bind, proc>>
            /\ \E l \in {lease[sup.w], NoLease} : lease' = [lease EXCEPT ![sup.w] = l]
  BY DEF FailRegistration, registry
<1> QED BY <1>5, <1>6, <1>7, <1>8, <1>9, <1>10

-----------------------------------------------------------------------------
(* The worker's own steps.                                                 *)

(* A worker whose supervisor is gone was named, or escaped, when it went:  *)
(* what it then writes itself names nobody who was at large unnamed.       *)
LEMMA ChildKeeps ==
    ASSUME IInv, UNCHANGED <<sup, rst, epoch, escaped>>, faults' \in 0 .. MaxFaults,
           NEW w \in Workers, Alive(w), RegTyped',
           \A v \in Workers : v # w =>
               lease'[v] = lease[v] /\ bind'[v] = bind[v] /\ proc'[v] = proc[v],
           lease'[w].owner \in {0, lease[w].owner, proc[w].sup},
           bind'[w].owner \in {0, bind[w].owner, proc[w].sup},
           proc'[w].sup \in {0, proc[w].sup},
           bind'[w].st \in {bind[w].st, "running"},
           Alive(w)' /\ Named(w) => Named(w)',
           w = sup.w => /\ UNCHANGED <<lease, bind>>
                        /\ Alive(w)' => /\ proc'[w].sup = proc[w].sup
                                        /\ proc'[w].st \in {"boot", "work"}
    PROVE  IInv'
<1>1. Typed'
  BY DEF IInv, Typed
<1>2. \A v \in Workers : v # w => (Named(v)' <=> Named(v)) /\ (Alive(v)' <=> Alive(v))
  BY DEF Named, Alive
<1>3. \A v \in Workers : AtLarge(v)' => AtLarge(v)
  BY <1>2 DEF AtLarge
<1>4. \A v \in Workers : AtLarge(v)' => (Named(v)' <=> Named(v))
  <2>1. CASE w = sup.w
    <3>1. Named(w)' <=> Named(w)
      BY <2>1 DEF Named
    <3> QED BY <1>2, <3>1
  <2>2. CASE w # sup.w
    <3>1. AtLarge(w)' => Named(w) /\ Named(w)'
      BY <1>3, <2>2 DEF IInv, Unheard, AtLarge
    <3> QED BY <1>2, <3>1
  <2> QED BY <2>1, <2>2
<1>5. Single' /\ Alone' /\ Unheard' /\ InPass'
  BY <1>3, <1>4 DEF IInv, Single, Alone, Unheard, InPass
<1>6. Covered'
  BY <1>3, <1>4 DEF IInv, Covered, HandoffClean, AtLarge
<1>7. OwnWorker'
  <2>1. CASE w = sup.w
    BY <2>1 DEF IInv, OwnWorker, Alive
  <2>2. CASE w # sup.w
    <3>1. sup.w # 0 => sup.w \in Workers /\ proc'[sup.w] = proc[sup.w]
      BY <2>2 DEF IInv, Typed, SupType
    <3> QED BY <3>1 DEF IInv, OwnWorker, Alive
  <2> QED BY <2>1, <2>2
<1>8. Newcomer'
  <2>1. sup.pc \in {"boot", "pass"} => sup.id # 0
    BY DEF IInv, SupPlaced
  <2> QED BY <2>1 DEF IInv, Newcomer
<1>9. TerminalDead'
  <2>1. bind'[w].st # "terminal"
    BY DEF IInv, TerminalDead
  <2> QED BY <1>2, <2>1 DEF IInv, TerminalDead
<1>10. Pending'
  <2>1. sup.pc \in Registers => sup.w \in Workers
    BY AtWork
  <2>2. sup.pc \in Registers => lease'[sup.w] = lease[sup.w] /\ bind'[sup.w] = bind[sup.w]
    BY <2>1
  <2>3. sup.pc = "popen" => sup.w # w /\ proc'[sup.w] = proc[sup.w]
    BY <2>1 DEF IInv, Pending, Registers
  <2> QED BY <2>2, <2>3 DEF IInv, Pending, Alive, Registers
<1>11. SupPlaced' /\ Fenced'
  BY DEF IInv, SupPlaced, Fenced
<1> QED BY <1>1, <1>5, <1>6, <1>7, <1>8, <1>9, <1>10, <1>11 DEF IInv

(* The supervisor's own worker is at most at its start. *)
LEMMA NotOwn ==
    ASSUME IInv, NEW w \in Workers, proc[w].st \in {"claim", "bind", "ack"}
    PROVE  w # sup.w /\ Alive(w)
BY NoZero DEF IInv, OwnWorker, Alive

LEMMA ChildStartStep == ASSUME IInv, NEW w \in Workers, ChildStart(w) PROVE IInv'
<1>1. UNCHANGED <<lease, bind>> /\ UNCHANGED <<sup, rst, epoch, escaped>> /\ UNCHANGED faults
      /\ proc[w].st = "boot"
  BY DEF ChildStart, registry
<1>2. PICK st \in {"work", "claim"} : /\ proc' = [proc EXCEPT ![w].st = st]
                                      /\ SupAlive(proc[w].sup) => st = "work"
  BY DEF ChildStart, Steps
<1>3. proc \in [Workers -> ProcType] /\ RegTyped
  BY DEF IInv, Typed, RegTyped
<1>4. /\ proc' \in [Workers -> ProcType] /\ proc'[w].st = st /\ proc'[w].sup = proc[w].sup
      /\ \A v \in Workers : v # w => proc'[v] = proc[v]
  BY <1>2, <1>3 DEF ProcType, ProcStates
<1>5. RegTyped' /\ faults' \in 0 .. MaxFaults /\ Alive(w)
  BY <1>1, <1>3, <1>4 DEF IInv, Typed, RegTyped, Alive
<1>6. Named(w)' <=> Named(w)
  BY <1>1 DEF Named
<1>7. w = sup.w => st = "work"
  <2>1. w = sup.w => sup.pc # "down" /\ proc[w].sup = sup.id
    BY <1>5, NoZero DEF IInv, SupPlaced, OwnWorker, Waits
  <2> QED BY <1>2, <2>1 DEF SupAlive
<1> QED BY <1>1, <1>4, <1>5, <1>6, <1>7, ChildKeeps

LEMMA DiesStep ==
    ASSUME IInv, NEW w \in Workers, Alive(w), proc' = [proc EXCEPT ![w] = NoProc],
           UNCHANGED <<lease, bind>>, UNCHANGED <<sup, rst, epoch, escaped>>,
           faults' \in 0 .. MaxFaults
    PROVE  IInv'
<1>1. /\ RegTyped' /\ proc'[w] = NoProc
      /\ \A v \in Workers : v # w => proc'[v] = proc[v]
  BY NoneTyped DEF IInv, Typed, RegTyped
<1>2. ~Alive(w)' /\ proc'[w].sup = 0
  BY <1>1, NoneTyped DEF Alive
<1> QED BY <1>1, <1>2, ChildKeeps

(* The claim, the binding and the acknowledgement of an orphan. *)
LEMMA ChildClaimStep ==
    ASSUME IInv, NEW w \in Workers, ChildClaim(w) \/ ChildBind(w) \/ ChildAck(w)
    PROVE  IInv'
<1>1. UNCHANGED <<sup, rst, epoch, escaped>> /\ UNCHANGED faults
      /\ proc[w].st \in {"claim", "bind", "ack"}
  BY DEF ChildClaim, ChildBind, ChildAck
<1>2. w # sup.w /\ Alive(w) /\ faults' \in 0 .. MaxFaults
  BY <1>1, NotOwn DEF IInv, Typed
<1>3. /\ lease \in [Workers -> LeaseType] /\ bind \in [Workers -> BindType]
      /\ proc \in [Workers -> ProcType] /\ RegTyped
      /\ lease[w] \in LeaseType /\ bind[w] \in BindType /\ proc[w] \in ProcType
      /\ proc[w].sup \in Owners
  BY DEF IInv, Typed, RegTyped, ProcType
<1>4. CASE UNCHANGED <<lease, bind>> /\ Exits(w)
  BY <1>1, <1>2, <1>4, DiesStep DEF Exits
<1>5. CASE \E st \in {"bind", "ack", "work"} : Steps(w, st)
  <2>1. PICK st \in {"bind", "ack", "work"} : proc' = [proc EXCEPT ![w].st = st]
    BY <1>5 DEF Steps
  <2>2. /\ proc' \in [Workers -> ProcType] /\ proc'[w].sup = proc[w].sup
        /\ \A v \in Workers : v # w => proc'[v] = proc[v]
    BY <1>3, <2>1 DEF ProcType, ProcStates
  <2>3. PICK l \in LeaseType, b \in BindType :
          /\ lease' = [lease EXCEPT ![w] = l] /\ bind' = [bind EXCEPT ![w] = b]
          /\ l.owner \in {lease[w].owner, proc[w].sup}
          /\ b.owner \in {bind[w].owner, proc[w].sup}
          /\ b.st \in {bind[w].st, "running"}
          /\ lease[w].st \in ActiveLease /\ lease[w].pid => l.st \in ActiveLease /\ l.pid
    <3>1. lease = [lease EXCEPT ![w] = lease[w]] /\ bind = [bind EXCEPT ![w] = bind[w]]
      BY <1>3
    <3>2. CASE UNCHANGED <<lease, bind>>
      BY <1>3, <3>1, <3>2
    <3>3. CASE ChildClaim(w) /\ lease[w].st = "registered"
      <4> DEFINE l == [st |-> "ready", pid |-> TRUE, group |-> TRUE, token |-> TRUE,
                       owner |-> proc[w].sup]
      <4>1. lease' = [lease EXCEPT ![w] = l] /\ UNCHANGED bind
        BY <3>3 DEF ChildClaim
      <4>2. l \in LeaseType /\ l.owner = proc[w].sup /\ l.st \in ActiveLease /\ l.pid
        BY <1>3 DEF LeaseType, LeaseStates, ActiveLease
      <4> HIDE DEF l
      <4> QED BY <1>3, <3>1, <4>1, <4>2
    <3>4. CASE ChildBind(w)
      <4> DEFINE b == [st |-> "running", token |-> TRUE, owner |-> proc[w].sup]
      <4>1. bind' = [bind EXCEPT ![w] = b] /\ UNCHANGED lease
        BY <3>4 DEF ChildBind
      <4>2. b \in BindType /\ b.owner = proc[w].sup /\ b.st = "running"
        BY <1>3 DEF BindType, BindStates, ActiveBind
      <4> HIDE DEF b
      <4> QED BY <1>3, <3>1, <4>1, <4>2
    <3>5. CASE ChildAck(w) /\ lease' = [lease EXCEPT ![w].st = "running"]
      <4> DEFINE l == [lease[w] EXCEPT !.st = "running"]
      <4>1. lease' = [lease EXCEPT ![w] = l] /\ UNCHANGED bind
        BY <1>3, <3>5 DEF ChildAck
      <4>2. l \in LeaseType /\ l.owner = lease[w].owner /\ l.st \in ActiveLease
            /\ l.pid = lease[w].pid
        BY <1>3 DEF LeaseType, LeaseStates, ActiveLease
      <4> HIDE DEF l
      <4> QED BY <1>3, <3>1, <4>1, <4>2
    <3>6. CASE (ChildClaim(w) /\ lease[w].st # "registered") \/ (ChildAck(w) /\ UNCHANGED lease)
      BY <3>2, <3>6 DEF ChildClaim, ChildAck
    <3>7. ChildAck(w) => lease' = [lease EXCEPT ![w].st = "running"] \/ UNCHANGED lease
      BY DEF ChildAck
    <3> QED BY <3>3, <3>4, <3>5, <3>6, <3>7
  <2>4. /\ RegTyped' /\ lease'[w] = l /\ bind'[w] = b
        /\ \A v \in Workers : v # w => lease'[v] = lease[v] /\ bind'[v] = bind[v]
    BY <1>3, <2>2, <2>3 DEF RegTyped
  <2>5. Named(w) => Named(w)'
    BY <2>3, <2>4 DEF Named, ActiveBind
  <2> QED BY <1>1, <1>2, <2>2, <2>3, <2>4, <2>5, ChildKeeps
<1>6. \/ UNCHANGED <<lease, bind>> /\ Exits(w)
      \/ \E st \in {"bind", "ack", "work"} : Steps(w, st)
  BY DEF ChildClaim, ChildBind, ChildAck
<1> QED BY <1>4, <1>5, <1>6

LEMMA WorkerDiesStep == ASSUME IInv, NEW w \in Workers, WorkerDies(w) PROVE IInv'
<1>1. faults' \in 0 .. MaxFaults
  BY FaultTyped DEF WorkerDies, IInv, Typed
<1> QED BY <1>1, DiesStep DEF WorkerDies, Exits, registry

-----------------------------------------------------------------------------
(* The whole specification.                                                *)

LEMMA InitInv == Init => IInv
<1>1. SUFFICES ASSUME Init PROVE IInv
  OBVIOUS
<1>2. \A w \in Workers : ~Alive(w) /\ bind[w].st = "none"
  BY <1>1, NoneTyped DEF Init, Alive
<1>3. RegTyped /\ sup = NoSup /\ rst = NoRst
  BY <1>1, NoneTyped DEF Init, RegTyped
<1>4. epoch \in EpochType /\ faults \in 0 .. MaxFaults /\ escaped = {}
  BY <1>1, FaultAssumption DEF Init, EpochType
<1>5. Typed
  BY <1>3, <1>4, NoneTyped DEF Typed
<1>6. Single /\ Alone /\ Unheard /\ TerminalDead /\ InPass /\ Covered
  BY <1>2, <1>3, NoneTyped
     DEF Single, Alone, Unheard, TerminalDead, InPass, Covered, HandoffClean, AtLarge
<1>7. SupPlaced /\ OwnWorker /\ Newcomer /\ Pending /\ Fenced
  BY <1>3, NoneTyped DEF SupPlaced, OwnWorker, Newcomer, Pending, Fenced, Waits, Registers
<1> QED BY <1>5, <1>6, <1>7 DEF IInv

LEMMA NextStep == ASSUME IInv, Next PROVE IInv'
<1>1. CASE Registering
  BY <1>1, PopenStep, RecordStep, GiveUpStep DEF Registering
<1>2. CASE Supervise
  BY <1>1, <1>2, BeginPassStep, PassOneStep, EndPassStep, IntentStep, LeaveStep,
     WorkerMissedStep DEF Supervise
<1>3. CASE Relaunch \/ Recycle \/ Shutdown \/ SupCrash
  BY <1>3, RelaunchStep, RecycleStep, LeaveStep
<1>4. CASE \E w \in Workers : Child(w) \/ WorkerDies(w)
  BY <1>4, ChildStartStep, ChildClaimStep, WorkerDiesStep DEF Child
<1>5. CASE Restart
  BY <1>5, FenceStep, VerifyStep, StopStep, ListDepartingStep, ReclaimOneStep,
     EndReclaimStep, LaunchStep, ReopenStep DEF Restart
<1>6. CASE Plan \/ RestarterCrash
  BY <1>6, PlanStep, RestarterCrashStep
<1> QED BY <1>2, <1>3, <1>4, <1>5, <1>6 DEF Next

LEMMA Invariance == Spec => []IInv
<1>1. IInv /\ [Next]_vars => IInv'
  BY NextStep, StutterStep
<1> QED BY InitInv, <1>1, PTL DEF Spec

(* The leases, the bindings, the processes and the locals of the supervisor *)
(* and of the restarter keep their types, and a reconciliation never works  *)
(* from two concerns for one worker, whatever the number of workers.        *)
THEOREM TypeCorrect == Spec => []TypeOK
<1>1. IInv => TypeOK
  BY TypedImplies DEF IInv
<1> QED BY Invariance, <1>1, PTL

(* Two execution workers never run at once, except for one that escaped the *)
(* registry (execution_worker_reconciler.py, worker_registrar.py), however  *)
(* many workers, supervisors, crashes and failing writes there are.         *)
THEOREM OneWorkerRuns == Spec => []OneWorker
<1>1. IInv => OneWorker
  BY SingleIs DEF IInv
<1> QED BY Invariance, <1>1, PTL

(* When the restarter lets the replacement in, no worker the registry names *)
(* is left alive unless it escaped (adapters/activation/build.py).          *)
THEOREM HandoffIsClean == Spec => []HandoffClean
<1>1. IInv => HandoffClean
  BY DEF IInv, Covered
<1> QED BY Invariance, <1>1, PTL

=============================================================================
