---------------------- MODULE IdempotentEffectsProofs ----------------------
(***************************************************************************)
(* Proofs about IdempotentEffects, for every set of keys and inputs, every *)
(* assignment of kinds and any number of faults: the type invariant, that  *)
(* the effect of a key stands at most once, that the durable records tell  *)
(* the truth about it, and that an answer once given is not withdrawn.     *)
(***************************************************************************)
EXTENDS IdempotentEffects, TLAPS

\* Points before the effect can have begun: nothing stands yet.
Before == Claims \cup {"forget", "before_receipt", "before_operation", "before_record"}

\* Points of execute_and_commit, whose handler asks whether the effect began.
Working == Commits \cup {"operate", "encode"}

\* Points at which the call owns the record of its key.
Owning == (Points \ (Claims \cup {"idle"})) \cup {"claim_applying", "claim_start"}

\* Points reached only after an effect was undone.
Undone == {"undone_receipt", "undone_operation", "undone_record"}

Once(k) == Kind[k] \in {"local", "lookup", "publish"}

(***************************************************************************)
(* The inductive invariant of one key that is to be applied once, about    *)
(* its call c, its record r and the effects S that stand: what stands is   *)
(* one effect with the input of the record, the record is there as long as *)
(* it stands, and nothing stands at a point that could free the key.       *)
(***************************************************************************)
Good(c, r, S) ==
    /\ S # {} => r.state # "none"
    /\ \A s \in S : s[2] = r.input
    /\ \A s, t \in S : s = t
    /\ c.at \in Before => S = {}
    /\ c.at \in Working => (c.began \/ S = {})
    /\ c.at = "operate" => S \subseteq {<<c.n, c.input>>}
    /\ c.at \in Owning => r.state # "none" /\ r.input = c.input
    /\ c.at \notin Undone /\ ~c.undone

AllGood == \A k \in Keys : Once(k) => Good(call[k], record[k], standing[k])

-----------------------------------------------------------------------------
\* What the program of a call looks like, as far as the proofs need it.
LEMMA ProgramShape ==
    ASSUME NEW p \in DOMAIN Program
    PROVE  /\ Program[p].store \in {"op", "receipt", "record", "result"}
           /\ Program[p].next \in Points
           /\ Program[p].store = "receipt" => Program[p].value \in ReceiptStates
           /\ Program[p].store = "op" => Program[p].value \in OpStates
           /\ Program[p].store = "record" =>
                 Program[p].value \in RecordStates \cup {"none"}
  BY DEF Program, Write, Points, ReceiptStates, OpStates, RecordStates

\* How the points of the invariant follow one another.
LEMMA ProgramFlow ==
    ASSUME NEW p \in DOMAIN Program
    PROVE  /\ Program[p].store = "record" /\ Program[p].value = "none" =>
                 p \in {"undone_record", "before_record", "forget"}
           /\ Program[p].next \in Before => p \in Before
           /\ Program[p].next \in Working => p \in Commits \cup {"claim_start"}
           /\ Program[p].next = "operate" => p = "claim_start"
           /\ Program[p].next \in Owning => p \in Owning \cup {"claim_record"}
           /\ Program[p].next \in Undone => p \in Undone
<1>1. Program[p].store = "record" /\ Program[p].value = "none" =>
           p \in {"undone_record", "before_record", "forget"}
  BY DEF Program, Write
<1>2. Program[p].next \in Before => p \in Before
  BY DEF Program, Write, Before, Claims
<1>3. Program[p].next \in Working => p \in Commits \cup {"claim_start"}
  BY DEF Program, Write, Working, Commits
<1>4. Program[p].next = "operate" => p = "claim_start"
  BY DEF Program, Write
<1>5. Program[p].next \in Owning => p \in Owning \cup {"claim_record"}
  <2>1. p # "idle"
    BY DEF Program, Write
  <2> p \in Points
    BY DEF Points
  <2>2. p \in Owning \/ p \in {"claim_operation", "claim_receipt", "claim_record"}
    BY <2>1 DEF Owning, Claims
  <2>3. p = "claim_operation" => Program[p].next = "claim_receipt"
    BY DEF Program, Write
  <2>4. p = "claim_receipt" => Program[p].next = "claim_record"
    BY DEF Program, Write
  <2>5. "claim_receipt" \notin Owning /\ "claim_record" \notin Owning
    BY DEF Owning, Claims
  <2>6. QED
    BY <2>2, <2>3, <2>4, <2>5
<1>6. Program[p].next \in Undone => p \in Undone
  BY DEF Program, Write, Undone
<1>7. QED
  BY <1>1, <1>2, <1>3, <1>4, <1>5, <1>6

-----------------------------------------------------------------------------
(***************************************************************************)
(* Type correctness.  A live call has an attempt and an input, which a     *)
(* write to the record relies on.                                          *)
(***************************************************************************)
LiveCalls ==
    \A k \in Keys : call[k].at # "idle" => call[k].n \in Attempts /\ call[k].input \in Inputs

Typed == TypeOK /\ LiveCalls

LEMMA IdleIsCall == Idle \in Calls
  BY DEF Idle, Calls, Points, ReceiptStates

LEMMA NoRecordIsRecord == NoRecord \in Records
  BY DEF Records

LEMMA InitType == Init => Typed
  BY IdleIsCall, NoRecordIsRecord, FaultAssumption
  DEF Init, Typed, TypeOK, LiveCalls, Idle, ReceiptStates, OpStates

LEMMA EnterType ==
    ASSUME TypeOK, NEW k \in Keys, NEW i \in Inputs, NEW p \in Points,
           NEW n \in Attempts, Enter(k, p, n, i)
    PROVE  call' \in [Keys -> Calls]
  <1>1. [Idle EXCEPT !.at = p, !.n = n, !.input = i] \in Calls
    BY DEF Idle, Calls, ReceiptStates
  <1>2. QED
    BY <1>1 DEF Enter, TypeOK

LEMMA ContinueType ==
    ASSUME TypeOK, NEW k \in Keys, NEW p \in Points
    PROVE  /\ Continue(k, p) \in Calls
           /\ \A s \in ReceiptStates : [Continue(k, p) EXCEPT !.seen = s] \in Calls
  <1>1. call[k] \in Calls
    BY DEF TypeOK
  <1>2. [call[k] EXCEPT !.at = p] \in Calls
    BY <1>1 DEF Calls
  <1>3. Continue(k, p) \in Calls
    BY <1>2, IdleIsCall DEF Continue
  <1>4. \A s \in ReceiptStates : [Continue(k, p) EXCEPT !.seen = s] \in Calls
    BY <1>3 DEF Calls
  <1>5. QED
    BY <1>3, <1>4

LEMMA RaiseType ==
    ASSUME TypeOK, NEW k \in Keys, Raise(k)
    PROVE  call' \in [Keys -> Calls]
  <1>1. Handler(k) \in Points
    BY DEF Handler, Points, Program
  <1>2. Continue(k, Handler(k)) \in Calls
    BY <1>1, ContinueType
  <1>3. QED
    BY <1>2, IdleIsCall DEF Raise, TypeOK

LEMMA OpIdType ==
    ASSUME NEW k \in Keys, NEW n \in Attempts
    PROVE  OpId(k, n) \in Attempts
  BY FaultAssumption DEF OpId, Attempts

LEMMA DoType ==
    ASSUME Typed, NEW k \in Keys, Do(k)
    PROVE  Typed'
  <1> DEFINE w == Program[call[k].at]
             n == call[k].n
  <1> USE DEF Typed
  <1>1. call[k].at \in DOMAIN Program
    BY DEF Do
  <1>2. /\ w.store \in {"op", "receipt", "record", "result"}
        /\ w.next \in Points
        /\ w.store = "receipt" => w.value \in ReceiptStates
        /\ w.store = "op" => w.value \in OpStates
        /\ w.store = "record" => w.value \in RecordStates \cup {"none"}
    BY <1>1, ProgramShape
  <1>3. call' \in [Keys -> Calls]
    BY <1>2, ContinueType DEF Do, TypeOK
  <1>4. call[k].at # "idle"
    BY <1>1 DEF Program
  <1>5. n \in Attempts /\ call[k].input \in Inputs
    BY <1>4 DEF LiveCalls
  <1>6. OpId(k, n) \in Attempts
    BY <1>5, OpIdType
  <1>7. /\ receipt' \in [Keys -> [Attempts -> ReceiptStates]]
        /\ op' \in [Keys -> [Attempts -> OpStates]]
        /\ old' \in [Keys -> SUBSET Attempts]
        /\ result' \in [Keys -> SUBSET Attempts]
    BY <1>2, <1>6 DEF Do, TypeOK
  <1>8. record' \in [Keys -> Records]
    <2>1. w.store = "record" => Saved(k, w) \in Records
      BY <1>2, <1>5 DEF Saved, Records
    <2>2. QED
      BY <2>1 DEF Do, TypeOK
  <1>9. TypeOK'
    BY <1>3, <1>7, <1>8 DEF Do, TypeOK
  <1>10. LiveCalls'
    <2> SUFFICES ASSUME NEW j \in Keys, call'[j].at # "idle"
                 PROVE  call'[j].n \in Attempts /\ call'[j].input \in Inputs
      BY DEF LiveCalls
    <2>1. CASE j # k
      BY <2>1 DEF Do, TypeOK, LiveCalls
    <2>2. CASE j = k
      <3>1. w.next # "idle"
        BY <2>2 DEF Do, TypeOK, Continue, Idle
      <3>2. Continue(k, w.next) = [call[k] EXCEPT !.at = w.next]
        BY <3>1 DEF Continue
      <3>3. call[k] \in Calls
        BY DEF TypeOK
      <3>4. call'[k].n = call[k].n /\ call'[k].input = call[k].input
        BY <3>2, <3>3 DEF Do, TypeOK, Calls
      <3>5. QED
        BY <2>2, <3>4, <1>5
    <2>3. QED
      BY <2>1, <2>2
  <1>11. QED
    BY <1>9, <1>10


\* A step that leaves everything but the call alone, and gives the call of
\* one key a type-correct value.
LEMMA CallType ==
    ASSUME Typed, NEW k \in Keys, NEW c \in Calls,
           c.at # "idle" => c.n \in Attempts /\ c.input \in Inputs,
           call' = [call EXCEPT ![k] = c]
    PROVE  call' \in [Keys -> Calls] /\ LiveCalls'
  BY DEF Typed, TypeOK, LiveCalls

LEMMA MovedCall ==
    ASSUME Typed, NEW k \in Keys, call[k].at # "idle",
           NEW p \in Points, NEW b \in BOOLEAN, NEW u \in BOOLEAN, NEW z \in BOOLEAN
    PROVE  LET c == [call[k] EXCEPT !.at = p, !.began = b, !.undone = u, !.known = z] IN
           /\ c \in Calls
           /\ c.n \in Attempts /\ c.input \in Inputs
           /\ c.at = p /\ c.n = call[k].n /\ c.input = call[k].input
           /\ c.began = b /\ c.undone = u /\ c.known = z
  <1>1. call[k] \in Calls
    BY DEF Typed, TypeOK
  <1>2. call[k].n \in Attempts /\ call[k].input \in Inputs
    BY DEF Typed, LiveCalls
  <1>3. QED
    BY <1>1, <1>2 DEF Calls

LEMMA RaiseTyped ==
    ASSUME Typed, NEW k \in Keys, call[k].at # "idle", Raise(k)
    PROVE  call' \in [Keys -> Calls] /\ LiveCalls'
  <1>1. call[k] \in Calls /\ call[k].n \in Attempts /\ call[k].input \in Inputs
    BY DEF Typed, TypeOK, LiveCalls
  <1>2. Handler(k) \in Points
    BY DEF Handler, Points, Program
  <1>3. PICK c \in Calls : /\ call' = [call EXCEPT ![k] = c]
                           /\ c.at # "idle" => c.n = call[k].n /\ c.input = call[k].input
    <2>1. CASE call[k].at \in Commits \cup {"operate", "encode"} /\ Handler(k) # "idle"
      <3>1. [call[k] EXCEPT !.at = Handler(k)] \in Calls
        BY <1>1, <1>2 DEF Calls
      <3>2. QED
        BY <2>1, <3>1, <1>1 DEF Raise, Continue, Calls
    <2>2. CASE ~(call[k].at \in Commits \cup {"operate", "encode"} /\ Handler(k) # "idle")
      BY <2>2, IdleIsCall DEF Raise, Continue, Idle
    <2>3. QED
      BY <2>1, <2>2
  <1>4. QED
    BY <1>1, <1>3, CallType

LEMMA EnterTyped ==
    ASSUME Typed, NEW k \in Keys, NEW i \in Inputs, NEW p \in Points,
           NEW n \in Attempts, Enter(k, p, n, i)
    PROVE  call' \in [Keys -> Calls] /\ LiveCalls'
  <1> DEFINE c == [Idle EXCEPT !.at = p, !.n = n, !.input = i]
  <1>1. c \in Calls /\ c.n = n /\ c.input = i
    BY DEF Idle, Calls, ReceiptStates
  <1>2. call' = [call EXCEPT ![k] = c]
    BY DEF Enter
  <1>3. QED
    BY <1>1, <1>2, CallType

LEMMA RequestType ==
    ASSUME Typed, NEW k \in Keys, Request(k)
    PROVE  Typed'
  <1> USE DEF Typed
  <1>1. PICK i \in Inputs : Ask(k, i) \/ GiveUpStale(k, i) \/ Reconcile(k, i) \/ ReconcileMiss(k, i)
    BY DEF Request
  <1>2. {"claim_operation", "reconcile_result", "forget"} \subseteq Points
    BY DEF Points, Program
  <1>3. attempts[k] <= MaxFaults => /\ attempts[k] + 1 \in Attempts
                                    /\ attempts[k] + 1 \in 0 .. (MaxFaults + 1)
    BY FaultAssumption DEF TypeOK, Attempts
  <1>4. CASE Ask(k, i)
    <2>1. call' \in [Keys -> Calls] /\ LiveCalls'
      BY <1>2, <1>3, <1>4, EnterTyped DEF Ask, StartsAfresh
    <2>2. QED
      BY <2>1, <1>3, <1>4 DEF Ask, TypeOK, StartsAfresh
  <1>5. CASE GiveUpStale(k, i)
    <2>1. record[k] \in Records /\ record[k].state = "in_progress"
      BY <1>5 DEF GiveUpStale, TypeOK
    <2>2. record[k] # NoRecord
      BY <2>1 DEF NoRecord
    <2>3. [record[k] EXCEPT !.state = "uncertain", !.stale = FALSE] \in Records
      BY <2>1, <2>2 DEF Records, RecordStates
    <2>4. record' \in [Keys -> Records]
      BY <2>3, <1>5 DEF GiveUpStale, TypeOK
    <2>5. QED
      BY <2>4, <1>5 DEF GiveUpStale, TypeOK, LiveCalls
  <1>6. CASE Reconcile(k, i)
    <2>1. record[k].attempt \in Attempts
      <3>1. record[k] # NoRecord
        BY <1>6 DEF Reconcile, Doubtful, NoRecord
      <3>2. QED
        BY <3>1 DEF TypeOK, Records
    <2>2. call' \in [Keys -> Calls] /\ LiveCalls'
      BY <1>2, <2>1, <1>6, EnterTyped DEF Reconcile
    <2>3. QED
      BY <2>2, <1>6 DEF Reconcile, TypeOK
  <1>7. CASE ReconcileMiss(k, i)
    <2>1. call' \in [Keys -> Calls] /\ LiveCalls'
      BY <1>2, <1>3, <1>7, EnterTyped DEF ReconcileMiss
    <2>2. QED
      BY <2>1, <1>3, <1>7 DEF ReconcileMiss, TypeOK
  <1>8. QED
    BY <1>1, <1>4, <1>5, <1>6, <1>7


LEMMA ProceedType ==
    ASSUME Typed, NEW k \in Keys, Proceed(k)
    PROVE  Typed'
  <1> USE DEF Typed
  <1>0. {"commit_result", "operate", "commit_again", "encode_receipt", "undone_receipt"}
            \subseteq Points
    BY DEF Points, Program
  <1>1. CASE Do(k)
    BY <1>1, DoType
  <1>2. CASE Refused(k)
    <2>1. call[k].at # "idle"
      BY <1>2 DEF Refused, Program
    <2>2. call' \in [Keys -> Calls] /\ LiveCalls'
      BY <1>2, <2>1, RaiseTyped DEF Refused
    <2>3. call[k].n - 1 \in 0 .. (MaxFaults + 1)
      BY <2>1, FaultAssumption DEF LiveCalls, Attempts
    <2>4. QED
      BY <2>2, <2>3, <1>2 DEF Refused, TypeOK
  <1>3. CASE BeginEffect(k)
    <2>1. call[k].at # "idle" /\ call[k] \in Calls
      BY <1>3 DEF BeginEffect, TypeOK
    <2>2. call[k].n \in Attempts /\ call[k].input \in Inputs
      BY <2>1 DEF LiveCalls
    <2>3. /\ [call[k] EXCEPT !.at = "commit_result"] \in Calls
          /\ [call[k] EXCEPT !.began = TRUE] \in Calls
      BY <2>1, <1>0 DEF Calls
    <2>4. call' \in [Keys -> Calls] /\ LiveCalls'
      <3> DEFINE c == IF Kind[k] = "lookup" /\ \E s \in standing[k] : s[2] = call[k].input
                      THEN [call[k] EXCEPT !.at = "commit_result"]
                      ELSE [call[k] EXCEPT !.began = TRUE]
      <3>1. call' = [call EXCEPT ![k] = c]
        BY <1>3 DEF BeginEffect
      <3>2. c \in Calls /\ c.n \in Attempts /\ c.input \in Inputs
        BY <2>1, <2>2, <2>3 DEF Calls
      <3>3. QED
        BY <3>1, <3>2, CallType
    <2>5. QED
      BY <2>4, <1>3 DEF BeginEffect, TypeOK
  <1>4. CASE ApplyEffect(k)
    <2>1. Mine(k) \in Attempts \X Inputs
      BY <1>4 DEF ApplyEffect, LiveCalls, Mine
    <2>2. QED
      BY <2>1, <1>4 DEF ApplyEffect, TypeOK, LiveCalls
  <1>5. CASE FinishEffect(k)
    <2>1. call[k].at # "idle" /\ call[k] \in Calls
      BY <1>5 DEF FinishEffect, TypeOK
    <2>2. call[k].n \in Attempts /\ call[k].input \in Inputs
      BY <2>1 DEF LiveCalls
    <2> DEFINE c == [call[k] EXCEPT !.at = "commit_result", !.known = (Kind[k] = "publish")]
    <2>3. c \in Calls /\ c.n \in Attempts /\ c.input \in Inputs
      BY <2>1, <2>2, <1>0 DEF Calls
    <2>4. call' = [call EXCEPT ![k] = c]
      BY <1>5 DEF FinishEffect
    <2>5. call' \in [Keys -> Calls] /\ LiveCalls'
      BY <2>3, <2>4, CallType
    <2>6. QED
      BY <2>5, <1>5 DEF FinishEffect, TypeOK
  <1>6. CASE Encode(k)
    <2>1. call[k].at # "idle" /\ call[k] \in Calls
      BY <1>6 DEF Encode, TypeOK
    <2>2. call[k].n \in Attempts /\ call[k].input \in Inputs
      BY <2>1 DEF LiveCalls
    <2> DEFINE c == [call[k] EXCEPT !.at = "commit_again"]
    <2>3. c \in Calls /\ c.n \in Attempts /\ c.input \in Inputs
      BY <2>1, <2>2, <1>0 DEF Calls
    <2>4. call' = [call EXCEPT ![k] = c]
      BY <1>6 DEF Encode
    <2>5. call' \in [Keys -> Calls] /\ LiveCalls'
      BY <2>3, <2>4, CallType
    <2>6. QED
      BY <2>5, <1>6 DEF Encode, TypeOK
  <1>7. QED
    BY <1>1, <1>2, <1>3, <1>4, <1>5, <1>6 DEF Proceed

LEMMA SweptTypes ==
    ASSUME TypeOK, NEW k \in Keys, NEW n \in Attempts
    PROVE  SweptReceipt(k, n) \in ReceiptStates /\ SweptOp(k, n) \in OpStates
  <1>1. SweptReceipt(k, n) \in ReceiptStates
    BY DEF SweptReceipt, TypeOK, ReceiptStates
  <1>2. op[k][OpId(k, n)] \in OpStates
    BY OpIdType DEF TypeOK
  <1>3. SweptOp(k, n) \in OpStates
    <2>1. \/ SweptOp(k, n) = op[k][OpId(k, n)]
          \/ SweptOp(k, n) \in {"orphaned", "succeeded", "failed_before_effect", "effect_unknown"}
      BY DEF SweptOp
    <2>2. QED
      BY <1>2, <2>1 DEF OpStates
  <1>4. QED
    BY <1>1, <1>3

LEMMA MisfortuneType ==
    ASSUME Typed, NEW k \in Keys, Misfortune(k)
    PROVE  Typed'
  <1> USE DEF Typed
  <1>0. {"encode_receipt", "undone_receipt"} \subseteq Points
    BY DEF Points, Program
  <1>f. Fault => faults' \in 0 .. MaxFaults
    BY FaultAssumption DEF Fault, TypeOK
  <1>1. CASE StoreFails(k)
    <2>1. call[k].at # "idle"
      BY <1>1 DEF StoreFails, Program
    <2>2. call' \in [Keys -> Calls] /\ LiveCalls'
      BY <1>1, <2>1, RaiseTyped DEF StoreFails
    <2>3. QED
      BY <2>2, <1>1, <1>f DEF StoreFails, TypeOK
  <1>2. CASE Crash(k)
    <2>1. call' \in [Keys -> Calls] /\ LiveCalls'
      BY <1>2, IdleIsCall, CallType DEF Crash, Idle
    <2>2. QED
      BY <2>1, <1>2, <1>f DEF Crash, TypeOK
  <1>3. CASE OperateFails(k)
    <2>1. call[k].at # "idle"
      BY <1>3 DEF OperateFails
    <2>2. call' \in [Keys -> Calls] /\ LiveCalls'
      BY <1>3, <2>1, RaiseTyped DEF OperateFails
    <2>3. QED
      BY <2>2, <1>3, <1>f DEF OperateFails, TypeOK
  <1>4. CASE UndoEffect(k)
    <2>1. call[k].at # "idle" /\ call[k] \in Calls
      BY <1>4 DEF UndoEffect, TypeOK
    <2>2. call[k].n \in Attempts /\ call[k].input \in Inputs
      BY <2>1 DEF LiveCalls
    <2> DEFINE c == [call[k] EXCEPT !.undone = TRUE, !.at = "undone_receipt"]
    <2>3. c \in Calls /\ c.n \in Attempts /\ c.input \in Inputs
      BY <2>1, <2>2, <1>0 DEF Calls
    <2>4. call' = [call EXCEPT ![k] = c]
      BY <1>4 DEF UndoEffect
    <2>5. call' \in [Keys -> Calls] /\ LiveCalls'
      BY <2>3, <2>4, CallType
    <2>6. QED
      BY <2>5, <1>4, <1>f DEF UndoEffect, TypeOK
  <1>5. CASE EncodeFails(k)
    <2>1. call[k].at # "idle" /\ call[k] \in Calls
      BY <1>5 DEF EncodeFails, TypeOK
    <2>2. call[k].n \in Attempts /\ call[k].input \in Inputs
      BY <2>1 DEF LiveCalls
    <2> DEFINE c == [call[k] EXCEPT !.at = "encode_receipt"]
    <2>3. c \in Calls /\ c.n \in Attempts /\ c.input \in Inputs
      BY <2>1, <2>2, <1>0 DEF Calls
    <2>4. call' = [call EXCEPT ![k] = c]
      BY <1>5 DEF EncodeFails
    <2>5. call' \in [Keys -> Calls] /\ LiveCalls'
      BY <2>3, <2>4, CallType
    <2>6. QED
      BY <2>5, <1>5, <1>f DEF EncodeFails, TypeOK
  <1>6. ASSUME NEW n \in Attempts, StartupDies(k, n)
        PROVE  Typed'
    BY <1>6, <1>f, SweptTypes DEF StartupDies, TypeOK, LiveCalls
  <1>7. QED
    BY <1>1, <1>2, <1>3, <1>4, <1>5, <1>6 DEF Misfortune

LEMMA AgeType ==
    ASSUME Typed, NEW k \in Keys, Age(k)
    PROVE  Typed'
  <1> USE DEF Typed
  <1>1. faults' \in 0 .. MaxFaults
    BY FaultAssumption DEF Age, Fault, TypeOK
  <1>2. record' \in [Keys -> Records]
    <2>1. CASE record[k].state = "in_progress"
      <3>1. record[k] \in Records /\ record[k] # NoRecord
        BY <2>1 DEF TypeOK, NoRecord
      <3>2. [record[k] EXCEPT !.stale = TRUE] \in Records
        BY <3>1 DEF Records
      <3>3. QED
        BY <2>1, <3>2 DEF Age, TypeOK
    <2>2. CASE record[k].state # "in_progress"
      BY <2>2 DEF Age, TypeOK
    <2>3. QED
      BY <2>1, <2>2
  <1>3. QED
    BY <1>1, <1>2 DEF Age, TypeOK, LiveCalls

LEMMA StartupType ==
    ASSUME Typed, NEW k \in Keys, Startup(k)
    PROVE  Typed'
  <1>1. \A n \in Attempts : SweptReceipt(k, n) \in ReceiptStates /\ SweptOp(k, n) \in OpStates
    BY SweptTypes DEF Typed
  <1>2. [n \in Attempts |-> SweptReceipt(k, n)] \in [Attempts -> ReceiptStates]
    BY <1>1
  <1>3. [n \in Attempts |-> IF OpId(k, n) = n THEN SweptOp(k, n) ELSE op[k][n]]
            \in [Attempts -> OpStates]
    BY <1>1 DEF Typed, TypeOK
  <1>4. QED
    BY <1>2, <1>3 DEF Startup, Typed, TypeOK, LiveCalls

LEMMA StutterType == Typed /\ UNCHANGED vars => Typed'
  BY DEF Typed, TypeOK, LiveCalls, vars

(***************************************************************************)
(* Every reachable state is type-correct: the records, receipts,           *)
(* operations and calls of execute_idempotent keep their shape.            *)
(***************************************************************************)
THEOREM TypeCorrect == Spec => []TypeOK
<1>1. Init => Typed
  BY InitType
<1>2. Typed /\ [Next]_vars => Typed'
  BY ProceedType, RequestType, MisfortuneType, AgeType, StartupType, StutterType DEF Next
<1>3. Typed => TypeOK
  BY DEF Typed
<1>4. QED
  BY <1>1, <1>2, <1>3, PTL DEF Spec


-----------------------------------------------------------------------------
(***************************************************************************)
(* The effect of a key stands at most once.  Every step concerns one key,  *)
(* so it is enough to look at the key of the step.                         *)
(***************************************************************************)
LEMMA OneKey ==
    ASSUME AllGood, NEW k \in Keys,
           \A j \in Keys \ {k} : /\ call'[j] = call[j] /\ record'[j] = record[j]
                                 /\ standing'[j] = standing[j],
           Once(k) => Good(call'[k], record'[k], standing'[k])
    PROVE  AllGood'
  <1> SUFFICES ASSUME NEW j \in Keys, Once(j)
               PROVE  Good(call'[j], record'[j], standing'[j])
    BY DEF AllGood, Once, Good
  <1>1. CASE j = k
    BY <1>1
  <1>2. CASE j # k
    BY <1>2 DEF AllGood
  <1>3. QED
    BY <1>1, <1>2

\* How the sets of points relate.
LEMMA PointSets ==
    /\ "idle" \notin Before /\ "idle" \notin Working /\ "idle" \notin Owning
    /\ "idle" \notin Undone /\ "idle" # "operate"
    /\ Before \cap Working = {} /\ Undone \cap Working = {}
    /\ "claim_start" \in Before /\ "claim_record" \in Before
    /\ Working \subseteq Owning
  <1>1. Commits \subseteq DOMAIN Program
    BY DEF Commits, Program
  <1>2. Working \subseteq Points
    BY <1>1 DEF Working, Points
  <1>3. Working \cap (Claims \cup {"idle"}) = {}
    BY DEF Working, Commits, Claims
  <1>4. Working \subseteq Owning
    BY <1>2, <1>3 DEF Owning
  <1>5. "idle" \notin Owning
    BY DEF Owning
  <1>6. QED
    BY <1>4, <1>5 DEF Before, Working, Undone, Claims, Commits

LEMMA OwnsOrBefore ==
    ASSUME NEW p \in DOMAIN Program
    PROVE  p \in Owning \/ p \in Before
  <1>1. p # "idle" /\ p \in Points
    BY DEF Program, Points
  <1>2. QED
    BY <1>1 DEF Owning, Before

LEMMA IdleGood ==
    ASSUME NEW c, NEW r, NEW S, Good(c, r, S)
    PROVE  Good(Idle, r, S)
  BY PointSets DEF Good, Idle

LEMMA DoGood ==
    ASSUME Typed, AllGood, NEW k \in Keys, Do(k)
    PROVE  AllGood'
  <1> DEFINE p == call[k].at
             w == Program[p]
             S == standing[k]
  <1>1. p \in DOMAIN Program
    BY DEF Do
  <1>2. call[k] \in Calls /\ record[k] \in Records
    BY DEF Typed, TypeOK
  <1>3. \A j \in Keys \ {k} : /\ call'[j] = call[j] /\ record'[j] = record[j]
                              /\ standing'[j] = standing[j]
    BY DEF Do, Typed, TypeOK
  <1>4. ASSUME Once(k)
        PROVE  Good(call'[k], record'[k], standing'[k])
    <2>1. Good(call[k], record[k], S)
      BY <1>4 DEF AllGood
    <2>2. standing'[k] = S
      BY DEF Do
    <2>3. record'[k] = IF w.store = "record" THEN Saved(k, w) ELSE record[k]
      BY <1>4 DEF Do, Typed, TypeOK, Keyed, Once
    <2>4. p \in Owning \/ S = {}
      BY <1>1, <2>1, OwnsOrBefore DEF Good
    <2>5. /\ S # {} => record'[k].state # "none"
          /\ \A s \in S : s[2] = record'[k].input
      <3>1. CASE w.store # "record"
        BY <2>1, <2>3, <3>1 DEF Good
      <3>2. CASE w.store = "record" /\ w.value = "none"
        <4>1. p \in {"undone_record", "before_record", "forget"}
          BY <1>1, <3>2, ProgramFlow
        <4>2. S = {}
          BY <4>1, <2>1 DEF Good, Before, Undone
        <4>3. QED
          BY <4>2
      <3>3. CASE w.store = "record" /\ w.value # "none"
        <4>1. record'[k].state # "none" /\ record'[k].input = call[k].input
          BY <2>3, <3>3 DEF Saved
        <4>2. \A s \in S : s[2] = call[k].input
          BY <2>1, <2>4 DEF Good
        <4>3. QED
          BY <4>1, <4>2
      <3>4. QED
        BY <3>1, <3>2, <3>3
    <2>6. CASE w.next = "idle"
      <3>1. call'[k] = Idle
        BY <2>6 DEF Do, Typed, TypeOK, Continue
      <3>2. QED
        BY <3>1, <2>1, <2>2, <2>5, PointSets DEF Good, Idle
    <2>7. CASE w.next # "idle"
      <3>1. /\ call'[k].at = w.next /\ call'[k].n = call[k].n
            /\ call'[k].input = call[k].input /\ call'[k].began = call[k].began
            /\ call'[k].undone = call[k].undone
        <4>1. Continue(k, w.next) = [call[k] EXCEPT !.at = w.next]
          BY <2>7 DEF Continue
        <4>2. QED
          BY <4>1, <1>2 DEF Do, Typed, TypeOK, Calls
      <3>2. w.next \in Before => S = {}
        BY <1>1, <2>1, ProgramFlow DEF Good
      <3>3. w.next \in Working => (call[k].began \/ S = {})
        <4>1. w.next \in Working => p \in Working \/ p = "claim_start"
          BY <1>1, ProgramFlow DEF Working
        <4>2. QED
          BY <4>1, <2>1, PointSets DEF Good
      <3>4. w.next = "operate" => S = {}
        BY <1>1, <2>1, ProgramFlow, PointSets DEF Good
      <3>5. w.next \in Owning => record'[k].state # "none" /\ record'[k].input = call[k].input
        <4>1. CASE w.store # "record"
          <5>1. p # "claim_record"
            BY <4>1 DEF Program, Write
          <5>2. w.next \in Owning => p \in Owning
            BY <1>1, <5>1, ProgramFlow
          <5>3. QED
            BY <4>1, <5>2, <2>1, <2>3 DEF Good
        <4>2. CASE w.store = "record" /\ w.value = "none"
          <5>1. p \in {"undone_record", "before_record", "forget"}
            BY <1>1, <4>2, ProgramFlow
          <5>2. w.next \in {"idle", "claim_operation"}
            BY <5>1 DEF Program, Write
          <5>3. QED
            BY <5>2 DEF Owning, Claims
        <4>3. CASE w.store = "record" /\ w.value # "none"
          BY <4>3, <2>3 DEF Saved
        <4>4. QED
          BY <4>1, <4>2, <4>3
      <3>6. w.next \notin Undone
        BY <1>1, <2>1, ProgramFlow DEF Good
      <3>7. QED
        BY <2>1, <2>2, <2>5, <3>1, <3>2, <3>3, <3>4, <3>5, <3>6 DEF Good
    <2>8. QED
      BY <2>6, <2>7
  <1>5. QED
    BY <1>3, <1>4, OneKey


\* An exception keeps the invariant: the key is freed only from a handler
\* that knows the effect never began.
LEMMA RaiseGood ==
    ASSUME Typed, AllGood, NEW k \in Keys, call[k].at # "idle", Raise(k),
           UNCHANGED <<record, standing>>
    PROVE  AllGood'
  <1>1. call[k] \in Calls
    BY DEF Typed, TypeOK
  <1>2. \A j \in Keys \ {k} : /\ call'[j] = call[j] /\ record'[j] = record[j]
                              /\ standing'[j] = standing[j]
    BY DEF Raise, Typed, TypeOK
  <1>3. ASSUME Once(k)
        PROVE  Good(call'[k], record'[k], standing'[k])
    <2>1. Good(call[k], record[k], standing[k])
      BY <1>3 DEF AllGood
    <2>2. CASE call[k].at \in Working /\ Handler(k) # "idle"
      <3> DEFINE h == Handler(k)
      <3>1. call'[k] = [call[k] EXCEPT !.at = h]
        BY <2>2 DEF Raise, Continue, Working, Typed, TypeOK
      <3>2. /\ call'[k].at = h /\ call'[k].n = call[k].n
            /\ call'[k].input = call[k].input /\ call'[k].began = call[k].began
            /\ call'[k].undone = call[k].undone
        BY <3>1, <1>1 DEF Calls
      <3>3. ~call[k].undone /\ (call[k].began \/ standing[k] = {})
        BY <2>1, <2>2 DEF Good
      <3>4. /\ h \in {"known_result", "unknown_receipt", "before_receipt"}
            /\ h = "before_receipt" => ~call[k].began
        BY <2>2, <3>3 DEF Handler
      <3>5. record[k].state # "none" /\ record[k].input = call[k].input
        BY <2>1, <2>2, PointSets DEF Good
      <3>6. h \notin Working /\ h \notin Undone /\ h # "operate"
        BY <3>4 DEF Working, Commits, Undone
      <3>7. h \in Before => standing[k] = {}
        BY <3>3, <3>4 DEF Before, Claims
      <3>8. QED
        BY <2>1, <3>2, <3>3, <3>5, <3>6, <3>7 DEF Good
    <2>3. CASE ~(call[k].at \in Working /\ Handler(k) # "idle")
      <3>1. call'[k] = Idle
        BY <2>3 DEF Raise, Continue, Working, Typed, TypeOK
      <3>2. QED
        BY <3>1, <2>1, IdleGood
    <2>4. QED
      BY <2>2, <2>3
  <1>4. QED
    BY <1>2, <1>3, OneKey

LEMMA RequestGood ==
    ASSUME Typed, AllGood, NEW k \in Keys, Request(k)
    PROVE  AllGood'
  <1>1. PICK i \in Inputs : Ask(k, i) \/ GiveUpStale(k, i) \/ Reconcile(k, i) \/ ReconcileMiss(k, i)
    BY DEF Request
  <1>2. \A j \in Keys \ {k} : /\ call'[j] = call[j] /\ record'[j] = record[j]
                              /\ standing'[j] = standing[j]
    BY <1>1 DEF Ask, GiveUpStale, Reconcile, ReconcileMiss, Enter, Typed, TypeOK
  <1>3. ASSUME Once(k)
        PROVE  Good(call'[k], record'[k], standing'[k])
    <2>1. Good(call[k], record[k], standing[k])
      BY <1>3 DEF AllGood
    <2>2. \A p \in Points, n \in Attempts :
             Enter(k, p, n, i) =>
                 call'[k].at = p /\ call'[k].input = i /\ ~call'[k].undone
      BY DEF Enter, Idle, Typed, TypeOK
    <2>3. {"claim_operation", "reconcile_result", "forget"} \subseteq Points
      BY DEF Points, Program
    <2>4. record[k].state # "none" => record[k].attempt \in Attempts
      BY DEF Typed, TypeOK, Records, NoRecord
    <2>5. attempts[k] <= MaxFaults => attempts[k] + 1 \in Attempts
      BY FaultAssumption DEF Typed, TypeOK, Attempts
    <2>6. CASE Ask(k, i)
      <3>1. record[k].state = "none" /\ standing[k] = {}
        BY <2>6, <1>3, <2>1 DEF Ask, StartsAfresh, Once, Good
      <3>2. call'[k].at = "claim_operation" /\ ~call'[k].undone
        BY <2>6, <2>2, <2>3, <2>5 DEF Ask, StartsAfresh
      <3>3. "claim_operation" \notin Working /\ "claim_operation" \notin Owning
            /\ "claim_operation" \notin Undone
        BY DEF Working, Commits, Owning, Claims, Undone
      <3>4. standing'[k] = {}
        BY <2>6, <3>1 DEF Ask
      <3>5. QED
        BY <3>2, <3>3, <3>4 DEF Good
    <2>7. CASE GiveUpStale(k, i)
      <3>1. record[k] \in Records /\ record[k] # NoRecord
        BY <2>7 DEF GiveUpStale, Typed, TypeOK, NoRecord
      <3>2. record'[k].state = "uncertain" /\ record'[k].input = record[k].input
        BY <2>7, <3>1 DEF GiveUpStale, Typed, TypeOK, Records
      <3>3. call'[k] = call[k] /\ standing'[k] = standing[k]
        BY <2>7 DEF GiveUpStale
      <3>4. QED
        BY <2>1, <3>2, <3>3 DEF Good
    <2>8. CASE Reconcile(k, i)
      <3>1. record[k].state # "none" /\ record[k].input = i
        BY <2>8 DEF Reconcile, MayAsk, Doubtful
      <3>2. call'[k].at = "reconcile_result" /\ call'[k].input = i /\ ~call'[k].undone
        BY <2>8, <3>1, <2>2, <2>3, <2>4 DEF Reconcile
      <3>3. "reconcile_result" \notin Working /\ "reconcile_result" \notin Before
            /\ "reconcile_result" \notin Undone
        BY DEF Working, Commits, Before, Claims, Undone
      <3>4. record'[k] = record[k] /\ standing'[k] = standing[k]
        BY <2>8 DEF Reconcile
      <3>5. QED
        BY <2>1, <3>1, <3>2, <3>3, <3>4 DEF Good
    <2>9. CASE ReconcileMiss(k, i)
      <3>1. record[k].state # "none" /\ record[k].input = i
        BY <2>9 DEF ReconcileMiss, MayAsk, Doubtful
      <3>2. call'[k].at = "forget" /\ call'[k].input = i /\ ~call'[k].undone
        BY <2>9, <2>2, <2>3, <2>5 DEF ReconcileMiss
      <3>3. standing[k] = {}
        BY <2>9, <2>1, <3>1 DEF ReconcileMiss, Good
      <3>4. "forget" \notin Working /\ "forget" \notin Undone
        BY DEF Working, Commits, Undone
      <3>5. record'[k] = record[k] /\ standing'[k] = standing[k]
        BY <2>9 DEF ReconcileMiss
      <3>6. QED
        BY <3>1, <3>2, <3>3, <3>4, <3>5 DEF Good
    <2>10. QED
      BY <1>1, <2>6, <2>7, <2>8, <2>9
  <1>4. QED
    BY <1>2, <1>3, OneKey

\* The steps of a running operation.
LEMMA OperationGood ==
    ASSUME Typed, AllGood, NEW k \in Keys,
           \/ BeginEffect(k) \/ ApplyEffect(k) \/ FinishEffect(k) \/ Encode(k)
           \/ EncodeFails(k) \/ UndoEffect(k)
    PROVE  AllGood'
  <1>1. call[k] \in Calls /\ call[k].at \in {"operate", "encode"}
    BY DEF Typed, TypeOK, BeginEffect, ApplyEffect, FinishEffect, Encode, EncodeFails, UndoEffect
  <1>2. \A j \in Keys \ {k} : /\ call'[j] = call[j] /\ record'[j] = record[j]
                              /\ standing'[j] = standing[j]
    BY DEF Typed, TypeOK, BeginEffect, ApplyEffect, FinishEffect, Encode, EncodeFails, UndoEffect
  <1>3. ASSUME Once(k)
        PROVE  Good(call'[k], record'[k], standing'[k])
    <2>1. Good(call[k], record[k], standing[k])
      BY <1>3 DEF AllGood
    <2>2. call[k].at \in Working /\ call[k].at \in Owning
      BY <1>1, PointSets DEF Working
    <2>3. /\ record[k].state # "none" /\ record[k].input = call[k].input
          /\ ~call[k].undone /\ (call[k].began \/ standing[k] = {})
      BY <2>1, <2>2 DEF Good
    <2>4. ~UndoEffect(k) /\ record'[k] = record[k]
      BY <1>3 DEF UndoEffect, Undoes, Once, BeginEffect, ApplyEffect, FinishEffect,
                  Encode, EncodeFails
    <2>5. CASE BeginEffect(k)
      <3>1. standing[k] = {} /\ call[k].at = "operate"
        BY <2>3, <2>5 DEF BeginEffect
      <3>2. call' = [call EXCEPT ![k].began = TRUE] /\ standing' = standing
        BY <3>1, <2>5 DEF BeginEffect
      <3>3. /\ call'[k].at = "operate" /\ call'[k].input = call[k].input
            /\ call'[k].undone = call[k].undone /\ standing'[k] = {}
        BY <3>1, <3>2, <1>1 DEF Typed, TypeOK, Calls
      <3>4. QED
        BY <2>1, <2>3, <2>4, <3>1, <3>3 DEF Good
    <2>6. CASE ApplyEffect(k)
      <3>1. call[k].at = "operate" /\ call[k].began /\ call'[k] = call[k]
        BY <2>6 DEF ApplyEffect
      <3>2. standing'[k] = standing[k] \cup {Mine(k)}
        BY <2>6 DEF ApplyEffect, Typed, TypeOK
      <3>3. standing[k] \subseteq {Mine(k)}
        BY <2>1, <3>1 DEF Good, Mine
      <3>4. standing'[k] = {Mine(k)}
        BY <3>2, <3>3
      <3>5. Mine(k)[2] = record[k].input /\ Mine(k) = <<call[k].n, call[k].input>>
        BY <2>3 DEF Mine
      <3>6. "operate" \notin Before /\ "operate" \notin Undone
        BY DEF Before, Claims, Undone
      <3>7. QED
        BY <2>3, <2>4, <3>1, <3>4, <3>5, <3>6 DEF Good
    <2>7. CASE FinishEffect(k) \/ Encode(k) \/ EncodeFails(k)
      <3>1. /\ call'[k].at \in {"commit_result", "commit_again", "encode_receipt"}
            /\ call'[k].input = call[k].input /\ call'[k].undone = call[k].undone
            /\ call'[k].began = call[k].began /\ standing'[k] = standing[k]
        BY <2>7, <1>1 DEF FinishEffect, Encode, EncodeFails, Typed, TypeOK, Calls
      <3>2. /\ call'[k].at \notin Before /\ call'[k].at \notin Undone
            /\ call'[k].at # "operate"
        BY <3>1 DEF Before, Claims, Undone
      <3>3. QED
        BY <2>1, <2>3, <2>4, <3>1, <3>2 DEF Good
    <2>8. QED
      BY <2>4, <2>5, <2>6, <2>7
  <1>4. QED
    BY <1>2, <1>3, OneKey

LEMMA ElsewhereGood ==
    ASSUME Typed, AllGood, NEW k \in Keys,
           Age(k) \/ Startup(k) \/ (\E n \in Attempts : StartupDies(k, n))
    PROVE  AllGood'
  <1>1. call' = call /\ standing' = standing
    BY DEF Age, Startup, StartupDies
  <1>2. \A j \in Keys : record'[j].state = record[j].state /\ record'[j].input = record[j].input
    <2>1. CASE Age(k) /\ record[k].state = "in_progress"
      <3>1. record[k] \in Records /\ record[k] # NoRecord
        BY <2>1 DEF Typed, TypeOK, NoRecord
      <3>2. record' = [record EXCEPT ![k].stale = TRUE]
        BY <2>1 DEF Age
      <3>3. QED
        BY <3>1, <3>2 DEF Typed, TypeOK, Records
    <2>2. CASE ~(Age(k) /\ record[k].state = "in_progress")
      <3>1. record' = record
        BY <2>2 DEF Age, Startup, StartupDies
      <3>2. QED
        BY <3>1
    <2>3. QED
      BY <2>1, <2>2
  <1>3. QED
    BY <1>1, <1>2 DEF AllGood, Good, Once

LEMMA CrashGood ==
    ASSUME Typed, AllGood, NEW k \in Keys, Crash(k)
    PROVE  AllGood'
  <1>1. \A j \in Keys \ {k} : /\ call'[j] = call[j] /\ record'[j] = record[j]
                              /\ standing'[j] = standing[j]
    BY DEF Crash, Typed, TypeOK
  <1>2. call'[k] = Idle /\ record'[k] = record[k] /\ standing'[k] = standing[k]
    BY DEF Crash, Typed, TypeOK
  <1>3. Once(k) => Good(call'[k], record'[k], standing'[k])
    BY <1>2, IdleGood DEF AllGood
  <1>4. QED
    BY <1>1, <1>3, OneKey

LEMMA StepGood ==
    ASSUME Typed, AllGood, NEW k \in Keys,
           Proceed(k) \/ Request(k) \/ Misfortune(k) \/ Age(k) \/ Startup(k)
    PROVE  AllGood'
  <1>1. CASE Refused(k) \/ StoreFails(k) \/ OperateFails(k)
    <2>1. call[k].at # "idle" /\ Raise(k) /\ UNCHANGED <<record, standing>>
      BY <1>1 DEF Refused, StoreFails, OperateFails, Program
    <2>2. QED
      BY <2>1, RaiseGood
  <1>2. CASE Request(k)
    BY <1>2, RequestGood
  <1>3. CASE Crash(k)
    BY <1>3, CrashGood
  <1>4. CASE Do(k)
    BY <1>4, DoGood
  <1>5. QED
    BY <1>1, <1>2, <1>3, <1>4, OperationGood, ElsewhereGood DEF Proceed, Misfortune

(***************************************************************************)
(* The effect of a keyed local, provider or publication call stands at     *)
(* most once, for any number of keys, inputs, crashes, failing writes,     *)
(* retries and concurrent startups: the promise of execute_idempotent.     *)
(***************************************************************************)
THEOREM AppliedAtMostOnce == Spec => []AtMostOnce
<1>1. Init => Typed /\ AllGood
  <2>1. Init => AllGood
    BY PointSets DEF Init, AllGood, Good, Idle, Once
  <2>2. QED
    BY <2>1, InitType
<1>2. Typed /\ AllGood /\ [Next]_vars => Typed' /\ AllGood'
  <2>1. ASSUME Typed, AllGood, Next
        PROVE  Typed' /\ AllGood'
    BY <2>1, StepGood, ProceedType, RequestType, MisfortuneType, AgeType, StartupType DEF Next
  <2>2. ASSUME Typed, AllGood, UNCHANGED vars
        PROVE  Typed' /\ AllGood'
    BY <2>2, StutterType DEF AllGood, Good, Once, vars
  <2>3. QED
    BY <2>1, <2>2
<1>3. AllGood => AtMostOnce
  BY DEF AllGood, Good, Once, AtMostOnce
<1>4. QED
  BY <1>1, <1>2, <1>3, PTL DEF Spec

-----------------------------------------------------------------------------
(***************************************************************************)
(* The durable records tell the truth.  What a receipt, a stored result or *)
(* a completed record says of the effects is kept by the call only because *)
(* of what it knows at each of its points, so the inductive invariant has  *)
(* two parts: what the stores say, and what a live call may rely on while  *)
(* the startup of another process rewrites them.                           *)
(***************************************************************************)

\* Receipts that say nothing is in place, or do not say anything yet.
Harmless == {"absent", "accepted", "failed_before_effect", "rolled_back"}

\* Points of a fresh attempt before it can have completed its record, and of
\* a reconciliation, which completes the record of an earlier attempt.
Opening == Claims \cup {"forget", "operate"} \cup Reconciling

\* Points reached only when the result of the effect was recorded before.
Knowing == {"known_result", "known_receipt", "known_operation", "known_record"}

NoneOf(S, n) == \A s \in S : s[1] # n
InPlace(S, i) == \E s \in S : s[2] = i
Backed(k, S, n) == S # {} /\ (Undoes(k) => ~NoneOf(S, n))

(***************************************************************************)
(* What the record r, the receipts rc and the results res of a key say of  *)
(* the effects S that stand after a attempts.  An undo takes away only the *)
(* effect of its own attempt, so under a key whose effects can be undone a *)
(* result and a validated receipt are backed by their own attempt.         *)
(***************************************************************************)
Kept(k, r, rc, res, S, a) ==
    /\ \A n \in Attempts :
         /\ rc[n] \in Harmless => NoneOf(S, n)
         /\ rc[n] = "applied_validated" \/ n \in res => Backed(k, S, n)
         /\ n > a => rc[n] = "absent" /\ n \notin res /\ NoneOf(S, n)
    /\ r.state = "completed" => InPlace(S, r.input)
    /\ r.attempt <= a

\* What the live call c of the key may rely on.
Held(k, c, r, rc, res, S, a) ==
    /\ c.at # "idle" => c.n <= a
    /\ c.at \in {"forget", "claim_operation"} =>
           c.n = a /\ r.attempt < a /\ rc[c.n] = "absent" /\ c.n \notin res
    /\ c.at \in Claims \cup {"operate"} /\ Undoes(k) =>
           rc[c.n] # "applied_validated" /\ c.n \notin res
    /\ c.at \in Before \cup Undone => NoneOf(S, c.n)
    /\ c.at \in {"claim_start", "operate"} => rc[c.n] \notin Harmless
    /\ c.at \in Working /\ ~c.began => NoneOf(S, c.n)
    /\ c.at = "operate" => \A s \in S : s[1] = c.n => s[2] = c.input
    /\ c.at \in Commits \cup {"encode"} => InPlace(S, c.input) /\ Backed(k, S, c.n)
    /\ c.at \in Reconciling => Reconciles(k) /\ InPlace(S, c.input)
    /\ c.at \in Knowing => c.known
    /\ c.known => Kind[k] = "publish" /\ InPlace(S, c.input)
    /\ c.undone => c.at \in Undone
    /\ r.state = "completed" /\ c.at # "idle" => r.attempt = c.n /\ c.at \notin Opening

AllTrue ==
    \A k \in Keys :
        /\ Kept(k, record[k], receipt[k], result[k], standing[k], attempts[k])
        /\ Held(k, call[k], record[k], receipt[k], result[k], standing[k], attempts[k])

\* What a step leaves alone for a key that it does not name.
Alone(j) ==
    /\ call'[j] = call[j] /\ record'[j] = record[j] /\ receipt'[j] = receipt[j]
    /\ result'[j] = result[j] /\ standing'[j] = standing[j] /\ attempts'[j] = attempts[j]

\* Every step concerns one key.
LEMMA OneKeyTrue ==
    ASSUME AllTrue, NEW k \in Keys, \A j \in Keys \ {k} : Alone(j),
           Kept(k, record'[k], receipt'[k], result'[k], standing'[k], attempts'[k]),
           Held(k, call'[k], record'[k], receipt'[k], result'[k], standing'[k], attempts'[k])
    PROVE  AllTrue'
  <1> SUFFICES ASSUME NEW j \in Keys
               PROVE  /\ Kept(j, record'[j], receipt'[j], result'[j], standing'[j], attempts'[j])
                      /\ Held(j, call'[j], record'[j], receipt'[j], result'[j], standing'[j], attempts'[j])
    BY DEF AllTrue, Kept, Held, Backed, NoneOf, InPlace, Undoes, Reconciles
  <1>1. CASE j = k
    BY <1>1
  <1>2. CASE j # k
    BY <1>2 DEF AllTrue, Alone
  <1>3. QED
    BY <1>1, <1>2

\* Where the writes that matter to the stores are made.
LEMMA WritePoints ==
    ASSUME NEW p \in DOMAIN Program
    PROVE  /\ Program[p].store = "receipt" /\ Program[p].value \in Harmless =>
                  p \in Before \cup Undone
           /\ Program[p].store = "receipt" /\ Program[p].value = "applied_validated" =>
                  p \in Commits \cup Reconciling
           /\ Program[p].store = "result" => p \in Commits \cup Reconciling \cup Knowing
           /\ Program[p].store = "record" /\ Program[p].value = "completed" =>
                  /\ p \in Commits \cup Reconciling \cup Knowing
                  /\ Program[p].next \notin Opening
           /\ p \in Claims \cup {"forget"} =>
                  /\ Program[p].store # "result"
                  /\ Program[p].store = "receipt" => Program[p].value # "applied_validated"
           /\ p = "claim_applying" =>
                  Program[p].store = "receipt" /\ Program[p].value = "applying"
           /\ p = "claim_start" => Program[p].store = "op"
           /\ p = "forget" => Program[p].store = "record" /\ Program[p].value = "none"
<1>1. Program[p].store = "receipt" /\ Program[p].value \in Harmless => p \in Before \cup Undone
  BY DEF Program, Write, Harmless, Before, Undone, Claims
<1>2. Program[p].store = "receipt" /\ Program[p].value = "applied_validated" =>
          p \in Commits \cup Reconciling
  BY DEF Program, Write, Commits, Reconciling
<1>3. Program[p].store = "result" => p \in Commits \cup Reconciling \cup Knowing
  BY DEF Program, Write, Commits, Reconciling, Knowing
<1>4. Program[p].store = "record" /\ Program[p].value = "completed" =>
          p \in {"commit_record", "commit_again", "known_record", "reconcile_record"}
  BY DEF Program, Write
<1>5. p \in {"commit_record", "commit_again", "known_record", "reconcile_record"} =>
          /\ p \in Commits \cup Reconciling \cup Knowing
          /\ Program[p].next \in {"encode", "commit_validated", "idle"}
  BY DEF Program, Write, Commits, Reconciling, Knowing
<1>6. {"encode", "commit_validated", "idle"} \cap Opening = {}
  BY DEF Opening, Claims, Reconciling
<1>7. p \in Claims \cup {"forget"} =>
          /\ Program[p].store # "result"
          /\ Program[p].store = "receipt" => Program[p].value # "applied_validated"
  BY DEF Program, Write, Claims
<1>8. /\ p = "claim_applying" => Program[p].store = "receipt" /\ Program[p].value = "applying"
      /\ p = "claim_start" => Program[p].store = "op"
      /\ p = "forget" => Program[p].store = "record" /\ Program[p].value = "none"
  BY DEF Program, Write
<1>9. QED
  BY <1>1, <1>2, <1>3, <1>4, <1>5, <1>6, <1>7, <1>8

\* How the points of this invariant follow one another.
LEMMA TruthFlow ==
    ASSUME NEW p \in DOMAIN Program
    PROVE  LET q == Program[p].next IN
           /\ q \in {"forget", "claim_operation"} => p = "forget"
           /\ q \in Claims \cup {"operate"} => p \in Claims \cup {"forget"}
           /\ q \in Before \cup Undone => p \in Before \cup Undone
           /\ q \in {"claim_start", "operate"} => p \in {"claim_applying", "claim_start"}
           /\ q \in Commits \cup {"encode"} => p \in Commits
           /\ q \in Reconciling => p \in Reconciling
           /\ q \in Knowing => p \in Knowing
           /\ p \in Undone => q \in Undone \cup {"idle"}
           /\ q \in Opening => p \in Opening
<1> DEFINE q == Program[p].next
<1>1. q \in {"forget", "claim_operation"} => p = "forget"
  BY DEF Program, Write
<1>2. q \in Claims \cup {"operate"} => p \in Claims \cup {"forget"}
  BY DEF Program, Write, Claims
<1>3. q \in Before \cup Undone => p \in Before \cup Undone
  BY ProgramFlow
<1>4. q \in {"claim_start", "operate"} => p \in {"claim_applying", "claim_start"}
  BY DEF Program, Write
<1>5. q \in Commits \cup {"encode"} => p \in Commits
  BY DEF Program, Write, Commits
<1>6. q \in Reconciling => p \in Reconciling
  BY DEF Program, Write, Reconciling
<1>7. q \in Knowing => p \in Knowing
  BY DEF Program, Write, Knowing
<1>8. p \in Undone => q \in Undone \cup {"idle"}
  BY DEF Program, Write, Undone
<1>9. q \in Opening => p \in Opening
  BY <1>1, <1>2, <1>6 DEF Opening
<1>10. QED
  BY <1>1, <1>2, <1>3, <1>4, <1>5, <1>6, <1>7, <1>8, <1>9

LEMMA TruthPoints ==
    /\ "idle" \notin Claims \cup {"operate"} /\ "idle" \notin Before \cup Undone
    /\ "idle" \notin Commits \cup {"encode"} /\ "idle" \notin Reconciling
    /\ "idle" \notin Knowing /\ "idle" \notin Working
    /\ "claim_start" \in Before /\ "operate" \in Opening
    /\ "operate" \notin Before \cup Undone /\ "operate" \notin Commits \cup {"encode"}
    /\ "operate" \notin Reconciling /\ "operate" \notin Knowing
    /\ Working \cap Undone = {} /\ Commits \subseteq Working
    /\ Claims \cup {"forget"} \subseteq Before
  BY DEF Claims, Before, Undone, Commits, Reconciling, Knowing, Working, Opening

LEMMA IdleHeld ==
    ASSUME NEW k, NEW r, NEW rc, NEW res, NEW S, NEW a
    PROVE  Held(k, Idle, r, rc, res, S, a)
  BY TruthPoints DEF Held, Idle

\* What the points that complete, validate or store a result rely on.
LEMMA EffectThere ==
    ASSUME NEW k \in Keys, NEW c, NEW r, NEW rc, NEW res, NEW S, NEW a,
           Held(k, c, r, rc, res, S, a),
           c.at \in Commits \cup Reconciling \cup Knowing
    PROVE  InPlace(S, c.input) /\ Backed(k, S, c.n)
  <1>1. InPlace(S, c.input) => S # {}
    BY DEF InPlace
  <1>2. CASE c.at \in Commits
    BY <1>2 DEF Held
  <1>3. CASE c.at \in Reconciling
    BY <1>1, <1>3 DEF Held, Backed, Reconciles, Undoes
  <1>4. CASE c.at \in Knowing
    BY <1>1, <1>4 DEF Held, Backed, Undoes
  <1>5. QED
    BY <1>2, <1>3, <1>4

LEMMA OpIdBound ==
    ASSUME NEW k \in Keys, NEW n \in Attempts
    PROVE  OpId(k, n) <= n /\ (Undoes(k) => OpId(k, n) = n)
  BY FaultAssumption DEF OpId, Attempts, Undoes

\* A write of the call keeps what the stores say.
LEMMA DoKept ==
    ASSUME Typed, AllTrue, NEW k \in Keys, Do(k)
    PROVE  Kept(k, record'[k], receipt'[k], result'[k], standing'[k], attempts'[k])
  <1> DEFINE p == call[k].at
             w == Program[p]
             n == call[k].n
             S == standing[k]
             a == attempts[k]
  <1>1. p \in DOMAIN Program /\ p # "idle"
    BY DEF Do, Program
  <1>2. n \in Attempts /\ a \in Nat
    BY <1>1 DEF Typed, TypeOK, LiveCalls
  <1>3. /\ Kept(k, record[k], receipt[k], result[k], S, a)
        /\ Held(k, call[k], record[k], receipt[k], result[k], S, a)
    BY DEF AllTrue
  <1>4. standing'[k] = S /\ attempts'[k] = a
    BY DEF Do
  <1>5. n <= a
    BY <1>1, <1>3 DEF Held
  <1>6. ASSUME NEW m \in Attempts
        PROVE  /\ receipt'[k][m] \in Harmless => NoneOf(S, m)
               /\ receipt'[k][m] = "applied_validated" => Backed(k, S, m)
               /\ m > a => receipt'[k][m] = "absent"
    <2>1. CASE w.store = "receipt" /\ m = n
      <3>1. receipt'[k][m] = w.value
        BY <1>2, <2>1 DEF Do, Typed, TypeOK
      <3>2. w.value \in Harmless => NoneOf(S, n)
        BY <1>1, <1>3, <2>1, WritePoints DEF Held
      <3>3. w.value = "applied_validated" => Backed(k, S, n)
        BY <1>1, <1>3, <2>1, WritePoints, EffectThere
      <3>4. ~(m > a)
        BY <1>2, <1>5, <2>1 DEF Attempts
      <3>5. QED
        BY <2>1, <3>1, <3>2, <3>3, <3>4
    <2>2. CASE ~(w.store = "receipt" /\ m = n)
      <3>1. receipt'[k][m] = receipt[k][m]
        BY <1>2, <2>2 DEF Do, Typed, TypeOK
      <3>2. QED
        BY <3>1, <1>3 DEF Kept
    <2>3. QED
      BY <2>1, <2>2
  <1>7. ASSUME NEW m \in Attempts
        PROVE  /\ m \in result'[k] => Backed(k, S, m)
               /\ m > a => m \notin result'[k] /\ NoneOf(S, m)
    <2>1. CASE w.store = "result"
      <3>1. result'[k] = result[k] \cup {OpId(k, n)}
        BY <2>1 DEF Do, Typed, TypeOK
      <3>2. Backed(k, S, n)
        BY <1>1, <1>3, <2>1, WritePoints, EffectThere
      <3>3. Backed(k, S, OpId(k, n))
        BY <1>2, <3>2, OpIdBound DEF Backed
      <3>4. m > a => m # OpId(k, n)
        BY <1>2, <1>5, OpIdBound, OpIdType DEF Attempts
      <3>5. QED
        BY <1>3, <3>1, <3>3, <3>4 DEF Kept
    <2>2. CASE w.store # "result"
      <3>1. result'[k] = result[k]
        BY <2>2 DEF Do
      <3>2. QED
        BY <3>1, <1>3 DEF Kept
    <2>3. QED
      BY <2>1, <2>2
  <1>8. /\ record'[k].state = "completed" => InPlace(S, record'[k].input)
        /\ record'[k].attempt <= a
    <2>1. CASE w.store = "record" /\ Keyed(k)
      <3>1. record'[k] = Saved(k, w)
        BY <2>1 DEF Do, Typed, TypeOK
      <3>2. CASE w.value = "none"
        <4>1. record'[k].state = "none" /\ record'[k].attempt = 0
          BY <3>1, <3>2 DEF Saved, NoRecord
        <4>2. QED
          BY <4>1, <1>2
      <3>3. CASE w.value # "none"
        <4>1. record'[k].state = w.value /\ record'[k].attempt = n /\ record'[k].input = call[k].input
          BY <3>1, <3>3 DEF Saved
        <4>2. w.value = "completed" => InPlace(S, call[k].input)
          BY <1>1, <1>3, <2>1, WritePoints, EffectThere
        <4>3. QED
          BY <4>1, <4>2, <1>5
      <3>4. QED
        BY <3>2, <3>3
    <2>2. CASE ~(w.store = "record" /\ Keyed(k))
      <3>1. record'[k] = record[k]
        BY <2>2 DEF Do
      <3>2. QED
        BY <3>1, <1>3 DEF Kept
    <2>3. QED
      BY <2>1, <2>2
  <1>9. QED
    BY <1>4, <1>6, <1>7, <1>8 DEF Kept

\* And what the call relies on at its next point.
LEMMA DoHeld ==
    ASSUME Typed, AllTrue, NEW k \in Keys, Do(k)
    PROVE  Held(k, call'[k], record'[k], receipt'[k], result'[k], standing'[k], attempts'[k])
  <1> DEFINE p == call[k].at
             w == Program[p]
             q == w.next
             n == call[k].n
             S == standing[k]
             a == attempts[k]
  <1>1. p \in DOMAIN Program /\ p # "idle"
    BY DEF Do, Program
  <1>2. n \in Attempts /\ a \in Nat /\ call[k] \in Calls
    BY <1>1 DEF Typed, TypeOK, LiveCalls
  <1>3. /\ Kept(k, record[k], receipt[k], result[k], S, a)
        /\ Held(k, call[k], record[k], receipt[k], result[k], S, a)
    BY DEF AllTrue
  <1>4. standing'[k] = S /\ attempts'[k] = a
    BY DEF Do
  <1>5. CASE q = "idle"
    <2>1. call'[k] = Idle
      BY <1>5 DEF Do, Typed, TypeOK, Continue
    <2>2. QED
      BY <2>1, IdleHeld
  <1>6. CASE q # "idle"
    <2>1. /\ call'[k].at = q /\ call'[k].n = n /\ call'[k].input = call[k].input
          /\ call'[k].began = call[k].began /\ call'[k].undone = call[k].undone
          /\ call'[k].known = call[k].known
      <3>1. Continue(k, q) = [call[k] EXCEPT !.at = q]
        BY <1>6 DEF Continue
      <3>2. QED
        BY <3>1, <1>2 DEF Do, Typed, TypeOK, Calls
    <2>2. /\ w.store = "receipt" => receipt'[k][n] = w.value
          /\ w.store # "receipt" => receipt'[k] = receipt[k]
          /\ w.store # "result" => result'[k] = result[k]
      BY <1>2 DEF Do, Typed, TypeOK
    <2>3. /\ w.store = "record" /\ Keyed(k) => record'[k] = Saved(k, w)
          /\ ~(w.store = "record" /\ Keyed(k)) => record'[k] = record[k]
      BY DEF Do, Typed, TypeOK
    <2>4. q \in {"forget", "claim_operation"} =>
              /\ n = a /\ record'[k].attempt < a
              /\ receipt'[k][n] = "absent" /\ n \notin result'[k]
      <3> SUFFICES ASSUME q \in {"forget", "claim_operation"}
                   PROVE  /\ n = a /\ record'[k].attempt < a
                          /\ receipt'[k][n] = "absent" /\ n \notin result'[k]
        OBVIOUS
      <3>1. p = "forget" /\ w.store = "record" /\ w.value = "none"
        BY <1>1, TruthFlow, WritePoints
      <3>2. n = a /\ record[k].attempt < a /\ receipt[k][n] = "absent" /\ n \notin result[k]
        BY <3>1, <1>3 DEF Held
      <3>3. Keyed(k) => record'[k].attempt = 0
        BY <3>1, <2>3 DEF Saved, NoRecord
      <3>4. 0 < a
        BY <3>2, <1>2 DEF Attempts
      <3>5. record'[k].attempt < a
        BY <3>1, <3>2, <3>3, <3>4, <2>3
      <3>6. QED
        BY <3>1, <3>2, <3>5, <2>2
    <2>5. q \in Claims \cup {"operate"} /\ Undoes(k) =>
              receipt'[k][n] # "applied_validated" /\ n \notin result'[k]
      <3> SUFFICES ASSUME q \in Claims \cup {"operate"}, Undoes(k)
                   PROVE  receipt'[k][n] # "applied_validated" /\ n \notin result'[k]
        OBVIOUS
      <3>1. p \in Claims \cup {"forget"}
        BY <1>1, TruthFlow
      <3>2. receipt[k][n] # "applied_validated" /\ n \notin result[k]
        BY <3>1, <1>3 DEF Held
      <3>3. QED
        BY <1>1, <3>1, <3>2, <2>2, WritePoints
    <2>6. q \in Before \cup Undone => NoneOf(S, n)
      BY <1>1, <1>3, TruthFlow DEF Held
    <2>7. q \in {"claim_start", "operate"} => receipt'[k][n] \notin Harmless
      <3>1. p = "claim_applying" => receipt'[k][n] = "applying"
        BY <1>1, <2>2, WritePoints
      <3>2. p = "claim_start" => receipt'[k][n] = receipt[k][n] /\ receipt[k][n] \notin Harmless
        BY <1>1, <1>3, <2>2, WritePoints DEF Held
      <3>3. QED
        BY <1>1, <3>1, <3>2, TruthFlow DEF Harmless
    <2>8. q \in Working /\ ~call[k].began => NoneOf(S, n)
      <3>1. q \in Working => p \in Commits \cup {"claim_start"}
        BY <1>1, ProgramFlow
      <3>2. QED
        BY <3>1, <1>3, TruthPoints DEF Held
    <2>9. q = "operate" => NoneOf(S, n)
      BY <1>1, <1>3, ProgramFlow, TruthPoints DEF Held
    <2>10. q \in Commits \cup {"encode"} => InPlace(S, call[k].input) /\ Backed(k, S, n)
      BY <1>1, <1>3, TruthFlow DEF Held
    <2>11. /\ q \in Reconciling => Reconciles(k) /\ InPlace(S, call[k].input)
           /\ q \in Knowing => call[k].known
           /\ call[k].undone => q \in Undone
      BY <1>1, <1>3, <1>6, TruthFlow DEF Held
    <2>12. record'[k].state = "completed" => record'[k].attempt = n /\ q \notin Opening
      <3>1. CASE w.store = "record" /\ Keyed(k)
        <4>1. w.value = "none" => record'[k].state = "none"
          BY <3>1, <2>3 DEF Saved, NoRecord
        <4>2. w.value # "none" => record'[k].state = w.value /\ record'[k].attempt = n
          BY <3>1, <2>3 DEF Saved
        <4>3. QED
          BY <1>1, <3>1, <4>1, <4>2, WritePoints
      <3>2. CASE ~(w.store = "record" /\ Keyed(k))
        BY <1>1, <1>3, <2>3, <3>2, TruthFlow DEF Held
      <3>3. QED
        BY <3>1, <3>2
    <2>13. n <= a /\ (call[k].known => Kind[k] = "publish" /\ InPlace(S, call[k].input))
      BY <1>1, <1>3 DEF Held
    <2>14. NoneOf(S, n) => \A s \in S : s[1] = n => s[2] = call[k].input
      BY DEF NoneOf
    <2>15. QED
      BY <1>4, <2>1, <2>4, <2>5, <2>6, <2>7, <2>8, <2>9, <2>10, <2>11, <2>12, <2>13, <2>14 DEF Held
  <1>7. QED
    BY <1>5, <1>6

LEMMA DoTrue ==
    ASSUME Typed, AllTrue, NEW k \in Keys, Do(k)
    PROVE  AllTrue'
  <1>1. \A j \in Keys \ {k} : Alone(j)
    BY DEF Do, Typed, TypeOK, Alone
  <1>2. QED
    BY <1>1, DoKept, DoHeld, OneKeyTrue

\* An exception: the handler goes on only to what it knows to be true.
LEMMA RaiseHeld ==
    ASSUME Typed, AllTrue, NEW k \in Keys, call[k].at # "idle", Raise(k)
    PROVE  Held(k, call'[k], record[k], receipt[k], result[k], standing[k], attempts[k])
  <1>1. call[k] \in Calls
    BY DEF Typed, TypeOK
  <1>2. Held(k, call[k], record[k], receipt[k], result[k], standing[k], attempts[k])
    BY DEF AllTrue
  <1>3. CASE call[k].at \in Working /\ Handler(k) # "idle"
    <2> DEFINE h == Handler(k)
    <2>1. call'[k] = [call[k] EXCEPT !.at = h]
      BY <1>3 DEF Raise, Continue, Working, Typed, TypeOK
    <2>2. /\ call'[k].at = h /\ call'[k].n = call[k].n /\ call'[k].input = call[k].input
          /\ call'[k].began = call[k].began /\ call'[k].undone = call[k].undone
          /\ call'[k].known = call[k].known
      BY <2>1, <1>1 DEF Calls
    <2>3. ~call[k].undone
      BY <1>2, <1>3, TruthPoints DEF Held
    <2>4. /\ h \in {"known_result", "unknown_receipt", "before_receipt"}
          /\ h = "known_result" => call[k].known
          /\ h = "before_receipt" => ~call[k].began
      BY <1>3, <2>3 DEF Handler
    <2>5. h \notin Claims \cup {"operate"} /\ h \notin Working /\ h \notin Commits \cup {"encode"}
          /\ h \notin Reconciling /\ h \notin Opening /\ h \notin {"forget", "claim_start"}
      BY <2>4 DEF Claims, Working, Commits, Reconciling, Opening
    <2>6. h \in Before \cup Undone => h = "before_receipt"
      BY <2>4 DEF Before, Claims, Undone
    <2>7. h \in Knowing => h = "known_result"
      BY <2>4 DEF Knowing
    <2>8. h = "before_receipt" => NoneOf(standing[k], call[k].n)
      BY <1>2, <1>3, <2>4 DEF Held
    <2>9. h \notin {"forget", "claim_operation"} /\ h \notin {"claim_start", "operate"}
      BY <2>4
    <2>10. QED
      BY <1>2, <1>3, <2>2, <2>3, <2>4, <2>5, <2>6, <2>7, <2>8, <2>9 DEF Held
  <1>4. CASE ~(call[k].at \in Working /\ Handler(k) # "idle")
    <2>1. call'[k] = Idle
      BY <1>4 DEF Raise, Continue, Working, Typed, TypeOK
    <2>2. QED
      BY <2>1, IdleHeld
  <1>5. QED
    BY <1>3, <1>4

LEMMA RaiseTrue ==
    ASSUME Typed, AllTrue, NEW k \in Keys, call[k].at # "idle", Raise(k),
           UNCHANGED <<record, receipt, result, standing, attempts>>
    PROVE  AllTrue'
  <1>1. \A j \in Keys \ {k} : Alone(j)
    BY DEF Raise, Typed, TypeOK, Alone
  <1>2. Kept(k, record[k], receipt[k], result[k], standing[k], attempts[k])
    BY DEF AllTrue
  <1>3. QED
    BY <1>1, <1>2, RaiseHeld, OneKeyTrue

\* A call refused its operation gives its attempt back, of which no store
\* has heard.
LEMMA RefusedTrue ==
    ASSUME Typed, AllTrue, NEW k \in Keys, Refused(k)
    PROVE  AllTrue'
  <1>1. call[k].at # "idle" /\ Raise(k) /\ UNCHANGED <<record, receipt, result, standing>>
    BY DEF Refused, Program
  <1>2. CASE call[k].at # "claim_operation"
    <2>1. attempts' = attempts
      BY <1>2 DEF Refused
    <2>2. QED
      BY <1>1, <2>1, RaiseTrue
  <1>3. CASE call[k].at = "claim_operation"
    <2> DEFINE n == call[k].n
               a == attempts[k]
    <2>1. n \in Attempts /\ a \in Nat
      BY <1>1 DEF Typed, TypeOK, LiveCalls
    <2>2. /\ Kept(k, record[k], receipt[k], result[k], standing[k], a)
          /\ Held(k, call[k], record[k], receipt[k], result[k], standing[k], a)
      BY DEF AllTrue
    <2>3. "claim_operation" \in Before /\ "claim_operation" \notin Working
      BY DEF Before, Claims, Working, Commits
    <2>4. call'[k] = Idle
      BY <1>1, <1>3, <2>3 DEF Raise, Working, Typed, TypeOK
    <2>5. attempts'[k] = n - 1 /\ \A j \in Keys \ {k} : attempts'[j] = attempts[j]
      BY <1>3 DEF Refused, Typed, TypeOK
    <2>6. /\ n = a /\ record[k].attempt < a /\ receipt[k][n] = "absent"
          /\ n \notin result[k] /\ NoneOf(standing[k], n)
      BY <1>3, <2>2, <2>3 DEF Held
    <2>7. record[k].attempt \in Nat
      BY DEF Typed, TypeOK, Records, NoRecord, Attempts
    <2>8. record[k].attempt <= n - 1
      BY <2>1, <2>6, <2>7
    <2>9. \A m \in Attempts : m > n - 1 => m = n \/ m > a
      BY <2>1, <2>6 DEF Attempts
    <2>10. Kept(k, record'[k], receipt'[k], result'[k], standing'[k], attempts'[k])
      BY <1>1, <2>2, <2>5, <2>6, <2>8, <2>9 DEF Kept
    <2>11. \A j \in Keys \ {k} : Alone(j)
      BY <1>1, <2>5 DEF Raise, Typed, TypeOK, Alone
    <2>12. QED
      BY <2>4, <2>10, <2>11, IdleHeld, OneKeyTrue
  <1>4. QED
    BY <1>2, <1>3

LEMMA CrashTrue ==
    ASSUME Typed, AllTrue, NEW k \in Keys, Crash(k)
    PROVE  AllTrue'
  <1>1. \A j \in Keys \ {k} : Alone(j)
    BY DEF Crash, Typed, TypeOK, Alone
  <1>2. call'[k] = Idle /\ UNCHANGED <<record, receipt, result, standing, attempts>>
    BY DEF Crash, Typed, TypeOK
  <1>3. Kept(k, record[k], receipt[k], result[k], standing[k], attempts[k])
    BY DEF AllTrue
  <1>4. QED
    BY <1>1, <1>2, <1>3, IdleHeld, OneKeyTrue

LEMMA RequestTrue ==
    ASSUME Typed, AllTrue, NEW k \in Keys, Request(k)
    PROVE  AllTrue'
  <1> DEFINE r == record[k]
             a == attempts[k]
  <1>1. PICK i \in Inputs : Ask(k, i) \/ GiveUpStale(k, i) \/ Reconcile(k, i) \/ ReconcileMiss(k, i)
    BY DEF Request
  <1>2. \A j \in Keys \ {k} : Alone(j)
    BY <1>1 DEF Ask, GiveUpStale, Reconcile, ReconcileMiss, Enter, Typed, TypeOK, Alone
  <1>3. Kept(k, r, receipt[k], result[k], standing[k], a)
    BY DEF AllTrue
  <1>4. \A p \in Points, n \in Attempts :
           Enter(k, p, n, i) =>
               /\ call'[k].at = p /\ call'[k].n = n /\ call'[k].input = i
               /\ ~call'[k].undone /\ ~call'[k].known /\ ~call'[k].began
    BY DEF Enter, Idle, Typed, TypeOK
  <1>5. {"claim_operation", "reconcile_result", "forget"} \subseteq Points
    BY DEF Points, Program
  <1>6. a \in Nat /\ r.attempt \in Nat /\ (r.state # "none" => r.attempt \in Attempts)
    BY DEF Typed, TypeOK, Records, NoRecord, Attempts
  <1>7. a <= MaxFaults => a + 1 \in Attempts
    BY <1>6, FaultAssumption DEF Attempts
  <1>8. CASE Ask(k, i) \/ ReconcileMiss(k, i)
    <2>1. a <= MaxFaults /\ r.state # "completed"
      BY <1>8 DEF Ask, ReconcileMiss, StartsAfresh, Doubtful
    <2>2. /\ call'[k].at \in {"claim_operation", "forget"} /\ call'[k].n = a + 1
          /\ ~call'[k].undone /\ ~call'[k].known
      BY <1>4, <1>5, <1>7, <1>8, <2>1 DEF Ask, ReconcileMiss
    <2>3. /\ record'[k] = r /\ receipt'[k] = receipt[k] /\ result'[k] = result[k]
          /\ standing'[k] = standing[k] /\ attempts'[k] = a + 1
      BY <1>8 DEF Ask, ReconcileMiss, Typed, TypeOK
    <2>4. \A n \in Attempts : n > a + 1 => n > a
      BY <1>6 DEF Attempts
    <2>5. a + 1 > a /\ r.attempt < a + 1 /\ r.attempt <= a + 1
      BY <1>3, <1>6 DEF Kept
    <2>6. receipt[k][a + 1] = "absent" /\ a + 1 \notin result[k] /\ NoneOf(standing[k], a + 1)
      BY <1>3, <1>7, <2>1, <2>5 DEF Kept
    <2>7. Kept(k, record'[k], receipt'[k], result'[k], standing'[k], attempts'[k])
      BY <1>3, <2>3, <2>4, <2>5 DEF Kept
    <2>8. /\ call'[k].at \notin Working /\ call'[k].at \notin Commits \cup {"encode"}
          /\ call'[k].at \notin Reconciling /\ call'[k].at \notin Knowing
          /\ call'[k].at \notin {"claim_start", "operate"} /\ call'[k].at # "operate"
      BY <2>2 DEF Working, Commits, Reconciling, Knowing
    <2>9. a + 1 <= a + 1
      BY <1>6
    <2>10. Held(k, call'[k], record'[k], receipt'[k], result'[k], standing'[k], attempts'[k])
      BY <2>1, <2>2, <2>3, <2>5, <2>6, <2>8, <2>9 DEF Held
    <2>11. QED
      BY <1>2, <2>7, <2>10, OneKeyTrue
  <1>9. CASE GiveUpStale(k, i)
    <2>1. r \in Records /\ r # NoRecord
      BY <1>9 DEF GiveUpStale, Typed, TypeOK, NoRecord
    <2>2. record'[k].state = "uncertain" /\ record'[k].attempt = r.attempt
      BY <1>9, <2>1 DEF GiveUpStale, Typed, TypeOK, Records
    <2>3. /\ call'[k] = call[k] /\ receipt'[k] = receipt[k] /\ result'[k] = result[k]
          /\ standing'[k] = standing[k] /\ attempts'[k] = a /\ call[k].at = "idle"
      BY <1>9 DEF GiveUpStale, MayAsk
    <2>4. Kept(k, record'[k], receipt'[k], result'[k], standing'[k], attempts'[k])
      BY <1>3, <2>2, <2>3 DEF Kept
    <2>5. Held(k, call[k], r, receipt[k], result[k], standing[k], a)
      BY DEF AllTrue
    <2>6. Held(k, call'[k], record'[k], receipt'[k], result'[k], standing'[k], attempts'[k])
      BY <2>2, <2>3, <2>5 DEF Held
    <2>7. QED
      BY <1>2, <2>4, <2>6, OneKeyTrue
  <1>10. CASE Reconcile(k, i)
    <2>1. /\ r.state \in {"in_progress", "uncertain"} /\ Reconciles(k)
          /\ InPlace(standing[k], i)
      BY <1>10 DEF Reconcile, Doubtful, InPlace
    <2>2. /\ call'[k].at = "reconcile_result" /\ call'[k].n = r.attempt /\ call'[k].input = i
          /\ ~call'[k].undone /\ ~call'[k].known
      BY <1>4, <1>5, <1>6, <1>10, <2>1 DEF Reconcile
    <2>3. /\ record'[k] = r /\ receipt'[k] = receipt[k] /\ result'[k] = result[k]
          /\ standing'[k] = standing[k] /\ attempts'[k] = a
      BY <1>10 DEF Reconcile
    <2>4. "reconcile_result" \notin Claims \cup {"operate"} /\ "reconcile_result" \notin Before \cup Undone
          /\ "reconcile_result" \notin Working /\ "reconcile_result" \notin Commits \cup {"encode"}
          /\ "reconcile_result" \notin Knowing
      BY DEF Claims, Before, Undone, Working, Commits, Knowing
    <2>5. r.attempt <= a
      BY <1>3 DEF Kept
    <2>6. Held(k, call'[k], record'[k], receipt'[k], result'[k], standing'[k], attempts'[k])
      BY <2>1, <2>2, <2>3, <2>4, <2>5 DEF Held
    <2>7. Kept(k, record'[k], receipt'[k], result'[k], standing'[k], attempts'[k])
      BY <1>3, <2>3
    <2>8. QED
      BY <1>2, <2>6, <2>7, OneKeyTrue
  <1>11. QED
    BY <1>1, <1>8, <1>9, <1>10

\* The effect is applied: its receipt no longer says that nothing stands.
LEMMA ApplyTrue ==
    ASSUME Typed, AllTrue, NEW k \in Keys, ApplyEffect(k)
    PROVE  AllTrue'
  <1> DEFINE n == call[k].n
             S == standing[k]
             a == attempts[k]
  <1>1. call[k].at = "operate" /\ call[k].began /\ call'[k] = call[k]
    BY DEF ApplyEffect
  <1>2. n \in Attempts /\ a \in Nat
    BY <1>1 DEF Typed, TypeOK, LiveCalls
  <1>3. /\ Kept(k, record[k], receipt[k], result[k], S, a)
        /\ Held(k, call[k], record[k], receipt[k], result[k], S, a)
    BY DEF AllTrue
  <1>4. standing'[k] = S \cup {<<n, call[k].input>>}
    BY DEF ApplyEffect, Typed, TypeOK, Mine
  <1>5. \A m \in Attempts \ {n} : NoneOf(S, m) => NoneOf(standing'[k], m)
    BY <1>4 DEF NoneOf
  <1>6. \A m \in Attempts : Backed(k, S, m) => Backed(k, standing'[k], m)
    BY <1>4 DEF Backed, NoneOf
  <1>7. \A i \in Inputs : InPlace(S, i) => InPlace(standing'[k], i)
    BY <1>4 DEF InPlace
  <1>8. receipt[k][n] \notin Harmless /\ n <= a /\ record[k].state # "completed"
    BY <1>1, <1>3, TruthPoints DEF Held
  <1>9. \A m \in Attempts : m > a => m # n
    BY <1>2, <1>8 DEF Attempts
  <1>10. /\ record'[k] = record[k] /\ receipt'[k] = receipt[k] /\ result'[k] = result[k]
         /\ attempts'[k] = a
    BY DEF ApplyEffect
  <1>11. Kept(k, record'[k], receipt'[k], result'[k], standing'[k], attempts'[k])
    BY <1>3, <1>5, <1>6, <1>8, <1>9, <1>10 DEF Kept
  <1>12. \A s \in standing'[k] : s[1] = n => s[2] = call[k].input
    BY <1>1, <1>3, <1>4 DEF Held
  <1>13. call[k].input \in Inputs
    BY <1>1 DEF Typed, LiveCalls
  <1>14. Held(k, call'[k], record'[k], receipt'[k], result'[k], standing'[k], attempts'[k])
    BY <1>1, <1>3, <1>7, <1>8, <1>10, <1>12, <1>13, TruthPoints DEF Held
  <1>15. \A j \in Keys \ {k} : Alone(j)
    BY DEF ApplyEffect, Typed, TypeOK, Alone
  <1>16. QED
    BY <1>11, <1>14, <1>15, OneKeyTrue

\* The effect is undone: no result and no validated receipt rests on it.
LEMMA UndoTrue ==
    ASSUME Typed, AllTrue, NEW k \in Keys, UndoEffect(k)
    PROVE  AllTrue'
  <1> DEFINE n == call[k].n
             S == standing[k]
             a == attempts[k]
  <1>1. call[k].at = "operate" /\ Undoes(k) /\ call[k] \in Calls
    BY DEF UndoEffect, Typed, TypeOK
  <1>2. /\ Kept(k, record[k], receipt[k], result[k], S, a)
        /\ Held(k, call[k], record[k], receipt[k], result[k], S, a)
    BY DEF AllTrue
  <1>3. standing'[k] = S \ {<<n, call[k].input>>}
    BY DEF UndoEffect, Typed, TypeOK, Mine
  <1>4. S \subseteq Attempts \X Inputs
    BY DEF Typed, TypeOK
  <1>5. NoneOf(standing'[k], n)
    <2>1. \A s \in S : s[1] = n => s[2] = call[k].input
      BY <1>1, <1>2 DEF Held
    <2>2. \A s \in S : s[1] = n => s = <<n, call[k].input>>
      BY <1>4, <2>1
    <2>3. QED
      BY <1>3, <2>2 DEF NoneOf
  <1>6. \A m \in Attempts : NoneOf(S, m) => NoneOf(standing'[k], m)
    BY <1>3 DEF NoneOf
  <1>7. \A m \in Attempts \ {n} : Backed(k, S, m) => Backed(k, standing'[k], m)
    <2> SUFFICES ASSUME NEW m \in Attempts \ {n}, Backed(k, S, m)
                 PROVE  Backed(k, standing'[k], m)
      OBVIOUS
    <2>1. PICK s \in S : s[1] = m
      BY <1>1 DEF Backed, NoneOf
    <2>2. s # <<n, call[k].input>>
      BY <2>1
    <2>3. s \in standing'[k]
      BY <1>3, <2>2
    <2>4. QED
      BY <2>1, <2>3 DEF Backed, NoneOf
  <1>8. /\ receipt[k][n] # "applied_validated" /\ n \notin result[k]
        /\ n <= a /\ record[k].state # "completed" /\ ~call[k].known
    BY <1>1, <1>2, TruthPoints DEF Held, Undoes
  <1>9. /\ record'[k] = record[k] /\ receipt'[k] = receipt[k] /\ result'[k] = result[k]
        /\ attempts'[k] = a
    BY DEF UndoEffect
  <1>10. Kept(k, record'[k], receipt'[k], result'[k], standing'[k], attempts'[k])
    BY <1>2, <1>6, <1>7, <1>8, <1>9 DEF Kept
  <1>11. /\ call'[k].at = "undone_receipt" /\ call'[k].n = n
         /\ call'[k].known = call[k].known /\ call'[k].input = call[k].input
    BY <1>1 DEF UndoEffect, Typed, TypeOK, Calls
  <1>12. /\ "undone_receipt" \notin Claims \cup {"operate"} /\ "undone_receipt" \notin Working
         /\ "undone_receipt" \notin Commits \cup {"encode"} /\ "undone_receipt" \notin Reconciling
         /\ "undone_receipt" \notin Knowing /\ "undone_receipt" \in Undone
    BY DEF Claims, Working, Commits, Reconciling, Knowing, Undone
  <1>13. Held(k, call'[k], record'[k], receipt'[k], result'[k], standing'[k], attempts'[k])
    BY <1>5, <1>8, <1>9, <1>11, <1>12 DEF Held
  <1>14. \A j \in Keys \ {k} : Alone(j)
    BY DEF UndoEffect, Typed, TypeOK, Alone
  <1>15. QED
    BY <1>10, <1>13, <1>14, OneKeyTrue

\* The other steps of a running operation move the call only.
LEMMA OperationTrue ==
    ASSUME Typed, AllTrue, NEW k \in Keys,
           BeginEffect(k) \/ FinishEffect(k) \/ Encode(k) \/ EncodeFails(k)
    PROVE  AllTrue'
  <1> DEFINE n == call[k].n
             S == standing[k]
  <1>1. call[k] \in Calls /\ call[k].at \in {"operate", "encode"}
    BY DEF Typed, TypeOK, BeginEffect, FinishEffect, Encode, EncodeFails
  <1>2. n \in Attempts /\ call[k].input \in Inputs
    BY <1>1 DEF Typed, LiveCalls
  <1>3. /\ Kept(k, record[k], receipt[k], result[k], S, attempts[k])
        /\ Held(k, call[k], record[k], receipt[k], result[k], S, attempts[k])
    BY DEF AllTrue
  <1>4. UNCHANGED <<record, receipt, result, standing, attempts>>
    BY DEF BeginEffect, FinishEffect, Encode, EncodeFails
  <1>5. \A j \in Keys \ {k} : Alone(j)
    BY <1>4 DEF BeginEffect, FinishEffect, Encode, EncodeFails, Typed, TypeOK, Alone
  <1>6. Held(k, call'[k], record[k], receipt[k], result[k], S, attempts[k])
    <2>1. CASE BeginEffect(k) /\ ~(Kind[k] = "lookup" /\ InPlace(S, call[k].input))
      <3>1. call' = [call EXCEPT ![k].began = TRUE] /\ call[k].at = "operate"
        BY <2>1 DEF BeginEffect, InPlace
      <3>2. /\ call'[k].at = "operate" /\ call'[k].n = n /\ call'[k].input = call[k].input
            /\ call'[k].began /\ call'[k].undone = call[k].undone
            /\ call'[k].known = call[k].known
        BY <1>1, <3>1 DEF Typed, TypeOK, Calls
      <3>3. QED
        BY <1>3, <3>1, <3>2 DEF Held
    <2>2. CASE ~(BeginEffect(k) /\ ~(Kind[k] = "lookup" /\ InPlace(S, call[k].input)))
      <3>1. /\ call'[k].at \in {"commit_result", "commit_again", "encode_receipt"}
            /\ call'[k].n = n /\ call'[k].input = call[k].input
            /\ call'[k].began = call[k].began /\ call'[k].undone = call[k].undone
        <4>1. CASE BeginEffect(k)
          <5>1. call' = [call EXCEPT ![k].at = "commit_result"]
            BY <2>2, <4>1 DEF BeginEffect, InPlace
          <5>2. QED
            BY <1>1, <5>1 DEF Typed, TypeOK, Calls
        <4>2. CASE ~BeginEffect(k)
          BY <1>1, <4>2 DEF FinishEffect, Encode, EncodeFails, Typed, TypeOK, Calls
        <4>3. QED
          BY <4>1, <4>2
      <3>2. InPlace(S, call[k].input) /\ Backed(k, S, n)
        <4>1. CASE BeginEffect(k)
          BY <2>2, <4>1 DEF InPlace, Backed, Undoes
        <4>2. CASE FinishEffect(k)
          <5>1. <<n, call[k].input>> \in S
            BY <4>2 DEF FinishEffect, Mine
          <5>2. QED
            BY <5>1 DEF InPlace, Backed, NoneOf
        <4>3. CASE Encode(k) \/ EncodeFails(k)
          BY <1>3, <4>3 DEF Held, Encode, EncodeFails
        <4>4. QED
          BY <4>1, <4>2, <4>3
      <3>3. call'[k].known => Kind[k] = "publish" /\ InPlace(S, call[k].input)
        <4>1. CASE FinishEffect(k)
          BY <1>1, <3>2, <4>1 DEF FinishEffect, Typed, TypeOK, Calls
        <4>2. CASE ~FinishEffect(k)
          <5>1. call'[k].known = call[k].known
            BY <1>1, <4>2 DEF BeginEffect, Encode, EncodeFails, Typed, TypeOK, Calls
          <5>2. QED
            BY <1>3, <5>1 DEF Held
        <4>3. QED
          BY <4>1, <4>2
      <3>4. call[k].at \in Working /\ call[k].at # "idle"
        BY <1>1 DEF Working
      <3>5. ~call[k].undone
        BY <1>3, <3>4, TruthPoints DEF Held
      <3>6. /\ call'[k].at \notin Claims \cup {"operate"} /\ call'[k].at \notin Before \cup Undone
            /\ call'[k].at \notin Reconciling /\ call'[k].at \notin Knowing
            /\ call'[k].at \notin Opening
            /\ call'[k].at \notin {"forget", "claim_operation"}
            /\ call'[k].at \notin {"claim_start", "operate"} /\ call'[k].at # "operate"
        BY <3>1 DEF Claims, Before, Undone, Reconciling, Knowing, Opening
      <3>7. QED
        BY <1>3, <3>1, <3>2, <3>3, <3>4, <3>5, <3>6 DEF Held
    <2>3. QED
      BY <2>1, <2>2
  <1>7. QED
    BY <1>3, <1>4, <1>5, <1>6, OneKeyTrue

\* What the sweep makes of a receipt, and what it knows when it does.
LEMMA SweepSays ==
    ASSUME Typed, NEW k \in Keys, NEW n \in Attempts,
           SweptReceipt(k, n) # receipt[k][n]
    PROVE  /\ receipt[k][n] # "absent"
           /\ \/ SweptReceipt(k, n) = "applied_validated" /\ OpId(k, n) \in result[k]
              \/ SweptReceipt(k, n) = "failed_before_effect" /\ receipt[k][n] = "accepted"
              \/ SweptReceipt(k, n) = "unknown"
  BY DEF SweptReceipt, Swept, Open

\* A startup that judges some of the receipts keeps the invariant.
LEMMA SweepTrue ==
    ASSUME Typed, AllTrue, NEW k \in Keys,
           UNCHANGED <<record, result, standing, call, attempts>>,
           \A j \in Keys \ {k} : receipt'[j] = receipt[j],
           \A m \in Attempts : receipt'[k][m] \in {receipt[k][m], SweptReceipt(k, m)}
    PROVE  AllTrue'
  <1> DEFINE S == standing[k]
             a == attempts[k]
  <1>1. /\ Kept(k, record[k], receipt[k], result[k], S, a)
        /\ Held(k, call[k], record[k], receipt[k], result[k], S, a)
    BY DEF AllTrue
  <1>2. ASSUME NEW m \in Attempts
        PROVE  /\ receipt'[k][m] \in Harmless => receipt[k][m] \in Harmless
               /\ receipt'[k][m] = "applied_validated" =>
                      receipt[k][m] = "applied_validated" \/ OpId(k, m) \in result[k]
               /\ receipt[k][m] = "absent" => receipt'[k][m] = "absent"
    BY SweepSays DEF Harmless
  <1>3. ASSUME NEW m \in Attempts, OpId(k, m) \in result[k]
        PROVE  Backed(k, S, m)
    <2>1. Backed(k, S, OpId(k, m))
      BY <1>1, <1>3, OpIdType DEF Kept
    <2>2. QED
      BY <2>1, OpIdBound DEF Backed
  <1>4. Kept(k, record'[k], receipt'[k], result'[k], standing'[k], attempts'[k])
    BY <1>1, <1>2, <1>3 DEF Kept
  <1>5. call[k].at # "idle" => call[k].n \in Attempts
    BY DEF Typed, LiveCalls
  <1>6. call[k].at # "idle" /\ Undoes(k) => OpId(k, call[k].n) = call[k].n
    BY <1>5, OpIdBound
  <1>7. Held(k, call'[k], record'[k], receipt'[k], result'[k], standing'[k], attempts'[k])
    <2>1. call[k].at \in {"forget", "claim_operation"} => receipt'[k][call[k].n] = "absent"
      BY <1>1, <1>2, <1>5 DEF Held
    <2>2. call[k].at \in Claims \cup {"operate"} /\ Undoes(k) =>
              receipt'[k][call[k].n] # "applied_validated"
      BY <1>1, <1>2, <1>5, <1>6, TruthPoints DEF Held
    <2>3. call[k].at \in {"claim_start", "operate"} => receipt'[k][call[k].n] \notin Harmless
      BY <1>1, <1>2, <1>5 DEF Held
    <2>4. QED
      BY <1>1, <2>1, <2>2, <2>3 DEF Held
  <1>8. \A j \in Keys \ {k} : Alone(j)
    BY DEF Alone
  <1>9. QED
    BY <1>4, <1>7, <1>8, OneKeyTrue

LEMMA StartupTrue ==
    ASSUME Typed, AllTrue, NEW k \in Keys,
           Startup(k) \/ (\E n \in Attempts : StartupDies(k, n))
    PROVE  AllTrue'
  <1>1. CASE Startup(k)
    <2>1. /\ \A j \in Keys \ {k} : receipt'[j] = receipt[j]
          /\ \A m \in Attempts : receipt'[k][m] = SweptReceipt(k, m)
      BY <1>1 DEF Startup, Typed, TypeOK
    <2>2. QED
      BY <1>1, <2>1, SweepTrue DEF Startup
  <1>2. ASSUME NEW n \in Attempts, StartupDies(k, n)
        PROVE  AllTrue'
    <2>1. /\ \A j \in Keys \ {k} : receipt'[j] = receipt[j]
          /\ \A m \in Attempts : receipt'[k][m] \in {receipt[k][m], SweptReceipt(k, m)}
      BY <1>2 DEF StartupDies, Typed, TypeOK
    <2>2. QED
      BY <1>2, <2>1, SweepTrue DEF StartupDies
  <1>3. QED
    BY <1>1, <1>2

LEMMA AgeTrue ==
    ASSUME Typed, AllTrue, NEW k \in Keys, Age(k)
    PROVE  AllTrue'
  <1>1. UNCHANGED <<receipt, result, standing, call, attempts>>
    BY DEF Age
  <1>2. \A j \in Keys : /\ record'[j].state = record[j].state
                        /\ record'[j].input = record[j].input
                        /\ record'[j].attempt = record[j].attempt
    <2>1. CASE record[k].state = "in_progress"
      <3>1. record[k] \in Records /\ record[k] # NoRecord
        BY <2>1 DEF Typed, TypeOK, NoRecord
      <3>2. record' = [record EXCEPT ![k].stale = TRUE]
        BY <2>1 DEF Age
      <3>3. QED
        BY <3>1, <3>2 DEF Typed, TypeOK, Records
    <2>2. CASE record[k].state # "in_progress"
      <3>1. record' = record
        BY <2>2 DEF Age
      <3>2. QED
        BY <3>1
    <2>3. QED
      BY <2>1, <2>2
  <1>3. QED
    BY <1>1, <1>2 DEF AllTrue, Kept, Held

LEMMA InitTrue == Init => AllTrue
  <1> SUFFICES ASSUME Init, NEW k \in Keys
               PROVE  /\ Kept(k, record[k], receipt[k], result[k], standing[k], attempts[k])
                      /\ Held(k, call[k], record[k], receipt[k], result[k], standing[k], attempts[k])
    BY DEF AllTrue
  <1>1. /\ record[k] = NoRecord /\ result[k] = {} /\ standing[k] = {}
        /\ call[k] = Idle /\ attempts[k] = 0
        /\ \A n \in Attempts : receipt[k][n] = "absent"
    BY DEF Init
  <1>2. Kept(k, record[k], receipt[k], result[k], standing[k], attempts[k])
    BY <1>1 DEF Kept, NoneOf, NoRecord
  <1>3. QED
    BY <1>1, <1>2, IdleHeld

LEMMA StepTrue ==
    ASSUME Typed, AllTrue, [Next]_vars
    PROVE  Typed' /\ AllTrue'
  <1>1. CASE UNCHANGED vars
    BY <1>1, StutterType DEF AllTrue, Kept, Held, vars
  <1>2. CASE Next
    <2>1. PICK k \in Keys : Proceed(k) \/ Request(k) \/ Misfortune(k) \/ Age(k) \/ Startup(k)
      BY <1>2 DEF Next
    <2>2. Typed'
      BY <2>1, ProceedType, RequestType, MisfortuneType, AgeType, StartupType
    <2>3. CASE StoreFails(k) \/ OperateFails(k)
      <3>1. /\ call[k].at # "idle" /\ Raise(k)
            /\ UNCHANGED <<record, receipt, result, standing, attempts>>
        BY <2>3 DEF StoreFails, OperateFails, Program
      <3>2. QED
        BY <2>2, <3>1, RaiseTrue
    <2>4. CASE Proceed(k)
      BY <2>2, <2>4, DoTrue, RefusedTrue, OperationTrue, ApplyTrue DEF Proceed
    <2>5. CASE Misfortune(k)
      BY <2>2, <2>3, <2>5, CrashTrue, UndoTrue, OperationTrue, StartupTrue DEF Misfortune
    <2>6. QED
      BY <2>1, <2>2, <2>4, <2>5, RequestTrue, AgeTrue, StartupTrue
  <1>3. QED
    BY <1>1, <1>2

(***************************************************************************)
(* The durable records tell the truth: a receipt that says nothing was     *)
(* applied or that it was undone is right whichever process wrote it, a    *)
(* validated receipt has an effect of the key behind it, and the record    *)
(* that execute_idempotent replays to later callers names an effect that   *)
(* is in place.                                                            *)
(***************************************************************************)
THEOREM RecordsTellTheTruth == Spec => []ReceiptTruth
<1>1. Init => Typed /\ AllTrue
  BY InitType, InitTrue
<1>2. Typed /\ AllTrue /\ [Next]_vars => Typed' /\ AllTrue'
  BY StepTrue
<1>3. AllTrue => ReceiptTruth
  <2> SUFFICES ASSUME AllTrue, NEW k \in Keys
               PROVE  /\ \A n \in Attempts :
                           /\ receipt[k][n] \in {"failed_before_effect", "rolled_back"} =>
                                  \A s \in standing[k] : s[1] # n
                           /\ receipt[k][n] = "applied_validated" => standing[k] # {}
                      /\ record[k].state = "completed" =>
                             \E s \in standing[k] : s[2] = record[k].input
    BY DEF ReceiptTruth
  <2>1. Kept(k, record[k], receipt[k], result[k], standing[k], attempts[k])
    BY DEF AllTrue
  <2>2. QED
    BY <2>1 DEF Kept, Harmless, NoneOf, Backed, InPlace
<1>4. QED
  BY <1>1, <1>2, <1>3, PTL DEF Spec

\* The record of a key is written by its live call, or ages, or is given up.
LEMMA RecordWriters ==
    ASSUME Typed, NEW k \in Keys, NEW j \in Keys,
           Proceed(j) \/ Request(j) \/ Misfortune(j) \/ Age(j) \/ Startup(j),
           record'[k] # record[k]
    PROVE  j = k /\ (record[k].state = "in_progress" \/ call[k].at # "idle")
  <1>1. CASE Do(j)
    <2>1. record' = record \/ record' = [record EXCEPT ![j] = Saved(j, Program[call[j].at])]
      BY <1>1 DEF Do
    <2>2. j = k
      BY <2>1 DEF Typed, TypeOK
    <2>3. call[j].at # "idle"
      BY <1>1 DEF Do, Program
    <2>4. QED
      BY <2>2, <2>3
  <1>2. CASE Request(j)
    <2>1. PICK i \in Inputs : GiveUpStale(j, i)
      BY <1>2 DEF Request, Ask, Reconcile, ReconcileMiss
    <2>2. QED
      BY <2>1 DEF GiveUpStale, Typed, TypeOK
  <1>3. CASE Age(j)
    BY <1>3 DEF Age, Typed, TypeOK
  <1>4. CASE ~Do(j) /\ ~Request(j) /\ ~Age(j)
    BY <1>4 DEF Proceed, Refused, BeginEffect, ApplyEffect, FinishEffect, Encode, Misfortune,
                StoreFails, Crash, OperateFails, UndoEffect, EncodeFails, StartupDies, Startup
  <1>5. QED
    BY <1>1, <1>2, <1>3, <1>4

(***************************************************************************)
(* A completed record is withdrawn only by the live call that wrote it: no *)
(* later call, reconciliation, expiry or startup takes back what a client  *)
(* of execute_idempotent may have been told.                               *)
(***************************************************************************)
THEOREM AnswersAreKept == Spec => CompletedStays
<1>1. Init => Typed /\ AllTrue
  BY InitType, InitTrue
<1>2. Typed /\ AllTrue /\ [Next]_vars => Typed' /\ AllTrue'
  BY StepTrue
<1>3. Typed /\ AllTrue /\ [Next]_vars =>
         [\A k \in Keys : record[k].state = "completed" /\ record'[k] # record[k] =>
             call[k].at # "idle" /\ call[k].n = record[k].attempt]_vars
  <2> SUFFICES ASSUME Typed, AllTrue, Next, NEW k \in Keys,
                      record[k].state = "completed", record'[k] # record[k]
               PROVE  call[k].at # "idle" /\ call[k].n = record[k].attempt
    BY DEF vars
  <2>1. call[k].at # "idle"
    BY RecordWriters DEF Next
  <2>2. Held(k, call[k], record[k], receipt[k], result[k], standing[k], attempts[k])
    BY DEF AllTrue
  <2>3. QED
    BY <2>1, <2>2 DEF Held
<1>4. QED
  BY <1>1, <1>2, <1>3, PTL DEF Spec, CompletedStays

=============================================================================
