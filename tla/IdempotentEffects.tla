------------------------- MODULE IdempotentEffects -------------------------
(***************************************************************************)
(* Keyed effects (application/idempotency.py, outcome_receipts.py) and the *)
(* startup sweep over their receipts (outcome_reconciliation.py).          *)
(*                                                                         *)
(* One call makes up to a dozen durable writes to four stores: the         *)
(* idempotency record of its key, the effect receipt, the operation and    *)
(* the operation result.  Program says which write each point of the call  *)
(* makes and where the call goes on; a process may die between any two     *)
(* writes, any write may fail, and the startup of another process may      *)
(* rewrite the same receipts and operations while the call is alive.       *)
(* The lock of a key is held for the whole call, so a key has one live     *)
(* call; a process that dies releases it.                                  *)
(***************************************************************************)
EXTENDS Naturals, FiniteSets

CONSTANTS Keys,       \* idempotency keys; for "unkeyed" calls, the caller
          Inputs,     \* request fingerprints
          Kind,       \* what is done under a key
          MaxFaults   \* how many faults the environment injects

(***************************************************************************)
(* "local": workspace_write_file, _edit and _apply_patch.                  *)
(* "lookup": pull-request comments, issue writes and graph steps, which    *)
(*   find their own marker at the provider.                                *)
(* "publish": pushes and draft pull requests, whose operation id is        *)
(*   computed from the key and whose reconciliation never answers "absent".*)
(* "replayable": workspace_create and draft updates, safe to repeat.       *)
(* "unkeyed": execute_with_outcome_receipt, with no key and no record.     *)
(***************************************************************************)
Kinds == {"local", "lookup", "publish", "replayable", "unkeyed"}

ASSUME KindAssumption == Kind \in [Keys -> Kinds]
ASSUME FaultAssumption == MaxFaults \in Nat
ASSUME InputAssumption == "none" \notin Inputs

VARIABLES record,    \* the idempotency record of each key
          receipt,   \* the effect receipt of each attempt
          op,        \* the operation of each operation id
          old,       \* operations whose updated_at is older than the window
          result,    \* operation ids with a stored result
          standing,  \* the attempts whose effect is in place, with their input
          call,      \* the live call of each key
          attempts,  \* attempts made under each key
          faults     \* faults left

vars == <<record, receipt, op, old, result, standing, call, attempts, faults>>

\* A fault ends at most one attempt, so this bound on attempts never binds.
Attempts == 1 .. (MaxFaults + 1)

Keyed(k) == Kind[k] # "unkeyed"
Reconciles(k) == Kind[k] \in {"lookup", "publish"}
Undoes(k) == Kind[k] \in {"replayable", "unkeyed"}

\* The operation id: computed from the key for a publication, else fresh.
OpId(k, n) == IF Kind[k] = "publish" THEN 1 ELSE n

RecordStates == {"in_progress", "completed", "uncertain"}
NoRecord == [state |-> "none", attempt |-> 0, input |-> "none", stale |-> FALSE]
ReceiptStates == {"absent", "accepted", "applying", "applied_unvalidated",
                  "applied_validated", "rolled_back", "failed_before_effect",
                  "failed_after_effect", "unknown"}
OpStates == {"absent", "pending", "running", "succeeded", "orphaned",
             "failed_before_effect", "failed_after_effect", "rolled_back",
             "effect_unknown"}
Failures == {"failed_before_effect", "failed_after_effect", "rolled_back",
             "effect_unknown"}
Open == {"accepted", "applying", "applied_unvalidated"}

\* _EFFECT_TRANSITIONS.
EffectTransitions(s) ==
    CASE s = "accepted" -> {"applying", "failed_before_effect", "unknown"}
      [] s = "applying" -> {"applied_unvalidated", "rolled_back", "unknown",
                            "failed_before_effect", "failed_after_effect"}
      [] s = "applied_unvalidated" -> {"applied_validated", "rolled_back",
                                       "failed_after_effect", "unknown"}
      [] s = "unknown" -> {"applied_validated"}
      [] OTHER -> {}

\* transition_operation, over the states a keyed operation passes through.
OpTransitions(s) ==
    CASE s = "absent" -> {"pending"}
      [] s = "pending" -> {"running"} \cup Failures
      [] s = "running" -> {"succeeded", "orphaned"} \cup Failures
      [] OTHER -> {}

-----------------------------------------------------------------------------
(***************************************************************************)
(* What the call writes at each point, and the point it goes on to.        *)
(***************************************************************************)
Write(store, value, next) == [store |-> store, value |-> value, next |-> next]

Program ==
    [claim_operation    |-> Write("op", "pending", "claim_receipt"),
     claim_receipt      |-> Write("receipt", "accepted", "claim_record"),
     claim_record       |-> Write("record", "in_progress", "claim_applying"),
     claim_applying     |-> Write("receipt", "applying", "claim_start"),
     claim_start        |-> Write("op", "running", "operate"),
     commit_result      |-> Write("result", "saved", "commit_applied"),
     commit_applied     |-> Write("receipt", "applied_unvalidated", "commit_record"),
     commit_record      |-> Write("record", "completed", "encode"),
     commit_again       |-> Write("record", "completed", "commit_validated"),
     commit_validated   |-> Write("receipt", "applied_validated", "commit_operation"),
     commit_operation   |-> Write("op", "succeeded", "idle"),
     encode_receipt     |-> Write("receipt", "failed_after_effect", "encode_operation"),
     encode_operation   |-> Write("op", "failed_after_effect", "idle"),
     known_result       |-> Write("result", "saved", "known_receipt"),
     known_receipt      |-> Write("receipt", "failed_after_effect", "known_operation"),
     known_operation    |-> Write("op", "failed_after_effect", "known_record"),
     known_record       |-> Write("record", "completed", "idle"),
     undone_receipt     |-> Write("receipt", "rolled_back", "undone_operation"),
     undone_operation   |-> Write("op", "rolled_back", "undone_record"),
     undone_record      |-> Write("record", "none", "idle"),
     unknown_receipt    |-> Write("receipt", "unknown", "unknown_operation"),
     unknown_operation  |-> Write("op", "effect_unknown", "unknown_record"),
     unknown_record     |-> Write("record", "uncertain", "idle"),
     before_receipt     |-> Write("receipt", "failed_before_effect", "before_operation"),
     before_operation   |-> Write("op", "failed_before_effect", "before_record"),
     before_record      |-> Write("record", "none", "idle"),
     forget             |-> Write("record", "none", "claim_operation"),
     reconcile_result   |-> Write("result", "saved", "reconcile_receipt"),
     reconcile_receipt  |-> Write("receipt", "applied_validated", "reconcile_operation"),
     reconcile_operation |-> Write("op", "succeeded", "reconcile_record"),
     reconcile_record   |-> Write("record", "completed", "idle")]

Claims == {"claim_operation", "claim_receipt", "claim_record", "claim_applying",
           "claim_start"}
Commits == {"commit_result", "commit_applied", "commit_record", "commit_again",
            "commit_validated", "commit_operation", "encode_receipt",
            "encode_operation"}
Reconciling == {"reconcile_result", "reconcile_receipt", "reconcile_operation",
                "reconcile_record"}
Points == DOMAIN Program \cup {"idle", "operate", "encode"}

Idle == [at |-> "idle", n |-> 0, input |-> "none", seen |-> "absent",
         began |-> FALSE, undone |-> FALSE, known |-> FALSE]

Calls == [at : Points, n : Attempts \cup {0}, input : Inputs \cup {"none"},
          seen : ReceiptStates, began : BOOLEAN, undone : BOOLEAN, known : BOOLEAN]
Records == [state : RecordStates, attempt : Attempts, input : Inputs,
            stale : BOOLEAN] \cup {NoRecord}

TypeOK ==
    /\ record \in [Keys -> Records]
    /\ receipt \in [Keys -> [Attempts -> ReceiptStates]]
    /\ op \in [Keys -> [Attempts -> OpStates]]
    /\ old \in [Keys -> SUBSET Attempts]
    /\ result \in [Keys -> SUBSET Attempts]
    /\ standing \in [Keys -> SUBSET (Attempts \X Inputs)]
    /\ call \in [Keys -> Calls]
    /\ attempts \in [Keys -> 0 .. (MaxFaults + 1)]
    /\ faults \in 0 .. MaxFaults

Init ==
    /\ record = [k \in Keys |-> NoRecord]
    /\ receipt = [k \in Keys |-> [n \in Attempts |-> "absent"]]
    /\ op = [k \in Keys |-> [n \in Attempts |-> "absent"]]
    /\ old = [k \in Keys |-> {}]
    /\ result = [k \in Keys |-> {}]
    /\ standing = [k \in Keys |-> {}]
    /\ call = [k \in Keys |-> Idle]
    /\ attempts = [k \in Keys |-> 0]
    /\ faults = MaxFaults

-----------------------------------------------------------------------------
(***************************************************************************)
(* A request arrives and takes the lock of its key.  A key bound to        *)
(* another input, a completed one (replayed from the record), one in       *)
(* progress and not stale, and an uncertain one nobody can reconcile are   *)
(* answered without a change of state, and are not actions here.           *)
(***************************************************************************)
MayAsk(k, i) ==
    /\ call[k].at = "idle"
    /\ record[k].state # "none" => record[k].input = i

Doubtful(k) ==
    \/ record[k].state = "uncertain"
    \/ record[k].state = "in_progress" /\ record[k].stale

\* Mutated: every stale claim is taken over.
StartsAfreshIfStale(k) ==
    /\ record[k].state = "none" \/ record[k].stale
    /\ attempts[k] <= MaxFaults

\* Mutated: a completed record is not replayed.
StartsAfreshIfCompleted(k) ==
    record[k].state \in {"none", "completed"} /\ attempts[k] <= MaxFaults

\* Nothing is known of the key, or a stale claim of an action that is
\* neither reconciled nor one of the local mutations is taken over.
StartsAfresh(k) ==
    /\ \/ record[k].state = "none"
       \/ /\ record[k].state = "in_progress" /\ record[k].stale
          /\ Kind[k] = "replayable"
    /\ attempts[k] <= MaxFaults

Enter(k, point, n, i) ==
    call' = [call EXCEPT ![k] = [Idle EXCEPT !.at = point, !.n = n, !.input = i]]

Ask(k, i) ==
    /\ MayAsk(k, i)
    /\ StartsAfresh(k)
    /\ attempts' = [attempts EXCEPT ![k] = @ + 1]
    /\ Enter(k, "claim_operation", attempts[k] + 1, i)
    /\ UNCHANGED <<record, receipt, op, old, result, standing, faults>>

\* Mutated: a stale claim of a local mutation stays in progress.
GiveUpNever(k, i) == FALSE /\ UNCHANGED vars

\* A stale claim of a local mutation becomes uncertain and the call refuses.
GiveUpStale(k, i) ==
    /\ MayAsk(k, i)
    /\ Kind[k] = "local" /\ record[k].state = "in_progress" /\ record[k].stale
    /\ record' = [record EXCEPT ![k].state = "uncertain", ![k].stale = FALSE]
    /\ UNCHANGED <<receipt, op, old, result, standing, call, attempts, faults>>

\* reconcile_uncertain finds the effect: the call goes on to complete the
\* writes of the attempt the record names.
Reconcile(k, i) ==
    /\ MayAsk(k, i)
    /\ Reconciles(k) /\ Doubtful(k)
    /\ \E s \in standing[k] : s[2] = i
    /\ Enter(k, "reconcile_result", record[k].attempt, i)
    /\ UNCHANGED <<record, receipt, op, old, result, standing, attempts, faults>>

\* reconcile_uncertain answers that there is no effect: the record is
\* deleted and the call starts afresh.  A publication raises instead.
ReconcileMiss(k, i) ==
    /\ MayAsk(k, i)
    /\ Kind[k] = "lookup" /\ Doubtful(k) /\ attempts[k] <= MaxFaults
    /\ \A s \in standing[k] : s[2] # i
    /\ attempts' = [attempts EXCEPT ![k] = @ + 1]
    /\ Enter(k, "forget", attempts[k] + 1, i)
    /\ UNCHANGED <<record, receipt, op, old, result, standing, faults>>

-----------------------------------------------------------------------------
(***************************************************************************)
(* One durable write.  It is refused, and raises, when the state machine   *)
(* of the receipt or the operation does not allow it, when the receipt is  *)
(* not the revision the call last saw (a state never recurs, so the state  *)
(* stands for the revision), or when the operation already exists.         *)
(***************************************************************************)
Seen(k) == IF call[k].at \in Reconciling THEN receipt[k][call[k].n] ELSE call[k].seen

Accepts(k, w) ==
    LET n == call[k].n
        o == op[k][OpId(k, n)] IN
    CASE w.store = "receipt" ->
           \/ w.value = "accepted"
           \/ /\ Seen(k) = receipt[k][n]
              /\ w.value \in EffectTransitions(Seen(k)) \cup {Seen(k)}
      [] w.store = "op" ->
           IF call[k].at = "reconcile_operation"
           THEN o \in {"succeeded", "effect_unknown"}
           ELSE w.value \in OpTransitions(o)
      [] OTHER -> TRUE

\* Mutated: the saved record does not name the attempt that owns it.
SavedWithoutAttempt(k, w) ==
    [state |-> w.value, attempt |-> 0, input |-> call[k].input, stale |-> FALSE]

Saved(k, w) ==
    IF w.value = "none" THEN NoRecord
    ELSE [state |-> w.value, attempt |-> call[k].n, input |-> call[k].input,
          stale |-> FALSE]

Continue(k, point) ==
    IF point = "idle" THEN Idle ELSE [call[k] EXCEPT !.at = point]

Do(k) ==
    /\ call[k].at \in DOMAIN Program
    /\ LET w == Program[call[k].at]
           n == call[k].n
           goes == Continue(k, w.next) IN
       /\ Accepts(k, w)
       /\ record' = IF w.store = "record" /\ Keyed(k)
                    THEN [record EXCEPT ![k] = Saved(k, w)] ELSE record
       /\ receipt' = IF w.store = "receipt"
                     THEN [receipt EXCEPT ![k][n] = w.value] ELSE receipt
       /\ op' = IF w.store = "op"
                THEN [op EXCEPT ![k][OpId(k, n)] = w.value] ELSE op
       /\ old' = IF w.store = "op"
                 THEN [old EXCEPT ![k] = @ \ {OpId(k, n)}] ELSE old
       /\ result' = IF w.store = "result"
                    THEN [result EXCEPT ![k] = @ \cup {OpId(k, n)}] ELSE result
       /\ call' = [call EXCEPT ![k] =
                     IF w.store = "receipt" /\ w.next # "idle"
                     THEN [goes EXCEPT !.seen = w.value] ELSE goes]
    /\ UNCHANGED <<standing, attempts, faults>>


\* Mutated: the handler forgets that the boundary was crossed.
HandlerForgetsBoundary(k) ==
    IF call[k].known THEN "known_result"
    ELSE IF call[k].undone THEN "undone_receipt" ELSE "before_receipt"

\* Where the handler of execute_and_commit goes on after an exception.
Handler(k) ==
    LET c == call[k] IN
    IF /\ c.seen = "applied_validated"
       /\ Keyed(k) => record[k].state = "completed" THEN "idle"
    ELSE IF c.known THEN "known_result"
    ELSE IF c.undone THEN "undone_receipt"
    ELSE IF c.began THEN "unknown_receipt"
    ELSE "before_receipt"

\* An exception: execute_and_commit handles it, every other point ends the
\* call and leaves what was written.
Raise(k) ==
    call' = [call EXCEPT ![k] =
               IF call[k].at \in Commits \cup {"operate", "encode"}
               THEN Continue(k, Handler(k)) ELSE Idle]

\* A call refused its operation leaves nothing, and does not count.
Refused(k) ==
    /\ call[k].at \in DOMAIN Program
    /\ ~Accepts(k, Program[call[k].at])
    /\ Raise(k)
    /\ attempts' = IF call[k].at = "claim_operation"
                   THEN [attempts EXCEPT ![k] = call[k].n - 1] ELSE attempts
    /\ UNCHANGED <<record, receipt, op, old, result, standing, faults>>

Fault == faults > 0 /\ faults' = faults - 1

StoreFails(k) ==
    /\ call[k].at \in DOMAIN Program
    /\ Fault
    /\ Raise(k)
    /\ UNCHANGED <<record, receipt, op, old, result, standing, attempts>>

Crash(k) ==
    /\ call[k].at # "idle"
    /\ Fault
    /\ call' = [call EXCEPT ![k] = Idle]
    /\ UNCHANGED <<record, receipt, op, old, result, standing, attempts>>

-----------------------------------------------------------------------------
(***************************************************************************)
(* The operation itself: boundary.begin(), the effect, then the result.    *)
(***************************************************************************)
Mine(k) == <<call[k].n, call[k].input>>

\* A lookup action that finds its marker returns without an effect.
BeginEffect(k) ==
    /\ call[k].at = "operate" /\ ~call[k].began
    /\ call' = IF Kind[k] = "lookup" /\ \E s \in standing[k] : s[2] = call[k].input
               THEN [call EXCEPT ![k].at = "commit_result"]
               ELSE [call EXCEPT ![k].began = TRUE]
    /\ UNCHANGED <<record, receipt, op, old, result, standing, attempts, faults>>

ApplyEffect(k) ==
    /\ call[k].at = "operate" /\ call[k].began
    /\ Mine(k) \notin standing[k]
    /\ standing' = [standing EXCEPT ![k] = @ \cup {Mine(k)}]
    /\ UNCHANGED <<record, receipt, op, old, result, call, attempts, faults>>

\* The operation returns; a publication has recorded its result before.
FinishEffect(k) ==
    /\ call[k].at = "operate" /\ Mine(k) \in standing[k]
    /\ call' = [call EXCEPT ![k].at = "commit_result",
                            ![k].known = (Kind[k] = "publish")]
    /\ UNCHANGED <<record, receipt, op, old, result, standing, attempts, faults>>

\* It raises, before or after begin() and the effect.
OperateFails(k) ==
    /\ call[k].at = "operate"
    /\ Fault
    /\ Raise(k)
    /\ UNCHANGED <<record, receipt, op, old, result, standing, attempts>>

\* It raises after undoing its effect, having called boundary.rollback().
UndoEffect(k) ==
    /\ call[k].at = "operate" /\ call[k].began /\ Undoes(k)
    /\ Fault
    /\ standing' = [standing EXCEPT ![k] = @ \ {Mine(k)}]
    /\ call' = [call EXCEPT ![k].undone = TRUE, ![k].at = "undone_receipt"]
    /\ UNCHANGED <<record, receipt, op, old, result, attempts>>

\* materialize: the response is encoded, or cannot be.
Encode(k) ==
    /\ call[k].at = "encode"
    /\ call' = [call EXCEPT ![k].at = "commit_again"]
    /\ UNCHANGED <<record, receipt, op, old, result, standing, attempts, faults>>

EncodeFails(k) ==
    /\ call[k].at = "encode"
    /\ Fault
    /\ call' = [call EXCEPT ![k].at = "encode_receipt"]
    /\ UNCHANGED <<record, receipt, op, old, result, standing, attempts>>

-----------------------------------------------------------------------------
(***************************************************************************)
(* idempotency_stale_seconds pass.  A call that outlives them is a fault.  *)
(***************************************************************************)
Age(k) ==
    /\ \/ record[k].state = "in_progress" /\ ~record[k].stale
       \/ \E n \in Attempts \ old[k] : op[k][n] \in {"pending", "running"}
    /\ IF call[k].at = "idle" THEN faults' = faults ELSE Fault
    /\ record' = IF record[k].state = "in_progress"
                 THEN [record EXCEPT ![k].stale = TRUE] ELSE record
    /\ old' = [old EXCEPT ![k] =
                 @ \cup {n \in Attempts : op[k][n] \in {"pending", "running"}}]
    /\ UNCHANGED <<receipt, op, result, standing, call, attempts>>

(***************************************************************************)
(* A process starts: OutcomeReceiptReconciler.reconcile judges every       *)
(* receipt still open whose operation is not young, then                   *)
(* recover_operations orphans the running operations left over.            *)
(***************************************************************************)
Live(k, n) == op[k][OpId(k, n)] \in {"pending", "running"}

Swept(k, n) ==
    /\ receipt[k][n] \in Open
    /\ Live(k, n) => OpId(k, n) \in old[k]

SweptReceipt(k, n) ==
    IF ~Swept(k, n) THEN receipt[k][n]
    ELSE IF OpId(k, n) \in result[k] THEN "applied_validated"
    ELSE IF /\ receipt[k][n] = "accepted"
            /\ op[k][OpId(k, n)] \in {"absent", "pending"} THEN "failed_before_effect"
    ELSE "unknown"

SweptOp(k, n) ==
    CASE ~Live(k, n) -> op[k][OpId(k, n)]
      [] SweptReceipt(k, n) = receipt[k][n] ->
           IF op[k][OpId(k, n)] = "running" /\ OpId(k, n) \in old[k]
           THEN "orphaned" ELSE op[k][OpId(k, n)]
      [] SweptReceipt(k, n) = "applied_validated" -> "succeeded"
      [] SweptReceipt(k, n) = "failed_before_effect" -> "failed_before_effect"
      [] OTHER -> "effect_unknown"

\* The attempt an operation id belongs to: the only one that created it.
Startup(k) ==
    /\ \E n \in Attempts : \/ SweptReceipt(k, n) # receipt[k][n]
                           \/ OpId(k, n) = n /\ SweptOp(k, n) # op[k][n]
    /\ receipt' = [receipt EXCEPT ![k] = [n \in Attempts |-> SweptReceipt(k, n)]]
    /\ op' = [op EXCEPT ![k] = [n \in Attempts |->
                IF OpId(k, n) = n THEN SweptOp(k, n) ELSE op[k][n]]]
    /\ UNCHANGED <<record, old, result, standing, call, attempts, faults>>

\* The process dies between its write of a receipt and of the operation.
StartupDies(k, n) ==
    /\ SweptReceipt(k, n) # receipt[k][n]
    /\ Fault
    /\ receipt' = [receipt EXCEPT ![k][n] = SweptReceipt(k, n)]
    /\ UNCHANGED <<record, op, old, result, standing, call, attempts>>

-----------------------------------------------------------------------------
Proceed(k) ==
    \/ Do(k) \/ Refused(k)
    \/ BeginEffect(k) \/ ApplyEffect(k) \/ FinishEffect(k) \/ Encode(k)

Request(k) ==
    \E i \in Inputs : Ask(k, i) \/ GiveUpStale(k, i) \/ Reconcile(k, i) \/ ReconcileMiss(k, i)

Misfortune(k) ==
    \/ StoreFails(k) \/ Crash(k) \/ OperateFails(k) \/ UndoEffect(k) \/ EncodeFails(k)
    \/ \E n \in Attempts : StartupDies(k, n)

Next == \E k \in Keys : Proceed(k) \/ Request(k) \/ Misfortune(k) \/ Age(k) \/ Startup(k)

Spec == Init /\ [][Next]_vars

(***************************************************************************)
(* A live call goes on, time passes between the retries and processes are  *)
(* started again and again; FairSpec adds a client that repeats its        *)
(* request until it is answered.                                           *)
(***************************************************************************)
Fairness(k) ==
    /\ WF_vars(Proceed(k)) /\ WF_vars(Startup(k))
    /\ SF_vars(Age(k) /\ call[k].at = "idle")

FairSpec == Spec /\ \A k \in Keys : Fairness(k) /\ WF_vars(Request(k))

-----------------------------------------------------------------------------
(***************************************************************************)
(* A keyed effect is in place at most once, whatever fails and however     *)
(* often the client retries: the promise of execute_idempotent.            *)
(***************************************************************************)
AtMostOnce ==
    \A k \in Keys : Kind[k] \in {"local", "lookup", "publish"} =>
        \A s, t \in standing[k] : s = t

(***************************************************************************)
(* The durable records tell the truth.  A receipt that says nothing was    *)
(* applied, or that it was undone, is right even when the startup of       *)
(* another process wrote it under a live call; one that says validated has *)
(* an effect of the key behind it; and a key whose record says completed,  *)
(* which every later call replays, has its effect in place with the input  *)
(* the record names.                                                       *)
(***************************************************************************)
ReceiptTruth ==
    \A k \in Keys :
        /\ \A n \in Attempts :
             /\ receipt[k][n] \in {"failed_before_effect", "rolled_back"} =>
                    \A s \in standing[k] : s[1] # n
             /\ receipt[k][n] = "applied_validated" => standing[k] # {}
        /\ record[k].state = "completed" =>
               \E s \in standing[k] : s[2] = record[k].input

(***************************************************************************)
(* A completed record is withdrawn only by the call that wrote it, when it *)
(* fails before it answers: no later call, reconciliation or expiry of a   *)
(* claim ever takes back what a client may have been told.                 *)
(***************************************************************************)
CompletedStays ==
    [][\A k \in Keys : record[k].state = "completed" /\ record'[k] # record[k] =>
           call[k].at # "idle" /\ call[k].n = record[k].attempt]_vars

(***************************************************************************)
(* What the code leaves in progress, or refuses, for ever.  Reconciliation *)
(* completes an operation only if it succeeded or failed with an unknown   *)
(* outcome, so an effect whose operation ended otherwise (orphaned, or     *)
(* failed by the startup sweep) can never be completed.  A publication     *)
(* that left no effect is never answered "absent", and one that failed     *)
(* before its effect finds its own operation id taken at every retry.      *)
(***************************************************************************)
Finished(k, n) == op[k][OpId(k, n)] \notin {"absent", "pending", "running"}

Stranded(k) ==
    \/ /\ Reconciles(k) /\ record[k].state = "in_progress"
       /\ Finished(k, record[k].attempt)
       /\ op[k][OpId(k, record[k].attempt)] \notin {"succeeded", "effect_unknown"}
    \/ /\ Kind[k] = "publish" /\ record[k].state = "in_progress"
       /\ \A s \in standing[k] : s[2] # record[k].input
    \/ /\ Kind[k] = "publish" /\ record[k].state = "none"
       /\ op[k][1] # "absent"

(***************************************************************************)
(* A client that retries finally gets an answer, whatever failed before:   *)
(* its key is completed or declared uncertain for good, and is left open   *)
(* only in the states named above, none of which a local mutation or a     *)
(* replayable action ever reaches.                                         *)
(***************************************************************************)
Settled(k) == record[k].state \in {"completed", "uncertain"}
Settles ==
    \A k \in Keys : Keyed(k) =>
        <>[](attempts[k] > 0 => Settled(k) \/ Stranded(k))
=============================================================================
