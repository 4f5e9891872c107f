------------------------ MODULE ReleaseUpgradeProofs ------------------------
(***************************************************************************)
(* Proofs about UpgradeService, for any number of releases and of faults.  *)
(* PointerTraced, ReleasesKept and SuccessIsWitnessed are not inductive:   *)
(* they rest on what the command holding the lock has done so far, which   *)
(* the other conjuncts of IInv record for each place in its code.          *)
(***************************************************************************)
EXTENDS ReleaseUpgrade, TLAPS

\* Places in a command: before the journal, with the journal and the pointer
\* not yet moved, after the move, after the receipt, and closing a journal.
Building == {"build", "manifest", "select", "built", "attempt", "journal"}
Swapping == {"previous", "current"}
Written  == {"outcome", "end", "failed_outcome", "failed_end"}
Moved    == {"staged", "restart", "activated", "verify", "checked", "verdict",
             "receipt", "failed"} \cup Written
Closing  == {"close_receipt", "close_outcome", "close_journal"}

\* The pointer only moves under a journal, and a build starts without one.
JournalFits ==
    /\ cmd.pc \in Swapping \cup Moved \cup Closing => journal # NoJournal
    /\ cmd.pc \in Building => journal = NoJournal

\* The release the command is about is installed before it is pointed at.
TargetFits ==
    /\ cmd.pc \in {"build", "manifest", "select"} => cmd.to \in Releases
    /\ cmd.pc \in {"built", "attempt", "journal"} \cup Swapping \cup Moved => Installed(cmd.to)
    /\ cmd.pc \in Moved \cup {"recover"} => cmd.to = current
    /\ cmd.pc \in Closing => journal.to = current /\ (cmd.next # "idle" => cmd.to \in Releases)

\* A receipt about the pointer is written before its journal is cleared.
ReceiptFits ==
    cmd.pc \in Written \cup {"close_outcome", "close_journal"} => latest.to = current

\* The journal an activation may leave behind names only the two pointers.
SwapFits ==
    /\ cmd.pc \in {"attempt", "journal"} \cup Swapping => cmd.from = current
    /\ cmd.kind = "activate" /\ cmd.pc \in Swapping
         => journal = [from |-> cmd.from, to |-> cmd.to]
    /\ cmd.pc = "current" => current \in {None, previous, cmd.to}
    /\ cmd.pc \in {"prune", "failed", "failed_outcome", "failed_end"} => cmd.kind = "activate"
    /\ cmd.kind = "activate" /\ cmd.pc \in Moved \cup {"prune"} /\ journal # NoJournal
         => journal.to = current /\ journal.from \in {None, previous, current}

\* A success was seen; the old runtime is gone before retention runs.
ServingFits ==
    /\ runtime = [release |-> current, phase |-> "healthy"] => witnessed
    /\ cmd.pc \in {"checked", "verdict", "receipt"} /\ cmd.ok => witnessed
    /\ cmd.pc \in {"close_receipt", "recover"} => witnessed
    /\ cmd.kind = "activate" /\ cmd.pc = "receipt" => cmd.ok
    /\ cmd.kind = "activate" /\ (cmd.pc = "verdict" => cmd.ok)
         /\ cmd.pc \in {"checked", "verdict", "receipt", "outcome", "end", "prune"}
         => runtime.release \in {None, current}

IInv == /\ TypeOK /\ JournalFits /\ TargetFits /\ ReceiptFits /\ SwapFits /\ ServingFits
        /\ PointerTraced /\ ReleasesKept

LEMMA InitHolds == Init => IInv
<1> SUFFICES ASSUME Init PROVE IInv
    OBVIOUS
<1>1. TypeOK
    BY ReleaseAssumption DEF Init, TypeOK, Commands, PCs, MaybeRelease, NoJournal, Stopped,
       Idle,
       OpenStatus, ClosedStatus
<1>2. JournalFits /\ TargetFits /\ ReceiptFits /\ SwapFits
    BY DEF Init, JournalFits, TargetFits, ReceiptFits, SwapFits, Building, Swapping, Written,
       Moved, Closing, Idle
<1>3. ServingFits
    BY DEF Init, ServingFits, Idle
<1>4. PointerTraced
    BY DEF Init, PointerTraced
<1>5. ReleasesKept
    BY ReleaseAssumption DEF Init, ReleasesKept, Installed, NoJournal, Stopped
<1> QED
    BY <1>1, <1>2, <1>3, <1>4, <1>5 DEF IInv

\* The commands begin: only `cmd` changes, at an idle moment.
LEMMA CommandKeeps ==
    ASSUME IInv,
           \/ \E r \in Releases : Upgrade(r) \/ Switch(r) \/ Rollback(r)
           \/ ReconcileForward \/ RepairRollback \/ RepairRecover
    PROVE  IInv'
<1>1. /\ cmd.pc = "idle"
      /\ UNCHANGED <<store, ledger, history, runtime, witnessed, faults>>
    BY DEF Upgrade, Switch, Rollback, ReconcileForward, RepairRollback, RepairRecover
<1>2. UNCHANGED <<status, current, previous, journal, transition, stranded, latest, origins,
                  runtime, witnessed, faults>>
    BY <1>1 DEF store, ledger, history
<1>3. \/ \E r \in Releases : cmd' = [Idle EXCEPT !.pc = "check", !.to = r]
      \/ /\ journal = NoJournal
         /\ \E r \in Releases, pc \in {"build", "select"} : cmd' = [Idle EXCEPT !.pc = pc, !.to = r]
      \/ /\ journal # NoJournal /\ journal.to = current /\ Serving(current)
         /\ \/ cmd' = [Idle EXCEPT !.pc = "close_receipt"]
            \/ \E r \in Releases, pc \in {"build", "select"} :
                  cmd' = [[Idle EXCEPT !.pc = pc, !.to = r]
                            EXCEPT !.pc = "close_receipt", !.next = pc]
      \/ Serving(current) /\ cmd' = [Idle EXCEPT !.pc = "recover", !.to = current]
  <2>1. ASSUME NEW r \in Releases, Upgrade(r) \/ Switch(r) \/ Rollback(r)
        PROVE  <1>3!1 \/ <1>3!2 \/ <1>3!3
      BY <2>1 DEF Upgrade, Switch, Rollback, Guarded, Converged, Idle
  <2>2. CASE ReconcileForward
      BY <2>2 DEF ReconcileForward, Converged
  <2>3. CASE RepairRollback
      BY <2>3 DEF RepairRollback, Installed, IInv, TypeOK, MaybeRelease
  <2>4. CASE RepairRecover
      BY <2>4 DEF RepairRecover
  <2> QED
      BY <2>1, <2>2, <2>3, <2>4
<1>4. TypeOK'
  <2>1. current \in MaybeRelease /\ Releases \subseteq MaybeRelease
      BY DEF IInv, TypeOK, MaybeRelease
  <2>2. cmd' \in Commands
      BY <1>3, <2>1 DEF Commands, PCs, Idle, MaybeRelease
  <2> QED
      BY <1>2, <2>2 DEF IInv, TypeOK, Commands
<1>5. JournalFits' /\ TargetFits' /\ ReceiptFits' /\ SwapFits'
    BY <1>2, <1>3 DEF IInv, JournalFits, TargetFits, ReceiptFits, SwapFits, Building, Swapping,
       Written, Moved, Closing, Idle
<1>6. ServingFits'
  <2>1. /\ cmd'.pc \in {"check", "build", "select", "close_receipt", "recover"}
        /\ cmd'.pc \in {"close_receipt", "recover"} => Serving(current)
      BY <1>3 DEF Idle
  <2>2. Serving(current) => witnessed
      BY DEF IInv, ServingFits, Serving
  <2> QED
      BY <1>2, <2>1, <2>2 DEF ServingFits, Serving
<1>7. PointerTraced' /\ ReleasesKept'
    BY <1>2 DEF IInv, PointerTraced, ReleasesKept, Installed
<1> QED
    BY <1>4, <1>5, <1>6, <1>7 DEF IInv

\* Steps that only decide what to do next.
LEMMA ChoiceKeeps ==
    ASSUME IInv,
           AlreadyInstalled \/ Select \/ Activate \/ Check \/ RecordAttempt \/ Refused \/ CloseRefused
    PROVE  IInv'
<1> USE DEF Building, Swapping, Written, Moved, Closing
<1>1. CASE AlreadyInstalled
  <2> USE <1>1 DEF AlreadyInstalled, Goto, Done, store, ledger, history
  <2>1. TypeOK'
    <3>1. cmd' \in Commands
        BY DEF IInv, TypeOK, Commands, PCs, MaybeRelease, Idle
    <3> QED
        BY <3>1, ReleaseAssumption DEF IInv, TypeOK, Commands, MaybeRelease, JournalFits,
           TargetFits, OpenStatus, ClosedStatus
  <2>2. JournalFits' /\ TargetFits'
      BY DEF IInv, TypeOK, Commands, JournalFits, TargetFits, Idle, Installed, SwapFits,
         ReleasesKept
  <2>3. ReceiptFits' /\ SwapFits'
      BY DEF IInv, TypeOK, Commands, JournalFits, TargetFits, ReceiptFits, SwapFits, Idle
  <2>4. ServingFits'
      BY DEF IInv, TypeOK, Commands, TargetFits, ServingFits, Serving, Idle, SwapFits
  <2>5. PointerTraced' /\ ReleasesKept'
      BY DEF IInv, TypeOK, Commands, JournalFits, TargetFits, ReceiptFits, SwapFits,
         PointerTraced, ReleasesKept, Installed, NoJournal
  <2> QED
      BY <2>1, <2>2, <2>3, <2>4, <2>5 DEF IInv
<1>2. CASE Select
  <2> USE <1>2 DEF Select, Goto, Done, store, ledger, history
  <2>1. TypeOK'
    <3>1. cmd' \in Commands
        BY DEF IInv, TypeOK, Commands, PCs, MaybeRelease, Idle
    <3> QED
        BY <3>1, ReleaseAssumption DEF IInv, TypeOK, Commands, MaybeRelease, JournalFits,
           TargetFits, OpenStatus, ClosedStatus
  <2>2. JournalFits' /\ TargetFits'
      BY DEF IInv, TypeOK, Commands, JournalFits, TargetFits, Idle, Installed, SwapFits,
         ReleasesKept
  <2>3. ReceiptFits' /\ SwapFits'
      BY DEF IInv, TypeOK, Commands, JournalFits, TargetFits, ReceiptFits, SwapFits, Idle
  <2>4. ServingFits'
      BY DEF IInv, TypeOK, Commands, TargetFits, ServingFits, Serving, Idle, SwapFits
  <2>5. PointerTraced' /\ ReleasesKept'
      BY DEF IInv, TypeOK, Commands, JournalFits, TargetFits, ReceiptFits, SwapFits,
         PointerTraced, ReleasesKept, Installed, NoJournal
  <2> QED
      BY <2>1, <2>2, <2>3, <2>4, <2>5 DEF IInv
<1>3. CASE Activate
  <2> USE <1>3 DEF Activate, Goto, Done, store, ledger, history
  <2>1. TypeOK'
    <3>1. cmd' \in Commands
        BY DEF IInv, TypeOK, Commands, PCs, MaybeRelease, Idle
    <3> QED
        BY <3>1, ReleaseAssumption DEF IInv, TypeOK, Commands, MaybeRelease, JournalFits,
           TargetFits, OpenStatus, ClosedStatus
  <2>2. JournalFits' /\ TargetFits'
      BY DEF IInv, TypeOK, Commands, JournalFits, TargetFits, Idle, Installed, SwapFits,
         ReleasesKept
  <2>3. ReceiptFits' /\ SwapFits'
      BY DEF IInv, TypeOK, Commands, JournalFits, TargetFits, ReceiptFits, SwapFits, Idle
  <2>4. ServingFits'
      BY DEF IInv, TypeOK, Commands, TargetFits, ServingFits, Serving, Idle, SwapFits
  <2>5. PointerTraced' /\ ReleasesKept'
      BY DEF IInv, TypeOK, Commands, JournalFits, TargetFits, ReceiptFits, SwapFits,
         PointerTraced, ReleasesKept, Installed, NoJournal
  <2> QED
      BY <2>1, <2>2, <2>3, <2>4, <2>5 DEF IInv
<1>4. CASE Check
  <2> USE <1>4 DEF Check, Goto, Done, store, ledger, history
  <2>1. TypeOK'
    <3>1. cmd' \in Commands
        BY DEF IInv, TypeOK, Commands, PCs, MaybeRelease, Idle
    <3> QED
        BY <3>1, ReleaseAssumption DEF IInv, TypeOK, Commands, MaybeRelease, JournalFits,
           TargetFits, OpenStatus, ClosedStatus
  <2>2. JournalFits' /\ TargetFits'
      BY DEF IInv, TypeOK, Commands, JournalFits, TargetFits, Idle, Installed, SwapFits,
         ReleasesKept
  <2>3. ReceiptFits' /\ SwapFits'
      BY DEF IInv, TypeOK, Commands, JournalFits, TargetFits, ReceiptFits, SwapFits, Idle
  <2>4. ServingFits'
      BY DEF IInv, TypeOK, Commands, TargetFits, ServingFits, Serving, Idle, SwapFits
  <2>5. PointerTraced' /\ ReleasesKept'
      BY DEF IInv, TypeOK, Commands, JournalFits, TargetFits, ReceiptFits, SwapFits,
         PointerTraced, ReleasesKept, Installed, NoJournal
  <2> QED
      BY <2>1, <2>2, <2>3, <2>4, <2>5 DEF IInv
<1>5. CASE RecordAttempt
  <2> USE <1>5 DEF RecordAttempt, Goto, Done, store, ledger, history
  <2>1. TypeOK'
    <3>1. cmd' \in Commands
        BY DEF IInv, TypeOK, Commands, PCs, MaybeRelease, Idle
    <3> QED
        BY <3>1, ReleaseAssumption DEF IInv, TypeOK, Commands, MaybeRelease, JournalFits,
           TargetFits, OpenStatus, ClosedStatus
  <2>2. JournalFits' /\ TargetFits'
      BY DEF IInv, TypeOK, Commands, JournalFits, TargetFits, Idle, Installed, SwapFits,
         ReleasesKept
  <2>3. ReceiptFits' /\ SwapFits'
      BY DEF IInv, TypeOK, Commands, JournalFits, TargetFits, ReceiptFits, SwapFits, Idle
  <2>4. ServingFits'
      BY DEF IInv, TypeOK, Commands, TargetFits, ServingFits, Serving, Idle, SwapFits
  <2>5. PointerTraced' /\ ReleasesKept'
      BY DEF IInv, TypeOK, Commands, JournalFits, TargetFits, ReceiptFits, SwapFits,
         PointerTraced, ReleasesKept, Installed, NoJournal
  <2> QED
      BY <2>1, <2>2, <2>3, <2>4, <2>5 DEF IInv
<1>6. CASE Refused
  <2> USE <1>6 DEF Refused, Goto, Done, store, ledger, history
  <2>1. TypeOK'
    <3>1. cmd' \in Commands
        BY DEF IInv, TypeOK, Commands, PCs, MaybeRelease, Idle
    <3> QED
        BY <3>1, ReleaseAssumption DEF IInv, TypeOK, Commands, MaybeRelease, JournalFits,
           TargetFits, OpenStatus, ClosedStatus
  <2>2. JournalFits' /\ TargetFits'
      BY DEF IInv, TypeOK, Commands, JournalFits, TargetFits, Idle, Installed, SwapFits,
         ReleasesKept
  <2>3. ReceiptFits' /\ SwapFits'
      BY DEF IInv, TypeOK, Commands, JournalFits, TargetFits, ReceiptFits, SwapFits, Idle
  <2>4. ServingFits'
      BY DEF IInv, TypeOK, Commands, TargetFits, ServingFits, Serving, Idle, SwapFits
  <2>5. PointerTraced' /\ ReleasesKept'
      BY DEF IInv, TypeOK, Commands, JournalFits, TargetFits, ReceiptFits, SwapFits,
         PointerTraced, ReleasesKept, Installed, NoJournal
  <2> QED
      BY <2>1, <2>2, <2>3, <2>4, <2>5 DEF IInv
<1>7. CASE CloseRefused
  <2> USE <1>7 DEF CloseRefused, Goto, Done, store, ledger, history
  <2>1. TypeOK'
    <3>1. cmd' \in Commands
        BY DEF IInv, TypeOK, Commands, PCs, MaybeRelease, Idle
    <3> QED
        BY <3>1, ReleaseAssumption DEF IInv, TypeOK, Commands, MaybeRelease, JournalFits,
           TargetFits, OpenStatus, ClosedStatus
  <2>2. JournalFits' /\ TargetFits'
      BY DEF IInv, TypeOK, Commands, JournalFits, TargetFits, Idle, Installed, SwapFits,
         ReleasesKept
  <2>3. ReceiptFits' /\ SwapFits'
      BY DEF IInv, TypeOK, Commands, JournalFits, TargetFits, ReceiptFits, SwapFits, Idle
  <2>4. ServingFits'
      BY DEF IInv, TypeOK, Commands, TargetFits, ServingFits, Serving, Idle, SwapFits
  <2>5. PointerTraced' /\ ReleasesKept'
      BY DEF IInv, TypeOK, Commands, JournalFits, TargetFits, ReceiptFits, SwapFits,
         PointerTraced, ReleasesKept, Installed, NoJournal
  <2> QED
      BY <2>1, <2>2, <2>3, <2>4, <2>5 DEF IInv
<1> QED
    BY <1>1, <1>2, <1>3, <1>4, <1>5, <1>6, <1>7

\* The health window after an activation.
LEMMA WatchKeeps ==
    ASSUME IInv, Watch
    PROVE  IInv'
<1> USE DEF Building, Swapping, Written, Moved, Closing
<1>1. UNCHANGED <<status, current, previous, journal, transition, stranded, latest, origins,
                  runtime, witnessed, faults>>
    BY DEF Watch, store, ledger, history
<1>2. \/ cmd' = Idle
      \/ cmd.from \in Releases /\ cmd' = [Idle EXCEPT !.pc = "check", !.to = cmd.from]
    BY DEF Watch, Done, IInv, TypeOK, Commands, MaybeRelease
<1>3. cmd' \in Commands /\ cmd'.pc \in {"idle", "check"}
  <2>1. CASE cmd' = Idle
      BY <2>1 DEF Commands, PCs, MaybeRelease, Idle
  <2>2. CASE cmd' # Idle
      BY <1>2, <2>2 DEF Commands, PCs, MaybeRelease, Idle
  <2> QED
      BY <2>1, <2>2
<1>4. TypeOK' /\ JournalFits' /\ TargetFits'
    BY <1>1, <1>3 DEF IInv, TypeOK, JournalFits, TargetFits
<1>5. ReceiptFits' /\ SwapFits'
    BY <1>1, <1>3 DEF IInv, ReceiptFits, SwapFits
<1>6. ServingFits'
    BY <1>1, <1>3 DEF IInv, ServingFits
<1>7. PointerTraced' /\ ReleasesKept'
    BY <1>1 DEF IInv, PointerTraced, ReleasesKept, Installed
<1> QED
    BY <1>4, <1>5, <1>6, <1>7 DEF IInv

\* Verification and its verdict.
LEMMA VerifyKeeps ==
    ASSUME IInv, Verify \/ Verdict \/ EvidenceFails
    PROVE  IInv'
<1> USE DEF Building, Swapping, Written, Moved, Closing
<1>1. CASE Verify
  <2>1. /\ cmd.pc = "verify"
        /\ UNCHANGED <<status, current, previous, journal, transition, stranded, latest,
                       origins, runtime, witnessed, faults>>
      BY <1>1 DEF Verify, store, ledger, history
  <2>2. PICK seen \in BOOLEAN :
          /\ seen <=> Serving(cmd.to)
          /\ cmd' = [cmd EXCEPT !.ok = cmd.ok /\ seen,
                       !.pc = IF cmd.kind = "activate" /\ seen THEN "checked" ELSE "verdict"]
    <3>1. CASE Serving(cmd.to)
        BY <1>1, <3>1 DEF Verify
    <3>2. CASE ~Serving(cmd.to)
        BY <1>1, <3>2 DEF Verify
    <3> QED
        BY <3>1, <3>2
  <2>3. cmd' \in Commands
      BY <2>2 DEF IInv, TypeOK, Commands, PCs
  <2>4. /\ UNCHANGED <<cmd.kind, cmd.from, cmd.to, cmd.next>>
        /\ cmd'.pc \in {"checked", "verdict"}
        /\ cmd'.ok => cmd.ok /\ seen
        /\ cmd'.pc = "checked" => seen
      BY <2>2 DEF IInv, TypeOK, Commands
  <2>5. cmd.to = current /\ (seen => witnessed /\ runtime.release = current)
    <3>1. cmd.to = current
        BY <2>1 DEF IInv, TargetFits
    <3> QED
        BY <2>2, <3>1 DEF IInv, ServingFits, Serving
  <2>6. TypeOK' /\ JournalFits' /\ TargetFits'
      BY <2>1, <2>3, <2>4 DEF IInv, TypeOK, JournalFits, TargetFits, Installed
  <2>7. ReceiptFits' /\ SwapFits'
      BY <2>1, <2>4 DEF IInv, ReceiptFits, SwapFits
  <2>8. ServingFits'
      BY <2>1, <2>4, <2>5 DEF IInv, ServingFits
  <2>9. PointerTraced' /\ ReleasesKept'
      BY <2>1 DEF IInv, PointerTraced, ReleasesKept, Installed
  <2> QED
      BY <2>6, <2>7, <2>8, <2>9 DEF IInv
<1>2. CASE Verdict
  <2> USE <1>2 DEF Verdict, Goto, Done, store, ledger, history
  <2>1. TypeOK'
    <3>1. cmd' \in Commands
        BY DEF IInv, TypeOK, Commands, PCs, MaybeRelease, Idle
    <3> QED
        BY <3>1, ReleaseAssumption DEF IInv, TypeOK, Commands, MaybeRelease, JournalFits,
           TargetFits, OpenStatus, ClosedStatus
  <2>2. JournalFits' /\ TargetFits'
      BY DEF IInv, TypeOK, Commands, JournalFits, TargetFits, Idle, Installed, SwapFits,
         ReleasesKept
  <2>3. ReceiptFits' /\ SwapFits'
      BY DEF IInv, TypeOK, Commands, JournalFits, TargetFits, ReceiptFits, SwapFits, Idle
  <2>4. ServingFits'
      BY DEF IInv, TypeOK, Commands, TargetFits, ServingFits, Serving, Idle, SwapFits
  <2>5. PointerTraced' /\ ReleasesKept'
      BY DEF IInv, TypeOK, Commands, JournalFits, TargetFits, ReceiptFits, SwapFits,
         PointerTraced, ReleasesKept, Installed, NoJournal
  <2> QED
      BY <2>1, <2>2, <2>3, <2>4, <2>5 DEF IInv
<1>3. CASE EvidenceFails
  <2> USE <1>3 DEF EvidenceFails, Goto, Done, store, ledger, history
  <2>1. TypeOK'
    <3>1. cmd' \in Commands
        BY DEF IInv, TypeOK, Commands, PCs, MaybeRelease, Idle
    <3> QED
        BY <3>1, ReleaseAssumption DEF IInv, TypeOK, Commands, MaybeRelease, JournalFits,
           TargetFits, OpenStatus, ClosedStatus
  <2>2. JournalFits' /\ TargetFits'
      BY DEF IInv, TypeOK, Commands, JournalFits, TargetFits, Idle, Installed, SwapFits,
         ReleasesKept
  <2>3. ReceiptFits' /\ SwapFits'
      BY DEF IInv, TypeOK, Commands, JournalFits, TargetFits, ReceiptFits, SwapFits, Idle
  <2>4. ServingFits'
      BY DEF IInv, TypeOK, Commands, TargetFits, ServingFits, Serving, Idle, SwapFits
  <2>5. PointerTraced' /\ ReleasesKept'
      BY DEF IInv, TypeOK, Commands, JournalFits, TargetFits, ReceiptFits, SwapFits,
         PointerTraced, ReleasesKept, Installed, NoJournal
  <2> QED
      BY <2>1, <2>2, <2>3, <2>4, <2>5 DEF IInv
<1> QED
    BY <1>1, <1>2, <1>3

\* A receipt is written while the journal still names its release.
LEMMA ReceiptKeeps ==
    ASSUME IInv,
           \/ CloseReceipt \/ WriteReceipt \/ FailReceipt \/ Recover
    PROVE  IInv'
<1> USE DEF CloseReceipt, WriteReceipt, FailReceipt, Recover, Receipt, Goto, Done, store,
       ledger, history
<1>1. cmd' \in Commands
  <2>1. CASE CloseReceipt
      BY <2>1 DEF IInv, TypeOK, Commands, PCs, MaybeRelease, Idle
  <2>2. CASE WriteReceipt
      BY <2>2 DEF IInv, TypeOK, Commands, PCs, MaybeRelease, Idle
  <2>3. CASE FailReceipt
      BY <2>3 DEF IInv, TypeOK, Commands, PCs, MaybeRelease, Idle
  <2>4. CASE Recover
      BY <2>4 DEF IInv, TypeOK, Commands, PCs, MaybeRelease, Idle
  <2> QED
      BY <2>1, <2>2, <2>3, <2>4
<1>2. TypeOK'
    BY <1>1, ReleaseAssumption DEF IInv, TypeOK, Commands, MaybeRelease, JournalFits,
       TargetFits, OpenStatus, ClosedStatus, Building, Swapping, Written, Moved, Closing
<1>3. JournalFits' /\ TargetFits'
    BY DEF IInv, TypeOK, Commands, JournalFits, TargetFits, ReleasesKept, Installed, Idle,
       Building, Swapping, Written, Moved, Closing
<1>4. ReceiptFits' /\ SwapFits'
    BY DEF IInv, TypeOK, Commands, JournalFits, TargetFits, ReceiptFits, SwapFits, Idle,
       Building, Swapping, Written, Moved, Closing
<1>5. ServingFits'
    BY DEF IInv, TypeOK, Commands, TargetFits, ServingFits, Serving, SwapFits, Idle,
       Building, Swapping, Written, Moved, Closing
<1>6. PointerTraced' /\ ReleasesKept'
    BY DEF IInv, TypeOK, JournalFits, TargetFits, ReceiptFits, SwapFits, PointerTraced,
       ReleasesKept, Installed, NoJournal, Building, Swapping, Written, Moved, Closing
<1> QED
    BY <1>1, <1>2, <1>3, <1>4, <1>5, <1>6 DEF IInv

\* The ledger follows; the pointers and the receipts stay.
LEMMA LedgerKeeps ==
    ASSUME IInv,
           \/ CloseOutcome \/ MarkOutcome \/ OutcomeLost \/ FailOutcome
           \/ ReconcileStranded \/ MarkEffect("staged", "staged", "restart")
           \/ MarkEffect("activated", "activated", "verify")
           \/ MarkEffect("checked", "health_checked", "verdict")
    PROVE  IInv'
<1> USE DEF CloseOutcome, MarkOutcome, OutcomeLost, FailOutcome, ReconcileStranded,
       MarkEffect, Outcome, After, Goto, Done, store, ledger, history
<1>1. cmd' \in Commands
  <2>1. CASE CloseOutcome
      BY <2>1 DEF IInv, TypeOK, Commands, PCs, MaybeRelease, Idle
  <2>2. CASE MarkOutcome
      BY <2>2 DEF IInv, TypeOK, Commands, PCs, MaybeRelease, Idle
  <2>3. CASE OutcomeLost
      BY <2>3 DEF IInv, TypeOK, Commands, PCs, MaybeRelease, Idle
  <2>4. CASE FailOutcome
      BY <2>4 DEF IInv, TypeOK, Commands, PCs, MaybeRelease, Idle
  <2>5. CASE ReconcileStranded
      BY <2>5 DEF IInv, TypeOK, Commands, PCs, MaybeRelease, Idle
  <2>6. CASE MarkEffect("staged", "staged", "restart")
      BY <2>6 DEF IInv, TypeOK, Commands, PCs, MaybeRelease, Idle
  <2>7. CASE MarkEffect("activated", "activated", "verify")
      BY <2>7 DEF IInv, TypeOK, Commands, PCs, MaybeRelease, Idle
  <2>8. CASE MarkEffect("checked", "health_checked", "verdict")
      BY <2>8 DEF IInv, TypeOK, Commands, PCs, MaybeRelease, Idle
  <2> QED
      BY <2>1, <2>2, <2>3, <2>4, <2>5, <2>6, <2>7, <2>8
<1>2. TypeOK'
    BY <1>1, ReleaseAssumption DEF IInv, TypeOK, Commands, MaybeRelease, JournalFits,
       TargetFits, OpenStatus, ClosedStatus, Building, Swapping, Written, Moved, Closing
<1>3. JournalFits' /\ TargetFits'
    BY DEF IInv, TypeOK, Commands, JournalFits, TargetFits, ReleasesKept, Installed, Idle,
       Building, Swapping, Written, Moved, Closing
<1>4. ReceiptFits' /\ SwapFits'
    BY DEF IInv, TypeOK, Commands, JournalFits, TargetFits, ReceiptFits, SwapFits, Idle,
       Building, Swapping, Written, Moved, Closing
<1>5. ServingFits'
    BY DEF IInv, TypeOK, Commands, TargetFits, ServingFits, Serving, SwapFits, Idle,
       Building, Swapping, Written, Moved, Closing
<1>6. PointerTraced' /\ ReleasesKept'
    BY DEF IInv, TypeOK, JournalFits, TargetFits, ReceiptFits, SwapFits, PointerTraced,
       ReleasesKept, Installed, NoJournal, Building, Swapping, Written, Moved, Closing
<1> QED
    BY <1>1, <1>2, <1>3, <1>4, <1>5, <1>6 DEF IInv

\* The journal is cleared once the newest receipt names `current`.
LEMMA EndKeeps ==
    ASSUME IInv, CloseJournal \/ End \/ FailEnd
    PROVE  IInv'
<1> USE DEF Building, Swapping, Written, Moved, Closing
<1>1. CASE CloseJournal
  <2> USE <1>1 DEF CloseJournal, EndActivation, Leftover, Goto, Done, store, ledger, history
  <2>1. TypeOK'
    <3>1. cmd' \in Commands
        BY DEF IInv, TypeOK, Commands, PCs, MaybeRelease, Idle
    <3> QED
        BY <3>1, ReleaseAssumption DEF IInv, TypeOK, Commands, MaybeRelease, JournalFits,
           TargetFits, OpenStatus, ClosedStatus
  <2>2. JournalFits' /\ TargetFits'
      BY DEF IInv, TypeOK, Commands, JournalFits, TargetFits, Idle, Installed, SwapFits,
         ReleasesKept
  <2>3. ReceiptFits' /\ SwapFits'
      BY DEF IInv, TypeOK, Commands, JournalFits, TargetFits, ReceiptFits, SwapFits, Idle
  <2>4. ServingFits'
      BY DEF IInv, TypeOK, Commands, TargetFits, ServingFits, Serving, Idle, SwapFits
  <2>5. PointerTraced' /\ ReleasesKept'
      BY DEF IInv, TypeOK, Commands, JournalFits, TargetFits, ReceiptFits, SwapFits,
         PointerTraced, ReleasesKept, Installed, NoJournal
  <2> QED
      BY <2>1, <2>2, <2>3, <2>4, <2>5 DEF IInv
<1>2. CASE End
  <2> USE <1>2 DEF End, EndActivation, Leftover, After, Goto, Done, store, ledger, history
  <2>1. TypeOK'
    <3>1. cmd' \in Commands
        BY DEF IInv, TypeOK, Commands, PCs, MaybeRelease, Idle
    <3> QED
        BY <3>1, ReleaseAssumption DEF IInv, TypeOK, Commands, MaybeRelease, JournalFits,
           TargetFits, OpenStatus, ClosedStatus
  <2>2. JournalFits' /\ TargetFits'
      BY DEF IInv, TypeOK, Commands, JournalFits, TargetFits, Idle, Installed, SwapFits,
         ReleasesKept
  <2>3. ReceiptFits' /\ SwapFits'
      BY DEF IInv, TypeOK, Commands, JournalFits, TargetFits, ReceiptFits, SwapFits, Idle
  <2>4. ServingFits'
      BY DEF IInv, TypeOK, Commands, TargetFits, ServingFits, Serving, Idle, SwapFits
  <2>5. PointerTraced' /\ ReleasesKept'
      BY DEF IInv, TypeOK, Commands, JournalFits, TargetFits, ReceiptFits, SwapFits,
         PointerTraced, ReleasesKept, Installed, NoJournal
  <2> QED
      BY <2>1, <2>2, <2>3, <2>4, <2>5 DEF IInv
<1>3. CASE FailEnd
  <2> USE <1>3 DEF FailEnd, EndActivation, Leftover, Goto, Done, store, ledger, history
  <2>1. TypeOK'
    <3>1. cmd' \in Commands
        BY DEF IInv, TypeOK, Commands, PCs, MaybeRelease, Idle
    <3> QED
        BY <3>1, ReleaseAssumption DEF IInv, TypeOK, Commands, MaybeRelease, JournalFits,
           TargetFits, OpenStatus, ClosedStatus
  <2>2. JournalFits' /\ TargetFits'
      BY DEF IInv, TypeOK, Commands, JournalFits, TargetFits, Idle, Installed, SwapFits,
         ReleasesKept
  <2>3. ReceiptFits' /\ SwapFits'
      BY DEF IInv, TypeOK, Commands, JournalFits, TargetFits, ReceiptFits, SwapFits, Idle
  <2>4. ServingFits'
      BY DEF IInv, TypeOK, Commands, TargetFits, ServingFits, Serving, Idle, SwapFits
  <2>5. PointerTraced' /\ ReleasesKept'
      BY DEF IInv, TypeOK, Commands, JournalFits, TargetFits, ReceiptFits, SwapFits,
         PointerTraced, ReleasesKept, Installed, NoJournal
  <2> QED
      BY <2>1, <2>2, <2>3, <2>4, <2>5 DEF IInv
<1> QED
    BY <1>1, <1>2, <1>3

\* Releases appear on disk before they are pointed at, and are removed only
\* when neither a pointer nor the journal names them.
LEMMA StoreKeeps ==
    ASSUME IInv, Install \/ WriteManifest \/ Prune \/ Crash
    PROVE  IInv'
<1> USE DEF Building, Swapping, Written, Moved, Closing
<1>1. CASE Install
  <2> USE <1>1 DEF Install, Goto, Done, store, ledger, history
  <2>1. TypeOK'
    <3>1. cmd' \in Commands
        BY DEF IInv, TypeOK, Commands, PCs, MaybeRelease, Idle
    <3> QED
        BY <3>1, ReleaseAssumption DEF IInv, TypeOK, Commands, MaybeRelease, JournalFits,
           TargetFits, OpenStatus, ClosedStatus
  <2>2. JournalFits' /\ TargetFits'
      BY DEF IInv, TypeOK, Commands, JournalFits, TargetFits, Idle, Installed, SwapFits,
         ReleasesKept
  <2>3. ReceiptFits' /\ SwapFits'
      BY DEF IInv, TypeOK, Commands, JournalFits, TargetFits, ReceiptFits, SwapFits, Idle
  <2>4. ServingFits'
      BY DEF IInv, TypeOK, Commands, TargetFits, ServingFits, Serving, Idle, SwapFits
  <2>5. PointerTraced' /\ ReleasesKept'
      BY DEF IInv, TypeOK, Commands, JournalFits, TargetFits, ReceiptFits, SwapFits,
         PointerTraced, ReleasesKept, Installed, NoJournal
  <2> QED
      BY <2>1, <2>2, <2>3, <2>4, <2>5 DEF IInv
<1>2. CASE WriteManifest
  <2> USE <1>2 DEF WriteManifest, Goto, Done, store, ledger, history
  <2>1. TypeOK'
    <3>1. cmd' \in Commands
        BY DEF IInv, TypeOK, Commands, PCs, MaybeRelease, Idle
    <3> QED
        BY <3>1, ReleaseAssumption DEF IInv, TypeOK, Commands, MaybeRelease, JournalFits,
           TargetFits, OpenStatus, ClosedStatus
  <2>2. JournalFits' /\ TargetFits'
      BY ReleaseAssumption DEF IInv, TypeOK, Commands, JournalFits, TargetFits, Idle, Installed
  <2>3. ReceiptFits' /\ SwapFits'
      BY DEF IInv, TypeOK, Commands, JournalFits, TargetFits, ReceiptFits, SwapFits, Idle
  <2>4. ServingFits'
      BY DEF IInv, TypeOK, Commands, TargetFits, ServingFits, Serving, Idle, SwapFits
  <2>5. PointerTraced' /\ ReleasesKept'
      BY DEF IInv, TypeOK, Commands, JournalFits, TargetFits, ReceiptFits, SwapFits,
         PointerTraced, ReleasesKept, Installed, NoJournal
  <2> QED
      BY <2>1, <2>2, <2>3, <2>4, <2>5 DEF IInv
<1>3. CASE Prune
  <2> USE <1>3 DEF Prune, Goto, Done, store, ledger, history
  <2>1. TypeOK'
    <3>1. cmd' \in Commands
      <4>1. CASE Done
          BY <4>1 DEF Commands, PCs, MaybeRelease, Idle
      <4>2. CASE Goto("watch")
          BY <4>2 DEF IInv, TypeOK, Commands, PCs
      <4> QED
          BY <4>1, <4>2
    <3>2. status' \in [Releases -> {"absent", "dir", "installed"}]
        BY DEF IInv, TypeOK
    <3> QED
        BY <3>1, <3>2 DEF IInv, TypeOK
  <2>2. JournalFits' /\ TargetFits'
      BY DEF IInv, TypeOK, Commands, JournalFits, TargetFits, Idle, Installed, SwapFits,
         ReleasesKept
  <2>3. ReceiptFits' /\ SwapFits'
      BY DEF IInv, TypeOK, Commands, JournalFits, TargetFits, ReceiptFits, SwapFits, Idle
  <2>4. ServingFits'
      BY DEF IInv, TypeOK, Commands, TargetFits, ServingFits, Serving, Idle, SwapFits
  <2>5. PointerTraced' /\ ReleasesKept'
    <3>1. \A r \in {current, previous} \ {None} : Installed(r) => Installed(r)'
        BY DEF Installed, IInv, TypeOK, MaybeRelease
    <3>2. \A r \in {journal.from, journal.to} : r \in {None, current, previous}
        BY DEF IInv, SwapFits, NoJournal
    <3>3. runtime.release \in {None, current}
        BY DEF IInv, SwapFits, ServingFits
    <3> QED
        BY <3>1, <3>2, <3>3 DEF IInv, PointerTraced, ReleasesKept, Installed
  <2> QED
      BY <2>1, <2>2, <2>3, <2>4, <2>5 DEF IInv
<1>4. CASE Crash
  <2> USE <1>4 DEF Crash, Goto, Done, store, ledger, history
  <2>1. TypeOK'
    <3>1. cmd' \in Commands
        BY DEF IInv, TypeOK, Commands, PCs, MaybeRelease, Idle
    <3> QED
        BY <3>1, ReleaseAssumption DEF IInv, TypeOK, Commands, MaybeRelease, JournalFits,
           TargetFits, OpenStatus, ClosedStatus
  <2>2. JournalFits' /\ TargetFits'
      BY DEF IInv, TypeOK, Commands, JournalFits, TargetFits, Idle, Installed, SwapFits,
         ReleasesKept
  <2>3. ReceiptFits' /\ SwapFits'
      BY DEF IInv, TypeOK, Commands, JournalFits, TargetFits, ReceiptFits, SwapFits, Idle
  <2>4. ServingFits'
      BY DEF IInv, TypeOK, Commands, TargetFits, ServingFits, Serving, Idle, SwapFits
  <2>5. PointerTraced' /\ ReleasesKept'
    <3>1. CASE UNCHANGED status
        BY <3>1 DEF IInv, PointerTraced, ReleasesKept, Installed
    <3>2. CASE cmd.pc = "prune" /\ ~UNCHANGED status
      <4>1. PICK r \in Releases \ {current, previous} : status' = [status EXCEPT ![r] = "dir"]
          BY <3>2
      <4>2. \A s \in {journal.from, journal.to} : s \in {None, current, previous}
          BY <3>2 DEF IInv, SwapFits, NoJournal
      <4>3. \A s \in {current, previous} \ {None} : Installed(s) => Installed(s)'
          BY <4>1 DEF Installed, IInv, TypeOK, MaybeRelease
      <4>4. runtime.release # None => runtime.release \in Releases
          BY DEF IInv, TypeOK, Stopped
      <4> QED
          BY <4>1, <4>2, <4>3, <4>4 DEF IInv, TypeOK, PointerTraced, ReleasesKept, Installed
    <3> QED
        BY <3>1, <3>2
  <2> QED
      BY <2>1, <2>2, <2>3, <2>4, <2>5 DEF IInv
<1> QED
    BY <1>1, <1>2, <1>3, <1>4

\* The journal, then `previous`, then `current`.
LEMMA SwapKeeps ==
    ASSUME IInv, BeginActivation \/ SwapPrevious \/ SwapCurrent
    PROVE  IInv'
<1> USE DEF Building, Swapping, Written, Moved, Closing
<1>1. CASE BeginActivation
  <2> USE <1>1 DEF BeginActivation, Goto, Done, store, ledger, history
  <2>1. TypeOK'
    <3>1. cmd' \in Commands
        BY DEF IInv, TypeOK, Commands, PCs
    <3>2. journal' \in [from : MaybeRelease, to : Releases] /\ journal' # NoJournal
        BY ReleaseAssumption DEF IInv, TypeOK, Commands, MaybeRelease, TargetFits, Installed,
           NoJournal
    <3> QED
        BY <3>1, <3>2 DEF IInv, TypeOK, OpenStatus, ClosedStatus
  <2>2. JournalFits' /\ TargetFits'
    <3>1. journal' # NoJournal
        BY DEF IInv, TargetFits, Installed, NoJournal
    <3> QED
        BY <3>1 DEF IInv, TypeOK, Commands, JournalFits, TargetFits, Installed
  <2>3. ReceiptFits' /\ SwapFits'
      BY DEF IInv, TypeOK, Commands, JournalFits, TargetFits, ReceiptFits, SwapFits, Idle
  <2>4. ServingFits'
      BY DEF IInv, TypeOK, Commands, TargetFits, ServingFits, Serving, Idle, SwapFits
  <2>5. PointerTraced' /\ ReleasesKept'
      BY DEF IInv, TypeOK, Commands, JournalFits, TargetFits, ReceiptFits, SwapFits,
         PointerTraced, ReleasesKept, Installed, NoJournal
  <2> QED
      BY <2>1, <2>2, <2>3, <2>4, <2>5 DEF IInv
<1>2. CASE SwapPrevious
  <2> USE <1>2 DEF SwapPrevious, Goto, Done, store, ledger, history
  <2>1. TypeOK'
    <3>1. cmd' \in Commands
        BY DEF IInv, TypeOK, Commands, PCs, MaybeRelease, Idle
    <3> QED
        BY <3>1, ReleaseAssumption DEF IInv, TypeOK, Commands, MaybeRelease, JournalFits,
           TargetFits, OpenStatus, ClosedStatus
  <2>2. JournalFits' /\ TargetFits'
      BY DEF IInv, TypeOK, Commands, JournalFits, TargetFits, Idle, Installed, SwapFits,
         ReleasesKept
  <2>3. ReceiptFits' /\ SwapFits'
      BY DEF IInv, TypeOK, Commands, JournalFits, TargetFits, ReceiptFits, SwapFits, Idle
  <2>4. ServingFits'
      BY DEF IInv, TypeOK, Commands, TargetFits, ServingFits, Serving, Idle, SwapFits
  <2>5. PointerTraced' /\ ReleasesKept'
      BY DEF IInv, TypeOK, Commands, JournalFits, TargetFits, ReceiptFits, SwapFits,
         PointerTraced, ReleasesKept, Installed, NoJournal
  <2> QED
      BY <2>1, <2>2, <2>3, <2>4, <2>5 DEF IInv
<1>3. CASE SwapCurrent
  <2> USE <1>3 DEF SwapCurrent, Goto, Done, store, ledger, history
  <2>1. TypeOK'
    <3>1. cmd' \in Commands
        BY DEF IInv, TypeOK, Commands, PCs
    <3>2. witnessed' \in BOOLEAN
        BY DEF Serving
    <3> QED
        BY <3>1, <3>2 DEF IInv, TypeOK, Commands
  <2>2. JournalFits' /\ TargetFits'
      BY DEF IInv, TypeOK, Commands, JournalFits, TargetFits, Idle, Installed, SwapFits,
         ReleasesKept
  <2>3. ReceiptFits' /\ SwapFits'
      BY DEF IInv, TypeOK, Commands, JournalFits, TargetFits, ReceiptFits, SwapFits, Idle
  <2>4. ServingFits'
      BY DEF IInv, TypeOK, Commands, TargetFits, ServingFits, Serving, Idle, SwapFits
  <2>5. PointerTraced' /\ ReleasesKept'
      BY DEF IInv, TypeOK, Commands, JournalFits, TargetFits, ReceiptFits, SwapFits,
         PointerTraced, ReleasesKept, Installed, NoJournal
  <2> QED
      BY <2>1, <2>2, <2>3, <2>4, <2>5 DEF IInv
<1> QED
    BY <1>1, <1>2, <1>3

\* The runtime is replaced, or moves by itself.
LEMMA RuntimeKeeps ==
    ASSUME IInv, Restart \/ RuntimeMoves
    PROVE  IInv'
<1> USE DEF Building, Swapping, Written, Moved, Closing
<1>1. CASE Restart
  <2>1. /\ cmd.pc = "restart"
        /\ UNCHANGED <<status, current, previous, journal, transition, stranded, latest,
                       origins, faults>>
      BY <1>1 DEF Restart, store, ledger, history
  <2>2. PICK ok \in BOOLEAN :
          cmd' = [cmd EXCEPT !.ok = ok,
                    !.pc = IF ok /\ cmd.kind = "activate" THEN "activated" ELSE "verify"]
      BY <1>1 DEF Restart
  <2>3. \/ runtime' \in {runtime, Stopped}
        \/ runtime' \in [release : {current}, phase : {"healthy", "fail_closed"}]
      BY <1>1 DEF Restart
  <2>4. cmd' \in Commands
      BY <2>2 DEF IInv, TypeOK, Commands, PCs
  <2>5. /\ UNCHANGED <<cmd.kind, cmd.from, cmd.to, cmd.next>>
        /\ cmd'.pc \in {"activated", "verify"}
      BY <2>2 DEF IInv, TypeOK, Commands
  <2>6. current \in Releases /\ Installed(current)
      BY <2>1 DEF IInv, TargetFits, Installed, TypeOK, MaybeRelease
  <2>7. TypeOK'
    <3>1. \/ runtime' = Stopped
          \/ runtime' \in [release : Releases, phase : {"healthy", "fail_closed"}]
        BY <2>3, <2>6 DEF IInv, TypeOK
    <3>2. witnessed' \in BOOLEAN
        BY <1>1 DEF Restart
    <3> QED
        BY <2>1, <2>4, <3>1, <3>2 DEF IInv, TypeOK
  <2>8. JournalFits' /\ TargetFits'
      BY <2>1, <2>5 DEF IInv, JournalFits, TargetFits, Installed
  <2>9. ReceiptFits' /\ SwapFits'
      BY <2>1, <2>5 DEF IInv, ReceiptFits, SwapFits
  <2>10. ServingFits'
    <3>1. runtime' = [release |-> current, phase |-> "healthy"] => witnessed'
        BY <1>1 DEF Restart
    <3> QED
        BY <2>1, <2>5, <3>1 DEF ServingFits
  <2>11. PointerTraced' /\ ReleasesKept'
    <3>1. runtime'.release # None => status[runtime'.release] # "absent"
        BY <2>3, <2>6 DEF IInv, ReleasesKept, Installed, Stopped
    <3> QED
        BY <2>1, <3>1 DEF IInv, PointerTraced, ReleasesKept, Installed
  <2> QED
      BY <2>7, <2>8, <2>9, <2>10, <2>11 DEF IInv
<1>2. CASE RuntimeMoves
  <2>1. UNCHANGED <<status, current, previous, journal, transition, stranded, latest, origins,
                    cmd, faults>>
      BY <1>2 DEF RuntimeMoves, store, ledger, history
  <2>2. /\ witnessed' \in BOOLEAN
        /\ witnessed => witnessed'
        /\ runtime' = [release |-> current, phase |-> "healthy"] => witnessed'
      BY <1>2 DEF RuntimeMoves
  <2>3. \/ runtime' = Stopped
        \/ /\ runtime' \in [release : Releases, phase : {"healthy", "fail_closed"}]
           /\ runtime'.release \in {runtime.release, current}
    <3>1. runtime.release \in MaybeRelease
        BY DEF IInv, TypeOK, MaybeRelease, Stopped
    <3> QED
        BY <1>2, <3>1 DEF RuntimeMoves, IInv, TypeOK, MaybeRelease
  <2>4. TypeOK'
      BY <2>1, <2>2, <2>3 DEF IInv, TypeOK
  <2>5. JournalFits' /\ TargetFits' /\ ReceiptFits' /\ SwapFits'
      BY <2>1 DEF IInv, JournalFits, TargetFits, ReceiptFits, SwapFits, Installed
  <2>6. ServingFits'
    <3>1. runtime.release \in {None, current} => runtime'.release \in {None, current}
        BY <2>3 DEF Stopped
    <3> QED
        BY <2>1, <2>2, <3>1 DEF IInv, ServingFits
  <2>7. PointerTraced' /\ ReleasesKept'
    <3>1. current \in Releases => status[current] # "absent"
        BY ReleaseAssumption DEF IInv, ReleasesKept, Installed
    <3>2. runtime'.release # None => status[runtime'.release] # "absent"
        BY <2>3, <3>1 DEF IInv, ReleasesKept, Stopped
    <3> QED
        BY <2>1, <3>2 DEF IInv, PointerTraced, ReleasesKept, Installed
  <2> QED
      BY <2>4, <2>5, <2>6, <2>7 DEF IInv
<1> QED
    BY <1>1, <1>2

LEMMA StepKeeps == IInv /\ [Next]_vars => IInv'
<1> SUFFICES ASSUME IInv, [Next]_vars PROVE IInv'
    OBVIOUS
<1>1. CASE \/ \E r \in Releases : Upgrade(r) \/ Switch(r) \/ Rollback(r)
           \/ ReconcileForward \/ RepairRollback \/ RepairRecover
    BY <1>1, CommandKeeps
<1>2. CASE \/ AlreadyInstalled \/ Select \/ Activate \/ Check \/ RecordAttempt \/ Refused
           \/ CloseRefused \/ Watch
    BY <1>2, ChoiceKeeps, WatchKeeps
<1>3. CASE Verify \/ Verdict \/ EvidenceFails
    BY <1>3, VerifyKeeps
<1>4. CASE CloseReceipt \/ WriteReceipt \/ FailReceipt \/ Recover
    BY <1>4, ReceiptKeeps
<1>5. CASE \/ CloseOutcome \/ MarkOutcome \/ OutcomeLost \/ FailOutcome
           \/ MarkEffect("staged", "staged", "restart")
           \/ MarkEffect("activated", "activated", "verify")
           \/ MarkEffect("checked", "health_checked", "verdict")
           \/ ReconcileStranded
    BY <1>5, LedgerKeeps
<1>6. CASE CloseJournal \/ End \/ FailEnd
    BY <1>6, EndKeeps
<1>7. CASE Install \/ WriteManifest \/ Prune \/ Crash
    BY <1>7, StoreKeeps
<1>8. CASE BeginActivation \/ SwapPrevious \/ SwapCurrent
    BY <1>8, SwapKeeps
<1>9. CASE Restart \/ RuntimeMoves
    BY <1>9, RuntimeKeeps
<1>10. CASE UNCHANGED vars
    BY <1>10 DEF vars, store, ledger, history, IInv, TypeOK, JournalFits, TargetFits,
       ReceiptFits, SwapFits, ServingFits, PointerTraced, ReleasesKept, Installed
<1> QED
    BY <1>1, <1>2, <1>3, <1>4, <1>5, <1>6, <1>7, <1>8, <1>9, <1>10 DEF Next, Step

-----------------------------------------------------------------------------
(* The theorems.                                                           *)

\* Every variable of UpgradeService keeps its type, and a journal always has
\* the transition it names (upgrade.py begin_activation, end_activation).
THEOREM TypeCorrect == Spec => []TypeOK
<1>1. IInv => TypeOK
    BY DEF IInv
<1> QED
    BY InitHolds, StepKeeps, <1>1, PTL DEF Spec

\* Wherever a command of UpgradeService dies, `current` points where the
\* newest receipt says or a journal is left (upgrade.py _activate,
\* _rollback_locked, _fail_and_rollback, _reconcile_forward).
THEOREM PointerAlwaysTraced == Spec => []PointerTraced
<1>1. IInv => PointerTraced
    BY DEF IInv
<1> QED
    BY InitHolds, StepKeeps, <1>1, PTL DEF Spec

\* Retention never removes a release recovery may need: either pointer,
\* either end of an open journal, or the code the runtime runs
\* (release_store.py swap_current, prune).
THEOREM ReleasesAlwaysKept == Spec => []ReleasesKept
<1>1. IInv => ReleasesKept
    BY DEF IInv
<1> QED
    BY InitHolds, StepKeeps, <1>1, PTL DEF Spec

\* A receipt claims success only for `current`, and only if the runtime was
\* seen serving it since the pointer moved (upgrade.py _verify_serving).
THEOREM SuccessAlwaysWitnessed == Spec => SuccessIsWitnessed
<1>1. IInv /\ [Next]_vars
        => [latest' # latest /\ latest'.outcome \in {"ACTIVATED", "ROLLED_BACK"}
              => latest'.to = current /\ witnessed]_vars
  <2> SUFFICES ASSUME IInv, Next, latest' # latest,
                      latest'.outcome \in {"ACTIVATED", "ROLLED_BACK"}
               PROVE  latest'.to = current /\ witnessed
      BY DEF vars, history
  <2>1. CloseReceipt \/ WriteReceipt \/ FailReceipt \/ Recover
      BY DEF Next, Step, store, ledger, history, Upgrade, Switch, Rollback, ReconcileForward,
         ReconcileStranded, RepairRollback, RepairRecover, CloseOutcome, CloseRefused,
         CloseJournal, Install, WriteManifest, AlreadyInstalled, Select, Activate, Check,
         RecordAttempt, BeginActivation, SwapPrevious, SwapCurrent, MarkEffect, Restart,
         Verify, Verdict, MarkOutcome, OutcomeLost, End, FailOutcome, FailEnd, Prune, Watch,
         Refused, EvidenceFails, Crash, RuntimeMoves
  <2>2. CASE CloseReceipt
      BY <2>2 DEF CloseReceipt, Receipt, IInv, TargetFits, ServingFits, Closing
  <2>3. CASE WriteReceipt
    <3>1. cmd.pc = "receipt" /\ latest'.to = cmd.to /\ cmd.to = current
        BY <2>3 DEF WriteReceipt, Receipt, IInv, TargetFits, Moved
    <3>2. cmd.ok
        BY <2>3 DEF WriteReceipt, Receipt, IInv, ServingFits
    <3> QED
        BY <3>1, <3>2 DEF IInv, ServingFits
  <2>4. CASE FailReceipt
      BY <2>4 DEF FailReceipt, Receipt
  <2>5. CASE Recover
      BY <2>5 DEF Recover, Receipt, IInv, TargetFits, ServingFits
  <2> QED
      BY <2>1, <2>2, <2>3, <2>4, <2>5
<1> QED
    BY InitHolds, StepKeeps, <1>1, PTL DEF Spec, SuccessIsWitnessed
=============================================================================
