--------------------------- MODULE ReleaseUpgrade ---------------------------
(***************************************************************************)
(* UpgradeService: build, switch, roll back and reconcile releases of the  *)
(* runtime.  A command holds the activation lock from its first read to    *)
(* its return, so commands never overlap; but it replaces the runtime it   *)
(* talks to and may die after any write.  What it was doing is then only   *)
(* in the symlinks, the in-flight journal, the transition ledger and the   *)
(* receipts, and later commands go by these alone.                         *)
(*                                                                         *)
(* The runtime moves on its own: the OS relaunches it through `current`,   *)
(* and it becomes healthy or fails closed at any time.                     *)
(***************************************************************************)
EXTENDS Naturals

CONSTANTS
    Releases,   \* the commits a release can be built from
    First,      \* the release an installation in use starts with
    None,
    MaxFaults   \* bound on crashes and failing writes

ASSUME ReleaseAssumption ==
    /\ First \in Releases
    /\ None \notin Releases
    /\ MaxFaults \in Nat

VARIABLES
    status,     \* each release: absent, a directory, or installed (has a manifest)
    current,    \* the two symlinks
    previous,
    journal,    \* the in-flight activation
    transition, \* the ledger's status of the transition the journal names
    stranded,   \* the open transitions no journal names: "prepared", or "later"
    latest,     \* the newest receipt
    origins,    \* the releases some receipt names as its from_sha
    runtime,    \* what the runtime record says and the health probe confirms
    cmd,        \* the command that holds the activation lock
    witnessed,  \* history: the runtime has served `current` since it points there
    faults

store == <<status, current, previous>>
ledger == <<journal, transition, stranded>>
history == <<latest, origins>>
vars == <<store, ledger, history, runtime, cmd, witnessed, faults>>

NoJournal == [from |-> None, to |-> None]

Idle == [pc |-> "idle", kind |-> "activate", from |-> None, to |-> None, ok |-> FALSE,
         next |-> "idle"]

(* Unhealthy without having failed closed is, for every question asked    *)
(* here, the same as not running.                                          *)
Stopped == [release |-> None, phase |-> "stopped"]

Serving(r) == runtime = [release |-> r, phase |-> "healthy"]

Installed(r) == r # None /\ status[r] = "installed"

OpenStatus == {"prepared", "staged", "activated", "health_checked"}
ClosedStatus == {"completed", "rolled_back", "activation_failed", "health_failed"}

(* RuntimeTransitionCoordinator._terminalize walks forward to the status   *)
(* the outcome leaves from; a record past that point, or closed, refuses.  *)
Terminalizes(s, outcome) ==
    \/ s \in {"prepared", "staged", "activated"}
    \/ s = "health_checked" /\ outcome # "activation_failed"

Init ==
    /\ \/ status = [r \in Releases |-> "absent"] /\ current = None /\ runtime = Stopped
       \/ /\ status = [r \in Releases |-> IF r = First THEN "installed" ELSE "absent"]
          /\ current = First
          /\ runtime = [release |-> First, phase |-> "healthy"]
    /\ previous = None
    /\ journal = NoJournal /\ transition = "none" /\ stranded = {}
    /\ latest = [to |-> current, outcome |-> "ACTIVATED"]
    /\ origins = {}
    /\ cmd = Idle
    /\ witnessed = TRUE
    /\ faults = 0

Goto(pc) == cmd' = [cmd EXCEPT !.pc = pc]
Done == cmd' = Idle

-----------------------------------------------------------------------------
(* What several commands do.                                               *)

Receipt(from, to, outcome) ==
    /\ latest' = [to |-> to, outcome |-> outcome]
    /\ origins' = origins \cup ({from} \ {None})

(* What a transition is once no journal names it.                          *)
Leftover(s) == CASE s = "prepared" -> {"prepared"}
                 [] s \in OpenStatus \ {"prepared"} -> {"later"}
                 [] OTHER -> {}

(* Mutant: the journal is cleared and its transition is left behind. *)
EndActivationOnly ==
    /\ journal' = NoJournal
    /\ stranded' = stranded \cup Leftover(transition)
    /\ UNCHANGED transition

EndActivation ==
    /\ journal' = NoJournal /\ transition' = "none"
    /\ stranded' = stranded \cup Leftover(transition)

(* _reconcile_converged can prove that the journal's target serves.        *)
Converged ==
    /\ journal # NoJournal
    /\ journal.to = current /\ Installed(journal.to)
    /\ Serving(journal.to)

(* _require_no_unreconciled_activation: the command goes on at once,      *)
(* closes the journal first, or is refused.                                *)
Guarded(c) ==
    IF journal = NoJournal THEN cmd' = c
    ELSE Converged /\ cmd' = [c EXCEPT !.pc = "close_receipt", !.next = c.pc]

-----------------------------------------------------------------------------
(* The commands.                                                           *)

Upgrade(r) ==
    /\ cmd.pc = "idle"
    /\ Guarded([Idle EXCEPT !.pc = "build", !.to = r])
    /\ UNCHANGED <<store, ledger, history, runtime, witnessed, faults>>

Switch(r) ==
    /\ cmd.pc = "idle"
    /\ Guarded([Idle EXCEPT !.pc = "select", !.to = r])
    /\ UNCHANGED <<store, ledger, history, runtime, witnessed, faults>>

(* rollback: to `previous`, or to the origin of a receipt.  --force drops  *)
(* the receipt's guard on `current`.                                       *)
Rollback(r) ==
    /\ cmd.pc = "idle"
    /\ r # None /\ r \in {previous} \cup origins
    /\ cmd' = [Idle EXCEPT !.pc = "check", !.to = r]
    /\ UNCHANGED <<store, ledger, history, runtime, witnessed, faults>>

(* reconcile of a journal whose target serves.                             *)
ReconcileForward ==
    /\ cmd.pc = "idle"
    /\ Converged
    /\ cmd' = [Idle EXCEPT !.pc = "close_receipt"]
    /\ UNCHANGED <<store, ledger, history, runtime, witnessed, faults>>

(* _reconcile_stranded_transition: an attempt that never got a journal is  *)
(* closed; one that is further on is refused, and with it all the others.  *)
ReconcileStranded ==
    /\ cmd.pc = "idle"
    /\ journal = NoJournal /\ stranded = {"prepared"}
    /\ stranded' = {}
    /\ UNCHANGED <<store, journal, transition, history, runtime, cmd, witnessed, faults>>

(* reconcile --repair rollback.                                            *)
RepairRollback ==
    /\ cmd.pc = "idle"
    /\ journal # NoJournal /\ journal.from # None
    /\ current = journal.to
    /\ runtime = [release |-> journal.to, phase |-> "fail_closed"]
    /\ previous = journal.from /\ Installed(previous)
    /\ cmd' = [Idle EXCEPT !.pc = "check", !.to = previous]
    /\ UNCHANGED <<store, ledger, history, runtime, witnessed, faults>>

(* reconcile --repair recover: a failed release that serves after all.     *)
RepairRecover ==
    /\ cmd.pc = "idle"
    /\ journal = NoJournal /\ stranded = {}
    /\ latest.outcome = "FAILED" /\ latest.to = current
    /\ Serving(current)
    /\ cmd' = [Idle EXCEPT !.pc = "recover", !.to = current]
    /\ UNCHANGED <<store, ledger, history, runtime, witnessed, faults>>

-----------------------------------------------------------------------------
(* Closing a journal whose target serves.                                  *)

CloseReceipt ==
    /\ cmd.pc = "close_receipt"
    /\ Receipt(journal.from, journal.to, "ACTIVATED")
    /\ Goto("close_outcome")
    /\ UNCHANGED <<store, ledger, runtime, witnessed, faults>>

CloseOutcome ==
    /\ cmd.pc = "close_outcome"
    /\ Terminalizes(transition, "completed")
    /\ transition' = "completed"
    /\ Goto("close_journal")
    /\ UNCHANGED <<store, journal, stranded, history, runtime, witnessed, faults>>

(* ACTIVATION_RECONCILIATION_INCOMPLETE.                                   *)
CloseRefused ==
    /\ cmd.pc = "close_outcome"
    /\ ~Terminalizes(transition, "completed")
    /\ Done
    /\ UNCHANGED <<store, ledger, history, runtime, witnessed, faults>>

CloseJournal ==
    /\ cmd.pc = "close_journal"
    /\ EndActivation
    /\ cmd' = IF cmd.next = "idle" THEN Idle ELSE [cmd EXCEPT !.pc = cmd.next, !.next = "idle"]
    /\ UNCHANGED <<store, history, runtime, witnessed, faults>>

(* _sample_window has passed, the manifest matches the failed receipt.     *)
Recover ==
    /\ cmd.pc = "recover"
    /\ Installed(cmd.to)
    /\ Receipt(None, cmd.to, "ACTIVATED")
    /\ Done
    /\ UNCHANGED <<store, ledger, runtime, witnessed, faults>>

-----------------------------------------------------------------------------
(* Building.                                                               *)

(* reserve_release, install and smoke of a commit seen for the first time. *)
Install ==
    /\ cmd.pc = "build" /\ status[cmd.to] = "absent"
    /\ status' = [status EXCEPT ![cmd.to] = "dir"]
    /\ Goto("manifest")
    /\ UNCHANGED <<current, previous, ledger, history, runtime, witnessed, faults>>

WriteManifest ==
    /\ cmd.pc = "manifest"
    /\ status' = [status EXCEPT ![cmd.to] = "installed"]
    /\ Goto("built")
    /\ UNCHANGED <<current, previous, ledger, history, runtime, witnessed, faults>>

(* The commit is installed already, and its manifest still fits.           *)
AlreadyInstalled ==
    /\ cmd.pc = "build" /\ Installed(cmd.to)
    /\ Goto("built")
    /\ UNCHANGED <<store, ledger, history, runtime, witnessed, faults>>

(* switch: the release is installed, verified again, and not active yet.   *)
Select ==
    /\ cmd.pc = "select" /\ Installed(cmd.to) /\ cmd.to # current
    /\ Goto("built")
    /\ UNCHANGED <<store, ledger, history, runtime, witnessed, faults>>

(* The handoff preflight of _activate has passed.                          *)
Activate ==
    /\ cmd.pc = "built"
    /\ cmd' = [cmd EXCEPT !.pc = "attempt", !.kind = "activate", !.from = current]
    /\ UNCHANGED <<store, ledger, history, runtime, witnessed, faults>>

(* Mutant: a rollback begins only when no journal is in flight. *)
CheckNoJournal ==
    /\ cmd.pc = "check" /\ Installed(cmd.to) /\ journal = NoJournal
    /\ cmd' = [cmd EXCEPT !.kind = "rollback", !.from = current, !.pc = "attempt"]
    /\ UNCHANGED <<store, ledger, history, runtime, witnessed, faults>>

(* Mutant: a rollback moves the pointer without a journal of its own. *)
CheckUnjournaled ==
    /\ cmd.pc = "check" /\ Installed(cmd.to)
    /\ cmd' = [cmd EXCEPT !.kind = "rollback", !.from = current, !.pc = "previous"]
    /\ UNCHANGED <<store, ledger, history, runtime, witnessed, faults>>

(* _rollback_locked: the target is usable and the preflight has passed.  A *)
(* journal in flight is kept as the trace of this rollback too.            *)
Check ==
    /\ cmd.pc = "check" /\ Installed(cmd.to)
    /\ cmd' = [cmd EXCEPT !.kind = "rollback", !.from = current,
                          !.pc = IF journal = NoJournal THEN "attempt" ELSE "previous"]
    /\ UNCHANGED <<store, ledger, history, runtime, witnessed, faults>>

(* A dirty worktree, a directory without a manifest, a failed smoke, a     *)
(* drifted contract, a refused preflight, a degraded health window, a      *)
(* staged build, or a release that is active already.                      *)
Refused ==
    /\ cmd.pc \in {"build", "manifest", "select", "built", "check", "recover"}
    /\ Done
    /\ UNCHANGED <<store, ledger, history, runtime, witnessed, faults>>

-----------------------------------------------------------------------------
(* Moving the pointer: one path for an activation and for a rollback.      *)

(* _begin_transition.  Until the journal names it the record is the        *)
(* command's own.                                                          *)
RecordAttempt ==
    /\ cmd.pc = "attempt"
    /\ Goto("journal")
    /\ UNCHANGED <<store, ledger, history, runtime, witnessed, faults>>

BeginActivation ==
    /\ cmd.pc = "journal"
    /\ journal' = [from |-> cmd.from, to |-> cmd.to]
    /\ transition' = "prepared"
    /\ Goto("previous")
    /\ UNCHANGED <<store, stranded, history, runtime, witnessed, faults>>

(* swap_current: first `previous`, then `current`.                         *)
SwapPrevious ==
    /\ cmd.pc = "previous"
    /\ previous' = IF current \in {None, cmd.to} THEN previous ELSE current
    /\ Goto("current")
    /\ UNCHANGED <<status, current, ledger, history, runtime, witnessed, faults>>

SwapCurrent ==
    /\ cmd.pc = "current"
    /\ current' = cmd.to
    /\ witnessed' = Serving(cmd.to)
    /\ Goto(IF cmd.kind = "activate" THEN "staged" ELSE "restart")
    /\ UNCHANGED <<status, previous, ledger, history, runtime, faults>>

(* _mark_effect, after the swap, the restart and the verification.         *)
MarkEffect(at, effect, next) ==
    /\ cmd.pc = at
    /\ transition' = effect
    /\ Goto(next)
    /\ UNCHANGED <<store, journal, stranded, history, runtime, witnessed, faults>>

(* SupervisorRestarter.restart: refused with the incumbent left alone,     *)
(* failed with the incumbent stopped, or a new process of `current` has    *)
(* published a record.  That process may still be starting, or may have    *)
(* failed closed already.                                                  *)
Restart ==
    /\ cmd.pc = "restart"
    /\ \E ok \in BOOLEAN :
          /\ \/ runtime' = runtime /\ ~ok
             \/ runtime' = Stopped
             \/ runtime' \in [release : {current}, phase : {"healthy", "fail_closed"}]
          /\ cmd' = [cmd EXCEPT !.ok = ok,
                       !.pc = IF ok /\ cmd.kind = "activate" THEN "activated" ELSE "verify"]
    /\ witnessed' = (witnessed \/ runtime' = [release |-> current, phase |-> "healthy"])
    /\ UNCHANGED <<store, ledger, history, faults>>

(* Mutant: a restart that went well is proof enough. *)
VerifyRestartOnly ==
    /\ cmd.pc = "verify"
    /\ Goto(IF cmd.kind = "activate" /\ Serving(cmd.to) THEN "checked" ELSE "verdict")
    /\ UNCHANGED <<store, ledger, history, runtime, witnessed, faults>>

(* _verify_serving ends: the runtime is seen serving, or is not.  Only a   *)
(* restart that went well and was seen to serve counts as success.         *)
Verify ==
    /\ cmd.pc = "verify"
    /\ cmd' = [cmd EXCEPT !.ok = cmd.ok /\ Serving(cmd.to),
                 !.pc = IF cmd.kind = "activate" /\ Serving(cmd.to)
                        THEN "checked" ELSE "verdict"]
    /\ UNCHANGED <<store, ledger, history, runtime, witnessed, faults>>

Verdict ==
    /\ cmd.pc = "verdict"
    /\ Goto(IF cmd.kind = "activate" /\ ~cmd.ok THEN "failed" ELSE "receipt")
    /\ UNCHANGED <<store, ledger, history, runtime, witnessed, faults>>

(* The reclamation evidence cannot be stored: the activation fails after  *)
(* it was verified.                                                        *)
EvidenceFails ==
    /\ cmd.pc = "verdict" /\ cmd.kind = "activate" /\ cmd.ok
    /\ faults < MaxFaults /\ faults' = faults + 1
    /\ cmd' = [cmd EXCEPT !.pc = "failed", !.ok = FALSE]
    /\ UNCHANGED <<store, ledger, history, runtime, witnessed>>

-----------------------------------------------------------------------------
(* Closing a command: the receipt, the ledger, the journal.                *)

Outcome == IF cmd.kind = "activate" THEN "completed"
           ELSE IF cmd.ok THEN "rolled_back" ELSE "health_failed"

WriteReceipt ==
    /\ cmd.pc = "receipt"
    /\ Receipt(cmd.from, cmd.to, IF cmd.kind = "activate" THEN "ACTIVATED"
                                 ELSE IF cmd.ok THEN "ROLLED_BACK" ELSE "ROLLBACK_FAILED")
    /\ Goto("outcome")
    /\ UNCHANGED <<store, ledger, runtime, witnessed, faults>>

After == IF cmd.kind = "activate" THEN "prune" ELSE "idle"

MarkOutcome ==
    /\ cmd.pc = "outcome"
    /\ Terminalizes(transition, Outcome)
    /\ transition' = Outcome
    /\ Goto("end")
    /\ UNCHANGED <<store, journal, stranded, history, runtime, witnessed, faults>>

(* The ledger refuses the outcome or the write fails: the journal stays.   *)
OutcomeLost ==
    /\ cmd.pc = "outcome"
    /\ IF Terminalizes(transition, Outcome)
       THEN faults < MaxFaults /\ faults' = faults + 1
       ELSE UNCHANGED faults
    /\ cmd' = IF After = "idle" THEN Idle ELSE [cmd EXCEPT !.pc = After]
    /\ UNCHANGED <<store, ledger, history, runtime, witnessed>>

End ==
    /\ cmd.pc = "end"
    /\ EndActivation
    /\ cmd' = IF After = "idle" THEN Idle ELSE [cmd EXCEPT !.pc = After]
    /\ UNCHANGED <<store, history, runtime, witnessed, faults>>

(* _fail_and_rollback: receipt, ledger, journal, whatever the ledger said, *)
(* and then the rollback as a command of its own.                          *)
FailReceipt ==
    /\ cmd.pc = "failed"
    /\ Receipt(cmd.from, cmd.to, "FAILED")
    /\ Goto("failed_outcome")
    /\ UNCHANGED <<store, ledger, runtime, witnessed, faults>>

FailOutcome ==
    /\ cmd.pc = "failed_outcome"
    /\ \/ /\ Terminalizes(transition, "activation_failed")
          /\ transition' = "activation_failed"
          /\ UNCHANGED faults
       \/ /\ IF Terminalizes(transition, "activation_failed")
             THEN faults < MaxFaults /\ faults' = faults + 1
             ELSE UNCHANGED faults
          /\ UNCHANGED transition
    /\ Goto("failed_end")
    /\ UNCHANGED <<store, journal, stranded, history, runtime, witnessed>>

FailEnd ==
    /\ cmd.pc = "failed_end"
    /\ EndActivation
    /\ cmd' = IF cmd.from = None THEN Idle ELSE [Idle EXCEPT !.pc = "check", !.to = cmd.from]
    /\ UNCHANGED <<store, history, runtime, witnessed, faults>>

-----------------------------------------------------------------------------
(* After an activation: retention, and the health window of --watch.       *)

(* Mutant: retention keeps `current` and the newest releases only. *)
PruneAllButCurrent ==
    /\ cmd.pc = "prune"
    /\ \E gone \in SUBSET {r \in Releases \ {current} : Installed(r)} :
          status' = [r \in Releases |-> IF r \in gone THEN "absent" ELSE status[r]]
    /\ \/ Done
       \/ Goto("watch")
    /\ UNCHANGED <<current, previous, ledger, history, runtime, witnessed, faults>>

(* prune removes releases that no pointer protects; which of the others    *)
(* are recent enough, or held by a live process, is left open.  With       *)
(* --watch the health window follows.                                      *)
Prune ==
    /\ cmd.pc = "prune"
    /\ \E gone \in SUBSET {r \in Releases \ {current, previous} : Installed(r)} :
          status' = [r \in Releases |-> IF r \in gone THEN "absent" ELSE status[r]]
    /\ \/ Done
       \/ Goto("watch")
    /\ UNCHANGED <<current, previous, ledger, history, runtime, witnessed, faults>>

(* _watch_or_rollback: the window passes or the activation is undone.      *)
Watch ==
    /\ cmd.pc = "watch"
    /\ \/ Done
       \/ cmd.from # None /\ cmd' = [Idle EXCEPT !.pc = "check", !.to = cmd.from]
    /\ UNCHANGED <<store, ledger, history, runtime, witnessed, faults>>

-----------------------------------------------------------------------------
(* The surroundings.                                                       *)

(* The command's process dies, or a write raises and ends the command.  A  *)
(* removal under way may have taken the manifest and not the directory.    *)
Crash ==
    /\ cmd.pc # "idle" /\ faults < MaxFaults
    /\ faults' = faults + 1
    /\ Done
    /\ stranded' = IF cmd.pc = "journal" THEN stranded \cup {"prepared"} ELSE stranded
    /\ \/ UNCHANGED status
       \/ /\ cmd.pc = "prune"
          /\ \E r \in Releases \ {current, previous} :
                Installed(r) /\ status' = [status EXCEPT ![r] = "dir"]
    /\ UNCHANGED <<current, previous, journal, transition, history, runtime, witnessed>>

(* The runtime stops, or is relaunched through `current`, or its health    *)
(* changes.                                                                *)
RuntimeMoves ==
    /\ runtime' \in {Stopped} \cup
          [release : {runtime.release, current} \ {None}, phase : {"healthy", "fail_closed"}]
    /\ witnessed' = (witnessed \/ runtime' = [release |-> current, phase |-> "healthy"])
    /\ UNCHANGED <<store, ledger, history, cmd, faults>>

Step ==
    \/ CloseReceipt \/ CloseOutcome \/ CloseRefused \/ CloseJournal \/ Recover
    \/ Install \/ WriteManifest \/ AlreadyInstalled \/ Select \/ Activate \/ Check
    \/ RecordAttempt \/ BeginActivation \/ SwapPrevious \/ SwapCurrent
    \/ MarkEffect("staged", "staged", "restart")
    \/ MarkEffect("activated", "activated", "verify")
    \/ MarkEffect("checked", "health_checked", "verdict")
    \/ Restart \/ Verify \/ Verdict \/ WriteReceipt \/ MarkOutcome \/ OutcomeLost \/ End
    \/ FailReceipt \/ FailOutcome \/ FailEnd
    \/ Prune \/ Watch \/ Refused

Next ==
    \/ \E r \in Releases : Upgrade(r) \/ Switch(r) \/ Rollback(r)
    \/ ReconcileForward \/ ReconcileStranded \/ RepairRollback \/ RepairRecover
    \/ Step \/ EvidenceFails \/ Crash \/ RuntimeMoves

Spec == Init /\ [][Next]_vars

(* A command goes on.  The operator who finds a journal that nothing       *)
(* closes rolls back, again and again, and is not refused for ever; the    *)
(* one who finds an abandoned attempt reconciles.                          *)
Fairness ==
    /\ WF_vars(Step)
    /\ SF_vars(Rollback(previous))
    /\ SF_vars(Check)
    /\ SF_vars(ReconcileStranded)

FairSpec == Spec /\ Fairness

-----------------------------------------------------------------------------
(* Properties.                                                             *)

PCs == {"idle", "close_receipt", "close_outcome", "close_journal", "recover", "build",
        "manifest", "select", "built", "check", "attempt", "journal", "previous",
        "current", "staged", "restart", "activated", "verify", "checked", "verdict",
        "receipt", "outcome", "end", "failed", "failed_outcome", "failed_end", "prune",
        "watch"}

MaybeRelease == Releases \cup {None}

Commands == [pc : PCs, kind : {"activate", "rollback"}, from : MaybeRelease,
             to : MaybeRelease, ok : BOOLEAN, next : {"idle", "build", "select"}]

\* Every variable has its type; a journal always has a transition.
TypeOK ==
    /\ status \in [Releases -> {"absent", "dir", "installed"}]
    /\ current \in MaybeRelease /\ previous \in MaybeRelease
    /\ journal = NoJournal \/ journal \in [from : MaybeRelease, to : Releases]
    /\ transition \in OpenStatus \cup ClosedStatus \cup {"none"}
    /\ journal = NoJournal <=> transition = "none"
    /\ stranded \subseteq {"prepared", "later"}
    /\ latest \in [to : MaybeRelease,
                   outcome : {"ACTIVATED", "FAILED", "ROLLED_BACK", "ROLLBACK_FAILED"}]
    /\ origins \subseteq Releases
    /\ runtime = Stopped \/ runtime \in [release : Releases, phase : {"healthy", "fail_closed"}]
    /\ cmd \in Commands
    /\ witnessed \in BOOLEAN
    /\ faults \in 0..MaxFaults

\* However a command ends or dies, `current` points where the newest receipt
\* says, or a journal is left to tell the next command.
PointerTraced == journal = NoJournal => current = latest.to

\* Nothing recovery may need is removed: the two pointers and both ends of
\* the journal keep their manifests, and the runtime keeps its code.
ReleasesKept ==
    /\ \A r \in {current, previous, journal.from, journal.to} \ {None} : Installed(r)
    /\ runtime.release # None => status[runtime.release] # "absent"

\* A receipt that claims success is about the release `current` points at,
\* and the runtime has been seen serving it since it points there.
SuccessIsWitnessed ==
    [][latest' # latest /\ latest'.outcome \in {"ACTIVATED", "ROLLED_BACK"}
         => latest'.to = current /\ witnessed]_vars

\* A journal nothing can close: its transition is closed already, or there
\* is no previous release to roll back to.
Wedged == journal # NoJournal /\ (transition \in ClosedStatus \/ previous = None)

\* "Reconciliation completes the durable tail": there comes a time when no
\* journal and no attempt that died before its journal is left, but for the
\* states of Wedged and for attempts refused beside a transition further on.
TailSettles ==
    journal # NoJournal \/ stranded = {"prepared"}
      ~> (journal = NoJournal /\ stranded # {"prepared"}) \/ Wedged

\* "a crash ... can never leave an unrecoverable activation record": not
\* kept, see Wedged.
JournalAlwaysSettles == journal # NoJournal ~> journal = NoJournal

\* "A transition past PREPARED with no journal is a journal loss": not kept,
\* _fail_and_rollback clears the journal of a transition it cannot close.
OnlyAbandonedStranded == stranded \subseteq {"prepared"}
=============================================================================
