--------------------------- MODULE FileTransaction ---------------------------
(***************************************************************************)
(* The journaled file transaction of adapters/filesystem/transaction.py as *)
(* workspace_mutate drives it.  One transaction directory holds the staged *)
(* files, the saved originals and a manifest; os.replace is atomic and     *)
(* each one is fsynced before the next step, so the state on disk after a  *)
(* crash is the state the interrupted step left.  Callers hold the         *)
(* workspace lock and recover before they start, so there is one           *)
(* transaction directory at most.                                          *)
(***************************************************************************)
EXTENDS FilePlans

CONSTANTS Keys,        \* idempotency keys
          Plans,       \* the plans callers ask for
          MaxFaults,   \* bound: crashes and raised errors in a behaviour
          LateFaults   \* whether an error can be raised once the manifest
                       \* says committed, while the journal is removed

ASSUME PlansAssumption == \A p \in Plans : /\ p \in Seq(FileActions)
                                           /\ \A k \in DOMAIN p : WellFormed(p[k])
ASSUME FaultsAssumption == MaxFaults \in Nat /\ LateFaults \in BOOLEAN
ASSUME KeysAssumption == None \notin Keys

VARIABLES
    tree,       \* the workspace's files
    receipts,   \* keys with a stored commit receipt
    dir,        \* the transaction directory exists
    manifest,   \* its manifest's phase, "none" while there is no manifest
    named,      \* the manifest names the commit receipt
    plan,       \* its actions
    key,        \* the idempotency key of the request, None without one
    staged,     \* actions whose staged file is still in the directory
    saved,      \* the file kept in backups/ or trash/ for each action
    pc,         \* what the process does next, "idle" when no call runs
    at,         \* the action it works on
    base,       \* history: the files when the transaction began
    faults      \* bound: crashes and errors so far

disk == <<tree, receipts, dir, manifest, named, staged, saved>>
vars == <<disk, plan, key, pc, at, base, faults>>

\* Actions that bring content, and so have a staged file.
Carriers(p) == {k \in DOMAIN p : p[k].kind \in {"write", "create"}}

Nothing(p) == [k \in DOMAIN p |-> None]

Init ==
    /\ tree \in Trees
    /\ base = tree
    /\ receipts = {}
    /\ dir = FALSE /\ manifest = "none" /\ named = FALSE
    /\ plan = <<>> /\ key = None /\ staged = {} /\ saved = Nothing(<<>>)
    /\ pc = "idle" /\ at = 0
    /\ faults = 0

-----------------------------------------------------------------------------
(* commit: validate, stage, apply, mark committed, purge.                  *)

\* Mutant: a new transaction does not start with empty backups/ and trash/.
BeginKeepsSaved(k, p) ==
    /\ pc = "idle" /\ ~dir
    /\ k \notin receipts
    /\ Valid(p, tree)
    /\ dir' = TRUE /\ manifest' = "none" /\ named' = FALSE
    /\ plan' = p /\ key' = k /\ staged' = {}
    /\ base' = tree
    /\ pc' = "stage" /\ at' = 1
    /\ UNCHANGED <<tree, receipts, saved, faults>>

\* WorkspaceMutator.execute up to _prepare's first mkdir: recovery found no
\* journal, no receipt answers the key, the plan is valid.
Begin(k, p) ==
    /\ pc = "idle" /\ ~dir
    /\ k \notin receipts
    /\ Valid(p, tree)
    /\ dir' = TRUE /\ manifest' = "none" /\ named' = FALSE
    /\ plan' = p /\ key' = k /\ staged' = {} /\ saved' = Nothing(p)
    /\ base' = tree
    /\ pc' = "stage" /\ at' = 1
    /\ UNCHANGED <<tree, receipts, faults>>

\* _prepare: every staged file, then the manifest.
Prepare ==
    /\ pc = "stage"
    /\ staged' = Carriers(plan)
    /\ manifest' = "prepared"
    /\ pc' = "apply"
    /\ UNCHANGED <<tree, receipts, dir, named, saved, plan, key, at, base, faults>>

\* _prepare raises, before the manifest is in place or after (the fsync of
\* the directory): _remove_unprepared removes the directory.
PrepareFails ==
    /\ pc = "stage" /\ faults < MaxFaults
    /\ \/ /\ staged' \in SUBSET Carriers(plan)
          /\ manifest' = "none"
       \/ /\ staged' = Carriers(plan)
          /\ manifest' = "prepared"
    /\ pc' = "clear"
    /\ faults' = faults + 1
    /\ UNCHANGED <<tree, receipts, dir, named, saved, plan, key, at, base>>

\* _apply_action for a create, a delete or a move: one os.replace.
ApplyAction ==
    /\ pc = "apply" /\ at \in DOMAIN plan
    /\ plan[at].kind # "write"
    /\ tree' = After(plan[at], tree)
    /\ staged' = staged \ {at}
    /\ saved' = IF plan[at].kind = "delete"
                THEN [saved EXCEPT ![at] = tree[plan[at].path]] ELSE saved
    /\ at' = at + 1
    /\ UNCHANGED <<receipts, dir, manifest, named, plan, key, pc, base, faults>>

\* _apply_action for a write: the target moves to backups/ ...
BackUp ==
    /\ pc = "apply" /\ at \in DOMAIN plan
    /\ plan[at].kind = "write"
    /\ saved' = [saved EXCEPT ![at] = tree[plan[at].path]]
    /\ tree' = [tree EXCEPT ![plan[at].path] = None]
    /\ pc' = "replace"
    /\ UNCHANGED <<receipts, dir, manifest, named, staged, plan, key, at, base, faults>>

\* ... and the staged file takes its place.
Replace ==
    /\ pc = "replace"
    /\ tree' = [tree EXCEPT ![plan[at].path] = plan[at].data]
    /\ staged' = staged \ {at}
    /\ pc' = "apply" /\ at' = at + 1
    /\ UNCHANGED <<receipts, dir, manifest, named, saved, plan, key, base, faults>>

\* Mutant: the commit marker is written without the receipt.
PrepareNoReceipt ==
    /\ pc = "apply" /\ at = Len(plan) + 1
    /\ named' = FALSE
    /\ pc' = "mark"
    /\ UNCHANGED <<tree, receipts, dir, manifest, staged, saved, plan, key, at, base, faults>>

\* The precommit validator has passed; without a key the marker is next,
\* with one _prepare_commit_receipt puts the receipt's name in the manifest.
PrepareReceipt ==
    /\ pc = "apply" /\ at = Len(plan) + 1
    /\ named' = (key # None)
    /\ pc' = IF key = None THEN "mark" ELSE "receipt"
    /\ UNCHANGED <<tree, receipts, dir, manifest, staged, saved, plan, key, at, base, faults>>

\* _apply_commit_receipt.
ApplyReceipt ==
    /\ pc = "receipt"
    /\ receipts' = receipts \cup {key}
    /\ pc' = "mark"
    /\ UNCHANGED <<tree, dir, manifest, named, staged, saved, plan, key, at, base, faults>>

\* The manifest is rewritten with phase committed.
MarkCommitted ==
    /\ pc = "mark"
    /\ manifest' = "committed"
    /\ pc' = "purge"
    /\ UNCHANGED <<tree, receipts, dir, named, staged, saved, plan, key, at, base, faults>>

\* A step of commit raises: _rollback follows.  With LateFaults also when the
\* fsync after the marker, or the purge, raises inside the same try, although
\* the manifest says committed.
StepFails ==
    /\ faults < MaxFaults
    /\ pc \in {"apply", "replace", "receipt", "mark"} \cup (IF LateFaults THEN {"purge"} ELSE {})
    /\ pc' = "undo_receipt"
    /\ faults' = faults + 1
    /\ UNCHANGED <<disk, plan, key, at, base>>

-----------------------------------------------------------------------------
(* _rollback.                                                              *)

\* _rollback_commit_receipt.
UndoReceipt ==
    /\ pc = "undo_receipt"
    /\ receipts' = IF named THEN receipts \ {key} ELSE receipts
    /\ pc' = "undo" /\ at' = Len(plan)
    /\ UNCHANGED <<tree, dir, manifest, named, staged, saved, plan, key, base, faults>>

\* The first half of _rollback_action.  A write or a delete whose original
\* was saved unlinks the target, a create whose staged file is gone unlinks
\* it, a move whose destination alone exists is reversed.
UndoAction ==
    /\ pc = "undo" /\ at > 0
    /\ LET a == plan[at]
           restoring == a.kind \in {"write", "delete"} /\ saved[at] # None
           reversing == a.kind = "move" /\ tree[a.dest] # None /\ tree[a.path] = None
           unlinking == a.kind = "create" /\ at \notin staged
       IN  /\ tree' = CASE restoring \/ unlinking -> [tree EXCEPT ![a.path] = None]
                        [] reversing -> After(Move(a.dest, a.path), tree)
                        [] OTHER     -> tree
           /\ pc' = IF restoring THEN "restore" ELSE "undo"
           /\ at' = IF restoring THEN at ELSE at - 1
    /\ UNCHANGED <<receipts, dir, manifest, named, staged, saved, plan, key, base, faults>>

\* Mutant: the rollback stops after the first file it restores.
RestoreSkipsNext ==
    /\ pc = "restore"
    /\ tree' = [tree EXCEPT ![plan[at].path] = saved[at]]
    /\ saved' = [saved EXCEPT ![at] = None]
    /\ pc' = "undo" /\ at' = 0
    /\ UNCHANGED <<receipts, dir, manifest, named, staged, plan, key, base, faults>>

\* The second half: the saved original goes back.
Restore ==
    /\ pc = "restore"
    /\ tree' = [tree EXCEPT ![plan[at].path] = saved[at]]
    /\ saved' = [saved EXCEPT ![at] = None]
    /\ pc' = "undo" /\ at' = at - 1
    /\ UNCHANGED <<receipts, dir, manifest, named, staged, plan, key, base, faults>>

UndoDone ==
    /\ pc = "undo" /\ at = 0
    /\ pc' = "clear"
    /\ UNCHANGED <<disk, plan, key, at, base, faults>>

-----------------------------------------------------------------------------
(* _purge_transaction and _remove_unprepared: rmtree, in any order.        *)

RemoveEntry ==
    /\ pc \in {"purge", "clear"}
    /\ \/ /\ \E k \in staged : staged' = staged \ {k}
          /\ UNCHANGED <<saved, manifest>>
       \/ /\ \E k \in DOMAIN plan : /\ saved[k] # None
                                    /\ saved' = [saved EXCEPT ![k] = None]
          /\ UNCHANGED <<staged, manifest>>
       \/ /\ manifest # "none"
          /\ manifest' = "none"
          /\ UNCHANGED <<staged, saved>>
    /\ UNCHANGED <<tree, receipts, dir, named, plan, key, pc, at, base, faults>>

RemoveDir ==
    /\ pc \in {"purge", "clear"}
    /\ staged = {} /\ saved = Nothing(plan) /\ manifest = "none"
    /\ dir' = FALSE
    /\ pc' = "idle"
    /\ UNCHANGED <<tree, receipts, manifest, named, staged, saved, plan, key, at, base, faults>>

-----------------------------------------------------------------------------
(* recover_pending and the faults it answers.                              *)

\* Mutant: recovery rolls prepared journals back and leaves committed ones.
RecoverPreparedOnly ==
    /\ pc = "idle" /\ dir
    /\ manifest = "prepared"
    /\ pc' = "undo_receipt"
    /\ UNCHANGED <<disk, plan, key, at, base, faults>>

\* The next call on the workspace.  A directory without a manifest is
\* refused with an error and stays.
RecoverPending ==
    /\ pc = "idle" /\ dir
    /\ \/ /\ manifest = "prepared"
          /\ pc' = "undo_receipt"
       \/ /\ manifest = "committed"
          /\ pc' = "clear"
    /\ UNCHANGED <<disk, plan, key, at, base, faults>>

\* The process dies, or a rollback or a recovery raises and leaves the
\* journal for the next call.
Crash ==
    /\ pc # "idle" /\ faults < MaxFaults
    /\ pc' = "idle"
    /\ faults' = faults + 1
    /\ UNCHANGED <<disk, plan, key, at, base>>

-----------------------------------------------------------------------------
Work == \/ Prepare \/ ApplyAction \/ BackUp \/ Replace
        \/ PrepareReceipt \/ ApplyReceipt \/ MarkCommitted
        \/ UndoReceipt \/ UndoAction \/ Restore \/ UndoDone
        \/ RemoveEntry \/ RemoveDir

Next == \/ \E k \in Keys \cup {None}, p \in Plans : Begin(k, p)
        \/ Work
        \/ PrepareFails \/ StepFails
        \/ RecoverPending \/ Crash

\* A call that runs goes on, and a workspace left with a journal is used again.
Fairness == WF_vars(Work) /\ WF_vars(RecoverPending)

Spec == Init /\ [][Next]_vars
FairSpec == Spec /\ Fairness

-----------------------------------------------------------------------------
(* Properties.                                                             *)

PCs == {"idle", "stage", "apply", "replace", "receipt", "mark", "purge",
        "undo_receipt", "undo", "restore", "clear"}

\* Every variable of the transaction engine has its type.
TypeOK ==
    /\ tree \in Trees /\ base \in Trees
    /\ receipts \subseteq Keys
    /\ dir \in BOOLEAN /\ named \in BOOLEAN
    /\ manifest \in {"none", "prepared", "committed"}
    /\ plan \in Plans \cup {<<>>}
    /\ key \in Keys \cup {None}
    /\ staged \subseteq DOMAIN plan
    /\ saved \in [DOMAIN plan -> Content]
    /\ pc \in PCs
    /\ at \in 0..(Len(plan) + 1)
    /\ faults \in 0..MaxFaults

\* A rollback that has run to its end, in the failing call or in any number
\* of recoveries interrupted at any point, has put every file back.
RollbackRestores == pc = "clear" /\ manifest = "prepared" => tree = base

\* "A batch is all-or-nothing": once no transaction directory is left, the
\* workspace holds the files the call found or the files its plan asks for,
\* and the receipt says which.
AllOrNothing ==
    ~dir => \/ tree = base /\ (key # None => key \notin receipts)
            \/ tree = Effect(plan, base) /\ (key # None => key \in receipts)

\* The transaction as one atomic step: while the manifest says prepared the
\* batch has not happened, from the commit marker on it has.
Atomic == INSTANCE AtomicBatch
    WITH files <- IF manifest = "prepared" THEN base ELSE tree,
         done  <- IF manifest = "prepared" THEN receipts \ {key} ELSE receipts,
         asked <- <<key, plan>>,
         open  <- pc \in {"stage", "apply", "replace", "receipt", "mark"}

\* A batch takes effect in one step at its commit marker, is never seen half
\* done once recovery has run, and takes effect at most once for a key.
BatchIsAtomic == Atomic!Spec

\* A journal with a manifest is resolved: rolled back or finalised.
JournalResolved == (dir /\ manifest # "none") ~> (~dir \/ manifest = "none")

\* "The transaction journal is private, bounded, recoverable after
\* interruption": whatever a call leaves behind, later calls get rid of it.
JournalRecoverable == dir ~> ~dir
=============================================================================
