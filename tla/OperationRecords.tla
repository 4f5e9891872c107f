-------------------------- MODULE OperationRecords --------------------------
(***************************************************************************)
(* The two durable records of the execution plane and the pure policy on   *)
(* them: the operation record a client polls (domain/operation_task.py)    *)
(* and the private work item a worker claims (domain/operation_work.py).   *)
(*                                                                         *)
(* Timestamps are abstracted to what the policy compares.  A lease is      *)
(* "live" or "expired" (its deadline against the reader's clock), or       *)
(* "none".  Progress, messages, snapshot bindings and retryability carry   *)
(* no control and are left out.  A missing record is the record whose      *)
(* state is "absent".                                                      *)
(***************************************************************************)
EXTENDS Naturals

CONSTANTS
    Workers,   \* execution-worker incarnations: one process each, owner_id
    None       \* "no owner", "no operation"

ASSUME NoneIsNoWorker == None \notin Workers

Owners == Workers \cup {None}

Leases == {"none", "live", "expired"}

(***************************************************************************)
(* Operation records.                                                      *)
(***************************************************************************)
TerminalStates == {"succeeded", "failed", "cancelled", "expired", "orphaned"}

TaskStates == {"absent", "pending", "running"} \cup TerminalStates

TaskRecord == [state : TaskStates, owner : Owners, attempt : Nat,
               lease : Leases, cancel : BOOLEAN]

NoTask == [state |-> "absent", owner |-> None, attempt |-> 0,
           lease |-> "none", cancel |-> FALSE]

NewTask == [NoTask EXCEPT !.state = "pending"]

(* _ALLOWED_TRANSITIONS; a terminal state has no successor. *)
Allowed(s) ==
    CASE s = "pending" -> {"running", "failed", "cancelled", "expired"}
      [] s = "running" -> TerminalStates
      [] OTHER         -> {}

(* require_operation_owner: an unowned record accepts any writer. *)
OwnerAccepted(t, owner) == t.owner = None \/ t.owner = owner

(* expire and orphan pass bypass_ownership. *)
BypassesOwner(new) == new \in {"orphaned", "expired"}

(* OperationManager._save_transition towards a terminal state, by the code *)
(* it ends in: written, unchanged (an idempotent cancel), OPERATION_STALE, *)
(* or any other error.                                                     *)
Terminalized(t, new) ==
    [t EXCEPT !.state = new, !.owner = None, !.lease = "none"]

(* Mutant: a requested cancellation does not forbid success. *)
SuccessNeverForbidden(t, new) == FALSE

SuccessForbidden(t, new) == new = "succeeded" /\ t.cancel

StaleWriter(t, new, owner) ==
    ~BypassesOwner(new) /\ ~OwnerAccepted(t, owner)

TransitionWrites(t, new, owner) ==
    /\ ~SuccessForbidden(t, new)
    /\ ~StaleWriter(t, new, owner)
    /\ new \in Allowed(t.state)

TransitionRepeats(t, new, owner) ==
    /\ t.state = "cancelled" /\ new = "cancelled"
    /\ OwnerAccepted(t, owner)

TransitionIsStale(t, new, owner) ==
    /\ t.state # "absent"
    /\ ~SuccessForbidden(t, new)
    /\ StaleWriter(t, new, owner)

(* start: transition to running, then claim_operation_ownership. *)
StartAccepted(t, w, attempt) ==
    /\ t.state \in {"pending", "running"}
    /\ attempt >= t.attempt
    /\ t.owner \in {None, w} \/ t.lease # "live"

Started(t, w, attempt, lease) ==
    [t EXCEPT !.state = "running", !.owner = w, !.attempt = attempt,
              !.lease = lease]

RenewAccepted(t, w) == t.state = "running" /\ t.owner = w

Renewed(t) == [t EXCEPT !.lease = "live"]

(* requeue_operation asks only that the record is running. *)
RequeueAccepted(t) == t.state = "running"

Requeued(t) == [t EXCEPT !.state = "pending", !.owner = None, !.lease = "none"]

(* request_operation_cancellation on a record that supports it. *)
CancelRequested(t) == [t EXCEPT !.cancel = TRUE]

(***************************************************************************)
(* Work items.                                                             *)
(***************************************************************************)
ItemRecord == [state : {"absent", "queued", "claimed"}, owner : Owners,
               attempt : Nat, lease : Leases, started : BOOLEAN, gen : Nat]

NoItem == [state |-> "absent", owner |-> None, attempt |-> 0,
           lease |-> "none", started |-> FALSE, gen |-> 0]

NewItem(gen) == [NoItem EXCEPT !.state = "queued", !.gen = gen]

ClaimedItem(i, w) ==
    [i EXCEPT !.state = "claimed", !.attempt = i.attempt + 1,
              !.owner = w, !.lease = "live"]

CanRequeueItem(i) == ~i.started

(* Mutant: the item gets the operation's name for that state. *)
RequeuedAsPending(i) ==
    [i EXCEPT !.state = "pending", !.owner = None, !.lease = "none"]

RequeuedItem(i) ==
    [i EXCEPT !.state = "queued", !.owner = None, !.lease = "none"]

(* mark_work_child_started accepts only the exact claim. *)
HoldsClaim(i, w, attempt) ==
    i.state = "claimed" /\ i.owner = w /\ i.attempt = attempt

ItemStarted(i) == [i EXCEPT !.started = TRUE]

(* renew_work_claim compares the owner alone. *)
CanRenewItem(i, w) == i.state = "claimed" /\ i.owner = w

RenewedItem(i) == [i EXCEPT !.lease = "live"]

(***************************************************************************)
(* Worker bindings (domain/operation_worker.py): the durable identity of   *)
(* the child process of one claim.  A pid stands for the pair of pid and   *)
(* start token, which is never reused.                                     *)
(***************************************************************************)
BindingRecord == [owner : Owners, attempt : Nat, pid : Nat]

NoBinding == [owner |-> None, attempt |-> 0, pid |-> 0]

(* classify_operation_child_binding: the binding was made by this claim. *)
BindingMatches(i, b) ==
    b # NoBinding /\ b.owner = i.owner /\ b.attempt = i.attempt
=============================================================================
