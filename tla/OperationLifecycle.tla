------------------------- MODULE OperationLifecycle -------------------------
(***************************************************************************)
(* What the execution plane promises about ONE operation, as a client that *)
(* polls its record sees it: a state that follows the documented diagram,  *)
(* an attempt number that never goes back, a cancellation request that is  *)
(* never forgotten nor answered by success, a result behind every success, *)
(* and a command that only one claim ever runs.                            *)
(***************************************************************************)
EXTENDS Naturals

VARIABLES
    state,    \* public state of the operation
    attempt,  \* attempt number of its record
    cancel,   \* a cancellation was requested
    stored,   \* its result payload is stored
    runs      \* the claims that have run its command

lifecycle == <<state, attempt, cancel, stored, runs>>

Ended == {"succeeded", "failed", "cancelled", "expired", "orphaned"}

Absent == /\ state = "absent" /\ attempt = 0 /\ cancel = FALSE
          /\ stored = FALSE /\ runs = {}

Admitted ==
    /\ state = "absent" /\ state' = "pending"
    /\ UNCHANGED <<attempt, cancel, stored, runs>>

(* A worker starts it, or takes over the expired lease of another one. *)
Claimed ==
    /\ state \in {"pending", "running"} /\ state' = "running"
    /\ attempt' \in Nat /\ attempt' >= attempt
    /\ UNCHANGED <<cancel, stored, runs>>

Released ==
    /\ state = "running" /\ state' = "pending"
    /\ UNCHANGED <<attempt, cancel, stored, runs>>

CancelAsked ==
    /\ state \in {"pending", "running"} /\ cancel' = TRUE
    /\ UNCHANGED <<state, attempt, stored, runs>>

(* A claim runs the command, again and again perhaps; no other claim may. *)
Run ==
    /\ state # "absent"
    /\ \E c \in runs' : runs \subseteq {c} /\ runs' = {c}
    /\ UNCHANGED <<state, attempt, cancel, stored>>

(* A result may come and go only while the operation has not succeeded. *)
ResultChanged ==
    /\ state \notin {"absent", "succeeded"}
    /\ stored' \in BOOLEAN
    /\ UNCHANGED <<state, attempt, cancel, runs>>

Settled ==
    /\ \/ state = "running" /\ state' \in Ended
       \/ state = "pending" /\ state' \in {"failed", "cancelled", "expired"}
    /\ state' = "succeeded" => stored /\ ~cancel
    /\ UNCHANGED <<attempt, cancel, stored, runs>>

LifecycleNext ==
    \/ Admitted \/ Claimed \/ Released \/ CancelAsked \/ Run
    \/ ResultChanged \/ Settled

LifecycleSpec == Absent /\ [][LifecycleNext]_lifecycle
=============================================================================
