------------------------ MODULE MCIdempotentEffects ------------------------
(***************************************************************************)
(* An instance of IdempotentEffects for TLC with one key of each kind.     *)
(*                                                                         *)
(* Two keys share nothing but the bound on faults: each has its own lock,  *)
(* record, receipts, operations and effects, and every step names one key. *)
(* So each behaviour here uses one key, whichever the first request names. *)
(***************************************************************************)
EXTENDS IdempotentEffects

CONSTANTS local, lookup, publish, replayable, unkeyed

MCKind ==
    [k \in Keys |-> CASE k = local -> "local" [] k = lookup -> "lookup"
                      [] k = publish -> "publish" [] k = replayable -> "replayable"
                      [] OTHER -> "unkeyed"]

Only(k) == \A j \in Keys \ {k} : attempts[j] = 0

OneKeyNext ==
    \E k \in Keys :
        \/ Proceed(k) \/ Misfortune(k) \/ Age(k) \/ Startup(k)
        \/ Only(k) /\ Request(k)

OneKeySpec ==
    /\ Init /\ [][OneKeyNext]_vars
    /\ \A k \in Keys : Fairness(k) /\ WF_vars(Only(k) /\ Request(k))
====
