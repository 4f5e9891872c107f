----------------------------- MODULE AtomicBatch -----------------------------
(***************************************************************************)
(* What workspace_mutate promises of a workspace's files: a batch that is  *)
(* asked for takes effect in one step or is given up without a trace, and  *)
(* a batch sent with an idempotency key takes effect at most once.         *)
(* FileTransaction implements this.                                        *)
(***************************************************************************)
EXTENDS FilePlans

CONSTANTS Keys,    \* idempotency keys
          Plans    \* the plans callers ask for

VARIABLES files,   \* the workspace's files
          done,    \* keys whose batch has taken effect
          asked,   \* the last batch asked for, its key and its plan
          open     \* it can still take effect

vars == <<files, done, asked, open>>

Init == /\ files \in Trees
        /\ done = {}
        /\ asked = <<None, <<>>>>
        /\ open = FALSE

Ask(k, p) ==
    /\ ~open
    /\ k \notin done
    /\ asked' = <<k, p>>
    /\ open' = TRUE
    /\ UNCHANGED <<files, done>>

TakeEffect ==
    /\ open
    /\ files' = Effect(asked[2], files)
    /\ done' = done \cup ({asked[1]} \ {None})
    /\ open' = FALSE
    /\ UNCHANGED asked

GiveUp ==
    /\ open
    /\ open' = FALSE
    /\ UNCHANGED <<files, done, asked>>

Next == \/ \E k \in Keys \cup {None}, p \in Plans : Ask(k, p)
        \/ TakeEffect
        \/ GiveUp

Spec == Init /\ [][Next]_vars
=============================================================================
