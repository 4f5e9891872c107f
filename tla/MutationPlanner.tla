--------------------------- MODULE MutationPlanner ---------------------------
(***************************************************************************)
(* _MutationPlanner of application/workspace/mutate_enhanced.py: the       *)
(* operations of a workspace_mutate batch run one after another on virtual *)
(* files, and the net change becomes a transaction plan.  A file is its    *)
(* bytes and its mode.  The engine's promise (FileTransaction) is taken as *)
(* given: a valid plan takes effect as a whole.                            *)
(***************************************************************************)
EXTENDS FilePlans, SequencesExt

CONSTANTS Bytes,        \* file contents without their mode
          Modes,        \* permission bits
          DefaultMode,  \* 0o644
          Heads,        \* trees HEAD can hold
          MaxOps        \* bound: operations in a batch

ASSUME FilesAssumption == /\ IsFiniteSet(Paths)
                          /\ Data = [bytes : Bytes, mode : Modes]
                          /\ DefaultMode \in Modes
                          /\ Heads \subseteq Trees

VARIABLES
    tree,      \* the files on disk, the planner's original values
    head,      \* the snapshot restore reads
    current,   \* the virtual files
    hints,     \* move_hints, in the order the moves were made
    ops        \* bound: operations planned so far

vars == <<tree, head, current, hints, ops>>

Init == /\ tree \in Trees
        /\ head \in Heads
        /\ current = tree /\ hints = <<>> /\ ops = 0

-----------------------------------------------------------------------------
(* The operations; one that raises leaves the planner as it was.           *)

Set(q, c) == /\ ops < MaxOps
             /\ current' = [current EXCEPT ![q] = c]
             /\ ops' = ops + 1
             /\ UNCHANGED <<tree, head, hints>>

\* _replace: new bytes, the mode stays.
ReplaceText(q, b) ==
    /\ current[q] # None
    /\ Set(q, [current[q] EXCEPT !.bytes = b])

\* _write: without preserve_mode the file gets the default mode.
WriteText(q, b, preserve) ==
    /\ current[q] # None
    /\ Set(q, [bytes |-> b, mode |-> IF preserve THEN current[q].mode ELSE DefaultMode])

CreateText(q, b, m) ==
    /\ current[q] = None
    /\ Set(q, [bytes |-> b, mode |-> m])

DeletePath(q) ==
    /\ current[q] # None
    /\ Set(q, None)

MovePath(q, r) ==
    /\ ops < MaxOps
    /\ current[q] # None /\ current[r] = None
    /\ current' = [current EXCEPT ![q] = None, ![r] = current[q]]
    /\ hints' = Append(hints, <<q, r>>)
    /\ ops' = ops + 1
    /\ UNCHANGED <<tree, head>>

\* _patch, one path of it: removed, or written with its mode or the default.
PatchPath(q, b) ==
    Set(q, IF b = None THEN None
           ELSE [bytes |-> b, mode |-> IF current[q] # None THEN current[q].mode ELSE DefaultMode])

\* _restore, one entry of it.
RestorePath(q) == Set(q, head[q])

-----------------------------------------------------------------------------
(* transaction_actions.                                                    *)

\* Mutant: a moved file that was edited afterwards still counts as moved.
HoldsIfPresent(h) == /\ tree[h[1]] # None /\ tree[h[2]] = None
                     /\ current[h[1]] = None /\ current[h[2]] # None

\* A hint still describes the net change of its two paths.
Holds(h) == /\ tree[h[1]] # None /\ tree[h[2]] = None
            /\ current[h[1]] = None /\ current[h[2]] = tree[h[1]]

\* Every hint is tested on its own, repeated ones too: the hints that hold, in
\* the order the moves were made.
Holding ==
    LET kept[k \in 0..Len(hints)] ==
            IF k = 0 THEN <<>>
            ELSE IF Holds(hints[k]) THEN Append(kept[k - 1], hints[k]) ELSE kept[k - 1]
    IN  kept[Len(hints)]

Moves == [k \in DOMAIN Holding |-> Move(Holding[k][1], Holding[k][2])]

Handled == UNION {Touched(Moves[k]) : k \in DOMAIN Moves}

\* WriteFile(preserve_mode=True): the engine gives the new bytes the mode of
\* the file they replace.
Change(q) ==
    CASE tree[q] = None    -> Create(q, current[q])
      [] current[q] = None -> Delete(q)
      [] OTHER             -> Write(q, [current[q] EXCEPT !.mode = tree[q].mode])

TransactionActions ==
    LET changed == SetToSeq({q \in Paths \ Handled : tree[q] # current[q]})
    IN  Moves \o [k \in DOMAIN changed |-> Change(changed[k])]

\* The batch ends: the engine commits the plan, or refuses it untouched.
Commit ==
    /\ ops > 0
    /\ tree' = IF Valid(TransactionActions, tree)
               THEN Steps(TransactionActions, tree)[Len(TransactionActions)] ELSE tree
    /\ current' = tree' /\ hints' = <<>> /\ ops' = 0
    /\ UNCHANGED head

Next == \/ \E q \in Paths, b \in Bytes :
              \/ ReplaceText(q, b)
              \/ \E preserve \in BOOLEAN : WriteText(q, b, preserve)
              \/ \E m \in Modes : CreateText(q, b, m)
        \/ \E q \in Paths : DeletePath(q) \/ RestorePath(q)
        \/ \E q, r \in Paths : MovePath(q, r)
        \/ \E q \in Paths, b \in Bytes \cup {None} : PatchPath(q, b)
        \/ Commit

Spec == Init /\ [][Next]_vars

-----------------------------------------------------------------------------
(* Properties.                                                             *)

Same(f, g) == /\ f = None <=> g = None
              /\ f # None => f.bytes = g.bytes

\* A plan the engine accepts names no path twice, which is what the engine's
\* rollback needs, and leaves exactly the bytes the batch's operations made.
AcceptedPlanIsNetChange ==
    LET p == TransactionActions
    IN  Valid(p, tree) =>
            /\ DisjointPaths(p)
            /\ \A q \in Paths : Same(Steps(p, tree)[Len(p)][q], current[q])

\* A batch whose operations are all "ready" yields a plan the engine accepts.
ReadyBatchAccepted == Valid(TransactionActions, tree)

\* A batch's files get the modes its operations gave them: a write without
\* preserve_mode the default one, a restore the one in HEAD.
ModesTakeEffect ==
    LET p == TransactionActions
    IN  Valid(p, tree) => Steps(p, tree)[Len(p)] = current
=============================================================================
