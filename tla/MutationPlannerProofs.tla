------------------------ MODULE MutationPlannerProofs ------------------------
(***************************************************************************)
(* Proofs about the planner of a workspace_mutate batch, for any finite    *)
(* set of paths, any files and batches of any length: a plan the engine    *)
(* accepts names no path twice and is the net change of the batch.  The    *)
(* recursive definitions are reasoned about by induction over a set.       *)
(***************************************************************************)
EXTENDS MutationPlanner, FiniteSetTheorems, TLAPS

-----------------------------------------------------------------------------
(* Induction, and what a recursive function on 0..n is.                    *)

\* A nonempty set of natural numbers has a least element.
LEMMA LeastElement ==
    ASSUME NEW T, T \subseteq Nat, T # {}
    PROVE  \E m \in T : \A k \in T : m <= k
<1>1. PICK m \in T : \A k \in T : ~(<<k, m>> \in OpToRel(<, Nat))
    BY WFMin, NatLessThanWellFounded, Zenon
<1>2. ASSUME NEW k \in T PROVE m <= k
    <2>1. CASE k < m
        <3>1. <<k, m>> \in OpToRel(<, Nat)
            BY <2>1 DEF OpToRel
        <3> QED BY <1>1, <3>1, Zenon
    <2>2. CASE ~(k < m)
        BY <2>2
    <2> QED BY <2>1, <2>2
<1> QED BY <1>2

\* One that is bounded has a greatest element.
LEMMA GreatestElement ==
    ASSUME NEW n \in Nat, NEW T, T \subseteq 0..n, T # {}
    PROVE  \E m \in T : \A k \in T : k <= m
<1> DEFINE B == {b \in Nat : \A k \in T : k <= b}
<1>1. PICK m \in B : \A k \in B : m <= k
    <2>1. B \subseteq Nat /\ n \in B
        OBVIOUS
    <2> HIDE DEF B
    <2> QED BY <2>1, LeastElement
<1>2. CASE m \in T
    BY <1>1, <1>2
<1>3. CASE m \notin T
    <2>1. PICK k \in T : TRUE
        OBVIOUS
    <2>2. \A l \in T : l <= m - 1
        BY <1>1, <1>3
    <2>3. m - 1 \in B
        BY <1>1, <2>1, <2>2
    <2> QED BY <1>1, <2>3
<1> QED BY <1>2, <1>3

\* A set that has 0 and, with a number, the next one has them all.
LEMMA SetInduction ==
    ASSUME NEW S, 0 \in S, \A n \in Nat : n \in S => n + 1 \in S
    PROVE  Nat \subseteq S
<1> DEFINE T == Nat \ S
<1>1. SUFFICES ASSUME T # {} PROVE FALSE
    OBVIOUS
<1>2. PICK m \in T : \A k \in T : m <= k
    <2>1. T \subseteq Nat
        OBVIOUS
    <2> HIDE DEF T
    <2> QED BY <1>1, <2>1, LeastElement
<1>3. m \in Nat /\ m # 0 /\ m \notin S
    BY <1>2
<1>4. m - 1 \in T
    BY <1>3
<1> QED BY <1>2, <1>3, <1>4

\* The same up to a bound.
LEMMA RangeInduction ==
    ASSUME NEW n \in Nat, NEW S, 0 \in S,
           \A k \in 0..n : k < n /\ k \in S => k + 1 \in S
    PROVE  0..n \subseteq S
<1> DEFINE T == {k \in Nat : k <= n => k \in S}
<1>1. 0 \in T
    OBVIOUS
<1>2. \A k \in Nat : k \in T => k + 1 \in T
    OBVIOUS
<1>3. Nat \subseteq T
    <2> HIDE DEF T
    <2> QED BY <1>1, <1>2, SetInduction
<1> QED BY <1>3

\* A step function determines the values 0 to n of a recursion.
Recursion(g, n, base, step) ==
    /\ g[0] = base
    /\ \A k \in 1..n : g[k] = step[<<k, g[k - 1]>>]

LEMMA RecursionExists ==
    ASSUME NEW n \in Nat, NEW S, NEW base \in S,
           NEW step \in [(1..n) \X S -> S]
    PROVE  \E g \in [0..n -> S] : Recursion(g, n, base, step)
<1> DEFINE T == {m \in 0..n : \E g \in [0..m -> S] : Recursion(g, m, base, step)}
<1>1. 0 \in T
    <2> DEFINE g == [k \in 0..0 |-> base]
    <2>1. g \in [0..0 -> S] /\ g[0] = base /\ \A k \in 1..0 : g[k] = step[<<k, g[k - 1]>>]
        OBVIOUS
    <2>2. Recursion(g, 0, base, step)
        BY <2>1 DEF Recursion
    <2> HIDE DEF g
    <2> QED BY <2>1, <2>2
<1>2. ASSUME NEW m \in 0..n, m < n, m \in T PROVE m + 1 \in T
    <2>1. PICK g \in [0..m -> S] : Recursion(g, m, base, step)
        BY <1>2
    <2> DEFINE h == [k \in 0..(m + 1) |-> IF k = m + 1 THEN step[<<k, g[m]>>] ELSE g[k]]
    <2>2. g[m] \in S /\ m + 1 \in 1..n /\ <<m + 1, g[m]>> \in (1..n) \X S
        BY <1>2
    <2>3. step[<<m + 1, g[m]>>] \in S
        BY <2>2
    <2>4. h \in [0..(m + 1) -> S]
        BY <2>3, <1>2
    <2>5. h[0] = base
        BY <2>1, <1>2 DEF Recursion
    <2>6. ASSUME NEW k \in 1..(m + 1) PROVE h[k] = step[<<k, h[k - 1]>>]
        <3>1. CASE k = m + 1
            <4>1. h[k] = step[<<k, g[m]>>] /\ h[k - 1] = g[m]
                BY <3>1, <1>2
            <4> QED BY <4>1
        <3>2. CASE k # m + 1
            <4>1. k \in 1..m /\ h[k] = g[k] /\ h[k - 1] = g[k - 1]
                BY <3>2, <2>6, <1>2
            <4>2. g[k] = step[<<k, g[k - 1]>>]
                BY <4>1, <2>1 DEF Recursion
            <4> QED BY <4>1, <4>2
        <3> QED BY <3>1, <3>2
    <2>7. Recursion(h, m + 1, base, step)
        BY <2>5, <2>6 DEF Recursion
    <2>8. m + 1 \in 0..n
        BY <1>2
    <2> HIDE DEF h
    <2> QED BY <2>4, <2>7, <2>8
<1>3. 0..n \subseteq T
    <2> HIDE DEF T
    <2> QED BY <1>1, <1>2, RangeInduction
<1> QED BY <1>3

\* What holds of the first value and is handed on from each to the next holds
\* of all.
LEMMA RecursionKeeps ==
    ASSUME NEW n \in Nat, NEW S, NEW g, g[0] \in S,
           \A k \in 1..n : g[k - 1] \in S => g[k] \in S
    PROVE  \A k \in 0..n : g[k] \in S
<1> DEFINE T == {k \in 0..n : g[k] \in S}
<1>1. 0 \in T
    OBVIOUS
<1>2. ASSUME NEW k \in 0..n, k < n, k \in T PROVE k + 1 \in T
    <2>1. k + 1 \in 1..n /\ (k + 1) - 1 = k /\ g[k] \in S
        BY <1>2
    <2>2. g[k + 1] \in S
        BY <2>1
    <2> QED BY <2>1, <2>2
<1>3. 0..n \subseteq T
    <2> HIDE DEF T
    <2> QED BY <1>1, <1>2, RangeInduction
<1> QED BY <1>3

-----------------------------------------------------------------------------
(* The trees a plan passes through.                                        *)

LEMMA AfterType ==
    ASSUME NEW a \in FileActions, NEW t \in Trees
    PROVE  After(a, t) \in Trees
<1>1. a.path \in Paths /\ a.dest \in Paths /\ a.data \in Content /\ t[a.path] \in Content
    BY DEF FileActions, Trees
<1>2. None \in Content
    BY DEF Content
<1> QED BY <1>1, <1>2 DEF After, Trees

\* Steps is what its recursion says: the tree the plan starts from, and then
\* every action on what the one before it left.
LEMMA StepsDefined ==
    ASSUME NEW p \in Seq(FileActions), NEW t \in Trees
    PROVE  /\ Steps(p, t) \in [0..Len(p) -> Trees]
           /\ Steps(p, t)[0] = t
           /\ \A k \in 1..Len(p) : Steps(p, t)[k] = After(p[k], Steps(p, t)[k - 1])
<1> DEFINE n == Len(p)
           step == [x \in (1..n) \X Trees |-> After(p[x[1]], x[2])]
           g == CHOOSE f : f = [k \in 0..n |-> IF k = 0 THEN t ELSE After(p[k], f[k - 1])]
<1>0. Steps(p, t) = g
    BY DEF Steps
<1> SUFFICES /\ g \in [0..n -> Trees]
             /\ g[0] = t
             /\ \A k \in 1..n : g[k] = After(p[k], g[k - 1])
    BY <1>0
<1>1. n \in Nat /\ \A k \in 1..n : p[k] \in FileActions
    OBVIOUS
<1>2. step \in [(1..n) \X Trees -> Trees]
    BY <1>1, AfterType
<1>3. PICK h \in [0..n -> Trees] : Recursion(h, n, t, step)
    <2> HIDE DEF n, step
    <2> QED BY <1>1, <1>2, RecursionExists
<1>4. h = [k \in 0..n |-> IF k = 0 THEN t ELSE After(p[k], h[k - 1])]
    BY <1>1, <1>3 DEF Recursion
<1>5. g = [k \in 0..n |-> IF k = 0 THEN t ELSE After(p[k], g[k - 1])]
    BY <1>4
<1> HIDE DEF g, n
<1>6. DOMAIN g = 0..n /\ g[0] = t /\ \A k \in 1..n : g[k] = After(p[k], g[k - 1])
    BY <1>1, <1>5
<1>7. \A k \in 1..n : g[k - 1] \in Trees => g[k] \in Trees
    BY <1>1, <1>6, AfterType
<1>8. \A k \in 0..n : g[k] \in Trees
    BY <1>1, <1>6, <1>7, RecursionKeeps
<1>9. g \in [0..n -> Trees]
    BY <1>5, <1>6, <1>8
<1> QED BY <1>6, <1>9

\* A path no action from i + 1 to j touches has the same content at i and j.
LEMMA StepsUntouched ==
    ASSUME NEW p \in Seq(FileActions), NEW t \in Trees, NEW q \in Paths,
           NEW i \in 0..Len(p), NEW j \in i..Len(p),
           \A k \in (i + 1)..j : q \notin Touched(p[k])
    PROVE  Steps(p, t)[j][q] = Steps(p, t)[i][q]
<1> DEFINE n == j - i
           s == Steps(p, t)
           g == [m \in 0..n |-> s[i + m][q]]
<1>1. n \in Nat /\ Len(p) \in Nat /\ i \in Nat /\ j \in Nat /\ i + n = j
    OBVIOUS
<1>2. s \in [0..Len(p) -> Trees] /\ \A k \in 1..Len(p) : s[k] = After(p[k], s[k - 1])
    BY StepsDefined
<1> HIDE DEF s
<1>3. ASSUME NEW m \in 1..n PROVE g[m] = g[m - 1]
    <2>1. i + m \in 1..Len(p) /\ i + m \in (i + 1)..j /\ (i + m) - 1 \in 0..Len(p) /\ m - 1 \in 0..n
        BY <1>1
    <2>2. PICK k \in 1..Len(p) : k = i + m
        BY <2>1
    <2>3. s[k] = After(p[k], s[k - 1]) /\ s[k - 1] \in Trees /\ q \notin Touched(p[k])
        BY <1>2, <2>1, <2>2
    <2>4. p[k] \in FileActions
        OBVIOUS
    <2>5. After(p[k], s[k - 1])[q] = s[k - 1][q]
        BY <2>3, <2>4 DEF After, Touched, Trees, FileActions
    <2>6. k - 1 = i + (m - 1)
        BY <1>1, <2>2
    <2> QED BY <2>1, <2>2, <2>3, <2>5, <2>6
<1> DEFINE V == {s[i][q]}
<1>4. g[0] \in V /\ \A m \in 1..n : g[m - 1] \in V => g[m] \in V
    <2>1. g[0] = s[i][q]
        BY <1>1
    <2> HIDE DEF g
    <2> QED BY <1>3, <2>1
<1>5. \A m \in 0..n : g[m] \in V
    <2> HIDE DEF g, n, V
    <2> QED BY <1>1, <1>4, RecursionKeeps
<1>6. g[n] = s[j][q]
    BY <1>1
<1>7. n \in 0..n
    BY <1>1
<1> HIDE DEF g, n
<1> QED BY <1>5, <1>6, <1>7 DEF s

\* What a touched path holds right after its action, if the paths the action
\* names held before it what they hold in t.
LEMMA AfterOutcome ==
    ASSUME NEW a \in FileActions, NEW t \in Trees, NEW u \in Trees, NEW q \in Touched(a),
           WellFormed(a), t[a.path] = u[a.path]
    PROVE  After(a, u)[q] = Outcome(a, q, t)
BY DEF After, Outcome, Touched, Trees, FileActions, WellFormed

\* Applying the actions of a plan one after another, as the engine does, gives
\* the tree Effect states path by path, if no path is named twice: the order of
\* the actions does not matter.
THEOREM StepsReachEffect ==
    ASSUME NEW p \in Seq(FileActions), NEW t \in Trees, DisjointPaths(p),
           \A k \in 1..Len(p) : WellFormed(p[k])
    PROVE  Steps(p, t)[Len(p)] = Effect(p, t)
<1> DEFINE s == Steps(p, t)
           n == Len(p)
<1>1. n \in Nat /\ DOMAIN p = 1..n /\ \A k \in 1..n : p[k] \in FileActions
    OBVIOUS
<1>2. s \in [0..n -> Trees] /\ s[0] = t /\ \A k \in 1..n : s[k] = After(p[k], s[k - 1])
    BY StepsDefined
<1>3. \A i \in 0..n, j \in 0..n, q \in Paths :
          i <= j /\ (\A k \in (i + 1)..j : q \notin Touched(p[k])) => s[j][q] = s[i][q]
    BY <1>1, StepsUntouched
<1> HIDE DEF s
<1>4. ASSUME NEW q \in Paths PROVE s[n][q] = Effect(p, t)[q]
    <2> DEFINE hits == {k \in DOMAIN p : q \in Touched(p[k])}
    <2>1. CASE hits = {}
        <3>1. s[n][q] = s[0][q]
            BY <1>1, <1>3, <2>1
        <3> QED BY <1>2, <2>1, <3>1 DEF Effect
    <2>2. CASE hits # {}
        <3> DEFINE c == CHOOSE k \in hits : TRUE
        <3>1. c \in hits
            BY <2>2
        <3>2. Effect(p, t)[q] = Outcome(p[c], q, t)
            BY <2>2 DEF Effect
        <3> HIDE DEF c
        <3>3. c \in 1..n /\ q \in Touched(p[c]) /\ c - 1 \in 0..n /\ p[c] \in FileActions
            BY <1>1, <3>1
        <3>4. \A k \in 1..n : k # c => Touched(p[k]) \cap Touched(p[c]) = {}
            BY <1>1, <3>3 DEF DisjointPaths
        <3>5. p[c].path \in Paths /\ p[c].path \in Touched(p[c])
            BY <3>3 DEF FileActions, Touched
        <3>6. s[c - 1][p[c].path] = t[p[c].path]
            <4>1. \A k \in (0 + 1)..(c - 1) : p[c].path \notin Touched(p[k])
                BY <1>1, <3>3, <3>4, <3>5
            <4>2. 0 \in 0..n /\ 0 <= c - 1
                BY <1>1, <3>3
            <4>3. s[c - 1][p[c].path] = s[0][p[c].path]
                BY <1>3, <3>3, <3>5, <4>1, <4>2
            <4> QED BY <1>2, <4>3
        <3>7. s[c][q] = Outcome(p[c], q, t)
            <4>1. s[c] = After(p[c], s[c - 1]) /\ s[c - 1] \in Trees
                BY <1>2, <3>3
            <4> QED BY <3>3, <3>6, <4>1, AfterOutcome
        <3>8. s[n][q] = s[c][q]
            <4>1. \A k \in (c + 1)..n : q \notin Touched(p[k])
                BY <1>1, <3>3, <3>4
            <4> QED BY <1>1, <1>3, <3>3, <4>1
        <3> QED BY <3>2, <3>7, <3>8
    <2> QED BY <2>1, <2>2
<1>5. s[n] \in [Paths -> Content] /\ Effect(p, t) = [q \in Paths |-> Effect(p, t)[q]]
    BY <1>1, <1>2 DEF Trees, Effect
<1> QED BY <1>4, <1>5 DEF s

-----------------------------------------------------------------------------
(* The planner's state, and the plan it builds.                            *)

\* The planner's files are trees, and a hint is a pair of paths.
Planned == /\ tree \in Trees /\ head \in Trees /\ current \in Trees
           /\ hints \in Seq(Paths \X Paths)

\* The hints the plan takes its moves from hold.
LEMMA HoldingHold ==
    ASSUME Planned
    PROVE  Holding \in Seq({h \in Paths \X Paths : Holds(h)})
<1> DEFINE n == Len(hints)
           Kept == {h \in Paths \X Paths : Holds(h)}
           Z == Seq(Kept)
           add(k, s) == IF Holds(hints[k]) THEN Append(s, hints[k]) ELSE s
           step == [x \in (1..n) \X Z |-> add(x[1], x[2])]
           g == CHOOSE f : f = [k \in 0..n |-> IF k = 0 THEN <<>> ELSE add(k, f[k - 1])]
<1>0. Holding = g[n]
    BY DEF Holding
<1>1. n \in Nat /\ \A k \in 1..n : hints[k] \in Paths \X Paths
    BY DEF Planned
<1>2. <<>> \in Z
    OBVIOUS
<1>3. \A k \in 1..n : Holds(hints[k]) => hints[k] \in Kept
    BY <1>1
<1>4. ASSUME NEW k \in 1..n, NEW s \in Z PROVE add(k, s) \in Z
    <2> HIDE DEF Kept
    <2> QED BY <1>3
<1> SUFFICES Holding \in Z
    OBVIOUS
<1> HIDE DEF Z, n, add
<1>5. step \in [(1..n) \X Z -> Z]
    BY <1>4
<1>6. PICK h \in [0..n -> Z] : Recursion(h, n, <<>>, step)
    <2> HIDE DEF step
    <2> QED BY <1>1, <1>2, <1>5, RecursionExists
<1>7. h = [k \in 0..n |-> IF k = 0 THEN <<>> ELSE add(k, h[k - 1])]
    <2>1. ASSUME NEW k \in 1..n PROVE h[k] = add(k, h[k - 1])
        <3>1. k - 1 \in 0..n
            BY <1>1
        <3>2. h[k - 1] \in Z
            BY <1>6, <3>1
        <3>3. h[k] = step[<<k, h[k - 1]>>]
            <4> HIDE DEF step
            <4> QED BY <1>6 DEF Recursion
        <3> QED BY <3>2, <3>3
    <2> QED BY <1>1, <1>6, <2>1 DEF Recursion
<1>8. g = [k \in 0..n |-> IF k = 0 THEN <<>> ELSE add(k, g[k - 1])]
    BY <1>7
<1> HIDE DEF g
<1>9. g[0] \in Z /\ \A k \in 1..n : g[k - 1] \in Z => g[k] \in Z
    <2>1. g[0] = <<>> /\ \A k \in 1..n : g[k] = add(k, g[k - 1])
        BY <1>1, <1>8
    <2> QED BY <1>2, <1>4, <2>1
<1>10. \A k \in 0..n : g[k] \in Z
    BY <1>1, <1>9, RecursionKeeps
<1> QED BY <1>0, <1>1, <1>10

\* A finite set listed in some order: every element once.
LEMMA SetToSeqLists ==
    ASSUME NEW S, IsFiniteSet(S)
    PROVE  /\ SetToSeq(S) \in Seq(S)
           /\ \A i, j \in DOMAIN SetToSeq(S) : SetToSeq(S)[i] = SetToSeq(S)[j] => i = j
           /\ \A x \in S : \E i \in DOMAIN SetToSeq(S) : SetToSeq(S)[i] = x
<1> DEFINE n == Cardinality(S)
           f == SetToSeq(S)
<1>1. n \in Nat /\ ExistsBijection(1..n, S)
    BY FS_CardinalityType
<1>2. \E g \in [1..n -> S] : IsInjective(g)
    BY <1>1 DEF ExistsBijection, Bijection, Injection
<1>3. f \in [1..n -> S] /\ IsInjective(f)
    BY <1>2 DEF SetToSeq
<1> HIDE DEF f
<1>4. f \in Injection(1..n, S)
    BY <1>3 DEF Injection
<1>5. IsFiniteSet(1..n) /\ Cardinality(1..n) = n
    BY <1>1, FS_Interval
<1>6. f \in Surjection(1..n, S)
    BY <1>4, <1>5, FS_Injection
<1>7. DOMAIN f = 1..n /\ f \in Seq(S)
    BY <1>1, <1>3
<1>8. \A i, j \in DOMAIN f : f[i] = f[j] => i = j
    BY <1>3 DEF IsInjective
<1>9. \A x \in S : \E i \in DOMAIN f : f[i] = x
    BY <1>6, <1>7 DEF Surjection
<1> QED BY <1>7, <1>8, <1>9 DEF f

\* A move that is the net change of its two paths.
NetMove(a) ==
    /\ a \in FileActions /\ a.kind = "move"
    /\ tree[a.path] # None /\ tree[a.dest] = None
    /\ current[a.path] = None /\ current[a.dest] = tree[a.path]

LEMMA MovesAreNet ==
    ASSUME Planned
    PROVE  /\ Moves \in Seq(FileActions)
           /\ \A k \in 1..Len(Moves) : NetMove(Moves[k])
<1> DEFINE Kept == {h \in Paths \X Paths : Holds(h)}
           n == Len(Holding)
<1>1. n \in Nat /\ DOMAIN Holding = 1..n /\ \A k \in 1..n : Holding[k] \in Kept
    BY HoldingHold
<1>2. ASSUME NEW k \in 1..n PROVE NetMove(Move(Holding[k][1], Holding[k][2]))
    <2>1. PICK h \in Paths \X Paths : h = Holding[k] /\ Holds(h)
        BY <1>1
    <2>2. h[1] \in Paths /\ h[2] \in Paths
        BY <2>1
    <2>3. NetMove(Move(h[1], h[2]))
        BY <2>1, <2>2 DEF Holds, NetMove, Move, FileActions, Kinds, Content
    <2> QED BY <2>1, <2>3
<1> HIDE DEF Kept
<1>3. Moves = [k \in 1..n |-> Move(Holding[k][1], Holding[k][2])]
    BY <1>1 DEF Moves
<1>4. Moves \in Seq(FileActions) /\ Len(Moves) = n
    BY <1>1, <1>2, <1>3 DEF NetMove
<1> QED BY <1>2, <1>3, <1>4

\* The action planned for a changed path: its own path only, and a content
\* with the bytes the batch left there.
LEMMA ChangeIsNet ==
    ASSUME Planned, NEW q \in Paths, tree[q] # current[q]
    PROVE  /\ Change(q) \in FileActions /\ WellFormed(Change(q))
           /\ Change(q).kind # "move" /\ Change(q).path = q /\ Touched(Change(q)) = {q}
           /\ Same(Outcome(Change(q), q, tree), current[q])
<1>1. tree[q] \in Content /\ current[q] \in Content
    BY DEF Planned, Trees
<1>2. CASE tree[q] = None
    <2>1. Change(q) = Create(q, current[q]) /\ current[q] \in Data
        BY <1>1, <1>2 DEF Change, Content
    <2> QED BY <2>1, <1>1, NoneAssumption
        DEF Create, FileActions, Kinds, WellFormed, Touched, Outcome, Same
<1>3. CASE tree[q] # None /\ current[q] = None
    <2>1. Change(q) = Delete(q)
        BY <1>3 DEF Change
    <2> QED BY <2>1, <1>3 DEF Delete, FileActions, Kinds, WellFormed, Touched, Outcome, Same, Content
<1>4. CASE tree[q] # None /\ current[q] # None
    <2> DEFINE d == [current[q] EXCEPT !.mode = tree[q].mode]
    <2>1. Change(q) = Write(q, d)
        BY <1>4 DEF Change
    <2>2. tree[q] \in [bytes : Bytes, mode : Modes] /\ current[q] \in [bytes : Bytes, mode : Modes]
        BY <1>1, <1>4, FilesAssumption DEF Content
    <2>3. d \in [bytes : Bytes, mode : Modes] /\ d.bytes = current[q].bytes
        BY <2>2
    <2>4. d \in Data /\ d # None
        BY <2>3, FilesAssumption, NoneAssumption
    <2> HIDE DEF d
    <2> QED BY <2>1, <2>3, <2>4, <1>4
        DEF Write, FileActions, Kinds, WellFormed, Touched, Outcome, Same, Content
<1> QED BY <1>2, <1>3, <1>4

\* The plan: the moves, then one action for every other changed path.
Rest == {q \in Paths \ Handled : tree[q] # current[q]}

LEMMA PlanShape ==
    ASSUME Planned
    PROVE  LET p == TransactionActions
               m == Len(Moves)
               n == Len(p)
           IN  /\ p \in Seq(FileActions) /\ m \in Nat /\ n \in Nat /\ m <= n
               /\ \A k \in 1..m : p[k] = Moves[k]
               /\ \A k \in (m + 1)..n : p[k].path \in Rest /\ p[k] = Change(p[k].path)
               /\ \A k, l \in (m + 1)..n : p[k].path = p[l].path => k = l
               /\ \A q \in Rest : \E k \in (m + 1)..n : p[k] = Change(q)
<1> DEFINE p == TransactionActions
           m == Len(Moves)
           c == SetToSeq(Rest)
           d == [k \in DOMAIN c |-> Change(c[k])]
           l == Len(c)
<1>1. IsFiniteSet(Rest) /\ Rest \subseteq Paths
    <2>1. Rest \in SUBSET Paths
        BY DEF Rest
    <2> QED BY <2>1, FilesAssumption, FS_Subset
<1>2. /\ c \in Seq(Rest)
      /\ \A i, j \in DOMAIN c : c[i] = c[j] => i = j
      /\ \A x \in Rest : \E i \in DOMAIN c : c[i] = x
    BY <1>1, SetToSeqLists
<1>3. p = Moves \o d
    BY DEF TransactionActions, Rest
<1> HIDE DEF c, p
<1>4. l \in Nat /\ DOMAIN c = 1..l /\ \A k \in 1..l : c[k] \in Rest
    BY <1>2
<1>5. \A k \in 1..l : Change(c[k]) \in FileActions /\ Change(c[k]).path = c[k]
    BY <1>1, <1>4, ChangeIsNet DEF Rest
<1>6. d = [k \in 1..l |-> Change(c[k])]
    BY <1>4
<1>7. d \in Seq(FileActions) /\ Len(d) = l /\ \A k \in 1..l : d[k] = Change(c[k])
    BY <1>4, <1>5, <1>6
<1> HIDE DEF d, l
<1>8. Moves \in Seq(FileActions) /\ m \in Nat
    BY MovesAreNet
<1> DEFINE n == Len(p)
<1>9. p \in Seq(FileActions) /\ n = m + l
    <2>1. Moves \o d \in Seq(FileActions) /\ Len(Moves \o d) = Len(Moves) + Len(d)
        BY <1>7, <1>8
    <2> QED BY <1>3, <1>7, <2>1
<1>10. \A k \in 1..m : p[k] = Moves[k]
    BY <1>3, <1>4, <1>7, <1>8
<1>11. ASSUME NEW k \in (m + 1)..n
       PROVE  k - m \in 1..l /\ p[k] = Change(c[k - m])
    <2>1. k - m \in 1..l
        BY <1>4, <1>8, <1>9
    <2>2. p[k] = d[k - m]
        BY <1>3, <1>4, <1>7, <1>8, <1>9
    <2> QED BY <2>1, <2>2, <1>7
<1> HIDE DEF m, n
<1>12. ASSUME NEW k \in (m + 1)..n
       PROVE  p[k].path = c[k - m] /\ c[k - m] \in Rest /\ p[k] = Change(p[k].path)
    BY <1>4, <1>5, <1>11
<1>13. ASSUME NEW i \in (m + 1)..n, NEW j \in (m + 1)..n, p[i].path = p[j].path PROVE i = j
    <2>1. c[i - m] = c[j - m] /\ i - m \in 1..l /\ j - m \in 1..l
        BY <1>11, <1>12, <1>13
    <2>2. i - m = j - m
        BY <1>2, <1>4, <2>1
    <2> QED BY <1>8, <1>4, <1>9, <2>2
<1>14. ASSUME NEW q \in Rest PROVE \E k \in (m + 1)..n : p[k] = Change(q)
    <2>1. PICK i \in 1..l : c[i] = q
        BY <1>2, <1>4
    <2>2. i + m \in (m + 1)..n /\ (i + m) - m = i
        BY <1>4, <1>8, <1>9
    <2>3. p[i + m] = Change(q)
        BY <1>11, <2>1, <2>2
    <2> QED BY <2>2, <2>3
<1>15. n \in Nat /\ m <= n
    BY <1>4, <1>8, <1>9
<1> QED BY <1>8, <1>9, <1>10, <1>12, <1>13, <1>14, <1>15 DEF m, n, p

-----------------------------------------------------------------------------
(* An accepted plan.                                                       *)

\* What _virtual_exists says of a path that earlier actions touch: what the
\* last of them left there.
LEMMA VirtualAfterEarlier ==
    ASSUME NEW p \in Seq(FileActions), NEW i \in 1..Len(p), NEW j \in 1..Len(p), i < j,
           NEW q \in Touched(p[i])
    PROVE  \E c \in 1..Len(p) : /\ c < j /\ q \in Touched(p[c])
                                /\ VirtualExists(p, j, q, tree) = Leaves(p[c], q)
<1> DEFINE earlier == {k \in DOMAIN p : k < j /\ q \in Touched(p[k])}
           last == CHOOSE k \in earlier : \A l \in earlier : l <= k
<1>1. DOMAIN p = 1..Len(p) /\ Len(p) \in Nat
    OBVIOUS
<1>2. i \in earlier /\ earlier \subseteq 0..Len(p)
    BY <1>1
<1>3. \E k \in earlier : \A l \in earlier : l <= k
    <2> HIDE DEF earlier
    <2> QED BY <1>1, <1>2, GreatestElement
<1>4. last \in earlier
    BY <1>3
<1>5. VirtualExists(p, j, q, tree) = Leaves(p[last], q)
    BY <1>2 DEF VirtualExists
<1> HIDE DEF last
<1> QED BY <1>1, <1>4, <1>5

\* Two moves of an accepted plan share no path: the second would move a file
\* away that is gone, or onto one that is there.
LEMMA AcceptedMovesDisjoint ==
    ASSUME Planned, Valid(TransactionActions, tree),
           NEW i \in 1..Len(Moves), NEW j \in 1..Len(Moves), i < j
    PROVE  Touched(TransactionActions[i]) \cap Touched(TransactionActions[j]) = {}
<1> DEFINE p == TransactionActions
           m == Len(Moves)
<1>1. p \in Seq(FileActions) /\ m \in Nat /\ Len(p) \in Nat /\ m <= Len(p)
      /\ \A k \in 1..m : p[k] = Moves[k]
    BY PlanShape
<1> HIDE DEF p
<1>2. \A k \in 1..m : NetMove(p[k])
    BY <1>1, MovesAreNet
<1>3. SUFFICES ASSUME NEW q \in Touched(p[i]), q \in Touched(p[j]) PROVE FALSE
    BY DEF p
<1>4. i \in 1..Len(p) /\ j \in 1..Len(p) /\ DOMAIN p = 1..Len(p)
    BY <1>1
<1>5. PICK c \in 1..Len(p) : /\ c < j /\ q \in Touched(p[c])
                             /\ VirtualExists(p, j, q, tree) = Leaves(p[c], q)
    BY <1>1, <1>3, <1>4, VirtualAfterEarlier
<1>6. c \in 1..m
    BY <1>1, <1>5
<1>7. Leaves(p[c], q) <=> q = p[c].dest
    BY <1>2, <1>6 DEF NetMove, Leaves
<1>8. /\ p[j].kind = "move" /\ q \in {p[j].path, p[j].dest} /\ q \in {p[c].path, p[c].dest}
      /\ tree[p[j].path] # None /\ tree[p[j].dest] = None
      /\ tree[p[c].path] # None /\ tree[p[c].dest] = None
    BY <1>2, <1>3, <1>5, <1>6 DEF NetMove, Touched
<1>9. VirtualExists(p, j, p[j].path, tree) /\ ~VirtualExists(p, j, p[j].dest, tree)
    BY <1>4, <1>8 DEF Valid, p
<1>10. CASE q = p[j].path
    BY <1>5, <1>7, <1>8, <1>9, <1>10
<1>11. CASE q = p[j].dest
    BY <1>5, <1>7, <1>8, <1>9, <1>11
<1> QED BY <1>8, <1>10, <1>11

\* No path is named twice by an accepted plan.
LEMMA AcceptedDisjoint ==
    ASSUME Planned, Valid(TransactionActions, tree)
    PROVE  DisjointPaths(TransactionActions)
<1> DEFINE p == TransactionActions
           m == Len(Moves)
           n == Len(p)
<1>1. /\ p \in Seq(FileActions) /\ m \in Nat /\ n \in Nat /\ m <= n
      /\ \A k \in 1..m : p[k] = Moves[k]
      /\ \A k \in (m + 1)..n : p[k].path \in Rest /\ p[k] = Change(p[k].path)
      /\ \A k, l \in (m + 1)..n : p[k].path = p[l].path => k = l
    BY PlanShape
<1>2. \A i, j \in 1..m : i < j => Touched(p[i]) \cap Touched(p[j]) = {}
    BY AcceptedMovesDisjoint
<1> HIDE DEF p
<1>3. \A k \in 1..m : Touched(p[k]) \subseteq Handled
    BY <1>1, MovesAreNet DEF Handled
<1> HIDE DEF m, n
<1>4. ASSUME NEW k \in (m + 1)..n
      PROVE  Touched(p[k]) = {p[k].path} /\ p[k].path \notin Handled
    <2>1. p[k].path \in Rest /\ p[k] = Change(p[k].path)
        BY <1>1
    <2>2. PICK q \in Paths : q = p[k].path /\ tree[q] # current[q] /\ q \notin Handled
        BY <2>1 DEF Rest
    <2>3. Touched(Change(q)) = {q}
        BY <2>2, ChangeIsNet
    <2> QED BY <2>1, <2>2, <2>3
<1>5. ASSUME NEW i \in 1..n, NEW j \in 1..n, i < j
      PROVE  Touched(p[i]) \cap Touched(p[j]) = {}
    <2>1. CASE j \in 1..m
        <3>1. i \in 1..m
            BY <1>1, <1>5, <2>1
        <3> QED BY <1>2, <1>5, <2>1, <3>1
    <2>2. CASE i \in 1..m /\ j \in (m + 1)..n
        BY <1>3, <1>4, <2>2
    <2>3. CASE i \in (m + 1)..n
        <3>1. j \in (m + 1)..n /\ i # j
            BY <1>1, <1>5, <2>3
        <3>2. p[i].path # p[j].path
            BY <1>1, <2>3, <3>1
        <3> QED BY <1>4, <2>3, <3>1, <3>2
    <2> QED BY <1>1, <2>1, <2>2, <2>3
<1>6. DOMAIN p = 1..n
    BY <1>1 DEF n
<1>7. ASSUME NEW i \in 1..n, NEW j \in 1..n, i # j
      PROVE  Touched(p[i]) \cap Touched(p[j]) = {}
    <2>1. i < j \/ j < i
        BY <1>1, <1>7
    <2> QED BY <1>5, <2>1
<1> QED BY <1>6, <1>7 DEF DisjointPaths, p

\* The effect of an accepted plan on one path is the batch's.
LEMMA EffectIsNet ==
    ASSUME Planned, DisjointPaths(TransactionActions), NEW q \in Paths
    PROVE  Same(Effect(TransactionActions, tree)[q], current[q])
<1> DEFINE p == TransactionActions
           m == Len(Moves)
           n == Len(p)
           hits == {k \in DOMAIN p : q \in Touched(p[k])}
<1>1. /\ p \in Seq(FileActions) /\ m \in Nat /\ n \in Nat /\ m <= n
      /\ \A k \in 1..m : p[k] = Moves[k]
      /\ \A k \in (m + 1)..n : p[k].path \in Rest /\ p[k] = Change(p[k].path)
      /\ \A r \in Rest : \E k \in (m + 1)..n : p[k] = Change(r)
    BY PlanShape
<1>2. DOMAIN p = 1..n
    BY <1>1
<1>3. DOMAIN Moves = 1..m /\ \A k \in 1..m : NetMove(p[k])
    BY <1>1, MovesAreNet
<1>4. Effect(p, tree)[q] = IF hits = {} THEN tree[q]
                           ELSE Outcome(p[CHOOSE k \in hits : TRUE], q, tree)
    BY DEF Effect
<1> SUFFICES Same(Effect(p, tree)[q], current[q])
    OBVIOUS
<1> HIDE DEF p, m, n
<1>5. CASE hits = {}
    <2>1. q \notin Handled
        <3>1. \A k \in 1..m : q \notin Touched(Moves[k])
            BY <1>1, <1>2, <1>5
        <3> QED BY <1>3, <3>1 DEF Handled
    <2>2. q \notin Rest
        <3>1. ASSUME q \in Rest PROVE FALSE
            <4>1. PICK k \in (m + 1)..n : p[k] = Change(q)
                BY <1>1, <3>1
            <4>2. Touched(p[k]) = {q}
                BY <3>1, <4>1, ChangeIsNet DEF Rest
            <4>3. k \in DOMAIN p
                BY <1>1, <1>2
            <4> QED BY <1>5, <4>2, <4>3
        <3> QED BY <3>1
    <2>3. tree[q] = current[q]
        BY <2>1, <2>2 DEF Rest
    <2> QED BY <1>4, <1>5, <2>3 DEF Same
<1>6. CASE hits # {}
    <2>1. PICK k \in 1..n : q \in Touched(p[k]) /\ Effect(p, tree)[q] = Outcome(p[k], q, tree)
        <3>1. (CHOOSE k \in hits : TRUE) \in hits
            BY <1>6
        <3> QED BY <1>2, <1>4, <1>6, <3>1
    <2>2. CASE k \in 1..m
        <3>1. NetMove(p[k]) /\ q \in {p[k].path, p[k].dest}
            BY <1>3, <2>1, <2>2 DEF Touched
        <3>2. Outcome(p[k], q, tree) = current[q]
            BY <3>1 DEF NetMove, Outcome
        <3> QED BY <2>1, <3>2 DEF Same
    <2>3. CASE k \in (m + 1)..n
        <3>1. p[k].path \in Rest /\ p[k] = Change(p[k].path)
            BY <1>1, <2>3
        <3>2. PICK r \in Paths : r = p[k].path /\ tree[r] # current[r]
            BY <3>1 DEF Rest
        <3>3. Touched(Change(r)) = {r} /\ Same(Outcome(Change(r), r, tree), current[r])
            BY <3>2, ChangeIsNet
        <3> QED BY <2>1, <3>1, <3>2, <3>3
    <2> QED BY <1>1, <2>2, <2>3
<1> QED BY <1>5, <1>6

LEMMA PlannedNetChange ==
    ASSUME Planned
    PROVE  AcceptedPlanIsNetChange
<1> DEFINE p == TransactionActions
<1> SUFFICES ASSUME Valid(p, tree)
             PROVE  /\ DisjointPaths(p)
                    /\ \A q \in Paths : Same(Steps(p, tree)[Len(p)][q], current[q])
    BY DEF AcceptedPlanIsNetChange
<1>1. DisjointPaths(p)
    BY AcceptedDisjoint
<1>2. p \in Seq(FileActions) /\ tree \in Trees
    BY PlanShape DEF Planned
<1>3. \A k \in 1..Len(p) : WellFormed(p[k])
    <2> DEFINE m == Len(Moves)
               n == Len(p)
    <2>1. /\ m \in Nat /\ n \in Nat /\ m <= n
          /\ \A k \in 1..m : p[k] = Moves[k]
          /\ \A k \in (m + 1)..n : p[k].path \in Rest /\ p[k] = Change(p[k].path)
        BY PlanShape
    <2>2. \A k \in 1..m : NetMove(p[k])
        BY <2>1, MovesAreNet
    <2> HIDE DEF p, m, n
    <2>3. \A k \in 1..m : WellFormed(p[k])
        BY <2>2 DEF NetMove, WellFormed
    <2>4. \A k \in (m + 1)..n : WellFormed(p[k])
        BY <2>1, ChangeIsNet DEF Rest
    <2> QED BY <2>1, <2>3, <2>4 DEF n
<1>4. Steps(p, tree)[Len(p)] = Effect(p, tree)
    BY <1>1, <1>2, <1>3, StepsReachEffect
<1>5. \A q \in Paths : Same(Effect(p, tree)[q], current[q])
    BY <1>1, EffectIsNet
<1> QED BY <1>1, <1>4, <1>5

-----------------------------------------------------------------------------
(* The planner keeps its files trees.                                      *)

LEMMA SetKeepsPlanned ==
    ASSUME Planned, NEW q \in Paths, NEW c \in Content, Set(q, c)
    PROVE  Planned'
BY DEF Planned, Set, Trees

LEMMA NextKeepsPlanned ==
    ASSUME Planned, [Next]_vars
    PROVE  Planned'
<1>1. /\ \A q \in Paths : current[q] \in Content /\ head[q] \in Content
      /\ None \in Content /\ DefaultMode \in Modes /\ None \notin Data
      /\ \A b \in Bytes, m \in Modes : [bytes |-> b, mode |-> m] \in Content
      /\ \A f \in Content : f # None => f \in [bytes : Bytes, mode : Modes]
    BY FilesAssumption, NoneAssumption DEF Planned, Trees, Content
<1>2. ASSUME NEW q \in Paths, NEW b \in Bytes, ReplaceText(q, b) PROVE Planned'
    <2>1. [current[q] EXCEPT !.bytes = b] \in Content
        BY <1>1, <1>2, FilesAssumption DEF ReplaceText, Content
    <2> QED BY <1>2, <2>1, SetKeepsPlanned DEF ReplaceText
<1>3. ASSUME NEW q \in Paths, NEW b \in Bytes, NEW preserve \in BOOLEAN, WriteText(q, b, preserve)
      PROVE  Planned'
    <2>1. current[q].mode \in Modes
        BY <1>1, <1>3 DEF WriteText
    <2>2. (IF preserve THEN current[q].mode ELSE DefaultMode) \in Modes
        BY <1>1, <2>1
    <2>3. [bytes |-> b, mode |-> IF preserve THEN current[q].mode ELSE DefaultMode] \in Content
        BY <1>1, <2>2
    <2> QED BY <1>3, <2>3, SetKeepsPlanned DEF WriteText
<1>4. ASSUME NEW q \in Paths, NEW b \in Bytes, NEW m \in Modes, CreateText(q, b, m) PROVE Planned'
    BY <1>1, <1>4, SetKeepsPlanned DEF CreateText
<1>5. ASSUME NEW q \in Paths, DeletePath(q) PROVE Planned'
    BY <1>1, <1>5, SetKeepsPlanned DEF DeletePath
<1>6. ASSUME NEW q \in Paths, RestorePath(q) PROVE Planned'
    BY <1>1, <1>6, SetKeepsPlanned DEF RestorePath
<1>7. ASSUME NEW q \in Paths, NEW r \in Paths, MovePath(q, r) PROVE Planned'
    <2>1. tree' = tree /\ head' = head /\ current' = [current EXCEPT ![q] = None, ![r] = current[q]]
          /\ hints' = Append(hints, <<q, r>>)
        BY <1>7 DEF MovePath
    <2>2. current' \in Trees
        BY <1>1, <2>1 DEF Planned, Trees
    <2>3. hints' \in Seq(Paths \X Paths)
        BY <2>1 DEF Planned
    <2> QED BY <2>1, <2>2, <2>3 DEF Planned
<1>8. ASSUME NEW q \in Paths, NEW b \in Bytes \cup {None}, PatchPath(q, b) PROVE Planned'
    <2>1. CASE b = None
        BY <1>1, <1>8, <2>1, SetKeepsPlanned DEF PatchPath
    <2>2. CASE b # None
        <3> DEFINE m == IF current[q] # None THEN current[q].mode ELSE DefaultMode
        <3>1. Set(q, [bytes |-> b, mode |-> m])
            BY <1>8, <2>2 DEF PatchPath
        <3>2. m \in Modes
            BY <1>1
        <3> QED BY <1>1, <2>2, <3>1, <3>2, SetKeepsPlanned
    <2> QED BY <2>1, <2>2
<1>9. ASSUME Commit PROVE Planned'
    <2> DEFINE p == TransactionActions
    <2>1. p \in Seq(FileActions) /\ Len(p) \in Nat
        BY PlanShape
    <2>2. tree \in Trees
        BY DEF Planned
    <2>3. Steps(p, tree)[Len(p)] \in Trees
        <3> HIDE DEF p
        <3>1. Steps(p, tree) \in [0..Len(p) -> Trees]
            BY <2>1, <2>2, StepsDefined
        <3> QED BY <2>1, <3>1
    <2>4. tree' \in {tree, Steps(p, tree)[Len(p)]}
        BY <1>9 DEF Commit
    <2>5. tree' \in Trees /\ current' = tree' /\ hints' = <<>> /\ head' = head
        BY <1>9, <2>2, <2>3, <2>4 DEF Commit
    <2> QED BY <2>5 DEF Planned
<1>10. CASE UNCHANGED vars
    BY <1>10 DEF Planned, vars
<1> QED BY <1>2, <1>3, <1>4, <1>5, <1>6, <1>7, <1>8, <1>9, <1>10 DEF Next

\* A batch's plan, whatever its operations and however often a file is moved,
\* edited, deleted and restored on the way: if the engine accepts it, it names
\* no path twice and leaves exactly the bytes the operations made.
THEOREM AcceptedPlansAreNetChange == Spec => []AcceptedPlanIsNetChange
<1>1. Init => Planned
    BY FilesAssumption DEF Init, Planned
<1>2. Planned /\ [Next]_vars => Planned'
    BY NextKeepsPlanned
<1>3. Planned => AcceptedPlanIsNetChange
    BY PlannedNetChange
<1> QED BY <1>1, <1>2, <1>3, PTL DEF Spec

=============================================================================
