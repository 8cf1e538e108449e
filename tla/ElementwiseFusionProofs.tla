------------------------ MODULE ElementwiseFusionProofs ------------------------
(***************************************************************************)
(* The pass of ElementwiseFusion on every graph.  The search for ancestors *)
(* is the recursive part: LevelsClose shows that as many levels as there   *)
(* are tensors make it a transitive closure.  FusionInv is the inductive   *)
(* invariant; its part Fusing says how src_ops and dst_ops agree while     *)
(* some groups are fused and others are not.                               *)
(***************************************************************************)
EXTENDS ElementwiseFusion, Recursion, TLAPS

\* What the ops of xs read, and the ops that make one of the tensors ts.
ReadOf(R, xs) == UNION {R[x] : x \in xs}
MadeBy(s, ts) == UNION {s[t] : t \in ts}

\* The levels of a search for ancestors: a level is closed once it holds all that
\* makes what it reads.
Levels(X, R, s, o, n, up) ==
  /\ up \in [0 .. n -> SUBSET X]
  /\ \A k \in 0 .. n :
       up[k] = IF k = 0 THEN MadeBy(s, R[o])
               ELSE up[k - 1] \cup UNION {MadeBy(s, R[x]) : x \in up[k - 1]}

ClosedLevel(R, s, A) == \A x \in A : MadeBy(s, R[x]) \subseteq A

\* A search of as many levels as there are tensors is complete.
LEMMA LevelsClose ==
  ASSUME NEW X, NEW T, IsFiniteSet(T), NEW n \in Nat, Cardinality(T) <= n,
         NEW R \in [X -> SUBSET T], NEW s \in [T -> SUBSET X], NEW o \in X,
         NEW up, Levels(X, R, s, o, n, up)
  PROVE  MadeBy(s, R[o]) \subseteq up[n] /\ ClosedLevel(R, s, up[n])
<1> USE DEF MadeBy
<1>1. up \in [0 .. n -> SUBSET X] /\ up[0] = MadeBy(s, R[o])
  <2>1. 0 \in 0 .. n
    OBVIOUS
  <2> QED
    BY <2>1 DEF Levels
<1>2. \A k \in 0 .. n : k # 0 => /\ k - 1 \in 0 .. n
                                 /\ up[k] = up[k - 1] \cup UNION {MadeBy(s, R[x]) : x \in up[k - 1]}
  BY DEF Levels
<1>3. \A k \in 0 .. n : MadeBy(s, R[o]) \subseteq up[k]
  <2> DEFINE Bad == {k \in 0 .. n : ~(MadeBy(s, R[o]) \subseteq up[k])}
  <2> SUFFICES ASSUME Bad # {} PROVE FALSE
    OBVIOUS
  <2>1. Bad \in SUBSET Nat
    OBVIOUS
  <2>2. PICK k \in Bad : \A l \in Bad : k <= l
    <3> HIDE DEF Bad
    <3> QED
      BY <2>1, Least
  <2>3. k \in 0 .. n /\ k # 0
    BY <1>1
  <2>4. k - 1 \in 0 .. n /\ ~(k <= k - 1)
    BY <2>3
  <2>5. MadeBy(s, R[o]) \subseteq up[k - 1]
    BY <2>2, <2>4
  <2> QED
    BY <1>2, <2>3, <2>5
<1> SUFFICES ASSUME ~ClosedLevel(R, s, up[n]) PROVE FALSE
  BY <1>3
\* A level that is closed stays as it is.
<1>4. \A k \in 0 .. n : ~ClosedLevel(R, s, up[k])
  <2> DEFINE Good == {k \in 0 .. n : ClosedLevel(R, s, up[k])}
  <2> SUFFICES ASSUME Good # {} PROVE FALSE
    OBVIOUS
  <2>1. Good \in SUBSET Nat /\ \A k \in Good : k <= n
    OBVIOUS
  <2>2. PICK k \in Good : \A l \in Good : l <= k
    <3> HIDE DEF Good
    <3> QED
      BY <2>1, Greatest
  <2>3. k \in 0 .. n /\ k # n
    OBVIOUS
  <2>4. k + 1 \in 0 .. n /\ k + 1 # 0 /\ (k + 1) - 1 = k /\ ~(k + 1 <= k)
    BY <2>3
  <2>5. up[k + 1] = up[k] \cup UNION {MadeBy(s, R[x]) : x \in up[k]}
    BY <1>2, <2>4
  <2>6. ClosedLevel(R, s, up[k])
    OBVIOUS
  <2>7. up[k + 1] = up[k]
    BY <2>5, <2>6 DEF ClosedLevel
  <2>8. k + 1 \in Good
    BY <2>4, <2>6, <2>7
  <2> HIDE DEF Good
  <2> QED
    BY <2>2, <2>4, <2>8
\* So every level reads more tensors than the one before.
<1> DEFINE W(k) == R[o] \cup UNION {R[x] : x \in {y \in X : k # 0 /\ y \in up[k - 1]}}
<1>5. \A k \in 0 .. n : W(k) \in SUBSET T
  BY <1>1, <1>2
<1>6. ASSUME NEW k \in 0 .. n, NEW t \in W(k) PROVE s[t] \subseteq up[k]
  <2>1. CASE t \in R[o]
    BY <1>3, <2>1
  <2>2. CASE t \notin R[o]
    <3>1. PICK x \in X : k # 0 /\ x \in up[k - 1] /\ t \in R[x]
      BY <2>2
    <3> QED
      BY <1>2, <3>1
  <2> QED
    BY <2>1, <2>2
<1>7. ASSUME NEW k \in 0 .. n, k # n
      PROVE  W(k) \subseteq W(k + 1) /\ \E t \in W(k + 1) : t \notin W(k)
  <2>1. k + 1 \in 0 .. n /\ k + 1 # 0 /\ (k + 1) - 1 = k
    BY <1>7
  <2>2. W(k) \subseteq W(k + 1)
    <3>1. k # 0 => up[k - 1] \subseteq up[k]
      BY <1>2
    <3> QED
      BY <2>1, <3>1
  <2>3. PICK x \in up[k] : ~(MadeBy(s, R[x]) \subseteq up[k])
    BY <1>4 DEF ClosedLevel
  <2>4. PICK t \in R[x] : ~(s[t] \subseteq up[k])
    BY <2>3
  <2>5. x \in X /\ t \in W(k + 1)
    BY <1>1, <2>1
  <2>6. t \notin W(k)
    BY <1>6, <2>4
  <2> QED
    BY <2>2, <2>5, <2>6
<1> HIDE DEF W
<1>8. \A k \in 0 .. n : IsFiniteSet(W(k)) /\ Cardinality(W(k)) \in Nat /\ Cardinality(W(k)) >= k
  <2>1. \A k \in 0 .. n : IsFiniteSet(W(k)) /\ Cardinality(W(k)) \in Nat
    BY <1>5, FS_Subset, FS_CardinalityType
  <2> DEFINE Bad == {k \in 0 .. n : ~(Cardinality(W(k)) >= k)}
  <2> SUFFICES ASSUME Bad # {} PROVE FALSE
    BY <2>1
  <2>2. Bad \in SUBSET Nat
    OBVIOUS
  <2>3. PICK k \in Bad : \A l \in Bad : k <= l
    <3> HIDE DEF Bad
    <3> QED
      BY <2>2, Least
  <2>4. k \in 0 .. n /\ k # 0 /\ ~(Cardinality(W(k)) >= k)
    BY <2>1
  <2>5. k - 1 \in 0 .. n /\ k - 1 # n /\ (k - 1) + 1 = k /\ ~(k <= k - 1)
    BY <2>4
  <2>6. Cardinality(W(k - 1)) >= k - 1
    <3>1. k - 1 \notin Bad
      <4> HIDE DEF Bad
      <4> QED
        BY <2>3, <2>5
    <3> QED
      BY <2>5, <3>1
  <2>7. W(k - 1) \subseteq W(k) /\ W(k - 1) # W(k)
    <3>1. W(k - 1) \subseteq W((k - 1) + 1) /\ \E t \in W((k - 1) + 1) : t \notin W(k - 1)
      BY <1>7, <2>5
    <3> QED
      BY <2>5, <3>1
  <2>8. Cardinality(W(k - 1)) <= Cardinality(W(k)) /\ Cardinality(W(k)) # Cardinality(W(k - 1))
    BY <2>1, <2>4, <2>7, FS_Subset
  <2> QED
    BY <2>1, <2>4, <2>5, <2>6, <2>8
\* The last one reads all of them, and is not closed.
<1>9. W(n) = T
  <2>1. Cardinality(W(n)) >= n /\ Cardinality(W(n)) \in Nat
    BY <1>8
  <2>2. W(n) \in SUBSET T
    BY <1>5
  <2>3. Cardinality(W(n)) <= Cardinality(T) /\ (Cardinality(T) = Cardinality(W(n)) => T = W(n))
    BY <2>2, FS_Subset
  <2>4. Cardinality(T) \in Nat
    BY FS_CardinalityType
  <2> QED
    BY <2>1, <2>3, <2>4
<1>10. PICK x \in up[n] : ~(MadeBy(s, R[x]) \subseteq up[n])
  BY DEF ClosedLevel
<1>11. PICK t \in R[x] : ~(s[t] \subseteq up[n])
  BY <1>10
<1>12. n \in 0 .. n /\ x \in X /\ t \in T
  BY <1>1
<1> QED
  BY <1>6, <1>9, <1>11, <1>12

\* Nothing but what is needed is found: a level lies in every set that holds the
\* makers of what o reads and is closed itself.
LEMMA LevelsLeast ==
  ASSUME NEW X, NEW n \in Nat, NEW R, NEW s, NEW o, NEW up, Levels(X, R, s, o, n, up),
         NEW A, MadeBy(s, R[o]) \subseteq A, ClosedLevel(R, s, A)
  PROVE  up[n] \subseteq A
<1> DEFINE Bad == {k \in 0 .. n : ~(up[k] \subseteq A)}
<1>1. ASSUME Bad # {} PROVE FALSE
  <2>1. Bad \in SUBSET Nat
    OBVIOUS
  <2>2. PICK k \in Bad : \A l \in Bad : k <= l
    <3> HIDE DEF Bad
    <3> QED
      BY <1>1, <2>1, Least
  <2>3. k \in 0 .. n /\ ~(up[k] \subseteq A)
    OBVIOUS
  <2>4. CASE k = 0
    BY <2>3, <2>4 DEF Levels
  <2>5. CASE k # 0
    <3>1. k - 1 \in 0 .. n /\ ~(k <= k - 1)
      BY <2>3, <2>5
    <3>2. up[k - 1] \subseteq A
      BY <2>2, <3>1
    <3>3. up[k] = up[k - 1] \cup UNION {MadeBy(s, R[x]) : x \in up[k - 1]}
      BY <2>3, <2>5 DEF Levels
    <3> QED
      BY <2>3, <3>2, <3>3 DEF ClosedLevel
  <2> QED
    BY <2>4, <2>5
<1> QED
  BY <1>1

\* Levels can be defined.
LEMMA LevelsExist ==
  ASSUME NEW X, NEW T, NEW n \in Nat, NEW R \in [X -> SUBSET T], NEW s \in [T -> SUBSET X],
         NEW o \in X
  PROVE  \E up : Levels(X, R, s, o, n, up)
<1> DEFINE D == 0 .. n
           V == SUBSET X
           m == [k \in D |-> k]
           G == [z \in D \X [D -> V] |->
                   IF z[1] = 0 THEN MadeBy(s, R[o])
                   ELSE z[2][z[1] - 1] \cup UNION {MadeBy(s, R[x]) : x \in z[2][z[1] - 1]}]
<1>1. V # {} /\ m \in [D -> 0 .. n]
  OBVIOUS
<1>2. \A x \in X : MadeBy(s, R[x]) \in V
  BY DEF MadeBy
<1>3. \A k \in D, f \in [D -> V] :
         G[<<k, f>>] = IF k = 0 THEN MadeBy(s, R[o])
                       ELSE f[k - 1] \cup UNION {MadeBy(s, R[x]) : x \in f[k - 1]}
  OBVIOUS
<1>4. \A k \in D : k # 0 => k - 1 \in D /\ m[k - 1] < m[k]
  OBVIOUS
<1>5. G \in [D \X [D -> V] -> V]
  <2>1. ASSUME NEW k \in D, NEW f \in [D -> V] PROVE G[<<k, f>>] \in V
    BY <1>2, <1>3, <1>4
  <2>2. \A z \in D \X [D -> V] : G[z] \in V
    <3> HIDE DEF G, D, V
    <3> QED
      BY <2>1
  <2>3. G = [z \in D \X [D -> V] |-> G[z]]
    OBVIOUS
  <2> HIDE DEF G, D, V
  <2> QED
    BY <2>2, <2>3
<1>6. ASSUME NEW k \in D, NEW f \in [D -> V], NEW h \in [D -> V],
             \A y \in D : m[y] < m[k] => f[y] = h[y]
      PROVE  G[<<k, f>>] = G[<<k, h>>]
  <2>1. k # 0 => f[k - 1] = h[k - 1]
    <3> HIDE DEF D, V, m
    <3> QED
      BY <1>4, <1>6
  <2> HIDE DEF G, D, V
  <2> QED
    BY <1>3, <2>1
<1>7. Body(D, V, n, m, G)
  <2> HIDE DEF G, D, V, m
  <2> QED
    BY <1>1, <1>5, <1>6, <1>1 DEF Body, D
<1>8. PICK up \in [D -> V] : \A k \in D : up[k] = G[<<k, up>>]
  <2> HIDE DEF G, D, V, m
  <2> QED
    BY <1>7, RecursiveFunction
<1>9. \A k \in D : up[k] = IF k = 0 THEN MadeBy(s, R[o])
                           ELSE up[k - 1] \cup UNION {MadeBy(s, R[x]) : x \in up[k - 1]}
  <2> HIDE DEF G, D, V, m
  <2> QED
    BY <1>3, <1>8
<1> HIDE DEF G
<1> QED
  BY <1>8, <1>9 DEF Levels

-----------------------------------------------------------------------------
\* What an op reads that an op makes, and who makes it.
OpReads == [x \in Present |-> Reads(x) \cap Ops]
Makers  == [t \in Ops |-> src[t]]

\* The graph as it is at any moment: ops of it make its tensors and read them.
WellFormed ==
  /\ NumOps \in Nat
  /\ src \in [Tensors -> SUBSET Present] /\ src[0] = {}
  /\ \A x \in Present : Reads(x) \subseteq Tensors

LEMMA ParentsMake == ASSUME WellFormed, NEW x \in Present PROVE Parents(x) = MadeBy(Makers, OpReads[x])
<1>1. Reads(x) \subseteq (Reads(x) \cap Ops) \cup {0}
  BY DEF WellFormed, Tensors, Ops
<1>2. src[0] = {}
  BY DEF WellFormed
<1> QED
  BY <1>1, <1>2 DEF Parents, MadeBy, Makers, OpReads

\* is_ancestor finds what is above an op, and only that.
LEMMA AncestorsClosed ==
  ASSUME WellFormed, NEW o \in Present
  PROVE  /\ Ancestors(o) \subseteq Present
         /\ Parents(o) \subseteq Ancestors(o)
         /\ \A p \in Ancestors(o) : Parents(p) \subseteq Ancestors(o)
         /\ \A A : Parents(o) \subseteq A /\ (\A p \in A \cap Present : Parents(p) \subseteq A)
                     => Ancestors(o) \subseteq A
<1> DEFINE Solution(f) == f = [n \in 0 .. NumOps |->
                                 IF n = 0 THEN Parents(o)
                                 ELSE LET a == f[n - 1] IN a \cup UNION {Parents(p) : p \in a}]
           up == CHOOSE f : Solution(f)
<1>1. OpReads \in [Present -> SUBSET Ops] /\ Makers \in [Ops -> SUBSET Present] /\ NumOps \in Nat
  BY DEF WellFormed, OpReads, Makers, Tensors, Ops
<1>2. Ancestors(o) = up[NumOps]
  BY DEF Ancestors
<1>3. PICK u : Levels(Present, OpReads, Makers, o, NumOps, u)
  BY <1>1, LevelsExist
<1>4. Solution(u)
  <2>1. \A k \in 0 .. NumOps : k # 0 => k - 1 \in 0 .. NumOps
    BY <1>1
  <2>2. u \in [0 .. NumOps -> SUBSET Present]
    BY <1>3 DEF Levels
  <2>3. ASSUME NEW k \in 0 .. NumOps
        PROVE  u[k] = IF k = 0 THEN Parents(o)
                      ELSE u[k - 1] \cup UNION {Parents(p) : p \in u[k - 1]}
    <3>1. CASE k = 0
      BY <1>3, <3>1, ParentsMake DEF Levels
    <3>2. CASE k # 0
      <4>1. u[k] = u[k - 1] \cup UNION {MadeBy(Makers, OpReads[p]) : p \in u[k - 1]}
        BY <1>3, <3>2 DEF Levels
      <4>2. \A p \in u[k - 1] : Parents(p) = MadeBy(Makers, OpReads[p])
        BY <2>1, <2>2, <3>2, ParentsMake
      <4> QED
        BY <3>2, <4>1, <4>2
    <3> QED
      BY <3>1, <3>2
  <2> QED
    BY <2>2, <2>3
<1>5. Solution(up)
  <2> HIDE DEF Solution
  <2> QED
    BY <1>4
<1>6. Levels(Present, OpReads, Makers, o, NumOps, up)
  <2> HIDE DEF up
  <2>1. \A k \in 0 .. NumOps : k # 0 => k - 1 \in 0 .. NumOps
    BY <1>1
  <2>2. DOMAIN up = 0 .. NumOps
    BY <1>5
  <2>3. \A k \in 0 .. NumOps : up[k] = IF k = 0 THEN Parents(o)
                      ELSE up[k - 1] \cup UNION {Parents(p) : p \in up[k - 1]}
    BY <1>5
  <2> HIDE DEF Solution
  <2>4. \A x \in Present : Parents(x) = MadeBy(Makers, OpReads[x]) /\ Parents(x) \in SUBSET Present
    <3>1. \A x \in Present : Parents(x) = MadeBy(Makers, OpReads[x])
      BY ParentsMake
    <3>2. \A x \in Present : MadeBy(Makers, OpReads[x]) \in SUBSET Present
      BY <1>1 DEF MadeBy
    <3> QED
      BY <3>1, <3>2
  <2>5. \A k \in 0 .. NumOps : up[k] \in SUBSET Present
    <3> DEFINE Bad == {k \in 0 .. NumOps : up[k] \notin SUBSET Present}
    <3> SUFFICES ASSUME Bad # {} PROVE FALSE
      OBVIOUS
    <3>1. Bad \in SUBSET Nat
      OBVIOUS
    <3>2. PICK k \in Bad : \A l \in Bad : k <= l
      <4> HIDE DEF Bad
      <4> QED
        BY <3>1, Least
    <3>3. CASE k = 0
      BY <2>3, <2>4, <3>3
    <3>4. CASE k # 0
      <4>1. k - 1 \in 0 .. NumOps /\ ~(k <= k - 1)
        <5>1. k \in 0 .. NumOps /\ NumOps \in Nat
          BY <1>1
        <5> QED
          BY <3>4, <5>1
      <4>2. up[k - 1] \in SUBSET Present
        BY <3>2, <4>1
      <4>3. up[k] = up[k - 1] \cup UNION {Parents(p) : p \in up[k - 1]}
        BY <2>3, <3>4
      <4>4. \A p \in up[k - 1] : Parents(p) \in SUBSET Present
        BY <2>4, <4>2
      <4>5. up[k] \in SUBSET Present
        BY <4>2, <4>3, <4>4
      <4> QED
        BY <4>5
    <3> QED
      BY <3>3, <3>4
  <2>6. \A k \in 0 .. NumOps : up[k] = IF k = 0 THEN MadeBy(Makers, OpReads[o])
                      ELSE up[k - 1] \cup UNION {MadeBy(Makers, OpReads[p]) : p \in up[k - 1]}
    <3> TAKE k \in 0 .. NumOps
    <3>1. CASE k = 0
      BY <2>3, <2>4, <3>1
    <3>2. CASE k # 0
      <4>1. up[k] = up[k - 1] \cup UNION {Parents(p) : p \in up[k - 1]}
        BY <2>3, <3>2
      <4>2. \A p \in up[k - 1] : Parents(p) = MadeBy(Makers, OpReads[p])
        BY <2>1, <2>4, <2>5, <3>2
      <4> QED
        BY <3>2, <4>1, <4>2
    <3> QED
      BY <3>1, <3>2
  <2>7. up = [k \in 0 .. NumOps |-> up[k]]
    <3>1. \E e : up = e /\ DOMAIN up = 0 .. NumOps
      BY <2>2
    <3> QED
      BY <1>5 DEF Solution
  <2>8. up \in [0 .. NumOps -> SUBSET Present]
    BY <2>5, <2>7
  <2> QED
    BY <2>6, <2>8 DEF Levels
<1> HIDE DEF up, Solution
<1>7. \A x \in Present : Parents(x) = MadeBy(Makers, OpReads[x])
  BY ParentsMake
<1>8. Ancestors(o) \in SUBSET Present
  BY <1>1, <1>2, <1>6 DEF Levels
<1>9. MadeBy(Makers, OpReads[o]) \subseteq Ancestors(o) /\ ClosedLevel(OpReads, Makers, Ancestors(o))
  <2>1. IsFiniteSet(Ops) /\ Cardinality(Ops) <= NumOps
    BY <1>1, FS_Interval DEF Ops
  <2> QED
    BY <1>1, <1>2, <1>6, <2>1, LevelsClose
<1>10. ASSUME NEW A, Parents(o) \subseteq A, \A p \in A \cap Present : Parents(p) \subseteq A
       PROVE  Ancestors(o) \subseteq A
  <2>1. \A x \in Present : MadeBy(Makers, OpReads[x]) \in SUBSET Present
    BY <1>1 DEF MadeBy
  <2>2. ClosedLevel(OpReads, Makers, A \cap Present)
    BY <1>7, <1>10, <2>1 DEF ClosedLevel
  <2>3. MadeBy(Makers, OpReads[o]) \subseteq A \cap Present
    BY <1>7, <1>10, <2>1
  <2> QED
    BY <1>1, <1>2, <1>6, <2>2, <2>3, LevelsLeast
<1> QED
  BY <1>7, <1>8, <1>9, <1>10 DEF ClosedLevel

-----------------------------------------------------------------------------
(* The invariant                                                           *)

FusedIds(f) == (NumOps + 1) .. (NumOps + Len(f))
Ids(f)      == 1 .. (NumOps + Len(f))

FusedOps(g) == [ops : SUBSET g.elementwise, ins : SUBSET Tensors, outs : SUBSET Ops]

Fields ==
  /\ graph \in Graphs
  /\ src \in [Tensors -> SUBSET Ids(fused)] /\ dst \in [Tensors -> SUBSET Ids(fused)]
  /\ group \in [Ops -> SUBSET graph.elementwise]
  /\ at \in 1..(NumOps + 1)
  /\ cur \subseteq graph.elementwise /\ todo \subseteq graph.elementwise
  /\ fused \in Seq(FusedOps(graph))
  /\ left \subseteq SUBSET graph.elementwise
  /\ kept \subseteq Tensors
  /\ phase \in {"group", "merge", "fuse", "done", "shapes differ"}

\* The groups do not overlap, and hold ops that were added: the one that is being
\* added is in the group that has already grown by it, if there is one.
Disjoint ==
  /\ \A o \in Ops : group[o] # {} => o \in group[o]
  /\ \A o \in Ops : \A q \in group[o] : q < at => group[q] = group[o]
  /\ \A o \in Ops : \A q \in group[o] :
       o < at /\ q <= at /\ (q = at => phase = "merge" /\ cur = group[o])
  /\ phase = "merge" => /\ at \in cur /\ at <= NumOps
                        /\ \A q \in cur : q <= at /\ (q < at => group[q] = cur)
                        /\ \A q \in todo : q < at
  /\ phase # "merge" => cur = {} /\ todo = {}
  /\ phase \notin {"group", "merge"} => at = NumOps + 1

\* No path leads from a parent q of a set of ops, outside of the set, back to it.
ReadOps(g, o)   == g.reads[o] \ {0}
Apart(g, q, s)  == \E B \in SUBSET Ops : /\ ReadOps(g, q) \subseteq B
                                         /\ \A p \in B : ReadOps(g, p) \subseteq B
                                         /\ B \cap s = {}
Convex(g, s)    == \A o \in s : \A q \in ReadOps(g, o) \ s : Apart(g, q, s)

InitialSrc    == [t \in Tensors |-> {t} \ {0}]
InitialDst(g) == [t \in Tensors |-> {o \in Ops : t \in g.reads[o]}]

\* While the groups are built the graph is the original one, and they are convex.
Grouping ==
  phase \in {"group", "merge"} =>
    /\ src = InitialSrc /\ dst = InitialDst(graph)
    /\ fused = <<>> /\ left = {}
    /\ Convex(graph, cur) /\ \A o \in Ops : Convex(graph, group[o])

\* What an op with this number reads.
ReadsOf(g, f, x) == IF x \in Ops THEN g.reads[x] ELSE f[x - NumOps].ins

\* While they are fused, src_ops and dst_ops agree; the members of a group that is
\* left are as they were, and are needed; and a tensor without an op that makes it
\* is not needed.
Fusing ==
  /\ left \subseteq {group[o] : o \in Ops} \ {{}}
  /\ \A t \in Tensors : src[t] \subseteq ({t} \ {0}) \cup FusedIds(fused)
  /\ src[0] = {}
  /\ \A h \in left : \A t \in h : src[t] = {t}
  /\ \A t \in Tensors : \A x \in dst[t] : t \in ReadsOf(graph, fused, x)
  /\ \A t, u \in Tensors : \A x \in src[u] : t \in ReadsOf(graph, fused, x) => x \in dst[t]
  /\ \A h \in left : \A o \in h : o \in graph.outputs \/ dst[o] # {}
  /\ \A t \in Ops : \/ \E x : src[t] = {x}
                    \/ src[t] = {} /\ dst[t] = {} /\ t \notin graph.outputs

FusionInv == Fields /\ Disjoint /\ Grouping /\ Fusing

-----------------------------------------------------------------------------
\* What the graphs are.
LEMMA GraphFacts ==
  ASSUME NEW g \in Graphs
  PROVE  /\ NumOps \in Nat /\ Ops \subseteq Nat /\ 0 \in Tensors /\ Ops \subseteq Tensors
         /\ 0 \notin Ops /\ Tensors = Ops \cup {0}
         /\ g.reads \in [Ops -> SUBSET Tensors] /\ g.elementwise \subseteq Ops
         /\ g.outputs \subseteq Ops /\ g.shape \in [Ops -> Shapes]
         /\ \A o \in Ops : ReadOps(g, o) \subseteq Ops /\ \A q \in ReadOps(g, o) : q < o
         /\ \A o \in Ops : o \in g.outputs \/ \E q \in Ops : o \in g.reads[q]
<1>1. /\ NumOps \in Nat
      /\ g \in [reads : [Ops -> SUBSET Tensors], elementwise : SUBSET Ops,
                outputs : SUBSET Ops, shape : [Ops -> Shapes]]
      /\ \A o \in Ops : g.reads[o] # {} /\ g.reads[o] \subseteq 0..(o - 1)
      /\ \A o \in Ops : o \in g.outputs \/ \E q \in Ops : o \in g.reads[q]
  BY FusionAssumption
<1>2. /\ Ops \subseteq Nat /\ 0 \in Tensors /\ Ops \subseteq Tensors
      /\ 0 \notin Ops /\ Tensors = Ops \cup {0}
  BY <1>1 DEF Ops, Tensors
<1>3. ASSUME NEW o \in Ops PROVE ReadOps(g, o) \subseteq Ops /\ \A q \in ReadOps(g, o) : q < o
  <2>1. g.reads[o] \subseteq 0..(o - 1) /\ o \in 1..NumOps
    BY <1>1 DEF Ops
  <2> QED
    BY <1>1, <2>1 DEF ReadOps, Ops
<1> QED
  BY <1>1, <1>2, <1>3

\* Ops present in a state that the invariant allows.
LEMMA PresentIds ==
  ASSUME Fields
  PROVE  /\ Present = Ids(fused) /\ FusedIds(fused) \cap Ops = {}
         /\ Ids(fused) = Ops \cup FusedIds(fused)
         /\ \A x \in Ids(fused) : Reads(x) = ReadsOf(graph, fused, x)
         /\ \A x \in FusedIds(fused) : x - NumOps \in DOMAIN fused
<1>0. graph \in Graphs /\ fused \in Seq(FusedOps(graph))
  BY DEF Fields
<1>1. NumOps \in Nat /\ Len(fused) \in Nat /\ DOMAIN fused = 1 .. Len(fused)
  <2>1. NumOps \in Nat
    BY <1>0, GraphFacts
  <2> QED
    BY <1>0, <2>1
<1>2. {NumOps + i : i \in DOMAIN fused} = FusedIds(fused)
  <2>1. \A i \in DOMAIN fused : NumOps + i \in FusedIds(fused)
    BY <1>1 DEF FusedIds
  <2>2. \A x \in FusedIds(fused) : x - NumOps \in DOMAIN fused /\ x = NumOps + (x - NumOps)
    BY <1>1 DEF FusedIds
  <2> QED
    BY <2>1, <2>2
<1>3. Ids(fused) = Ops \cup FusedIds(fused) /\ FusedIds(fused) \cap Ops = {}
  BY <1>1 DEF Ids, Ops, FusedIds
<1>4. \A x \in FusedIds(fused) : x - NumOps \in DOMAIN fused
  BY <1>1 DEF FusedIds
<1> QED
  BY <1>2, <1>3, <1>4 DEF Present, Reads, ReadsOf

LEMMA WellFormedFollows == ASSUME FusionInv PROVE WellFormed
<1>1. NumOps \in Nat
  BY GraphFacts DEF FusionInv, Fields
<1>2. src \in [Tensors -> SUBSET Present] /\ src[0] = {}
  BY PresentIds DEF FusionInv, Fields, Fusing
<1>3. ASSUME NEW x \in Present PROVE Reads(x) \subseteq Tensors
  <2>1. CASE x \in Ops
    <3>1. graph \in Graphs
      BY DEF FusionInv, Fields
    <3>2. graph.reads \in [Ops -> SUBSET Tensors]
      BY <3>1, GraphFacts
    <3> QED
      BY <2>1, <3>2 DEF Reads
  <2>2. CASE x \notin Ops
    <3>1. x - NumOps \in DOMAIN fused /\ Reads(x) = fused[x - NumOps].ins
      <4>1. Fields
        BY DEF FusionInv
      <4>2. x \in FusedIds(fused)
        BY <2>2, <4>1, PresentIds
      <4> QED
        BY <2>2, <4>1, <4>2, PresentIds DEF Reads
    <3>2. fused[x - NumOps] \in FusedOps(graph)
      <4>1. fused \in Seq(FusedOps(graph))
        BY DEF FusionInv, Fields
      <4> QED
        BY <3>1, <4>1
    <3> QED
      BY <3>1, <3>2 DEF FusedOps
  <2> QED
    BY <2>1, <2>2
<1> QED
  BY <1>1, <1>2, <1>3 DEF WellFormed

\* While the groups are built the parents of an op are the ops it reads.
LEMMA OriginalParents ==
  ASSUME FusionInv, phase \in {"group", "merge"}
  PROVE  Present = Ops /\ \A o \in Ops : Parents(o) = ReadOps(graph, o)
<1>1. src = InitialSrc /\ fused = <<>>
  BY DEF FusionInv, Grouping
<1>2. Present = Ops
  BY <1>1 DEF Present
<1>3. ASSUME NEW o \in Ops PROVE Parents(o) = ReadOps(graph, o)
  <2>1. Reads(o) = graph.reads[o] /\ graph.reads[o] \subseteq Tensors
    <3>1. graph \in Graphs
      BY DEF FusionInv, Fields
    <3>2. graph.reads \in [Ops -> SUBSET Tensors]
      BY <3>1, GraphFacts
    <3> QED
      BY <3>2 DEF Reads
  <2>2. Parents(o) = UNION {src[t] : t \in graph.reads[o]}
    BY <2>1 DEF Parents
  <2>3. \A t \in graph.reads[o] : src[t] = {t} \ {0}
    BY <1>1, <2>1 DEF InitialSrc
  <2> QED
    BY <2>2, <2>3 DEF ReadOps
<1> QED
  BY <1>2, <1>3

\* A set that _detect_cycle accepts is convex ...
LEMMA NoCycleConvex ==
  ASSUME FusionInv, phase \in {"group", "merge"}, NEW s \in SUBSET Ops, ~DetectCycle(s)
  PROVE  Convex(graph, s)
<1> SUFFICES ASSUME NEW o \in s, NEW q \in ReadOps(graph, o) \ s PROVE Apart(graph, q, s)
  BY DEF Convex
<1>0. graph \in Graphs
  BY DEF FusionInv, Fields
<1>1. q \in Ops /\ q \in Parents(o) /\ Parents(q) = ReadOps(graph, q)
  <2>1. q \in Ops
    BY <1>0, GraphFacts
  <2> QED
    BY <2>1, OriginalParents
<1>2. Ancestors(q) \cap s = {}
  <2>1. q \in (UNION {Parents(p) : p \in s}) \ s
    <3>1. q \in Parents(o) /\ q \notin s /\ o \in s
      BY <1>1
    <3> QED
      BY <3>1, Zenon
  <2> QED
    BY <2>1, Zenon DEF DetectCycle
<1>3. q \in Present /\ Present = Ops
  BY <1>1, OriginalParents
<1>4. /\ Ancestors(q) \in SUBSET Ops /\ Parents(q) \subseteq Ancestors(q)
      /\ \A p \in Ancestors(q) : Parents(p) \subseteq Ancestors(q)
  BY <1>3, AncestorsClosed, WellFormedFollows
<1>5. \A p \in Ancestors(q) : ReadOps(graph, p) \subseteq Ancestors(q)
  BY <1>4, OriginalParents
<1> QED
  BY <1>1, <1>2, <1>4, <1>5 DEF Apart

\* ... and so is, without any test, the set of a single op.
LEMMA SingleConvex ==
  ASSUME FusionInv, NEW o \in Ops
  PROVE  Convex(graph, {o})
<1> DEFINE B == {p \in Ops : p < o}
<1>1. graph \in Graphs /\ Ops \subseteq Nat
  BY GraphFacts DEF FusionInv, Fields
<1>2. \A p \in Ops : \A q \in ReadOps(graph, p) : q \in Ops /\ q < p
  BY <1>1, GraphFacts
<1>3. B \in SUBSET Ops /\ B \cap {o} = {}
  BY <1>1
<1>4. \A q \in ReadOps(graph, o) : q \in B
  BY <1>2
<1>5. \A p \in B : ReadOps(graph, p) \subseteq B
  <2> TAKE p \in B
  <2>1. p \in Ops /\ p < o /\ p \in Nat /\ o \in Nat
    BY <1>1
  <2>2. \A q \in ReadOps(graph, p) : q \in Ops /\ q < p /\ q \in Nat
    BY <1>1, <1>2, <2>1
  <2> QED
    BY <2>1, <2>2
<1> HIDE DEF B
<1> QED
  BY <1>3, <1>4, <1>5 DEF Convex, Apart

\* In convex groups no path between two members leaves the group.
LEMMA ConvexSuffices == FusionInv => GroupsAreConvex
<1> SUFFICES ASSUME FusionInv, phase = "group", NEW x \in Ops, NEW p,
                    p \in (UNION {Ancestors(o) : o \in group[x]}) \ group[x]
             PROVE  Ancestors(p) \cap group[x] = {}
  BY DEF GroupsAreConvex
<1>0. PICK o \in group[x] : p \in Ancestors(o)
  OBVIOUS
<1> DEFINE g == group[x]
           Out == {z \in Ops : z \notin g /\ Apart(graph, z, g)}
<1>1. g \in SUBSET Ops /\ Convex(graph, g) /\ graph \in Graphs
  BY GraphFacts DEF FusionInv, Fields, Grouping
<1>2. Present = Ops /\ \A q \in Ops : Parents(q) = ReadOps(graph, q) /\ Parents(q) \subseteq Ops
  BY <1>1, OriginalParents, GraphFacts
<1>3. \A q \in g : Parents(q) \subseteq g \cup Out
  BY <1>1, <1>2 DEF Convex
<1>4. \A q \in Out : Parents(q) \subseteq g \cup Out
  <2> TAKE q \in Out
  <2>1. PICK B \in SUBSET Ops : /\ ReadOps(graph, q) \subseteq B
                                /\ \A r \in B : ReadOps(graph, r) \subseteq B
                                /\ B \cap g = {}
    BY DEF Apart
  <2>2. \A r \in B : r \in Out
    BY <2>1 DEF Apart
  <2> QED
    BY <1>2, <2>1, <2>2
<1>5. WellFormed
  BY WellFormedFollows
<1> HIDE DEF Out
<1>6. Ancestors(o) \subseteq g \cup Out
  BY <1>1, <1>2, <1>3, <1>4, <1>5, AncestorsClosed
<1>7. p \in Out
  BY <1>0, <1>6
<1> USE DEF Out
<1>8. PICK B \in SUBSET Ops : /\ ReadOps(graph, p) \subseteq B
                              /\ \A r \in B : ReadOps(graph, r) \subseteq B
                              /\ B \cap g = {}
  BY <1>7 DEF Apart
<1>9. Parents(p) \subseteq B /\ \A r \in B \cap Present : Parents(r) \subseteq B
  BY <1>2, <1>7, <1>8
<1>10. Ancestors(p) \subseteq B
  BY <1>2, <1>5, <1>7, <1>9, AncestorsClosed
<1> QED
  BY <1>8, <1>10

-----------------------------------------------------------------------------
(* The steps that build the groups                                         *)

LEMMA InitEstablishes == Init => FusionInv
<1> SUFFICES ASSUME Init PROVE FusionInv
  OBVIOUS
<1>0. graph \in Graphs
  BY DEF Init
<1>1. /\ NumOps \in Nat /\ Ops \subseteq Nat /\ 0 \notin Ops /\ Tensors = Ops \cup {0}
      /\ \A o \in Ops : o \in graph.outputs \/ \E q \in Ops : o \in graph.reads[q]
  BY <1>0, GraphFacts
<1>2. Ids(fused) = Ops /\ fused = <<>> /\ DOMAIN fused = {} /\ Len(fused) = 0
  <2>1. fused = <<>> /\ Len(fused) = 0 /\ DOMAIN fused = {}
    BY DEF Init
  <2>2. Ids(fused) = 1 .. NumOps
    BY <1>1, <2>1 DEF Ids
  <2> QED
    BY <2>1, <2>2 DEF Ops
<1>3. src \in [Tensors -> SUBSET Ops] /\ dst \in [Tensors -> SUBSET Ops]
  BY <1>1 DEF Init
<1>4. Fields
  <2>1. fused \in Seq(FusedOps(graph))
    BY <1>2
  <2>2. at \in 1 .. (NumOps + 1) /\ group \in [Ops -> SUBSET graph.elementwise]
    BY <1>1 DEF Init
  <2> QED
    BY <1>0, <1>2, <1>3, <2>1, <2>2 DEF Fields, Init
<1>5. Disjoint
  BY DEF Init, Disjoint
<1>6. Grouping
  BY DEF Init, Grouping, InitialSrc, InitialDst, Convex
<1>7. Fusing
  <2>1. \A t \in Tensors : src[t] = {t} \ {0} /\ dst[t] = {o \in Ops : t \in graph.reads[o]}
    BY DEF Init
  <2>2. left = {}
    BY DEF Init
  <2>3. \A t \in Ops : src[t] = {t} /\ t \in Tensors
    BY <1>1, <2>1
  <2>4. 0 \in Tensors /\ src[0] = {}
    BY <1>1, <2>1
  <2>5. \A t, u \in Tensors : \A x \in src[u] : x \in Ops
    BY <1>3
  <2>6. \A x \in Ops : ReadsOf(graph, fused, x) = graph.reads[x]
    BY DEF ReadsOf
  <2>7. \A t \in Tensors : src[t] \subseteq {t} \ {0}
    BY <2>1
  <2>8. \A t \in Tensors : \A x \in dst[t] : t \in ReadsOf(graph, fused, x)
    BY <2>1, <2>6
  <2>9. \A t, u \in Tensors : \A x \in src[u] : t \in ReadsOf(graph, fused, x) => x \in dst[t]
    BY <2>1, <2>5, <2>6
  <2>10. \A t \in Ops : \E x : src[t] = {x}
    BY <2>3
  <2> QED
    BY <2>2, <2>4, <2>7, <2>8, <2>9, <2>10 DEF Fusing
<1> QED
  BY <1>4, <1>5, <1>6, <1>7 DEF FusionInv

\* The groups are built on the original graph.
LEMMA GroupingKeepsFusing ==
  ASSUME FusionInv, phase \in {"group", "merge"}, UNCHANGED <<graph, src, dst, fused, left>>
  PROVE  Fusing'
<1>1. left = {} /\ Fusing
  BY DEF FusionInv, Grouping
<1> QED
  BY <1>1 DEF Fusing

LEMMA FusableFacts ==
  ASSUME FusionInv, phase = "group", at \in graph.elementwise, NEW p \in Fusable(at)
  PROVE  p \in graph.elementwise /\ p < at
<1>1. p \in Parents(at) /\ p \in graph.elementwise
  BY DEF Fusable
<1>2. graph \in Graphs
  BY DEF FusionInv, Fields
<1>3. at \in Ops
  BY <1>2, GraphFacts
<1>4. Parents(at) = ReadOps(graph, at)
  BY <1>3, OriginalParents
<1> QED
  BY <1>1, <1>2, <1>3, <1>4, GraphFacts

LEMMA AddKeeps == ASSUME FusionInv, Add PROVE FusionInv'
<1> USE DEF FusionInv
<1>0. /\ graph \in Graphs /\ phase = "group" /\ at \in Nat /\ at <= NumOps /\ NumOps \in Nat
      /\ UNCHANGED <<graph, src, dst, group, fused, left, kept>>
  <2>1. graph \in Graphs /\ at \in 1 .. (NumOps + 1)
    BY DEF Fields
  <2>2. NumOps \in Nat
    BY <2>1, GraphFacts
  <2> QED
    BY <2>1, <2>2 DEF Add
<1>1. Fusing'
  BY <1>0, GroupingKeepsFusing
<1>2. CASE at \in graph.elementwise
  <2>1. cur' = {at} /\ todo' = Fusable(at) /\ phase' = "merge" /\ at' = at
    BY <1>2 DEF Add
  <2>2. \A p \in Fusable(at) : p \in graph.elementwise /\ p < at
    BY <1>0, <1>2, FusableFacts
  <2>3. Fields'
    BY <1>0, <1>2, <2>1, <2>2 DEF Fields
  <2>4. Disjoint'
    BY <1>0, <2>1, <2>2 DEF Disjoint
  <2>5. Convex(graph, {at})
    BY <1>0, <1>2, GraphFacts, SingleConvex
  <2>6. Grouping'
    BY <1>0, <2>1, <2>5 DEF Grouping
  <2> QED
    BY <1>1, <2>3, <2>4, <2>6
<1>3. CASE at \notin graph.elementwise
  <2>1. at' = at + 1 /\ UNCHANGED <<cur, todo, phase>>
    BY <1>3 DEF Add
  <2>2. Fields'
    BY <1>0, <2>1 DEF Fields
  <2>3. Disjoint'
    <3>1. \A o \in Ops : \A q \in group[o] : o < at /\ q < at /\ group[q] = group[o] /\ q \in Nat
      <4>1. \A o \in Ops : \A q \in group[o] : q \in Nat /\ o \in Nat
        BY <1>0, GraphFacts DEF Fields
      <4> QED
        BY <1>0, <4>1 DEF Disjoint
    <3>2. \A o \in Ops : o \in Nat
      BY <1>0, GraphFacts
    <3>3. \A o \in Ops : \A q \in group[o] : o < at + 1 /\ q < at + 1 /\ q # at + 1
      BY <1>0, <3>1, <3>2
    <3> QED
      BY <1>0, <2>1, <3>1, <3>3 DEF Disjoint
  <2>4. Grouping'
    BY <1>0, <2>1 DEF Grouping
  <2> QED
    BY <1>1, <2>2, <2>3, <2>4
<1> QED
  BY <1>2, <1>3

LEMMA MergeKeeps == ASSUME FusionInv, NEW d \in Ops, Merge(d) PROVE FusionInv'
<1> USE DEF FusionInv
<1>0. /\ graph \in Graphs /\ phase = "merge" /\ d \in todo /\ todo' = todo \ {d}
      /\ UNCHANGED <<graph, src, dst, at, fused, left, kept, phase>>
  BY DEF Merge, Fields
<1>1. Fusing'
  BY <1>0, GroupingKeepsFusing
<1>2. CASE group[d] = {} \/ DetectCycle(cur \cup group[d])
  <2>1. UNCHANGED <<cur, group>>
    BY <1>2 DEF Merge
  <2> QED
    BY <1>0, <1>1, <2>1 DEF Fields, Disjoint, Grouping
<1>3. CASE ~(group[d] = {} \/ DetectCycle(cur \cup group[d]))
  <2> DEFINE joined == cur \cup group[d]
  <2>1. /\ cur' = joined
        /\ group' = [o \in Ops |-> IF o \in joined \ {at} THEN joined ELSE group[o]]
    BY <1>3 DEF Merge
  <2>2. joined \subseteq graph.elementwise /\ joined \subseteq Ops
    <3>1. graph.elementwise \subseteq Ops
      BY <1>0, GraphFacts
    <3> QED
      BY <1>0, <3>1 DEF Fields
  <2>3. Fields'
    BY <1>0, <2>1, <2>2 DEF Fields
  <2>4. Convex(graph, joined)
    BY <1>0, <1>3, <2>2, NoCycleConvex
  <2>5. Grouping'
    <3>1. \A o \in Ops : Convex(graph, group[o])
      BY <1>0 DEF Grouping
    <3> HIDE DEF joined
    <3>2. \A o \in Ops : Convex(graph, group'[o])
      BY <2>1, <2>4, <3>1
    <3> QED
      BY <1>0, <2>1, <2>4, <3>2 DEF Grouping
  <2>6. Disjoint'
    <3>0. /\ \A o \in Ops : o \in Nat
          /\ at \in Nat /\ \A o \in Ops : group[o] \subseteq Ops
      <4>1. Ops \subseteq Nat /\ graph.elementwise \subseteq Ops /\ NumOps \in Nat
        BY <1>0, GraphFacts
      <4>2. at \in 1 .. (NumOps + 1) /\ group \in [Ops -> SUBSET graph.elementwise]
        BY DEF Fields
      <4>3. \A o \in Ops : group[o] \subseteq graph.elementwise
        BY <4>2
      <4> QED
        BY <4>1, <4>2, <4>3
    <3>1. /\ \A o \in Ops : group[o] # {} => o \in group[o]
          /\ \A o \in Ops : \A q \in group[o] : q < at => group[q] = group[o]
          /\ \A o \in Ops : \A q \in group[o] : o < at /\ q <= at /\ (q = at => cur = group[o])
          /\ at \in cur /\ at <= NumOps
          /\ \A q \in cur : q <= at /\ (q < at => group[q] = cur)
          /\ \A q \in todo : q < at
      BY <1>0 DEF Disjoint
    <3>2. \A q \in joined : q <= at
      BY <3>1
    <3>3. \A q \in joined : q < at => group'[q] = joined
      <4> HIDE DEF joined
      <4>1. \A q \in joined : q < at => q # at
        BY <2>2, <3>0
      <4> QED
        BY <2>1, <2>2, <4>1
    \* The members of cur and of group[d] are not in another group.
    <3>4. ASSUME NEW o \in Ops, o \notin joined, NEW q \in group[o] PROVE q \notin joined
      <4>1. o \in group[o] /\ q <= at /\ q \in Nat
        BY <3>0, <3>1
      <4>2. q # at
        BY <3>1, <3>4, <4>1
      <4>3. q < at /\ group[q] = group[o]
        BY <3>0, <3>1, <4>1, <4>2
      <4>4. q \notin cur
        BY <3>1, <3>4, <4>1, <4>3
      <4>5. q \notin group[d]
        BY <3>1, <3>4, <4>1, <4>3
      <4> QED
        BY <4>4, <4>5
    <3>5. group[at] = {}
      <4>1. at \in Ops
        BY <2>2, <3>1
      <4> QED
        BY <3>0, <3>1, <4>1
    <3> HIDE DEF joined
    <3>6. /\ \A o \in Ops : o \in joined /\ o # at => group'[o] = joined
          /\ \A o \in Ops : o \notin joined \/ o = at => group'[o] = group[o]
      BY <2>1
    <3>7. \A o \in Ops : group'[o] # {} => o \in group'[o]
      BY <3>1, <3>6
    <3>8. \A o \in Ops : \A q \in group'[o] : q < at => group'[q] = group'[o]
      <4> TAKE o \in Ops
      <4>1. CASE o \in joined /\ o # at
        BY <3>3, <3>6, <4>1
      <4>2. CASE o = at
        BY <3>5, <3>6, <4>2
      <4>3. CASE o \notin joined
        <5>1. group'[o] = group[o]
          BY <3>6, <4>3
        <5>2. ASSUME NEW q \in group[o], q < at PROVE group'[q] = group[o]
          BY <3>0, <3>1, <3>4, <3>6, <4>3, <5>2
        <5> QED
          BY <5>1, <5>2
      <4> QED
        BY <4>1, <4>2, <4>3
    <3>9. \A o \in Ops : \A q \in group'[o] : o < at /\ q <= at /\ (q = at => joined = group'[o])
      <4> TAKE o \in Ops
      <4>1. CASE o \in joined /\ o # at
        BY <3>0, <3>2, <3>6, <4>1
      <4>2. CASE o = at
        BY <3>5, <3>6, <4>2
      <4>3. CASE o \notin joined
        <5>1. group'[o] = group[o]
          BY <3>6, <4>3
        <5>2. ASSUME NEW q \in group[o] PROVE o < at /\ q <= at /\ q # at
          <6>1. at \in joined
            BY <3>1 DEF joined
          <6> QED
            BY <3>1, <3>4, <4>3, <5>2, <6>1
        <5> QED
          BY <5>1, <5>2
      <4> QED
        BY <4>1, <4>2, <4>3
    <3>10. at \in joined
      BY <3>1 DEF joined
    <3> QED
      BY <1>0, <2>1, <3>1, <3>2, <3>3, <3>7, <3>8, <3>9, <3>10 DEF Disjoint
  <2> QED
    BY <1>1, <2>3, <2>5, <2>6
<1> QED
  BY <1>2, <1>3

LEMMA AddedKeeps == ASSUME FusionInv, Added PROVE FusionInv'
<1> USE DEF FusionInv
<1>0. /\ graph \in Graphs /\ phase = "merge" /\ phase' = "group" /\ at' = at + 1 /\ cur' = {}
      /\ todo' = {} /\ group' = [o \in Ops |-> IF o \in cur THEN cur ELSE group[o]]
      /\ UNCHANGED <<graph, src, dst, fused, left, kept>>
  BY DEF Added, Fields
<1>1. Fusing'
  BY <1>0, GroupingKeepsFusing
<1>2. /\ Ops \subseteq Nat /\ graph.elementwise \subseteq Ops /\ NumOps \in Nat /\ at \in Nat
      /\ \A o \in Ops : group[o] \subseteq Ops
  <2>1. Ops \subseteq Nat /\ graph.elementwise \subseteq Ops /\ NumOps \in Nat
    BY <1>0, GraphFacts
  <2>2. at \in 1 .. (NumOps + 1) /\ group \in [Ops -> SUBSET graph.elementwise]
    BY DEF Fields
  <2>3. \A o \in Ops : group[o] \subseteq graph.elementwise
    BY <2>2
  <2> QED
    BY <2>1, <2>2, <2>3
<1>3. /\ \A o \in Ops : group[o] # {} => o \in group[o]
      /\ \A o \in Ops : \A q \in group[o] : q < at => group[q] = group[o]
      /\ \A o \in Ops : \A q \in group[o] : o < at /\ q <= at /\ (q = at => cur = group[o])
      /\ at \in cur /\ at <= NumOps
      /\ \A q \in cur : q <= at /\ (q < at => group[q] = cur)
  BY <1>0 DEF Disjoint
<1>4. Fields'
  <2>1. at' \in 1 .. (NumOps + 1)
    BY <1>0, <1>2, <1>3
  <2>2. group' \in [Ops -> SUBSET graph.elementwise]
    BY <1>0 DEF Fields
  <2> QED
    BY <1>0, <2>1, <2>2 DEF Fields
<1>5. Grouping'
  <2>1. Convex(graph, {})
    BY DEF Convex
  <2> QED
    BY <1>0, <2>1 DEF Grouping
<1>6. Disjoint'
  <2>0. cur \subseteq Ops /\ \A o \in Ops : group'[o] = IF o \in cur THEN cur ELSE group[o]
    BY <1>0, <1>2 DEF Fields
  <2>1. ASSUME NEW o \in Ops, o \notin cur, NEW q \in group[o]
        PROVE  q \notin cur /\ q < at /\ o < at /\ group[q] = group[o]
    <3>1. o \in group[o] /\ q <= at /\ o < at /\ q \in Nat
      BY <1>2, <1>3
    <3>2. q # at
      BY <1>3, <2>1, <3>1
    <3>3. q < at /\ group[q] = group[o]
      BY <1>2, <1>3, <3>1, <3>2
    <3>4. q \notin cur
      BY <1>3, <2>1, <3>1, <3>3
    <3> QED
      BY <3>1, <3>3, <3>4
  <2>2. \A o \in Ops : group'[o] # {} => o \in group'[o]
    BY <1>3, <2>0
  <2>3. ASSUME NEW o \in Ops, NEW q \in group'[o]
        PROVE  group'[q] = group'[o] /\ o < at + 1 /\ q < at + 1
    <3>1. CASE o \in cur
      <4>1. group'[o] = cur /\ q \in cur /\ q \in Ops /\ o \in Ops
        BY <2>0, <3>1
      <4>2. q <= at /\ o <= at /\ q \in Nat /\ o \in Nat
        BY <1>2, <1>3, <3>1, <4>1
      <4> QED
        BY <1>2, <2>0, <4>1, <4>2
    <3>2. CASE o \notin cur
      <4>1. group'[o] = group[o] /\ q \in group[o] /\ q \in Ops
        BY <1>2, <2>0, <3>2
      <4>2. q \notin cur /\ q < at /\ o < at /\ group[q] = group[o] /\ q \in Nat /\ o \in Nat
        BY <1>2, <2>1, <3>2, <4>1
      <4> QED
        BY <1>2, <2>0, <4>1, <4>2
    <3> QED
      BY <3>1, <3>2
  <2>4. \A o \in Ops : \A q \in group'[o] : o \in Nat /\ q \in Nat
    BY <1>2, <2>0 DEF Fields
  <2>5. \A o \in Ops : \A q \in group'[o] : o < at + 1 /\ q <= at + 1 /\ q # at + 1
    BY <1>2, <2>3, <2>4
  <2> QED
    BY <1>0, <2>2, <2>3, <2>5 DEF Disjoint
<1> QED
  BY <1>1, <1>4, <1>5, <1>6

-----------------------------------------------------------------------------
(* The parts of a group                                                    *)

LEMMA GroupedKeeps == ASSUME FusionInv, Grouped PROVE FusionInv'
<1> USE DEF FusionInv
<1>0. /\ graph \in Graphs /\ phase = "group" /\ phase' = "fuse" /\ at = NumOps + 1
      /\ left' = {group[o] : o \in Ops} \ {{}}
      /\ UNCHANGED <<graph, src, dst, group, at, cur, todo, fused, kept>>
  BY DEF Grouped, Fields
<1>1. Fields'
  <2>1. left' \subseteq SUBSET graph.elementwise
    BY <1>0 DEF Fields
  <2> QED
    BY <1>0, <2>1 DEF Fields
<1>2. Disjoint'
  BY <1>0 DEF Disjoint
<1>3. Grouping'
  BY <1>0 DEF Grouping
<1>4. Fusing'
  <2>1. src = InitialSrc /\ dst = InitialDst(graph) /\ fused = <<>>
    BY <1>0 DEF Grouping
  <2>2. /\ 0 \notin Ops /\ Ops \subseteq Tensors /\ graph.elementwise \subseteq Ops
        /\ \A o \in Ops : o \in graph.outputs \/ \E q \in Ops : o \in graph.reads[q]
    BY <1>0, GraphFacts
  <2>3. \A h \in left' : h \subseteq Ops
    BY <1>1, <1>0, <2>2 DEF Fields
  <2>4. \A t \in Ops : src[t] = {t}
    BY <2>1, <2>2 DEF InitialSrc
  <2>5. \A o \in Ops : o \in graph.outputs \/ dst[o] # {}
    BY <2>1, <2>2 DEF InitialDst
  <2>6. \A h \in left' : \A t \in h : src[t] = {t} /\ (t \in graph.outputs \/ dst[t] # {})
    BY <2>3, <2>4, <2>5
  <2>7. left' \subseteq {group'[o] : o \in Ops} \ {{}}
    <3>1. group' = group
      BY <1>0
    <3>2. left' = {group[o] : o \in Ops} \ {{}}
      BY <1>0
    <3> QED
      BY <3>1, <3>2
  <2>0. graph' = graph /\ src' = src /\ dst' = dst /\ fused' = fused
    BY <1>0
  <2>8. /\ \A t \in Tensors : src[t] \subseteq ({t} \ {0}) \cup FusedIds(fused)
        /\ src[0] = {}
        /\ \A t \in Tensors : \A x \in dst[t] : t \in ReadsOf(graph, fused, x)
        /\ \A t, u \in Tensors : \A x \in src[u] : t \in ReadsOf(graph, fused, x) => x \in dst[t]
        /\ \A t \in Ops : \/ \E x : src[t] = {x}
                          \/ src[t] = {} /\ dst[t] = {} /\ t \notin graph.outputs
    BY DEF Fusing
  <2>9. /\ \A h \in left' : \A t \in h : src[t] = {t}
        /\ \A h \in left' : \A t \in h : t \in graph.outputs \/ dst[t] # {}
    BY <2>6
  <2> QED
    BY <2>0, <2>7, <2>8, <2>9, Zenon DEF Fusing
<1> QED
  BY <1>1, <1>2, <1>3, <1>4

\* What toposort finds are tensors.
LEMMA SortedTensors == ASSUME NumOps \in Nat PROVE Sorted \subseteq Tensors
<1> DEFINE n == NumOps + 1
           D == 0 .. n
           V == SUBSET Tensors
           m == [k \in D |-> k]
           Ready(a) == {t \in Tensors : \A o \in src[t] : Reads(o) \subseteq a}
           G == [z \in D \X [D -> V] |-> IF z[1] = 0 THEN {} ELSE Ready(z[2][z[1] - 1])]
           Solution(f) == f = [k \in D |-> IF k = 0 THEN {} ELSE Ready(f[k - 1])]
           ready == CHOOSE f : Solution(f)
<1>1. n \in Nat /\ V # {} /\ m \in [D -> 0 .. n] /\ \A a : Ready(a) \in V /\ {} \in V
  OBVIOUS
<1>2. \A k \in D, f \in [D -> V] : G[<<k, f>>] = IF k = 0 THEN {} ELSE Ready(f[k - 1])
  <2> HIDE DEF Ready, n
  <2> QED
    OBVIOUS
<1>3. \A k \in D : k # 0 => k - 1 \in D /\ m[k - 1] < m[k]
  BY <1>1
<1>4. G \in [D \X [D -> V] -> V]
  <2> HIDE DEF Ready, n, D, V
  <2> QED
    BY <1>1
<1>5. ASSUME NEW k \in D, NEW f \in [D -> V], NEW h \in [D -> V],
             \A y \in D : m[y] < m[k] => f[y] = h[y]
      PROVE  G[<<k, f>>] = G[<<k, h>>]
  <2>1. k # 0 => f[k - 1] = h[k - 1]
    <3> HIDE DEF D, V, m
    <3> QED
      BY <1>3, <1>5
  <2> HIDE DEF G, D, V, Ready
  <2> QED
    BY <1>2, <2>1
<1>6. Body(D, V, n, m, G)
  <2> HIDE DEF G, D, V, m, n, Ready
  <2> QED
    BY <1>1, <1>4, <1>5, <1>1 DEF Body, D
<1>7. PICK f \in [D -> V] : \A k \in D : f[k] = G[<<k, f>>]
  <2> HIDE DEF G, D, V, m, n
  <2> QED
    BY <1>6, RecursiveFunction
<1>8. Solution(f)
  <2>1. \A k \in D : f[k] = IF k = 0 THEN {} ELSE Ready(f[k - 1])
    <3> HIDE DEF G, D, V, m, n, Ready
    <3> QED
      BY <1>2, <1>7
  <2> HIDE DEF G, D, V, m, n, Ready
  <2> QED
    BY <1>7, <2>1
<1>9. Solution(ready)
  <2> HIDE DEF Solution
  <2> QED
    BY <1>8
<1>10. Sorted = ready[n]
  BY DEF Sorted
<1>11. n \in D /\ n # 0
  OBVIOUS
<1>12. ready[n] = Ready(ready[n - 1])
  <2> HIDE DEF ready, Ready, n, D
  <2> QED
    BY <1>9, <1>11
<1> HIDE DEF ready
<1> QED
  BY <1>10, <1>12

LEMMA SortKeeps == ASSUME FusionInv, Sort PROVE FusionInv'
<1> USE DEF FusionInv
<1>0. /\ phase = "fuse" /\ phase' = "done"
      /\ kept' = {t \in Sorted : src[t] # {} \/ dst[t] # {} \/ t = 0 \/ t \in graph.outputs}
      /\ UNCHANGED <<graph, src, dst, group, at, cur, todo, fused, left>>
  BY DEF Sort
<1>1. Sorted \subseteq Tensors
  <2>1. graph \in Graphs
    BY DEF Fields
  <2> QED
    BY <2>1, GraphFacts, SortedTensors
<1>2. Fields'
  BY <1>0, <1>1 DEF Fields
<1>3. Disjoint'
  BY <1>0 DEF Disjoint
<1>4. Grouping'
  BY <1>0 DEF Grouping
<1>5. Fusing'
  BY <1>0 DEF Fusing
<1> QED
  BY <1>2, <1>3, <1>4, <1>5

\* The groups that are left do not overlap.
LEMMA LeftApart ==
  ASSUME FusionInv, phase = "fuse", NEW g \in left, NEW h \in left, NEW o \in g, o \in h
  PROVE  g = h
<1>0. graph \in Graphs /\ at = NumOps + 1 /\ group \in [Ops -> SUBSET graph.elementwise]
  BY DEF FusionInv, Fields, Disjoint
<1>1. PICK x \in Ops, y \in Ops : g = group[x] /\ h = group[y]
  BY DEF FusionInv, Fusing
<1>2. graph.elementwise \subseteq Ops /\ NumOps \in Nat
  BY <1>0, GraphFacts
<1>3. o \in Ops /\ o < at
  BY <1>0, <1>1, <1>2 DEF Ops
<1> QED
  BY <1>1, <1>3 DEF FusionInv, Disjoint

\* What the members of a group that is left are.
LEMMA GroupMembers ==
  ASSUME FusionInv, NEW g \in left
  PROVE  /\ g \subseteq Ops /\ g \subseteq graph.elementwise
         /\ \A o \in g : src[o] = {o} /\ Reads(o) = graph.reads[o] /\ Reads(o) \subseteq Tensors
         /\ \A t \in Tensors : t \notin g => src[t] \cap g = {}
         /\ \A o \in g : o \in Present
<1>0. graph \in Graphs
  BY DEF FusionInv, Fields
<1>1. /\ graph.elementwise \subseteq Ops /\ graph.reads \in [Ops -> SUBSET Tensors]
  BY <1>0, GraphFacts
<1>2. g \subseteq Ops /\ g \subseteq graph.elementwise
  BY <1>1 DEF FusionInv, Fields
<1>3. \A o \in g : src[o] = {o} /\ Reads(o) = graph.reads[o] /\ Reads(o) \subseteq Tensors
  BY <1>1, <1>2 DEF FusionInv, Fusing, Reads
<1>4. FusedIds(fused) \cap Ops = {}
  BY PresentIds DEF FusionInv
<1>5. \A t \in Tensors : t \notin g => src[t] \cap g = {}
  BY <1>2, <1>4 DEF FusionInv, Fusing
<1> QED
  BY <1>2, <1>3, <1>5 DEF Present

\* A part holds what its members read of the group ...
LEMMA PartClosed ==
  ASSUME FusionInv, NEW g \in left, NEW outs \in SUBSET g,
         NEW o \in Part(g, outs), NEW t \in Reads(o), t \in g
  PROVE  t \in Part(g, outs)
<1>1. WellFormed
  BY WellFormedFollows
<1>2. o \in g /\ t \in Parents(o)
  BY GroupMembers DEF Part, Parents
<1>3. CASE o \in outs
  <2>1. t \in Ancestors(o)
    BY <1>1, <1>2, AncestorsClosed, GroupMembers
  <2> QED
    BY <1>3, <2>1 DEF Part
<1>4. CASE o \notin outs
  <2>1. PICK q \in outs : o \in Ancestors(q)
    BY <1>4 DEF Part
  <2>2. t \in Ancestors(q)
    BY <1>1, <1>2, <2>1, AncestorsClosed, GroupMembers
  <2> QED
    BY <2>2 DEF Part
<1> QED
  BY <1>3, <1>4

\* ... and what a part makes is read in the part or needed outside of the group.
LEMMA PartNeeded ==
  ASSUME FusionInv, NEW g \in left, NEW outs \in SUBSET External(g, g),
         NEW o \in Part(g, outs)
  PROVE  o \in External(Part(g, outs), g) \/ o \in ReadBy(Part(g, outs))
<1> DEFINE p == Part(g, outs)
<1>0. o \in g /\ o \in p /\ outs \subseteq g
  BY DEF Part, External
<1>1. CASE o \in outs
  BY <1>0, <1>1 DEF External
<1>2. CASE o \notin outs
  <2>1. PICK q \in outs : o \in Ancestors(q)
    BY <1>2 DEF Part
  <2> DEFINE A == {y \in Ancestors(q) : \E x \in {q} \cup Ancestors(q) : y \in Parents(x)}
  <2>2. q \in Present /\ q \in g /\ q \in p
    BY <1>0, GroupMembers DEF Part
  <2>3. /\ Ancestors(q) \subseteq Present /\ Parents(q) \subseteq Ancestors(q)
        /\ \A y \in Ancestors(q) : Parents(y) \subseteq Ancestors(q)
        /\ \A B : Parents(q) \subseteq B /\ (\A y \in B \cap Present : Parents(y) \subseteq B)
                    => Ancestors(q) \subseteq B
    BY <2>2, AncestorsClosed, WellFormedFollows
  <2>4. Ancestors(q) \subseteq A
    <3>1. Parents(q) \subseteq A
      BY <2>3
    <3>2. \A y \in A \cap Present : Parents(y) \subseteq A
      BY <2>3
    <3> HIDE DEF A
    <3> QED
      BY <2>3, <3>1, <3>2
  <2>5. PICK x \in {q} \cup Ancestors(q) : o \in Parents(x)
    BY <2>1, <2>4
  <2>6. x \in Present /\ Reads(x) \subseteq Tensors
    BY <2>2, <2>3, <2>5, WellFormedFollows DEF WellFormed
  <2>7. o \in Reads(x)
    <3>1. PICK t \in Reads(x) : o \in src[t]
      BY <2>5 DEF Parents
    <3> QED
      BY <1>0, <2>6, <3>1, GroupMembers
  <2>8. CASE x \in g
    <3>1. x \in p
      BY <2>1, <2>2, <2>5, <2>8 DEF Part
    <3> QED
      BY <2>7, <3>1 DEF ReadBy
  <2>9. CASE x \notin g
    <3>1. x \in Ancestors(q)
      BY <2>2, <2>5, <2>9
    <3>2. PICK z \in {q} \cup Ancestors(q) : x \in Parents(z)
      BY <2>4, <3>1
    <3>3. PICK u \in Reads(z) : x \in src[u]
      BY <3>2 DEF Parents
    <3>4. z \in Present /\ Reads(z) \subseteq Tensors
      BY <2>2, <2>3, <3>2, WellFormedFollows DEF WellFormed
    <3>5. Reads(x) = ReadsOf(graph, fused, x)
      BY <2>6, PresentIds DEF FusionInv
    <3>6. u \in Tensors /\ o \in Tensors
      BY <2>6, <2>7, <3>3, <3>4
    <3>7. x \in dst[o]
      BY <2>7, <3>3, <3>5, <3>6 DEF FusionInv, Fusing
    <3> QED
      BY <1>0, <2>9, <3>7 DEF External
  <2> QED
    BY <2>8, <2>9
<1> QED
  BY <1>1, <1>2

\* The outputs of a part with the given shape.
ShapedOuts(g, s) == {o \in External(g, g) : graph.shape[o] = s}

LEMMA PartsAre ==
  ASSUME NEW g
  PROVE  /\ PartsOf(g) = {Part(g, ShapedOuts(g, s)) : s \in {graph.shape[o] : o \in External(g, g)}}
         /\ \A p \in PartsOf(g) : \E s : p = Part(g, ShapedOuts(g, s))
         /\ \A o \in External(g, g) : Part(g, ShapedOuts(g, graph.shape[o])) \in PartsOf(g)
         /\ \A s : ShapedOuts(g, s) \subseteq External(g, g) /\ External(g, g) \subseteq g
<1>1. PartsOf(g) = {Part(g, ShapedOuts(g, s)) : s \in {graph.shape[o] : o \in External(g, g)}}
  BY DEF PartsOf, ShapedOuts
<1> QED
  BY <1>1 DEF ShapedOuts, External

\* No assertion of _get_inputs_outputs or _collect_info fails.
LEMMA PartsAsserted ==
  ASSUME FusionInv, NEW g \in left, NEW p \in PartsOf(g)
  PROVE  Asserted(FusedOp(p, g)) /\ p \subseteq g
<1>1. PICK s : p = Part(g, ShapedOuts(g, s))
  BY PartsAre
<1>2. ShapedOuts(g, s) \subseteq External(g, g) /\ ShapedOuts(g, s) \subseteq g
  BY PartsAre
<1>3. p \subseteq g
  BY <1>1 DEF Part
<1> DEFINE f == FusedOp(p, g)
<1>4. f.ops = p /\ f.outs = External(p, g)
      /\ f.ins = {t \in ReadBy(p) : src[t] = {} \/ ~(src[t] \subseteq g)}
  BY DEF FusedOp
<1>5. ASSUME NEW t \in ReadBy(p)
      PROVE  (src[t] = {} \/ ~(src[t] \subseteq g)) <=> t \notin p
  <2>1. PICK o \in p : t \in Reads(o)
    BY DEF ReadBy
  <2>2. t \in Tensors
    BY <1>3, <2>1, GroupMembers
  <2>3. CASE t \in g
    BY <1>1, <1>2, <2>1, <2>3, PartClosed, GroupMembers
  <2>4. CASE t \notin g
    BY <1>3, <2>2, <2>4, GroupMembers
  <2> QED
    BY <2>3, <2>4
<1>6. f.ins = ReadBy(p) \ p
  BY <1>4, <1>5
<1>7. p \ ReadBy(p) \subseteq External(p, g)
  BY <1>1, <1>2, PartNeeded
<1>8. External(p, g) \subseteq p
  BY DEF External
<1>9. ASSUME NEW o \in p
      PROVE  (\A t \in Reads(o) : o \in dst[t]) /\ src[o] = {o} /\ Reads(o) \subseteq Tensors
  <2>1. o \in Ops /\ src[o] = {o} /\ Reads(o) \subseteq Tensors
    BY <1>3, GroupMembers
  <2>2. o \in Tensors /\ o \in Present
    BY <2>1 DEF Ops, Tensors, Present
  <2>3. Reads(o) = ReadsOf(graph, fused, o)
    BY <2>2, PresentIds DEF FusionInv
  <2>4. ASSUME NEW t \in Reads(o)
        PROVE  o \in dst[t]
    BY <2>1, <2>2, <2>3, <2>4 DEF FusionInv, Fusing
  <2> QED
    BY <2>1, <2>4
<1> QED
  BY <1>3, <1>4, <1>6, <1>7, <1>8, <1>9 DEF Asserted

\* Every member is in a part.
LEMMA PartsCover ==
  ASSUME FusionInv, NEW g \in left, NEW m \in g
  PROVE  \E p \in PartsOf(g) : m \in p
<1> DEFINE U == {o \in g : \A p \in PartsOf(g) : o \notin p}
<1> SUFFICES ASSUME U # {} PROVE FALSE
  OBVIOUS
<1>0. graph \in Graphs
  BY DEF FusionInv, Fields
<1>1. g \subseteq Ops /\ Ops \subseteq Nat /\ NumOps \in Nat /\ \A o \in Ops : o <= NumOps
  BY <1>0, GroupMembers, GraphFacts DEF Ops
<1>2. U \in SUBSET Nat /\ \A o \in U : o <= NumOps
  BY <1>1
<1>3. PICK o \in U : \A k \in U : k <= o
  <2> HIDE DEF U
  <2> QED
    BY <1>1, <1>2, Greatest
<1>4. o \in g /\ \A p \in PartsOf(g) : o \notin p
  OBVIOUS
<1>5. o \notin External(g, g)
  <2> SUFFICES ASSUME o \in External(g, g) PROVE FALSE
    OBVIOUS
  <2>1. o \in Part(g, ShapedOuts(g, graph.shape[o]))
    BY <1>4 DEF Part, ShapedOuts
  <2> QED
    BY <1>4, <2>1, PartsAre
<1>6. o \notin graph.outputs /\ dst[o] \subseteq g
  BY <1>4, <1>5 DEF External
<1>7. PICK r \in dst[o] : r \in g
  BY <1>4, <1>6 DEF FusionInv, Fusing
<1>8. o \in Tensors /\ r \in Ops /\ o \in Ops
  BY <1>0, <1>1, <1>4, <1>7, GraphFacts
<1>9. o \in graph.reads[r] /\ o \in Reads(r)
  <2>1. o \in ReadsOf(graph, fused, r)
    BY <1>7, <1>8 DEF FusionInv, Fusing
  <2> QED
    BY <1>8, <2>1 DEF ReadsOf, Reads
<1>10. o < r
  <2>1. o # 0
    BY <1>0, <1>8, GraphFacts
  <2>2. o \in ReadOps(graph, r)
    BY <1>9, <2>1 DEF ReadOps
  <2> QED
    BY <1>0, <1>8, <2>2, GraphFacts
<1>11. r \notin U
  <2>1. r \in Nat /\ o \in Nat /\ ~(r <= o)
    BY <1>1, <1>8, <1>10
  <2> HIDE DEF U
  <2> QED
    BY <1>3, <2>1
<1>12. PICK p \in PartsOf(g) : r \in p
  BY <1>7, <1>11
<1>13. PICK s : p = Part(g, ShapedOuts(g, s))
  BY PartsAre
<1>14. o \in p
  <2>1. ShapedOuts(g, s) \in SUBSET g
    BY PartsAre
  <2> QED
    BY <1>4, <1>9, <1>12, <1>13, <2>1, PartClosed
<1> QED
  BY <1>4, <1>14

-----------------------------------------------------------------------------
(* The step that fuses a group                                             *)

LEMMA Enumerated ==
  ASSUME NEW S, IsFiniteSet(S)
  PROVE  /\ SetToSeq(S) \in Seq(S)
         /\ \A i, j \in DOMAIN SetToSeq(S) : SetToSeq(S)[i] = SetToSeq(S)[j] => i = j
         /\ \A x \in S : \E i \in DOMAIN SetToSeq(S) : SetToSeq(S)[i] = x
<1> DEFINE n == Cardinality(S)
           f == SetToSeq(S)
<1>1. n \in Nat /\ ExistsBijection(1 .. n, S)
  BY FS_CardinalityType
<1>2. PICK b : b \in Bijection(1 .. n, S)
  BY <1>1 DEF ExistsBijection
<1>3. b \in [1 .. n -> S] /\ IsInjective(b)
  BY <1>2 DEF Bijection, Injection, IsInjective
<1>4. f \in [1 .. n -> S] /\ IsInjective(f)
  <2> DEFINE Chosen(h) == h \in [1 .. n -> S] /\ IsInjective(h)
  <2>1. f = CHOOSE h : Chosen(h)
    BY DEF SetToSeq
  <2>2. Chosen(b)
    BY <1>3
  <2>3. Chosen(f)
    <3> HIDE DEF Chosen, f
    <3> QED
      BY <2>1, <2>2
  <2> QED
    BY <2>3
<1> HIDE DEF f
<1>5. f \in Injection(1 .. n, S) /\ DOMAIN f = 1 .. n /\ f \in Seq(S)
  BY <1>1, <1>4 DEF Injection, IsInjective
<1>6. IsFiniteSet(1 .. n) /\ Cardinality(1 .. n) = n
  BY <1>1, FS_Interval
<1>7. f \in Surjection(1 .. n, S)
  BY <1>5, <1>6, FS_Injection
<1>8. \A x \in S : \E i \in 1 .. n : f[i] = x
  BY <1>7 DEF Surjection
<1>9. \A i, j \in 1 .. n : f[i] = f[j] => i = j
  BY <1>4, <1>5 DEF IsInjective
<1> QED
  BY <1>5, <1>8, <1>9 DEF f

\* The ops that take the place of the parts of a group.
NewOps(g) == {FusedOp(p, g) : p \in PartsOf(g)}

LEMMA NewOpsAre ==
  ASSUME FusionInv, NEW g \in left
  PROVE  IsFiniteSet(NewOps(g)) /\ NewOps(g) \subseteq FusedOps(graph)
<1>1. NewOps(g) \subseteq FusedOps(graph)
  <2> SUFFICES ASSUME NEW p \in PartsOf(g) PROVE FusedOp(p, g) \in FusedOps(graph)
    BY DEF NewOps
  <2>1. p \subseteq g /\ g \subseteq Ops /\ g \subseteq graph.elementwise
    BY PartsAsserted, GroupMembers
  <2>2. ReadBy(p) \subseteq Tensors
    BY <2>1, GroupMembers DEF ReadBy
  <2> QED
    BY <2>1, <2>2 DEF FusedOp, FusedOps, External
<1>2. IsFiniteSet(NewOps(g))
  <2> DEFINE E == External(g, g)
             f == [o \in E |-> FusedOp(Part(g, ShapedOuts(g, graph.shape[o])), g)]
  <2>1. E \subseteq Ops /\ NumOps \in Nat
    <3>1. g \subseteq Ops
      BY GroupMembers
    <3>2. NumOps \in Nat
      BY GraphFacts DEF FusionInv, Fields
    <3> QED
      BY <3>1, <3>2 DEF External
  <2>2. IsFiniteSet(Ops)
    BY <2>1, FS_Interval DEF Ops
  <2>3. IsFiniteSet(E)
    BY <2>1, <2>2, FS_Subset
  <2>4. \A o \in E : f[o] \in NewOps(g)
    BY PartsAre DEF NewOps
  <2>5. \A x \in NewOps(g) : \E o \in E : f[o] = x
    <3> TAKE x \in NewOps(g)
    <3>1. PICK p \in PartsOf(g) : x = FusedOp(p, g)
      BY DEF NewOps
    <3>2. PICK s \in {graph.shape[o] : o \in E} : p = Part(g, ShapedOuts(g, s))
      BY PartsAre
    <3>3. PICK o \in E : s = graph.shape[o]
      BY <3>2
    <3> QED
      BY <3>1, <3>2, <3>3
  <2> HIDE DEF E
  <2>6. f \in Surjection(E, NewOps(g))
    BY <2>4, <2>5 DEF Surjection
  <2> QED
    BY <2>3, <2>6, FS_Surjection
<1> QED
  BY <1>1, <1>2

\* What is needed outside of a group is made by one part only, the one of its shape.
LEMMA OnePart ==
  ASSUME FusionInv, NEW g \in left, NEW p \in PartsOf(g), NEW q \in PartsOf(g),
         \A o, r \in External(p, g) : graph.shape[o] = graph.shape[r],
         \A o, r \in External(q, g) : graph.shape[o] = graph.shape[r],
         NEW t \in External(p, g), t \in External(q, g)
  PROVE  p = q
<1>1. PICK s \in {graph.shape[o] : o \in External(g, g)} : p = Part(g, ShapedOuts(g, s))
  BY PartsAre
<1>2. PICK u \in {graph.shape[o] : o \in External(g, g)} : q = Part(g, ShapedOuts(g, u))
  BY PartsAre
<1>3. PICK o \in External(g, g) : s = graph.shape[o]
  BY <1>1
<1>4. PICK r \in External(g, g) : u = graph.shape[r]
  BY <1>2
<1>5. o \in External(p, g)
  BY <1>1, <1>3 DEF ShapedOuts, Part, External
<1>6. r \in External(q, g)
  BY <1>2, <1>4 DEF ShapedOuts, Part, External
<1>7. s = graph.shape[t] /\ u = graph.shape[t]
  BY <1>3, <1>4, <1>5, <1>6
<1> QED
  BY <1>1, <1>2, <1>7

\* The parts with their numbers, and what FuseGroup does with them when it succeeds.
Numbered(g, new) ==
  /\ new \in Seq(FusedOps(graph))
  /\ \A i \in DOMAIN new : \E p \in PartsOf(g) : new[i] = FusedOp(p, g)
  /\ \A p \in PartsOf(g) : \E i \in DOMAIN new : new[i] = FusedOp(p, g)
  /\ \A i, j \in DOMAIN new : new[i] = new[j] => i = j

MakersIn(f, new, t)  == {NumOps + Len(f) + i : i \in {j \in DOMAIN new : t \in new[j].outs}}
ReadersIn(f, new, t) == {NumOps + Len(f) + i : i \in {j \in DOMAIN new : t \in new[j].ins}}

Replaced(g, new) ==
  /\ fused' = fused \o new
  /\ src' = [t \in Tensors |-> (src[t] \ g) \cup MakersIn(fused, new, t)]
  /\ dst' = [t \in Tensors |-> (dst[t] \ g) \cup ReadersIn(fused, new, t)]
  /\ left' = left \ {g}
  /\ \A i \in DOMAIN new : \A o, q \in new[i].outs : graph.shape[o] = graph.shape[q]

LEMMA FuseGroupSplits ==
  ASSUME FusionInv, NEW g \in left, FuseGroup(g)
  PROVE  /\ UNCHANGED <<graph, group, at, cur, todo, kept>> /\ phase = "fuse"
         /\ \/ phase' = "shapes differ" /\ UNCHANGED <<src, dst, fused, left>>
            \/ phase' = phase /\ \E new : Numbered(g, new) /\ Replaced(g, new)
<1> DEFINE new  == SetToSeq(NewOps(g))
           gone == UNION {new[i].ops : i \in DOMAIN new}
<1>1. /\ new \in Seq(NewOps(g))
      /\ \A i, j \in DOMAIN new : new[i] = new[j] => i = j
      /\ \A x \in NewOps(g) : \E i \in DOMAIN new : new[i] = x
  BY NewOpsAre, Enumerated
<1>2. Numbered(g, new)
  <2> HIDE DEF new
  <2>1. \A i \in DOMAIN new : new[i] \in NewOps(g)
    BY <1>1
  <2>2. new \in Seq(FusedOps(graph))
    BY <1>1, NewOpsAre
  <2> QED
    BY <1>1, <2>1, <2>2 DEF Numbered, NewOps
<1>3. \A i \in DOMAIN new : Asserted(new[i])
  <2> HIDE DEF new
  <2> QED
    BY <1>2, PartsAsserted DEF Numbered
<1>4. gone = g
  <2> HIDE DEF new
  <2>1. \A i \in DOMAIN new : new[i].ops \subseteq g
    BY <1>2, PartsAsserted DEF Numbered, FusedOp
  <2>2. ASSUME NEW m \in g PROVE m \in gone
    <3>1. PICK p \in PartsOf(g) : m \in p
      BY PartsCover
    <3>2. PICK i \in DOMAIN new : new[i] = FusedOp(p, g)
      BY <1>2 DEF Numbered
    <3>3. m \in new[i].ops
      BY <3>1, <3>2 DEF FusedOp
    <3> QED
      BY <3>3
  <2> QED
    BY <2>1, <2>2
<1>5. UNCHANGED <<graph, group, at, cur, todo, kept>> /\ phase = "fuse"
  BY DEF FuseGroup
<1> DEFINE Differ == \E i \in DOMAIN new : \E o, q \in new[i].outs : graph.shape[o] # graph.shape[q]
<1>6. CASE Differ
  <2>1. phase' = "shapes differ" /\ UNCHANGED <<src, dst, fused, left>>
    BY <1>3, <1>6 DEF FuseGroup, NewOps
  <2> QED
    BY <1>5, <2>1
<1>7. CASE ~Differ
  <2>1. /\ fused' = fused \o new
        /\ src' = [t \in Tensors |-> (src[t] \ gone) \cup MakersIn(fused, new, t)]
        /\ dst' = [t \in Tensors |-> (dst[t] \ gone) \cup ReadersIn(fused, new, t)]
        /\ left' = left \ {g} /\ phase' = phase
    BY <1>3, <1>7 DEF FuseGroup, NewOps, MakersIn, ReadersIn
  <2>2. Replaced(g, new)
    <3> HIDE DEF new, gone
    <3> QED
      BY <1>4, <1>7, <2>1 DEF Replaced
  <2> QED
    BY <1>2, <1>5, <2>1, <2>2
<1> QED
  BY <1>6, <1>7

\* The parts that make a tensor and those that read it.
LEMMA NumberedFacts ==
  ASSUME FusionInv, NEW g \in left, NEW new, Numbered(g, new)
  PROVE  /\ \A i \in DOMAIN new :
              /\ new[i].outs \subseteq External(g, g) /\ new[i].outs \subseteq g
              /\ new[i].ins \subseteq Tensors \ g
              /\ \A t \in new[i].ins : \E r \in g : t \in Reads(r)
         /\ \A t \in External(g, g) : \E i \in DOMAIN new : t \in new[i].outs
         /\ \A r \in g : \A t \in Reads(r) :
              t \notin g => \E i \in DOMAIN new : t \in new[i].ins
<1>0. \A p \in PartsOf(g) :
         /\ Asserted(FusedOp(p, g)) /\ p \subseteq g
         /\ FusedOp(p, g).ops = p /\ FusedOp(p, g).outs = External(p, g)
         /\ FusedOp(p, g).ins = {t \in ReadBy(p) : src[t] = {} \/ ~(src[t] \subseteq g)}
  BY PartsAsserted DEF FusedOp
<1>1. ASSUME NEW p \in PartsOf(g) PROVE FusedOp(p, g).ins \subseteq Tensors \ g
  <2>1. ReadBy(p) \subseteq Tensors
    BY <1>0, GroupMembers DEF ReadBy
  <2>2. \A t \in g : src[t] # {} /\ src[t] \subseteq g
    BY GroupMembers
  <2> QED
    BY <1>0, <2>1, <2>2
<1>2. ASSUME NEW i \in DOMAIN new
      PROVE  /\ new[i].outs \subseteq External(g, g) /\ new[i].outs \subseteq g
             /\ new[i].ins \subseteq Tensors \ g
             /\ \A t \in new[i].ins : \E r \in g : t \in Reads(r)
  <2>1. PICK p \in PartsOf(g) : new[i] = FusedOp(p, g)
    BY DEF Numbered
  <2>2. new[i].outs \subseteq External(g, g) /\ new[i].outs \subseteq g
    BY <1>0, <2>1 DEF External
  <2>3. \A t \in new[i].ins : t \in ReadBy(p)
    BY <1>0, <2>1
  <2>4. \A t \in ReadBy(p) : \E r \in g : t \in Reads(r)
    BY <1>0 DEF ReadBy
  <2> QED
    BY <1>1, <2>1, <2>2, <2>3, <2>4
<1>3. ASSUME NEW t \in External(g, g) PROVE \E i \in DOMAIN new : t \in new[i].outs
  <2> DEFINE p == Part(g, ShapedOuts(g, graph.shape[t]))
  <2>1. p \in PartsOf(g)
    BY PartsAre
  <2>2. t \in External(p, g)
    BY DEF External, Part, ShapedOuts
  <2> HIDE DEF p
  <2>3. PICK i \in DOMAIN new : new[i] = FusedOp(p, g)
    BY <2>1 DEF Numbered
  <2> QED
    BY <1>0, <2>1, <2>2, <2>3
<1>4. ASSUME NEW r \in g, NEW t \in Reads(r), t \notin g
      PROVE  \E i \in DOMAIN new : t \in new[i].ins
  <2>1. PICK p \in PartsOf(g) : r \in p
    BY PartsCover
  <2>2. PICK i \in DOMAIN new : new[i] = FusedOp(p, g)
    BY <2>1 DEF Numbered
  <2>3. t \in ReadBy(p)
    BY <2>1 DEF ReadBy
  <2>4. t \in Tensors
    BY GroupMembers
  <2>5. src[t] = {} \/ ~(src[t] \subseteq g)
    BY <1>4, <2>4, GroupMembers
  <2> QED
    BY <1>0, <2>1, <2>2, <2>3, <2>5
<1> QED
  BY <1>2, <1>3, <1>4

LEMMA ReplacedKeeps ==
  ASSUME FusionInv, phase = "fuse", NEW g \in left, NEW new, Numbered(g, new), Replaced(g, new),
         UNCHANGED <<graph, group, at, cur, todo, kept, phase>>
  PROVE  FusionInv'
<1> DEFINE k    == NumOps + Len(fused)
           made(t) == MakersIn(fused, new, t)
           read(t) == ReadersIn(fused, new, t)
<1>0. /\ graph \in Graphs /\ fused \in Seq(FusedOps(graph)) /\ new \in Seq(FusedOps(graph))
      /\ src \in [Tensors -> SUBSET Ids(fused)] /\ dst \in [Tensors -> SUBSET Ids(fused)]
  BY DEF FusionInv, Fields, Numbered
<1>1. /\ NumOps \in Nat /\ 0 \notin Ops /\ Ops \subseteq Tensors /\ 0 \in Tensors
      /\ graph.outputs \subseteq Ops
  BY <1>0, GraphFacts
<1>2. /\ Len(fused) \in Nat /\ Len(new) \in Nat /\ DOMAIN new = 1 .. Len(new)
      /\ fused' \in Seq(FusedOps(graph)) /\ Len(fused') = Len(fused) + Len(new)
      /\ \A i \in 1 .. Len(fused) : fused'[i] = fused[i]
      /\ \A i \in 1 .. Len(new) : fused'[Len(fused) + i] = new[i]
  <2>1. fused' = fused \o new
    BY DEF Replaced
  <2>2. Len(fused) \in Nat /\ Len(new) \in Nat /\ DOMAIN new = 1 .. Len(new)
    BY <1>0
  <2> QED
    BY <1>0, <2>1, <2>2
<1>3. /\ \A t \in Tensors : src'[t] = (src[t] \ g) \cup made(t)
      /\ \A t \in Tensors : dst'[t] = (dst[t] \ g) \cup read(t)
      /\ src' \in [Tensors -> SUBSET Ids(fused')] /\ dst' \in [Tensors -> SUBSET Ids(fused')]
  <2>1. \A t : made(t) \subseteq Ids(fused') /\ read(t) \subseteq Ids(fused')
    BY <1>1, <1>2 DEF MakersIn, ReadersIn, Ids
  <2>2. Ids(fused) \subseteq Ids(fused')
    BY <1>1, <1>2 DEF Ids
  <2>3. /\ \A t \in Tensors : src'[t] = (src[t] \ g) \cup made(t)
        /\ \A t \in Tensors : dst'[t] = (dst[t] \ g) \cup read(t)
        /\ DOMAIN src' = Tensors /\ DOMAIN dst' = Tensors
        /\ src' = [t \in Tensors |-> src'[t]] /\ dst' = [t \in Tensors |-> dst'[t]]
    BY DEF Replaced
  <2>4. \A t \in Tensors : src[t] \in SUBSET Ids(fused') /\ dst[t] \in SUBSET Ids(fused')
    BY <1>0, <2>2
  <2> HIDE DEF made, read
  <2>5. \A t \in Tensors : src'[t] \in SUBSET Ids(fused') /\ dst'[t] \in SUBSET Ids(fused')
    BY <2>1, <2>3, <2>4
  <2> QED
    BY <2>3, <2>5
<1>4. /\ \A t : \A x \in made(t) : \E i \in DOMAIN new : x = k + i /\ t \in new[i].outs
      /\ \A t : \A x \in read(t) : \E i \in DOMAIN new : x = k + i /\ t \in new[i].ins
      /\ \A t : \A i \in DOMAIN new : t \in new[i].outs => k + i \in made(t)
      /\ \A t : \A i \in DOMAIN new : t \in new[i].ins => k + i \in read(t)
  BY DEF MakersIn, ReadersIn
<1> HIDE DEF made, read
<1>5. /\ \A i \in DOMAIN new :
           /\ new[i].outs \subseteq External(g, g) /\ new[i].outs \subseteq g
           /\ new[i].ins \subseteq Tensors \ g
           /\ \A t \in new[i].ins : \E r \in g : t \in Reads(r)
      /\ \A t \in External(g, g) : \E i \in DOMAIN new : t \in new[i].outs
      /\ \A r \in g : \A t \in Reads(r) :
           t \notin g => \E i \in DOMAIN new : t \in new[i].ins
  BY NumberedFacts
<1>6. /\ g \subseteq Ops /\ g \subseteq Tensors
      /\ \A o \in g : src[o] = {o} /\ Reads(o) = graph.reads[o] /\ Reads(o) \subseteq Tensors
      /\ \A t \in Tensors : t \notin g => src[t] \cap g = {}
  BY <1>1, GroupMembers
\* Numbers that were given stand for what they stood for.
<1>7. \A x \in Ids(fused) : ReadsOf(graph, fused', x) = ReadsOf(graph, fused, x)
  <2> TAKE x \in Ids(fused)
  <2>1. CASE x \in Ops
    BY <2>1 DEF ReadsOf
  <2>2. CASE x \notin Ops
    <3>1. x - NumOps \in 1 .. Len(fused)
      BY <1>1, <1>2, <2>2 DEF Ids, Ops
    <3> QED
      BY <1>2, <2>2, <3>1 DEF ReadsOf
  <2> QED
    BY <2>1, <2>2
<1>8. \A i \in DOMAIN new : ReadsOf(graph, fused', k + i) = new[i].ins
  <2> TAKE i \in DOMAIN new
  <2>1. k + i \notin Ops /\ (k + i) - NumOps = Len(fused) + i
    BY <1>1, <1>2 DEF Ops
  <2>2. ReadsOf(graph, fused', k + i) = fused'[(k + i) - NumOps].ins
    BY <2>1 DEF ReadsOf
  <2> HIDE DEF k
  <2> QED
    BY <1>2, <2>1, <2>2
<1>9. Fields'
  <2>1. left' \subseteq left
    BY DEF Replaced
  <2> QED
    BY <1>2, <1>3, <2>1 DEF FusionInv, Fields
<1>10. Disjoint'
  BY DEF FusionInv, Disjoint
<1>11. Grouping'
  BY DEF Grouping
<1>12. Fusing'
  <2> USE DEF FusionInv
  <2>1. left' \subseteq {group[o] : o \in Ops} \ {{}} /\ left' = left \ {g}
    BY DEF Fusing, Replaced
  <2>2. \A t \in Tensors : src'[t] \subseteq ({t} \ {0}) \cup FusedIds(fused')
    <3> TAKE t \in Tensors
    <3>1. made(t) \subseteq FusedIds(fused')
      <4>1. \A i \in DOMAIN new : k + i \in FusedIds(fused')
        BY <1>1, <1>2 DEF FusedIds
      <4> HIDE DEF k
      <4> QED
        BY <1>4, <4>1
    <3>2. src[t] \subseteq ({t} \ {0}) \cup FusedIds(fused)
      BY DEF Fusing
    <3>3. FusedIds(fused) \subseteq FusedIds(fused')
      BY <1>1, <1>2 DEF FusedIds
    <3> QED
      BY <1>3, <3>1, <3>2, <3>3
  <2>3. src'[0] = {}
    <3>1. made(0) = {}
      BY <1>1, <1>4, <1>5, <1>6
    <3> QED
      BY <1>1, <1>3, <3>1 DEF Fusing
  <2>4. ASSUME NEW h \in left', NEW t \in h PROVE src'[t] = {t} /\ t \notin g /\ t \in Tensors
    <3>1. h \in left /\ h # g
      BY <2>1, <2>4
    <3>2. t \notin g
      BY <3>1, LeftApart
    <3>3. src[t] = {t} /\ t \in Tensors
      BY <1>1, <3>1, GroupMembers
    <3>4. made(t) = {}
      BY <1>4, <1>5, <3>2
    <3> QED
      BY <1>3, <3>2, <3>3, <3>4
  <2>5. \A t \in Tensors : \A x \in dst'[t] : t \in ReadsOf(graph, fused', x)
    <3> TAKE t \in Tensors
    <3> TAKE x \in dst'[t]
    <3>1. CASE x \in dst[t]
      BY <1>0, <1>7, <3>1 DEF Fusing
    <3>2. CASE x \notin dst[t]
      <4>1. PICK i \in DOMAIN new : x = k + i /\ t \in new[i].ins
        BY <1>3, <1>4, <3>2
      <4> QED
        BY <1>8, <4>1
    <3> QED
      BY <3>1, <3>2
  <2>6. \A t, u \in Tensors : \A x \in src'[u] : t \in ReadsOf(graph, fused', x) => x \in dst'[t]
    <3> TAKE t, u \in Tensors
    <3> TAKE x \in src'[u]
    <3> HAVE t \in ReadsOf(graph, fused', x)
    <3>1. CASE x \in src[u] \ g
      <4>1. t \in ReadsOf(graph, fused, x)
        BY <1>0, <1>7, <3>1
      <4>2. x \in dst[t]
        BY <3>1, <4>1 DEF Fusing
      <4> QED
        BY <1>3, <3>1, <4>2
    <3>2. CASE x \notin src[u] \ g
      <4>1. PICK i \in DOMAIN new : x = k + i
        BY <1>3, <1>4, <3>2
      <4>2. t \in new[i].ins
        BY <1>8, <4>1
      <4> QED
        BY <1>3, <1>4, <4>1, <4>2
    <3> QED
      BY <3>1, <3>2
  <2>7. ASSUME NEW h \in left', NEW o \in h PROVE o \in graph.outputs \/ dst'[o] # {}
    <3>1. h \in left /\ o \notin g /\ o \in Tensors
      BY <2>1, <2>4
    <3>2. CASE o \in graph.outputs
      BY <3>2
    <3>3. CASE o \notin graph.outputs
      <4>1. PICK r \in dst[o] : TRUE
        BY <3>1, <3>3 DEF Fusing
      <4>2. CASE r \notin g
        BY <1>3, <3>1, <4>2
      <4>3. CASE r \in g
        <5>1. o \in ReadsOf(graph, fused, r)
          BY <3>1 DEF Fusing
        <5>2. o \in Reads(r)
          BY <1>6, <4>3, <5>1 DEF ReadsOf
        <5>3. PICK i \in DOMAIN new : o \in new[i].ins
          BY <1>5, <3>1, <4>3, <5>2
        <5> QED
          BY <1>3, <1>4, <3>1, <5>3
      <4> QED
        BY <4>2, <4>3
    <3> QED
      BY <3>2, <3>3
  <2>8. ASSUME NEW t \in Ops
        PROVE  \/ \E x : src'[t] = {x}
               \/ src'[t] = {} /\ dst'[t] = {} /\ t \notin graph.outputs
    <3>0. t \in Tensors /\ src'[t] = (src[t] \ g) \cup made(t) /\ dst'[t] = (dst[t] \ g) \cup read(t)
      BY <1>1, <1>3
    <3>1. CASE t \in External(g, g)
      <4>1. t \in g
        BY <3>1 DEF External
      <4>2. src[t] \ g = {}
        BY <1>6, <4>1
      <4>3. PICK i \in DOMAIN new : t \in new[i].outs
        BY <1>5, <3>1
      <4>4. ASSUME NEW j \in DOMAIN new, t \in new[j].outs PROVE j = i
        <5>1. PICK p \in PartsOf(g) : new[i] = FusedOp(p, g)
          BY DEF Numbered
        <5>2. PICK q \in PartsOf(g) : new[j] = FusedOp(q, g)
          BY DEF Numbered
        <5>3. new[i].outs = External(p, g) /\ new[j].outs = External(q, g)
          BY <5>1, <5>2 DEF FusedOp
        <5>4. /\ \A o, r \in External(p, g) : graph.shape[o] = graph.shape[r]
              /\ \A o, r \in External(q, g) : graph.shape[o] = graph.shape[r]
          BY <5>3 DEF Replaced
        <5>5. p = q
          BY <4>3, <4>4, <5>3, <5>4, OnePart
        <5> QED
          BY <5>1, <5>2, <5>5 DEF Numbered
      <4> HIDE DEF k
      <4>5. made(t) = {k + i}
        BY <1>4, <4>3, <4>4
      <4> QED
        BY <3>0, <4>2, <4>5
    <3>2. CASE t \in g /\ t \notin External(g, g)
      <4>1. t \notin graph.outputs /\ dst[t] \subseteq g
        BY <3>2 DEF External
      <4>2. src[t] \ g = {}
        BY <1>6, <3>2
      <4>3. made(t) = {} /\ read(t) = {}
        BY <1>4, <1>5, <3>2
      <4> QED
        BY <3>0, <4>1, <4>2, <4>3
    <3>3. CASE t \notin g
      <4>1. src'[t] = src[t]
        BY <1>4, <1>5, <1>6, <3>0, <3>3
      <4>2. (\E x : src[t] = {x}) \/ (src[t] = {} /\ dst[t] = {} /\ t \notin graph.outputs)
        BY DEF Fusing
      <4>3. dst[t] = {} => dst'[t] = {}
        <5> SUFFICES ASSUME dst[t] = {}, read(t) # {} PROVE FALSE
          BY <3>0
        <5>1. PICK i \in DOMAIN new : t \in new[i].ins
          BY <1>4
        <5>2. PICK r \in g : t \in Reads(r)
          BY <1>5, <5>1
        <5>3. r \in src[r] /\ r \in Tensors /\ t \in ReadsOf(graph, fused, r)
          BY <1>6, <5>2 DEF ReadsOf
        <5>4. r \in dst[t]
          BY <3>0, <5>3 DEF Fusing
        <5> QED
          BY <5>4
      <4> QED
        BY <4>1, <4>2, <4>3
    <3> QED
      BY <3>1, <3>2, <3>3
  <2>9. graph' = graph /\ group' = group
    OBVIOUS
  <2>10. \A h \in left' : \A t \in h : src'[t] = {t} /\ (t \in graph.outputs \/ dst'[t] # {})
    BY <2>4, <2>7
  <2>11. left' \subseteq {group'[o] : o \in Ops} \ {{}}
    BY <2>1, <2>9
  <2> QED
    BY <2>2, <2>3, <2>5, <2>6, <2>8, <2>9, <2>10, <2>11, Zenon DEF Fusing
<1> QED
  BY <1>9, <1>10, <1>11, <1>12 DEF FusionInv

\* A step that leaves src_ops, dst_ops and the groups alone.
LEMMA FusingFrame ==
  ASSUME Fusing, graph' = graph, group' = group, src' = src, dst' = dst, fused' = fused, left' = left
  PROVE  Fusing'
<1>1. left' \subseteq {group'[o] : o \in Ops} \ {{}}
  BY DEF Fusing
<1>2. /\ \A t \in Tensors : src[t] \subseteq ({t} \ {0}) \cup FusedIds(fused)
      /\ src[0] = {}
      /\ \A h \in left : \A t \in h : src[t] = {t}
      /\ \A t \in Tensors : \A x \in dst[t] : t \in ReadsOf(graph, fused, x)
      /\ \A t, u \in Tensors : \A x \in src[u] : t \in ReadsOf(graph, fused, x) => x \in dst[t]
      /\ \A h \in left : \A o \in h : o \in graph.outputs \/ dst[o] # {}
      /\ \A t \in Ops : \/ \E x : src[t] = {x}
                        \/ src[t] = {} /\ dst[t] = {} /\ t \notin graph.outputs
  BY DEF Fusing
<1> QED
  BY <1>1, <1>2, Zenon DEF Fusing

LEMMA FuseGroupKeeps == ASSUME FusionInv, NEW g \in left, FuseGroup(g) PROVE FusionInv'
<1>1. UNCHANGED <<graph, group, at, cur, todo, kept>> /\ phase = "fuse"
  BY FuseGroupSplits
<1>2. CASE phase' = "shapes differ" /\ UNCHANGED <<src, dst, fused, left>>
  <2>1. Fields' /\ Disjoint'
    BY <1>1, <1>2 DEF FusionInv, Fields, Disjoint
  <2>2. Grouping'
    BY <1>2 DEF Grouping
  <2>3. Fusing'
    <3>1. Fusing
      BY DEF FusionInv
    <3>2. graph' = graph /\ group' = group /\ src' = src /\ dst' = dst /\ fused' = fused /\ left' = left
      BY <1>1, <1>2
    <3> QED
      BY <3>1, <3>2, FusingFrame
  <2> QED
    BY <2>1, <2>2, <2>3 DEF FusionInv
<1>3. CASE phase' = phase /\ \E new : Numbered(g, new) /\ Replaced(g, new)
  <2>1. PICK new : Numbered(g, new) /\ Replaced(g, new)
    BY <1>3
  <2> QED
    BY <1>1, <1>3, <2>1, ReplacedKeeps
<1> QED
  BY <1>2, <1>3, FuseGroupSplits

-----------------------------------------------------------------------------
(* The theorems                                                            *)

LEMMA StutterKeeps == ASSUME FusionInv, UNCHANGED vars PROVE FusionInv'
<1>1. UNCHANGED <<graph, src, dst, group, at, cur, todo, fused, left, kept, phase>>
  BY DEF vars
<1>2. Fields' /\ Disjoint'
  BY <1>1 DEF FusionInv, Fields, Disjoint
<1>3. Grouping'
  BY <1>1 DEF FusionInv, Grouping
<1>4. Fusing'
  <2>1. Fusing
    BY DEF FusionInv
  <2>2. graph' = graph /\ group' = group /\ src' = src /\ dst' = dst /\ fused' = fused /\ left' = left
    BY <1>1
  <2> QED
    BY <2>1, <2>2, FusingFrame
<1> QED
  BY <1>2, <1>3, <1>4 DEF FusionInv

LEMMA FusionInvariant == Spec => []FusionInv
<1>1. Init => FusionInv
  BY InitEstablishes
<1>2. FusionInv /\ [Next]_vars => FusionInv'
  <2> SUFFICES ASSUME FusionInv, [Next]_vars PROVE FusionInv'
    OBVIOUS
  <2>1. CASE Add
    BY <2>1, AddKeeps
  <2>2. CASE Added
    BY <2>2, AddedKeeps
  <2>3. CASE Grouped
    BY <2>3, GroupedKeeps
  <2>4. CASE Sort
    BY <2>4, SortKeeps
  <2>5. ASSUME NEW d \in Ops, Merge(d) PROVE FusionInv'
    BY <2>5, MergeKeeps
  <2>6. ASSUME NEW g \in left, FuseGroup(g) PROVE FusionInv'
    BY <2>6, FuseGroupKeeps
  <2>7. CASE UNCHANGED vars
    BY <2>7, StutterKeeps
  <2> QED
    BY <2>1, <2>2, <2>3, <2>4, <2>5, <2>6, <2>7 DEF Next
<1> QED
  BY <1>1, <1>2, PTL DEF Spec

\* The attributes of the tensors, the groups and the fused ops are what they should
\* be, and the groups are those of a disjoint set (SimpleDisjointSet of fuse_ops.py).
THEOREM FusionTypes == Spec => []TypeOK
<1>1. FusionInv => TypeOK
  <2> SUFFICES ASSUME FusionInv PROVE TypeOK
    OBVIOUS
  <2>0. /\ graph \in Graphs /\ at \in 1 .. (NumOps + 1) /\ group \in [Ops -> SUBSET graph.elementwise]
        /\ fused \in Seq(FusedOps(graph))
    BY DEF FusionInv, Fields
  <2>1. NumOps \in Nat /\ Ops \subseteq Nat /\ graph.elementwise \subseteq Ops
    BY <2>0, GraphFacts
  <2>2. Present = Ids(fused)
    BY PresentIds DEF FusionInv
  <2>3. \A i \in DOMAIN fused : fused[i] \in FusedOps(graph)
    BY <2>0
  <2>4. ASSUME NEW o \in Ops, group[o] # {}
        PROVE  (group[o] \ {at}) = {q \in Ops \ {at} : group[q] = group[o]}
    <3>1. ASSUME NEW q \in group[o], q # at PROVE q \in Ops /\ group[q] = group[o]
      <4>1. q \in Ops /\ q \in Nat /\ at \in Nat
        BY <2>0, <2>1
      <4>2. q <= at
        BY DEF FusionInv, Disjoint
      <4>3. q < at
        BY <3>1, <4>1, <4>2
      <4> QED
        BY <4>1, <4>3 DEF FusionInv, Disjoint
    <3>2. \A q \in Ops : group[q] = group[o] => q \in group[o]
      BY <2>4 DEF FusionInv, Disjoint
    <3> QED
      BY <3>1, <3>2
  <2> QED
    BY <2>2, <2>3, <2>4 DEF FusionInv, Fields, TypeOK, FusedOps
<1> QED
  BY <1>1, FusionInvariant, PTL

\* A path that leaves a group never comes back (_detect_cycle of fuse_ops.py), in
\* every graph.
THEOREM GroupsStayConvex == Spec => []GroupsAreConvex
  BY ConvexSuffices, FusionInvariant, PTL

\* _get_inputs_outputs of fuse_ops.py never fails on an assertion, whichever groups
\* were fused before: what a part reads is made in the part or outside of its group.
THEOREM NoAssertionFails == Spec => []AssertionsHold
<1>1. FusionInv => AssertionsHold
  BY DEF FusionInv, Fields, AssertionsHold
<1> QED
  BY <1>1, FusionInvariant, PTL

\* _create_fuse_ops of fuse_ops.py gives a tensor that is needed one op that makes
\* it, although the parts of a group overlap.
THEOREM EveryTensorHasOneProducer == Spec => []OneProducer
<1>1. FusionInv => OneProducer
  <2> SUFFICES ASSUME FusionInv, NEW t \in Ops,
                      t \in graph.outputs \/ (\E o \in Present : src[t] # {t} /\ o \in dst[t])
               PROVE  Cardinality(src[t]) = 1
    BY DEF OneProducer
  <2>1. \E x : src[t] = {x}
    BY DEF FusionInv, Fusing
  <2> QED
    BY <2>1, FS_Singleton
<1> QED
  BY <1>1, FusionInvariant, PTL
=============================================================================
