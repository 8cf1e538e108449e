------------------------------- MODULE Recursion -------------------------------
(***************************************************************************)
(* Facts about numbers and recursive functions that the proofs about the   *)
(* graph passes share.  The induction they need is an argument by a least  *)
(* counterexample.                                                         *)
(***************************************************************************)
EXTENDS Integers, FiniteSets, FiniteSetsExt, FiniteSetTheorems, WellFoundedInduction, TLAPS

\* A set of numbers that is not empty has a least element ...
LEMMA Least == ASSUME NEW T \in SUBSET Nat, T # {} PROVE \E m \in T : \A k \in T : m <= k
<1> DEFINE R == OpToRel(<, Nat)
<1>1. IsWellFoundedOn(R, Nat)
  BY NatLessThanWellFounded
<1>2. \E x \in T : \A y \in T : ~(<<y, x>> \in R)
  <2> HIDE DEF R
  <2>1. QED
    BY <1>1, WFMin
<1>3. \A x, y \in Nat : y < x => <<y, x>> \in R
  BY DEF OpToRel
<1> HIDE DEF R
<1>4. PICK m \in T : \A y \in T : ~(<<y, m>> \in R)
  BY <1>2
<1>5. ASSUME NEW k \in T PROVE m <= k
  <2>1. m \in Nat /\ k \in Nat /\ ~(k < m)
    BY <1>3, <1>4
  <2>2. QED
    BY <2>1
<1>6. QED
  BY <1>5

\* ... and, when it is bounded, a greatest one.
LEMMA Greatest ==
  ASSUME NEW T \in SUBSET Nat, T # {}, NEW n \in Nat, \A k \in T : k <= n
  PROVE  \E m \in T : \A k \in T : k <= m
<1> DEFINE U == {n - k : k \in T}
<1>1. U \in SUBSET Nat /\ U # {}
  <2>1. \A k \in T : n - k \in Nat
    OBVIOUS
  <2> QED
    BY <2>1
<1> HIDE DEF U
<1>2. PICK u \in U : \A v \in U : u <= v
  BY <1>1, Least
<1> USE DEF U
<1>3. PICK m \in T : u = n - m
  OBVIOUS
<1>4. \A k \in T : n - m <= n - k
  BY <1>2, <1>3
<1>5. QED
  BY <1>4

\* Min and Max are what their names say.
LEMMA MinIsLeast ==
  ASSUME NEW T \in SUBSET Nat, T # {}
  PROVE  Min(T) \in T /\ \A k \in T : Min(T) <= k
  BY Least DEF Min

LEMMA MaxIsGreatest ==
  ASSUME NEW T \in SUBSET Nat, T # {}, NEW n \in Nat, \A k \in T : k <= n
  PROVE  Max(T) \in T /\ \A k \in T : k <= Max(T)
<1>1. \E m \in T : \A k \in T : k <= m
  BY Greatest
<1>2. \E m \in T : \A k \in T : m >= k
  BY <1>1
<1>3. Max(T) \in T /\ \A k \in T : Max(T) >= k
  BY <1>2 DEF Max
<1>4. Max(T) \in Nat
  BY <1>3
<1> QED
  BY <1>3, <1>4

\* The body G of a recursive function from D to V: for functions that agree on the
\* arguments of a smaller measure m, it gives the same.
Body(D, V, n, m, G) ==
  /\ V # {} /\ n \in Nat /\ m \in [D -> 0 .. n] /\ G \in [D \X [D -> V] -> V]
  /\ \A x \in D : \A f, h \in [D -> V] :
       (\A y \in D : m[y] < m[x] => f[y] = h[y]) => G[<<x, f>>] = G[<<x, h>>]

\* A function may be defined by recursion: its equation has a solution.
LEMMA RecursiveFunction ==
  ASSUME NEW D, NEW V, NEW n, NEW m, NEW G, Body(D, V, n, m, G)
  PROVE  \E f \in [D -> V] : \A x \in D : f[x] = G[<<x, f>>]
<1> USE DEF Body
<1> DEFINE Solved(k, f) == \A x \in D : m[x] < k => f[x] = G[<<x, f>>]
           Bad == {k \in Nat : ~ \E f \in [D -> V] : Solved(k, f)}
<1>1. ASSUME Bad # {} PROVE FALSE
  <2>1. PICK k \in Bad : \A l \in Bad : k <= l
    BY <1>1, Least
  <2>2. k # 0
    <3>1. PICK v \in V : TRUE
      OBVIOUS
    <3>2. [x \in D |-> v] \in [D -> V]
      OBVIOUS
    <3>3. \A x \in D : ~(m[x] < 0)
      OBVIOUS
    <3>4. Solved(0, [x \in D |-> v])
      BY <3>3
    <3> QED
      BY <2>1, <3>2, <3>4
  <2>3. k - 1 \in Nat /\ k - 1 \notin Bad
    <3>1. k \in Nat
      BY <2>1
    <3>2. k - 1 \in Nat /\ ~(k <= k - 1)
      BY <2>2, <3>1
    <3> HIDE DEF Bad
    <3> QED
      BY <2>1, <3>2
  <2>4. PICK f \in [D -> V] : Solved(k - 1, f)
    BY <2>3
  <2>5. PICK h : h = [x \in D |-> IF m[x] < k - 1 THEN f[x] ELSE G[<<x, f>>]]
    OBVIOUS
  <2>6. h \in [D -> V]
    BY <2>5
  <2>7. ASSUME NEW x \in D, m[x] < k PROVE h[x] = G[<<x, h>>]
    <3>1. \A y \in D : m[y] < m[x] => f[y] = h[y]
      <4>1. \A y \in D : m[y] < m[x] => m[y] < k - 1
        BY <2>3, <2>7
      <4> QED
        BY <2>5, <4>1
    <3>2. G[<<x, f>>] = G[<<x, h>>]
      BY <2>6, <3>1
    <3>3. h[x] = G[<<x, f>>]
      BY <2>4, <2>5
    <3>4. f \in [D -> V] /\ h \in [D -> V] /\ x \in D
      BY <2>6
    <3> QED
      BY <3>2, <3>3
  <2> QED
    BY <2>1, <2>6, <2>7
<1>2. n + 1 \in Nat /\ n + 1 \notin Bad
  <2>1. Bad = {}
    BY <1>1
  <2> HIDE DEF Bad
  <2> QED
    BY <2>1
<1>3. PICK f \in [D -> V] : Solved(n + 1, f)
  BY <1>2
<1>4. \A x \in D : m[x] < n + 1
  OBVIOUS
<1> QED
  BY <1>3, <1>4
=============================================================================
