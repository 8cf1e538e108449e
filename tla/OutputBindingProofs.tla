-------------------------- MODULE OutputBindingProofs --------------------------
(***************************************************************************)
(* The outputs of every graph in which an internal tensor has one view at  *)
(* most.  The marks of the passes are recursive functions of the graph     *)
(* alone: they are written as such (OriginalOf, MarksOf, ExternalOf,       *)
(* IndexOf), shown to satisfy their equations, and followed along a chain  *)
(* of views.                                                               *)
(***************************************************************************)
EXTENDS OutputBinding, Recursion, TLAPS

\* An internal tensor, made by a kernel and no output, has one view at most.
OneViewEach ==
  \A g \in Graphs : \A t, u, v \in Tensors :
    /\ g.kind[t] = "computed" /\ t \notin g.outputs
    /\ u # t /\ v # t /\ g.view[u] = t /\ g.view[v] = t
    => u = v

ViewsIn(g, t) == {v \in Tensors : v # t /\ g.view[v] = t}

\* One turn of each recursion, for what f says of the tensors it looks at.
OriginalFrom(g, f, t) == IF g.view[t] # t THEN f[g.view[t]] ELSE t

MarkFrom(g, f, t) == /\ ViewsIn(g, t) # {}
                     /\ Min(ViewsIn(g, t)) \in g.outputs \/ f[Min(ViewsIn(g, t))]

\* A tensor whose memory the client sees.
Special(g, t) == g.kind[t] # "computed" \/ t \in g.outputs

ExternalFrom(g, f, t) ==
  IF ~(g.view[t] # t) THEN None
  ELSE IF f[g.view[t]] # None THEN f[g.view[t]]
  ELSE IF Special(g, g.view[t]) THEN g.view[t] ELSE None

IndexFrom(g, f, t) ==
  IF t \in g.outputs THEN t
  ELSE LET indexed == {v \in ViewsIn(g, t) : f[v] # None}
       IN  IF indexed = {} THEN None ELSE f[Max(indexed)]

OriginalOf(g) == CHOOSE f : f = [t \in Tensors |-> OriginalFrom(g, f, t)]
MarksOf(g)    == CHOOSE f : f = [t \in Tensors |-> MarkFrom(g, f, t)]
ExternalOf(g) == CHOOSE f : f = [t \in Tensors |-> ExternalFrom(g, f, t)]
IndexOf(g)    == CHOOSE f : f = [t \in Tensors |-> IndexFrom(g, f, t)]

LEMMA Recursive ==
  /\ Original = OriginalOf(graph)
  /\ \A t : AliasMarks(t) = MarksOf(graph)[t]
  /\ \A t : External(t) = ExternalOf(graph)[t]
  /\ \A t : OutputIndex(t) = IndexOf(graph)[t]
<1>1. Original = OriginalOf(graph)
  BY DEF Original, OriginalOf, OriginalFrom, IsView
<1>2. \A t : AliasMarks(t) = MarksOf(graph)[t]
  BY DEF AliasMarks, MarksOf, MarkFrom, ViewsOf, ViewsIn, IsOutput
<1>3. \A t : External(t) = ExternalOf(graph)[t]
  BY DEF External, ExternalOf, ExternalFrom, Special, IsView, IsOutput
<1>4. \A t : OutputIndex(t) = IndexOf(graph)[t]
  BY DEF OutputIndex, IndexOf, IndexFrom, ViewsOf, ViewsIn, IsOutput
<1> QED
  BY <1>1, <1>2, <1>3, <1>4

LEMMA GraphFacts ==
  ASSUME NEW g \in Graphs
  PROVE  /\ Cardinality(Tensors) \in Nat /\ Tensors = 1 .. Cardinality(Tensors)
         /\ Tensors \in SUBSET Nat /\ None \notin Tensors
         /\ g.view \in [Tensors -> Tensors] /\ g.outputs \subseteq Tensors
         /\ \A t \in Tensors : g.kind[t] \in {"input", "constant", "computed"}
         /\ \A t \in Tensors : g.view[t] # t => g.view[t] < t /\ g.kind[t] = "computed"
         /\ \A t \in Tensors : ViewsIn(g, t) \in SUBSET Tensors /\ \A v \in ViewsIn(g, t) : t < v
<1>1. Cardinality(Tensors) \in Nat
  BY FS_CardinalityType, BindingAssumption
<1>2. Tensors = 1 .. Cardinality(Tensors)
  BY BindingAssumption
<1>3. Tensors \in SUBSET Nat /\ None \notin Tensors
  BY <1>1, <1>2 DEF None
<1>4. /\ g \in [kind : [Tensors -> {"input", "constant", "computed"}],
                view : [Tensors -> Tensors], outputs : SUBSET Tensors]
      /\ \A t \in Tensors : g.view[t] <= t /\ (g.view[t] # t => g.kind[t] = "computed")
  BY BindingAssumption
<1>5. ASSUME NEW t \in Tensors, g.view[t] # t PROVE g.view[t] < t
  <2>1. g.view[t] \in Tensors /\ g.view[t] <= t
    BY <1>4
  <2>2. g.view[t] \in Nat /\ t \in Nat
    BY <1>3, <2>1
  <2> QED
    BY <1>5, <2>1, <2>2
<1>6. \A t \in Tensors : \A v \in ViewsIn(g, t) : t < v
  BY <1>5 DEF ViewsIn
<1> QED
  BY <1>1, <1>2, <1>3, <1>4, <1>5, <1>6 DEF ViewsIn

\* The last tensor that f allows, and the first.
LEMMA MaxMinViews ==
  ASSUME NEW g \in Graphs, NEW T \in SUBSET Tensors, T # {}
  PROVE  Max(T) \in T /\ Min(T) \in T
<1>1. T \in SUBSET Nat /\ \A k \in T : k <= Cardinality(Tensors)
  BY GraphFacts
<1> QED
  BY <1>1, GraphFacts, MaxIsGreatest, MinIsLeast

-----------------------------------------------------------------------------
(* The equations of the recursive functions                                *)

\* The tensor at the end of a chain of views.
LEMMA OriginalEquation ==
  ASSUME NEW g \in Graphs
  PROVE  \A x \in Tensors : OriginalOf(g)[x] = OriginalFrom(g, OriginalOf(g), x)
<1> DEFINE n == Cardinality(Tensors)
           m == [t \in Tensors |-> t]
           G == [z \in Tensors \X [Tensors -> Nat] |-> OriginalFrom(g, z[2], z[1])]
           Solution(h) == h = [x \in Tensors |-> OriginalFrom(g, h, x)]
<1>1. /\ n \in Nat /\ m \in [Tensors -> 0 .. n] /\ Tensors \in SUBSET Nat
      /\ \A x, y \in Tensors : y < x => m[y] < m[x]
  <2>1. n \in Nat /\ Tensors = 1 .. n
    BY GraphFacts
  <2> HIDE DEF n
  <2> QED
    BY <2>1
<1>2. \A x \in Tensors, f \in [Tensors -> Nat] : G[<<x, f>>] = OriginalFrom(g, f, x)
  OBVIOUS
<1>3. \A x \in Tensors, f \in [Tensors -> Nat] : OriginalFrom(g, f, x) \in Nat
  BY <1>1, GraphFacts DEF OriginalFrom
<1>4. G \in [Tensors \X [Tensors -> Nat] -> Nat]
  <2>1. \A z \in Tensors \X [Tensors -> Nat] : G[z] \in Nat
    <3> HIDE DEF G
    <3> QED
      BY <1>2, <1>3
  <2> QED
    BY <2>1
<1>5. ASSUME NEW x \in Tensors, NEW f \in [Tensors -> Nat], NEW h \in [Tensors -> Nat],
             \A y \in Tensors : m[y] < m[x] => f[y] = h[y]
      PROVE  G[<<x, f>>] = G[<<x, h>>]
  <2>1. g.view[x] # x => f[g.view[x]] = h[g.view[x]]
    <3>1. g.view[x] # x => g.view[x] \in Tensors /\ m[g.view[x]] < m[x]
      <4> HIDE DEF m, n
      <4> QED
        BY <1>1, GraphFacts
    <3> HIDE DEF m
    <3> QED
      BY <1>5, <3>1
  <2> HIDE DEF G
  <2> QED
    BY <1>2, <2>1 DEF OriginalFrom
<1>6. Body(Tensors, Nat, n, m, G)
  <2> HIDE DEF G, m, n
  <2> QED
    BY <1>1, <1>4, <1>5 DEF Body
<1>7. PICK f \in [Tensors -> Nat] : \A x \in Tensors : f[x] = G[<<x, f>>]
  <2> HIDE DEF G, m, n
  <2> QED
    BY <1>6, RecursiveFunction
<1> HIDE DEF G, m, n
<1>8. Solution(f)
  BY <1>2, <1>7
<1>9. Solution(OriginalOf(g))
  <2>1. OriginalOf(g) = CHOOSE h : Solution(h)
    BY DEF OriginalOf
  <2> HIDE DEF Solution
  <2> QED
    BY <1>8, <2>1
<1>10. PICK u : u = OriginalOf(g)
  OBVIOUS
<1>11. \A x \in Tensors : u[x] = OriginalFrom(g, u, x)
  BY <1>9, <1>10
<1> QED
  BY <1>10, <1>11

\* The external tensor of a view.
LEMMA ExternalEquation ==
  ASSUME NEW g \in Graphs
  PROVE  \A x \in Tensors : ExternalOf(g)[x] = ExternalFrom(g, ExternalOf(g), x)
<1> DEFINE n == Cardinality(Tensors)
           m == [t \in Tensors |-> t]
           G == [z \in Tensors \X [Tensors -> Nat] |-> ExternalFrom(g, z[2], z[1])]
           Solution(h) == h = [x \in Tensors |-> ExternalFrom(g, h, x)]
<1>1. /\ n \in Nat /\ m \in [Tensors -> 0 .. n] /\ Tensors \in SUBSET Nat
      /\ \A x, y \in Tensors : y < x => m[y] < m[x]
  <2>1. n \in Nat /\ Tensors = 1 .. n
    BY GraphFacts
  <2> HIDE DEF n
  <2> QED
    BY <2>1
<1>2. \A x \in Tensors, f \in [Tensors -> Nat] : G[<<x, f>>] = ExternalFrom(g, f, x)
  OBVIOUS
<1>3. \A x \in Tensors, f \in [Tensors -> Nat] : ExternalFrom(g, f, x) \in Nat
  <2>1. \A x \in Tensors : g.view[x] \in Tensors
    BY GraphFacts
  <2> QED
    BY <1>1, <2>1 DEF ExternalFrom, None
<1>4. G \in [Tensors \X [Tensors -> Nat] -> Nat]
  <2>1. \A z \in Tensors \X [Tensors -> Nat] : G[z] \in Nat
    <3> HIDE DEF G
    <3> QED
      BY <1>2, <1>3
  <2> QED
    BY <2>1
<1>5. ASSUME NEW x \in Tensors, NEW f \in [Tensors -> Nat], NEW h \in [Tensors -> Nat],
             \A y \in Tensors : m[y] < m[x] => f[y] = h[y]
      PROVE  G[<<x, f>>] = G[<<x, h>>]
  <2>1. g.view[x] # x => f[g.view[x]] = h[g.view[x]]
    <3>1. g.view[x] # x => g.view[x] \in Tensors /\ m[g.view[x]] < m[x]
      <4> HIDE DEF m, n
      <4> QED
        BY <1>1, GraphFacts
    <3> HIDE DEF m
    <3> QED
      BY <1>5, <3>1
  <2> HIDE DEF G
  <2> QED
    BY <1>2, <2>1 DEF ExternalFrom
<1>6. Body(Tensors, Nat, n, m, G)
  <2> HIDE DEF G, m, n
  <2> QED
    BY <1>1, <1>4, <1>5 DEF Body
<1>7. PICK f \in [Tensors -> Nat] : \A x \in Tensors : f[x] = G[<<x, f>>]
  <2> HIDE DEF G, m, n
  <2> QED
    BY <1>6, RecursiveFunction
<1> HIDE DEF G, m, n
<1>8. Solution(f)
  BY <1>2, <1>7
<1>9. Solution(ExternalOf(g))
  <2>1. ExternalOf(g) = CHOOSE h : Solution(h)
    BY DEF ExternalOf
  <2> HIDE DEF Solution
  <2> QED
    BY <1>8, <2>1
<1>10. PICK u : u = ExternalOf(g)
  OBVIOUS
<1>11. \A x \in Tensors : u[x] = ExternalFrom(g, u, x)
  BY <1>9, <1>10
<1> QED
  BY <1>10, <1>11

\* The marks of tensors with output aliases.
LEMMA MarksEquation ==
  ASSUME NEW g \in Graphs
  PROVE  \A x \in Tensors : MarksOf(g)[x] = MarkFrom(g, MarksOf(g), x)
<1> DEFINE n == Cardinality(Tensors)
           m == [t \in Tensors |-> n - t]
           G == [z \in Tensors \X [Tensors -> BOOLEAN] |-> MarkFrom(g, z[2], z[1])]
           Solution(h) == h = [x \in Tensors |-> MarkFrom(g, h, x)]
<1>1. /\ n \in Nat /\ m \in [Tensors -> 0 .. n] /\ Tensors \in SUBSET Nat
      /\ \A x, y \in Tensors : x < y => m[y] < m[x]
  <2>1. n \in Nat /\ Tensors = 1 .. n
    BY GraphFacts
  <2> HIDE DEF n
  <2> QED
    BY <2>1
<1>2. \A x \in Tensors, f \in [Tensors -> BOOLEAN] : G[<<x, f>>] = MarkFrom(g, f, x)
  OBVIOUS
<1>3. \A x \in Tensors, f \in [Tensors -> BOOLEAN] : MarkFrom(g, f, x) \in BOOLEAN
  BY DEF MarkFrom
<1>4. G \in [Tensors \X [Tensors -> BOOLEAN] -> BOOLEAN]
  <2>1. \A z \in Tensors \X [Tensors -> BOOLEAN] : G[z] \in BOOLEAN
    <3> HIDE DEF G
    <3> QED
      BY <1>2, <1>3
  <2> QED
    BY <2>1
<1>5. ASSUME NEW x \in Tensors, NEW f \in [Tensors -> BOOLEAN], NEW h \in [Tensors -> BOOLEAN],
             \A y \in Tensors : m[y] < m[x] => f[y] = h[y]
      PROVE  G[<<x, f>>] = G[<<x, h>>]
  <2>1. \A v \in ViewsIn(g, x) : f[v] = h[v]
    <3>1. \A v \in ViewsIn(g, x) : v \in Tensors /\ m[v] < m[x]
      <4> HIDE DEF m, n
      <4> QED
        BY <1>1, GraphFacts
    <3> HIDE DEF m
    <3> QED
      BY <1>5, <3>1
  <2>2. ViewsIn(g, x) # {} => f[Min(ViewsIn(g, x))] = h[Min(ViewsIn(g, x))]
    BY <2>1, GraphFacts, MaxMinViews
  <2>3. MarkFrom(g, f, x) = MarkFrom(g, h, x)
    BY <2>2 DEF MarkFrom
  <2> HIDE DEF G
  <2> QED
    BY <1>2, <2>3
<1>6. Body(Tensors, BOOLEAN, n, m, G)
  <2> HIDE DEF G, m, n
  <2> QED
    BY <1>1, <1>4, <1>5 DEF Body
<1>7. PICK f \in [Tensors -> BOOLEAN] : \A x \in Tensors : f[x] = G[<<x, f>>]
  <2> HIDE DEF G, m, n
  <2> QED
    BY <1>6, RecursiveFunction
<1> HIDE DEF G, m, n
<1>8. Solution(f)
  BY <1>2, <1>7
<1>9. Solution(MarksOf(g))
  <2>1. MarksOf(g) = CHOOSE h : Solution(h)
    BY DEF MarksOf
  <2> HIDE DEF Solution
  <2> QED
    BY <1>8, <2>1
<1>10. PICK u : u = MarksOf(g)
  OBVIOUS
<1>11. \A x \in Tensors : u[x] = MarkFrom(g, u, x)
  BY <1>9, <1>10
<1> QED
  BY <1>10, <1>11

\* The indices of outputs.
LEMMA IndexEquation ==
  ASSUME NEW g \in Graphs
  PROVE  \A x \in Tensors : IndexOf(g)[x] = IndexFrom(g, IndexOf(g), x)
<1> DEFINE n == Cardinality(Tensors)
           m == [t \in Tensors |-> n - t]
           G == [z \in Tensors \X [Tensors -> Nat] |-> IndexFrom(g, z[2], z[1])]
           Solution(h) == h = [x \in Tensors |-> IndexFrom(g, h, x)]
<1>1. /\ n \in Nat /\ m \in [Tensors -> 0 .. n] /\ Tensors \in SUBSET Nat
      /\ \A x, y \in Tensors : x < y => m[y] < m[x]
  <2>1. n \in Nat /\ Tensors = 1 .. n
    BY GraphFacts
  <2> HIDE DEF n
  <2> QED
    BY <2>1
<1>2. \A x \in Tensors, f \in [Tensors -> Nat] : G[<<x, f>>] = IndexFrom(g, f, x)
  OBVIOUS
<1>3. \A x \in Tensors, f \in [Tensors -> Nat] : IndexFrom(g, f, x) \in Nat
  <2> TAKE x \in Tensors, f \in [Tensors -> Nat]
  <2>1. PICK T : T = {v \in ViewsIn(g, x) : f[v] # None}
    OBVIOUS
  <2>2. T # {} => f[Max(T)] \in Nat
    <3>1. T \in SUBSET Tensors
      BY <2>1, GraphFacts
    <3> QED
      BY <3>1, MaxMinViews
  <2>3. x \in Nat /\ None \in Nat
    BY <1>1 DEF None
  <2> QED
    BY <2>1, <2>2, <2>3 DEF IndexFrom
<1>4. G \in [Tensors \X [Tensors -> Nat] -> Nat]
  <2>1. \A z \in Tensors \X [Tensors -> Nat] : G[z] \in Nat
    <3> HIDE DEF G
    <3> QED
      BY <1>2, <1>3
  <2> QED
    BY <2>1
<1>5. ASSUME NEW x \in Tensors, NEW f \in [Tensors -> Nat], NEW h \in [Tensors -> Nat],
             \A y \in Tensors : m[y] < m[x] => f[y] = h[y]
      PROVE  G[<<x, f>>] = G[<<x, h>>]
  <2>1. \A v \in ViewsIn(g, x) : f[v] = h[v]
    <3>1. \A v \in ViewsIn(g, x) : v \in Tensors /\ m[v] < m[x]
      <4> HIDE DEF m, n
      <4> QED
        BY <1>1, GraphFacts
    <3> HIDE DEF m
    <3> QED
      BY <1>5, <3>1
  <2>2. {v \in ViewsIn(g, x) : f[v] # None} = {v \in ViewsIn(g, x) : h[v] # None}
    BY <2>1
  <2>3. PICK T : T = {v \in ViewsIn(g, x) : f[v] # None}
    OBVIOUS
  <2>4. T # {} => f[Max(T)] = h[Max(T)]
    <3>1. T \in SUBSET Tensors /\ T \subseteq ViewsIn(g, x)
      BY <2>3, GraphFacts
    <3> QED
      BY <2>1, <3>1, MaxMinViews
  <2> HIDE DEF G
  <2>5. IndexFrom(g, f, x) = IF x \in g.outputs THEN x ELSE IF T = {} THEN None ELSE f[Max(T)]
    BY <2>3 DEF IndexFrom
  <2>6. IndexFrom(g, h, x) = IF x \in g.outputs THEN x ELSE IF T = {} THEN None ELSE h[Max(T)]
    BY <2>2, <2>3 DEF IndexFrom
  <2> QED
    BY <1>2, <2>4, <2>5, <2>6
<1>6. Body(Tensors, Nat, n, m, G)
  <2> HIDE DEF G, m, n
  <2> QED
    BY <1>1, <1>4, <1>5 DEF Body
<1>7. PICK f \in [Tensors -> Nat] : \A x \in Tensors : f[x] = G[<<x, f>>]
  <2> HIDE DEF G, m, n
  <2> QED
    BY <1>6, RecursiveFunction
<1> HIDE DEF G, m, n
<1>8. Solution(f)
  BY <1>2, <1>7
<1>9. Solution(IndexOf(g))
  <2>1. IndexOf(g) = CHOOSE h : Solution(h)
    BY DEF IndexOf
  <2> HIDE DEF Solution
  <2> QED
    BY <1>8, <2>1
<1>10. PICK u : u = IndexOf(g)
  OBVIOUS
<1>11. \A x \in Tensors : u[x] = IndexFrom(g, u, x)
  BY <1>9, <1>10
<1> QED
  BY <1>10, <1>11

-----------------------------------------------------------------------------
(* Along a chain of views                                                  *)

\* The original of a tensor is no view.
LEMMA OriginalIsRoot ==
  ASSUME NEW g \in Graphs, NEW t \in Tensors
  PROVE  /\ OriginalOf(g)[t] \in Tensors
         /\ g.view[OriginalOf(g)[t]] = OriginalOf(g)[t]
         /\ OriginalOf(g)[OriginalOf(g)[t]] = OriginalOf(g)[t]
<1> DEFINE Root(x) == x \in Tensors /\ g.view[x] = x
           Bad == {x \in Tensors : ~Root(OriginalOf(g)[x])}
<1>0. \A x \in Tensors : OriginalOf(g)[x] = IF g.view[x] # x THEN OriginalOf(g)[g.view[x]] ELSE x
  BY OriginalEquation DEF OriginalFrom
<1>1. ASSUME Bad # {} PROVE FALSE
  <2>1. Bad \in SUBSET Nat
    BY GraphFacts
  <2>2. PICK x \in Bad : \A y \in Bad : x <= y
    <3> HIDE DEF Bad
    <3> QED
      BY <1>1, <2>1, Least
  <2>3. x \in Tensors /\ ~Root(OriginalOf(g)[x])
    OBVIOUS
  <2>4. g.view[x] # x
    BY <1>0, <2>3
  <2>5. g.view[x] \in Tensors /\ ~(x <= g.view[x])
    <3>1. g.view[x] \in Tensors /\ g.view[x] < x /\ g.view[x] \in Nat /\ x \in Nat
      BY <2>3, <2>4, GraphFacts
    <3> QED
      BY <3>1
  <2>6. Root(OriginalOf(g)[g.view[x]])
    BY <2>2, <2>5
  <2> QED
    BY <1>0, <2>3, <2>4, <2>6
<1>2. Root(OriginalOf(g)[t])
  BY <1>1
<1> QED
  BY <1>0, <1>2

\* An external tensor is special, has the same original and no external tensor.
LEMMA ExternalIsSpecial ==
  ASSUME NEW g \in Graphs, NEW t \in Tensors, ExternalOf(g)[t] # None
  PROVE  LET e == ExternalOf(g)[t]
         IN  /\ e \in Tensors /\ Special(g, e) /\ ExternalOf(g)[e] = None
             /\ OriginalOf(g)[e] = OriginalOf(g)[t]
<1> DEFINE ext == ExternalOf(g)
           Fine(x) == /\ ext[x] \in Tensors /\ Special(g, ext[x]) /\ ext[ext[x]] = None
                      /\ OriginalOf(g)[ext[x]] = OriginalOf(g)[x]
           Bad == {x \in Tensors : ext[x] # None /\ ~Fine(x)}
<1>0. \A x \in Tensors : ext[x] = ExternalFrom(g, ext, x)
  BY ExternalEquation
<1>1. ASSUME Bad # {} PROVE FALSE
  <2>1. Bad \in SUBSET Nat
    BY GraphFacts
  <2>2. PICK x \in Bad : \A y \in Bad : x <= y
    <3> HIDE DEF Bad
    <3> QED
      BY <1>1, <2>1, Least
  <2>3. x \in Tensors /\ ext[x] # None /\ ~Fine(x)
    OBVIOUS
  <2> HIDE DEF ext
  <2>4. g.view[x] # x
    BY <1>0, <2>3 DEF ExternalFrom
  <2>5. g.view[x] \in Tensors /\ ~(x <= g.view[x])
    <3>1. g.view[x] \in Tensors /\ g.view[x] < x /\ g.view[x] \in Nat /\ x \in Nat
      BY <2>3, <2>4, GraphFacts
    <3> QED
      BY <3>1
  <2>6. OriginalOf(g)[x] = OriginalOf(g)[g.view[x]]
    BY <2>3, <2>4, OriginalEquation DEF OriginalFrom
  <2>7. CASE ext[g.view[x]] # None
    <3>1. ext[x] = ext[g.view[x]]
      BY <1>0, <2>3, <2>4, <2>7 DEF ExternalFrom
    <3>2. Fine(g.view[x])
      BY <2>2, <2>5, <2>7
    <3> QED
      BY <2>3, <2>6, <3>1, <3>2
  <2>8. CASE ext[g.view[x]] = None
    <3>1. ext[x] = g.view[x] /\ Special(g, g.view[x])
      BY <1>0, <2>3, <2>4, <2>8 DEF ExternalFrom
    <3> QED
      BY <2>3, <2>5, <2>6, <2>8, <3>1
  <2> QED
    BY <2>7, <2>8
<1> QED
  BY <1>1

\* An index is that of an output with the same original.
LEMMA IndexIsOutput ==
  ASSUME NEW g \in Graphs, NEW t \in Tensors, IndexOf(g)[t] # None
  PROVE  IndexOf(g)[t] \in g.outputs /\ OriginalOf(g)[IndexOf(g)[t]] = OriginalOf(g)[t]
<1> DEFINE idx == IndexOf(g)
           Fine(x) == idx[x] \in g.outputs /\ OriginalOf(g)[idx[x]] = OriginalOf(g)[x]
           Bad == {x \in Tensors : idx[x] # None /\ ~Fine(x)}
<1>0. \A x \in Tensors : idx[x] = IndexFrom(g, idx, x)
  BY IndexEquation
<1>1. ASSUME Bad # {} PROVE FALSE
  <2>1. Bad \in SUBSET Nat /\ \A x \in Bad : x <= Cardinality(Tensors)
    BY GraphFacts
  <2>2. PICK x \in Bad : \A y \in Bad : y <= x
    <3> HIDE DEF Bad
    <3> QED
      BY <1>1, <2>1, Greatest, GraphFacts
  <2>3. x \in Tensors /\ idx[x] # None /\ ~Fine(x)
    OBVIOUS
  <2> HIDE DEF idx
  <2>4. x \notin g.outputs
    BY <1>0, <2>3 DEF IndexFrom
  <2>5. PICK T : T = {v \in ViewsIn(g, x) : idx[v] # None}
    OBVIOUS
  <2>6. idx[x] = IF T = {} THEN None ELSE idx[Max(T)]
    BY <1>0, <2>3, <2>4, <2>5 DEF IndexFrom
  <2>7. T # {} /\ idx[x] = idx[Max(T)]
    BY <2>3, <2>6
  <2>8. T \in SUBSET Tensors
    BY <2>3, <2>5, GraphFacts
  <2>9. PICK v : v = Max(T)
    OBVIOUS
  <2>10. v \in Tensors /\ v \in ViewsIn(g, x) /\ idx[v] # None
    BY <2>5, <2>7, <2>8, <2>9, MaxMinViews
  <2>11. ~(v <= x)
    <3>1. x < v /\ v \in Nat /\ x \in Nat
      BY <2>3, <2>10, GraphFacts
    <3> QED
      BY <3>1
  <2>12. Fine(v)
    BY <2>2, <2>10, <2>11
  <2>13. OriginalOf(g)[v] = OriginalOf(g)[x]
    BY <2>10, OriginalEquation DEF OriginalFrom, ViewsIn
  <2> QED
    BY <2>3, <2>7, <2>9, <2>12, <2>13
<1> QED
  BY <1>1

\* The memory of an output that is not copied is that of its original: the index
\* and the mark travel down the chain of the only views.
LEMMA IndexTravels ==
  ASSUME OneViewEach, NEW g \in Graphs, NEW o \in g.outputs,
         ExternalOf(g)[o] = None, g.kind[o] = "computed"
  PROVE  LET r == OriginalOf(g)[o]
         IN  /\ IndexOf(g)[r] = o /\ g.kind[r] = "computed"
             /\ r \in g.outputs \/ MarksOf(g)[r]
<1> DEFINE idx == IndexOf(g)
           ext == ExternalOf(g)
           Marked(x) == x \in g.outputs \/ MarksOf(g)[x]
           OnTheWay == {x \in Tensors : /\ ext[x] = None /\ g.kind[x] = "computed" /\ idx[x] = o
                                        /\ Marked(x) /\ OriginalOf(g)[x] = OriginalOf(g)[o]}
<1>0. /\ \A x \in Tensors : idx[x] = IndexFrom(g, idx, x)
      /\ \A x \in Tensors : ext[x] = ExternalFrom(g, ext, x)
      /\ \A x \in Tensors : MarksOf(g)[x] = MarkFrom(g, MarksOf(g), x)
      /\ \A x \in Tensors : OriginalOf(g)[x] = IF g.view[x] # x THEN OriginalOf(g)[g.view[x]] ELSE x
  BY IndexEquation, ExternalEquation, MarksEquation, OriginalEquation DEF OriginalFrom
<1>1. o \in OnTheWay
  <2>1. o \in Tensors
    BY GraphFacts
  <2>2. idx[o] = o
    BY <1>0, <2>1 DEF IndexFrom
  <2> QED
    BY <2>1, <2>2
<1>2. PICK x \in OnTheWay : \A y \in OnTheWay : x <= y
  <2>1. OnTheWay \in SUBSET Nat
    BY GraphFacts
  <2> HIDE DEF OnTheWay
  <2> QED
    BY <1>1, <2>1, Least
<1>3. /\ x \in Tensors /\ ext[x] = None /\ g.kind[x] = "computed" /\ idx[x] = o
      /\ Marked(x) /\ OriginalOf(g)[x] = OriginalOf(g)[o]
  OBVIOUS
<1>4. ASSUME g.view[x] # x PROVE FALSE
  <2> HIDE DEF idx, ext
  <2>0. PICK w : w = g.view[x]
    OBVIOUS
  <2>1. w \in Tensors /\ ~(x <= w)
    <3>1. w \in Tensors /\ w < x /\ w \in Nat /\ x \in Nat
      BY <1>3, <1>4, <2>0, GraphFacts
    <3> QED
      BY <3>1
  <2>2. ext[w] = None /\ ~Special(g, w)
    <3>1. ext[x] = IF ext[w] # None THEN ext[w] ELSE IF Special(g, w) THEN w ELSE None
      BY <1>0, <1>3, <1>4, <2>0 DEF ExternalFrom
    <3>2. w # None
      BY <2>1, GraphFacts
    <3> QED
      BY <1>3, <3>1, <3>2
  <2>3. w \notin g.outputs /\ g.kind[w] = "computed"
    BY <2>2 DEF Special
  <2>4. ViewsIn(g, w) = {x}
    <3>1. x \in ViewsIn(g, w)
      BY <1>3, <1>4, <2>0 DEF ViewsIn
    <3>2. \A v \in ViewsIn(g, w) : v = x
      BY <1>3, <1>4, <2>0, <2>1, <2>3 DEF ViewsIn, OneViewEach
    <3> QED
      BY <3>1, <3>2
  <2>5. Max({x}) = x /\ Min({x}) = x
    BY <1>3, MaxMinViews
  <2>6. idx[w] = o
    <3>1. PICK T : T = {v \in ViewsIn(g, w) : idx[v] # None}
      OBVIOUS
    <3>2. o # None
      BY GraphFacts
    <3>3. T = {x}
      BY <1>3, <2>4, <3>1, <3>2
    <3>4. idx[w] = IF T = {} THEN None ELSE idx[Max(T)]
      BY <1>0, <2>1, <2>3, <3>1 DEF IndexFrom
    <3> QED
      BY <1>3, <2>5, <3>3, <3>4
  <2>7. Marked(w)
    <3>1. MarkFrom(g, MarksOf(g), w)
      BY <1>3, <2>4, <2>5 DEF MarkFrom
    <3> QED
      BY <1>0, <2>1, <3>1
  <2>8. OriginalOf(g)[w] = OriginalOf(g)[o]
    BY <1>0, <1>3, <1>4, <2>0
  <2>9. w \in OnTheWay
    BY <2>1, <2>2, <2>3, <2>6, <2>7, <2>8
  <2> HIDE DEF OnTheWay
  <2> QED
    BY <1>2, <2>1, <2>9
<1>5. OriginalOf(g)[o] = x
  BY <1>0, <1>3, <1>4
<1> QED
  BY <1>3, <1>5

-----------------------------------------------------------------------------
(* The invariant                                                           *)

\* Where a tensor is, and which outputs are copied, as the graph determines it.
PlaceIn(g, t) ==
  LET u == OriginalOf(g)[t]
  IN  IF g.kind[u] # "computed" THEN Place(g.kind[u], u)
      ELSE IF u \in g.outputs \/ MarksOf(g)[u] THEN Place("client", IndexOf(g)[u])
      ELSE Place("block", u)

CopiedIn(g, o) == ExternalOf(g)[o] # None \/ g.kind[o] # "computed"

CopyOf(g, o) == [from |-> IF ExternalOf(g)[o] # None THEN ExternalOf(g)[o] ELSE o, to |-> o]

Delivered(g, c, o) == c[o] = OriginalOf(g)[o]

\* What each pass has found, and after the kernels the outputs that are not copied.
BindInv ==
  /\ graph \in Graphs
  /\ phase # "mark_param_tensor" => \A t \in Tensors : hasAlias[t] = MarksOf(graph)[t]
  /\ phase \in {"codegen", "run", "copy"} => \A t \in Tensors : external[t] = ExternalOf(graph)[t]
  /\ phase \in {"run", "copy"} =>
       /\ \A t \in Tensors : address[t] = PlaceIn(graph, t)
       /\ copies = {CopyOf(graph, o) : o \in {p \in graph.outputs : CopiedIn(graph, p)}}
  /\ phase = "copy" =>
       \A o \in graph.outputs : ~CopiedIn(graph, o) => Delivered(graph, client, o)
  /\ phase = "done" => \A o \in graph.outputs : Delivered(graph, client, o)

\* The client's memory for an output that is not copied is written by its original
\* alone.
LEMMA WrittenOnce ==
  ASSUME OneViewEach, NEW g \in Graphs, NEW o \in g.outputs, ~CopiedIn(g, o)
  PROVE  {t \in Tensors : g.view[t] = t /\ g.kind[t] = "computed" /\ PlaceIn(g, t) = Place("client", o)}
         = {OriginalOf(g)[o]}
<1> DEFINE r == OriginalOf(g)[o]
<1>1. ExternalOf(g)[o] = None /\ g.kind[o] = "computed" /\ o \in Tensors /\ o # None
  BY GraphFacts DEF CopiedIn
<1>2. IndexOf(g)[r] = o /\ g.kind[r] = "computed" /\ (r \in g.outputs \/ MarksOf(g)[r])
  BY <1>1, IndexTravels
<1>3. r \in Tensors /\ g.view[r] = r /\ OriginalOf(g)[r] = r
  BY <1>1, OriginalIsRoot
<1>4. PlaceIn(g, r) = Place("client", o)
  BY <1>2, <1>3 DEF PlaceIn
<1>5. ASSUME NEW t \in Tensors, g.view[t] = t, g.kind[t] = "computed",
             PlaceIn(g, t) = Place("client", o)
      PROVE  t = r
  <2>1. OriginalOf(g)[t] = t
    BY <1>5, OriginalEquation DEF OriginalFrom
  <2>2. t \in g.outputs \/ MarksOf(g)[t]
    BY <1>5, <2>1 DEF PlaceIn, Place
  <2>3. PlaceIn(g, t) = Place("client", IndexOf(g)[t])
    BY <1>5, <2>1, <2>2 DEF PlaceIn
  <2>4. IndexOf(g)[t] = o
    BY <1>5, <2>3 DEF Place
  <2>5. OriginalOf(g)[o] = OriginalOf(g)[t]
    BY <1>1, <2>4, IndexIsOutput
  <2> QED
    BY <2>1, <2>5
<1>6. {t \in Tensors : g.view[t] = t /\ g.kind[t] = "computed" /\ PlaceIn(g, t) = Place("client", o)} = {r}
  <2> HIDE DEF r
  <2> QED
    BY <1>2, <1>3, <1>4, <1>5
<1> QED
  BY <1>6

LEMMA AppendKeeps == ASSUME BindInv, AppendAllTensors PROVE BindInv'
<1>1. graph \in Graphs /\ graph' = graph /\ phase = "codegen" /\ phase' = "run"
  BY DEF BindInv, AppendAllTensors
<1>2. /\ \A t \in Tensors : hasAlias[t] = MarksOf(graph)[t] /\ hasAlias'[t] = MarksOf(graph)[t]
      /\ \A t \in Tensors : external[t] = ExternalOf(graph)[t] /\ external'[t] = ExternalOf(graph)[t]
  BY <1>1 DEF BindInv, AppendAllTensors
<1>3. ASSUME NEW t \in Tensors PROVE address'[t] = PlaceIn(graph, t)
  <2>1. address'[t] = Address(t)
    BY DEF AppendAllTensors
  <2>2. PICK u \in Tensors : u = OriginalOf(graph)[t]
    BY <1>1, OriginalIsRoot
  <2>3. Address(t) = IF graph.kind[u] # "computed" THEN Place(graph.kind[u], u)
                     ELSE IF u \in graph.outputs \/ hasAlias[u] THEN Place("client", IndexOf(graph)[u])
                     ELSE Place("block", u)
    BY <2>2, Recursive DEF Address, IsOutput
  <2>4. hasAlias[u] = MarksOf(graph)[u]
    BY <1>2
  <2> QED
    BY <2>1, <2>2, <2>3, <2>4 DEF PlaceIn
<1>4. copies' = {CopyOf(graph, o) : o \in {p \in graph.outputs : CopiedIn(graph, p)}}
  <2>1. graph.outputs \subseteq Tensors
    BY <1>1, GraphFacts
  <2>2. {p \in graph.outputs : Copied(p)} = {p \in graph.outputs : CopiedIn(graph, p)}
    BY <1>2, <2>1 DEF Copied, CopiedIn
  <2>3. copies' = {[from |-> IF external[o] # None THEN external[o] ELSE o, to |-> o] :
                     o \in {p \in graph.outputs : CopiedIn(graph, p)}}
    BY <2>2 DEF AppendAllTensors
  <2>4. \A o \in graph.outputs :
          [from |-> IF external[o] # None THEN external[o] ELSE o, to |-> o] = CopyOf(graph, o)
    BY <1>2, <2>1 DEF CopyOf
  <2> QED
    BY <2>3, <2>4
<1> QED
  BY <1>1, <1>2, <1>3, <1>4 DEF BindInv

LEMMA RunKeeps == ASSUME OneViewEach, BindInv, RunImpl PROVE BindInv'
<1>1. /\ graph \in Graphs /\ phase = "run" /\ phase' = "copy"
      /\ UNCHANGED <<graph, hasAlias, external, address, copies>>
  BY DEF BindInv, RunImpl
<1>2. \A t \in Tensors : address[t] = PlaceIn(graph, t)
  BY <1>1 DEF BindInv
<1>3. ASSUME NEW o \in graph.outputs, ~CopiedIn(graph, o) PROVE Delivered(graph, client', o)
  <2> DEFINE here == {t \in Tensors : /\ ~IsView(t) /\ graph.kind[t] = "computed"
                                      /\ address[t] = Place("client", o)}
  <2>1. here = {OriginalOf(graph)[o]}
    <3>1. here = {t \in Tensors : /\ graph.view[t] = t /\ graph.kind[t] = "computed"
                                  /\ PlaceIn(graph, t) = Place("client", o)}
      BY <1>2 DEF IsView
    <3> HIDE DEF here
    <3> QED
      BY <1>1, <1>3, <3>1, WrittenOnce
  <2>2. o \in Tensors
    BY <1>1, GraphFacts
  <2>3. client'[o] = IF here = {} THEN client[o] ELSE Max(here)
    BY <2>2 DEF RunImpl
  <2> HIDE DEF here
  <2>4. OriginalOf(graph)[o] \in Tensors
    BY <1>1, <2>2, OriginalIsRoot
  <2>5. Max({OriginalOf(graph)[o]}) = OriginalOf(graph)[o]
    BY <1>1, <2>4, MaxMinViews
  <2> QED
    BY <2>1, <2>3, <2>5 DEF Delivered
<1> QED
  BY <1>1, <1>3 DEF BindInv

\* The copies bring the rest: the external tensor of an output is an input, a
\* constant, or an output that is not copied itself.
LEMMA CopiesKeep == ASSUME OneViewEach, BindInv, DeviceToDeviceCopies PROVE BindInv'
<1>1. /\ graph \in Graphs /\ phase = "copy" /\ phase' = "done"
      /\ UNCHANGED <<graph, hasAlias, external, address, copies>>
  BY DEF BindInv, DeviceToDeviceCopies
<1>2. /\ \A t \in Tensors : hasAlias[t] = MarksOf(graph)[t] /\ address[t] = PlaceIn(graph, t)
      /\ copies = {CopyOf(graph, o) : o \in {p \in graph.outputs : CopiedIn(graph, p)}}
      /\ \A o \in graph.outputs : ~CopiedIn(graph, o) => Delivered(graph, client, o)
  BY <1>1 DEF BindInv
<1>3. ASSUME NEW o \in graph.outputs PROVE Delivered(graph, client', o)
  <2> DEFINE mine == {c \in copies : c.to = o}
             r    == OriginalOf(graph)[o]
  <2>1. o \in Tensors
    BY <1>1, GraphFacts
  <2>2. client'[o] = IF mine = {} THEN client[o] ELSE Held(address[(CHOOSE c \in mine : TRUE).from])
    BY <2>1 DEF DeviceToDeviceCopies
  <2>3. CASE ~CopiedIn(graph, o)
    <3>1. mine = {}
      BY <1>2, <2>3 DEF CopyOf
    <3> HIDE DEF mine
    <3> QED
      BY <1>2, <2>2, <2>3, <3>1 DEF Delivered
  <2>4. CASE CopiedIn(graph, o)
    <3>1. mine = {CopyOf(graph, o)}
      BY <1>2, <2>4 DEF CopyOf
    <3> HIDE DEF mine
    <3>2. (CHOOSE c \in mine : TRUE) = CopyOf(graph, o)
      BY <3>1
    <3>3. PICK e : e = CopyOf(graph, o).from
      OBVIOUS
    <3>4. client'[o] = Held(address[e])
      BY <2>2, <3>1, <3>2, <3>3
    <3>5. CASE ExternalOf(graph)[o] # None
      <4>1. e = ExternalOf(graph)[o]
        BY <3>3, <3>5 DEF CopyOf
      <4>2. /\ e \in Tensors /\ Special(graph, e) /\ ExternalOf(graph)[e] = None
            /\ OriginalOf(graph)[e] = r
        BY <1>1, <2>1, <3>5, <4>1, ExternalIsSpecial
      <4>3. address[e] = PlaceIn(graph, e) /\ r \in Tensors /\ graph.view[r] = r
        BY <1>1, <1>2, <2>1, <4>2, OriginalIsRoot
      <4>4. CASE graph.kind[r] # "computed"
        <5>1. PlaceIn(graph, e) = Place(graph.kind[r], r)
          BY <4>2, <4>4 DEF PlaceIn
        <5>2. graph.kind[r] \in {"input", "constant", "computed"}
          BY <1>1, <4>3, GraphFacts
        <5>3. Held(address[e]) = r
          BY <4>3, <5>1, <5>2 DEF Held, Place
        <5> QED
          BY <3>4, <5>3 DEF Delivered
      <4>5. CASE graph.kind[r] = "computed"
        <5>1. graph.kind[e] = "computed"
          <6>1. CASE graph.view[e] # e
            BY <1>1, <4>2, <6>1, GraphFacts
          <6>2. CASE graph.view[e] = e
            <7>1. OriginalOf(graph)[e] = e
              BY <1>1, <4>2, <6>2, OriginalEquation DEF OriginalFrom
            <7> QED
              BY <4>2, <4>5, <7>1
          <6> QED
            BY <6>1, <6>2
        <5>2. e \in graph.outputs /\ ~CopiedIn(graph, e)
          BY <4>2, <5>1 DEF Special, CopiedIn
        <5>3. IndexOf(graph)[r] = e /\ (r \in graph.outputs \/ MarksOf(graph)[r])
          BY <1>1, <4>2, <5>1, <5>2, IndexTravels
        <5>4. PlaceIn(graph, e) = Place("client", e)
          BY <4>2, <4>5, <5>3 DEF PlaceIn
        <5>5. Held(address[e]) = client[e]
          BY <4>3, <5>4 DEF Held, Place
        <5>6. client[e] = r
          BY <1>2, <4>2, <5>2 DEF Delivered
        <5> QED
          BY <3>4, <5>5, <5>6 DEF Delivered
      <4> QED
        BY <4>4, <4>5
    <3>6. CASE ExternalOf(graph)[o] = None
      <4>1. e = o /\ graph.kind[o] # "computed"
        BY <2>4, <3>3, <3>6 DEF CopyOf, CopiedIn
      <4>2. graph.view[o] = o /\ graph.kind[o] \in {"input", "constant", "computed"}
        BY <1>1, <2>1, <4>1, GraphFacts
      <4>3. r = o
        BY <1>1, <2>1, <4>2, OriginalEquation DEF OriginalFrom
      <4>4. address[o] = Place(graph.kind[o], o)
        BY <1>2, <2>1, <4>1, <4>3 DEF PlaceIn
      <4>5. Held(address[o]) = o
        BY <4>1, <4>2, <4>4 DEF Held, Place
      <4> QED
        BY <3>4, <4>1, <4>3, <4>5 DEF Delivered
    <3> QED
      BY <3>5, <3>6
  <2> QED
    BY <2>3, <2>4
<1> QED
  BY <1>1, <1>2, <1>3 DEF BindInv

\* When a run is over, every output is in the memory that the client has provided for
\* it (mark_param_tensor.py, append_tensor and device_to_device_copies of codegen.py),
\* in every graph in which an internal tensor has one view at most.
THEOREM OutputsAreDelivered == ASSUME OneViewEach PROVE Spec => []OutputsDelivered
<1>1. Init => BindInv
  BY DEF Init, BindInv
<1>2. BindInv /\ [Next]_vars => BindInv'
  <2> SUFFICES ASSUME BindInv, [Next]_vars PROVE BindInv'
    OBVIOUS
  <2>1. CASE MarkParamTensor
    BY <2>1, Recursive DEF MarkParamTensor, BindInv
  <2>2. CASE MarkSpecialViews
    BY <2>2, Recursive DEF MarkSpecialViews, BindInv
  <2>3. CASE AppendAllTensors
    BY <2>3, AppendKeeps
  <2>4. CASE RunImpl
    BY <2>4, RunKeeps
  <2>5. CASE DeviceToDeviceCopies
    BY <2>5, CopiesKeep
  <2>6. CASE UNCHANGED vars
    BY <2>6 DEF vars, BindInv
  <2> QED
    BY <2>1, <2>2, <2>3, <2>4, <2>5, <2>6 DEF Next
<1>3. BindInv => OutputsDelivered
  BY Recursive DEF BindInv, OutputsDelivered, Delivered
<1> QED
  BY <1>1, <1>2, <1>3, PTL DEF Spec
=============================================================================
