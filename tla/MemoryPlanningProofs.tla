-------------------------- MODULE MemoryPlanningProofs --------------------------
(***************************************************************************)
(* The plan and the run of it, for all graphs and in both modes: the       *)
(* greedy placement keeps tensors apart, the schedule has the producers    *)
(* first, and so a running operator finds the inputs that were written for *)
(* it and has its scratch memory for itself.                               *)
(*                                                                         *)
(* PlanInv is the invariant of the placement.  DetailInv adds the schedule *)
(* and the records; the recursive functions that they are made of are      *)
(* taken as constants of the graph (OriginalOf, RoundOf, UniqueOffsetOf).  *)
(* RunInv adds the progress of the run and the contents of the memory.     *)
(***************************************************************************)
EXTENDS PlannedRun, Recursion, TLAPS

----------------------------------------------------------------------------
(* The placement.                                                          *)

\* Only tensors that are no view are placed, and each one once.
PlanTypeInv ==
  /\ graph \in Graphs
  /\ phase \in {"schedule", "place", "planned"}
  /\ phase = "schedule" => assigned = <<>> /\ cur = NoTensor
  /\ \A t \in Tensors : record[t].size \in Nat
  /\ phase # "planned" => offset \in [Tensors -> Nat]
  /\ unplaced \subseteq {t \in Tensors : graph.view[t] = t}
  /\ assigned \in Seq({t \in Tensors : graph.view[t] = t})
  /\ cur \in {t \in Tensors : graph.view[t] = t} \cup {NoTensor}
  /\ cur \notin unplaced /\ (unplaced \cup {cur}) \cap Placed = {}
  /\ i \in Nat \ {0} /\ prevOffset \in Nat /\ bestOffset \in Nat \cup {NoOffset}
  /\ maxBlob \in Nat

\* The records are in the order of their offsets.
OffsetsSorted ==
  \A j, k \in DOMAIN assigned : j < k => offset[assigned[j]] <= offset[assigned[k]]

\* The scan knows the end of every record before it that overlaps, and the gap
\* it has chosen is free: before it all records that overlap end before or begin
\* behind the gap, and all records after it begin behind the gap.
ScanInv ==
  phase = "place" /\ cur # NoTensor =>
    /\ \A j \in DOMAIN assigned :
         j < i /\ Overlap(cur, assigned[j]) =>
           /\ End(assigned[j]) <= prevOffset
           /\ bestOffset # NoOffset =>
                \/ End(assigned[j]) <= bestOffset
                \/ bestOffset + record[cur].size <= offset[assigned[j]]
    /\ \A j \in DOMAIN assigned :
         j >= i /\ bestOffset # NoOffset =>
           bestOffset + record[cur].size <= offset[assigned[j]]

PlanInv == PlanTypeInv /\ OffsetsSorted /\ ScanInv /\ PlacedApart /\ BlobLargeEnough

----------------------------------------------------------------------------

\* Two tensors overlap or not, whichever is asked first.
LEMMA OverlapSymmetric == \A t, u : Overlap(t, u) <=> Overlap(u, t)
  BY DEF Overlap

\* A sequence with a new element in its middle.
LEMMA Inserted ==
  ASSUME NEW S, NEW s \in Seq(S), NEW e \in S, NEW k \in 0 .. Len(s)
  PROVE  LET r == [j \in 1 .. Len(s) + 1 |->
                     IF j <= k THEN s[j] ELSE IF j = k + 1 THEN e ELSE s[j - 1]]
         IN  r \in Seq(S) /\ DOMAIN r = 1 .. Len(s) + 1
<1> DEFINE r == [j \in 1 .. Len(s) + 1 |->
                   IF j <= k THEN s[j] ELSE IF j = k + 1 THEN e ELSE s[j - 1]]
<1>1. Len(s) + 1 \in Nat
  OBVIOUS
<1>2. \A j \in 1 .. Len(s) + 1 : r[j] \in S
  OBVIOUS
<1>3. r \in [1 .. Len(s) + 1 -> S]
  BY <1>2
<1> QED
  BY <1>1, <1>3

\* At the start nothing is placed.
LEMMA PlanInit == Init => PlanInv
<1> SUFFICES ASSUME Init PROVE PlanInv
  OBVIOUS
<1>1. DOMAIN assigned = {} /\ Placed = {}
  BY DEF Init, Placed
<1>2. PlanTypeInv
  BY <1>1, GraphsAssumption DEF Init, PlanTypeInv, NoTensor, NoOffset
<1>3. OffsetsSorted /\ ScanInv /\ PlacedApart /\ BlobLargeEnough
  BY <1>1 DEF Init, OffsetsSorted, ScanInv, PlacedApart, BlobLargeEnough, NoTensor
<1> QED
  BY <1>2, <1>3 DEF PlanInv

----------------------------------------------------------------------------
(* One lemma per action.                                                   *)

\* Scheduling places nothing.
LEMMA ScheduleKeepsPlan ==
  ASSUME PlanInv, ScheduleSequential \/ \E o \in Ops : ScheduleParallel(o)
  PROVE  PlanInv'
<1>1. /\ phase = "schedule"
      /\ UNCHANGED <<graph, phase, record, unplaced, assigned, offset, maxBlob, locals>>
  BY DEF ScheduleSequential, ScheduleParallel, input
<1>2. DOMAIN assigned = {} /\ Placed = {} /\ DOMAIN assigned' = {} /\ Placed' = {}
  BY <1>1 DEF PlanInv, PlanTypeInv, Placed, locals
<1>3. PlanTypeInv'
  BY <1>1, <1>2 DEF PlanInv, PlanTypeInv, locals
<1>4. OffsetsSorted' /\ ScanInv' /\ PlacedApart' /\ BlobLargeEnough'
  BY <1>1, <1>2 DEF OffsetsSorted, ScanInv, PlacedApart, BlobLargeEnough
<1> QED
  BY <1>3, <1>4 DEF PlanInv

\* The records are made before anything is placed.
LEMMA RecordsKeepPlan ==
  ASSUME PlanInv, MakeTensorUsageRecords
  PROVE  PlanInv'
<1>1. /\ phase = "schedule" /\ phase' = "place" /\ graph' = graph
      /\ cur' = cur /\ assigned' = assigned /\ offset' = offset /\ maxBlob' = maxBlob
      /\ i' = i /\ prevOffset' = prevOffset /\ bestOffset' = bestOffset
      /\ unplaced' = {t \in Tensors : graph.view[t] = t}
      /\ \A t \in Tensors : record'[t].size = graph.size[t]
  BY DEF MakeTensorUsageRecords, input, locals
<1>2. DOMAIN assigned' = {} /\ Placed' = {} /\ cur' = NoTensor
  BY <1>1 DEF PlanInv, PlanTypeInv, Placed
<1>3. PlanTypeInv'
  BY <1>1, <1>2, GraphsAssumption DEF PlanInv, PlanTypeInv, NoTensor
<1>4. OffsetsSorted' /\ ScanInv' /\ PlacedApart' /\ BlobLargeEnough'
  BY <1>1, <1>2 DEF OffsetsSorted, ScanInv, PlacedApart, BlobLargeEnough
<1> QED
  BY <1>3, <1>4 DEF PlanInv

\* The scan of a tensor begins with no record behind it and no gap chosen.
LEMMA TakeKeepsPlan ==
  ASSUME PlanInv, NEW t \in Tensors, TakeLargest(t)
  PROVE  PlanInv'
<1>1. /\ phase = "place" /\ phase' = phase /\ graph' = graph /\ record' = record
      /\ assigned' = assigned /\ offset' = offset /\ maxBlob' = maxBlob
      /\ t \in unplaced /\ cur = NoTensor /\ cur' = t /\ unplaced' = unplaced \ {t}
      /\ i' = 1 /\ prevOffset' = 0 /\ bestOffset' = NoOffset
  BY DEF TakeLargest, input
<1>2. Placed' = Placed
  BY <1>1 DEF Placed
<1>3. PlanTypeInv'
  BY <1>1, <1>2 DEF PlanInv, PlanTypeInv
<1>4. \A j \in DOMAIN assigned : ~(j < 1)
  BY DEF PlanInv, PlanTypeInv
<1>5. OffsetsSorted'
  BY <1>1 DEF PlanInv, OffsetsSorted
<1>6. ScanInv'
  BY <1>1, <1>4 DEF ScanInv
<1>7. PlacedApart' /\ BlobLargeEnough'
  BY <1>1, <1>2 DEF PlanInv, PlacedApart, BlobLargeEnough, Overlap, End
<1> QED
  BY <1>3, <1>5, <1>6, <1>7 DEF PlanInv

\* One turn of the scan.
LEMMA ScanKeepsPlan ==
  ASSUME PlanInv, ScanRecord
  PROVE  PlanInv'
<1> DEFINE a == assigned[i]
           gap == offset[a] - prevOffset
<1>1. /\ phase = "place" /\ cur # NoTensor /\ i <= Len(assigned) /\ i' = i + 1
      /\ phase' = phase /\ graph' = graph /\ record' = record /\ unplaced' = unplaced
      /\ assigned' = assigned /\ offset' = offset /\ maxBlob' = maxBlob /\ cur' = cur
      /\ Placed' = Placed
  BY DEF ScanRecord, input, Placed
<1>2. /\ cur \in Tensors /\ offset \in [Tensors -> Nat]
      /\ i \in Nat \ {0} /\ prevOffset \in Nat /\ bestOffset \in Nat \cup {NoOffset}
      /\ \A t \in Tensors : record[t].size \in Nat
      /\ DOMAIN assigned = 1 .. Len(assigned) /\ Len(assigned) \in Nat
      /\ \A j \in DOMAIN assigned : assigned[j] \in Tensors
  BY <1>1 DEF PlanInv, PlanTypeInv
<1>3. \A j \in DOMAIN assigned : offset[assigned[j]] \in Nat /\ End(assigned[j]) \in Nat
  BY <1>2 DEF End
<1>4. i \in DOMAIN assigned /\ offset[a] \in Nat /\ End(a) \in Nat
  BY <1>1, <1>2, <1>3
<1>5. prevOffset' \in Nat /\ prevOffset' >= prevOffset
      /\ (Overlap(cur, a) => prevOffset' >= End(a))
  BY <1>2, <1>4 DEF ScanRecord, Advance
<1>6. \/ bestOffset' = bestOffset
      \/ /\ Overlap(cur, a) /\ bestOffset' = prevOffset
         /\ record[cur].size <= offset[a] - prevOffset
  BY DEF ScanRecord, FitsBetter
<1>7. \A j \in DOMAIN assigned : i <= j => offset[a] <= offset[assigned[j]]
  BY <1>2, <1>3, <1>4 DEF PlanInv, OffsetsSorted
<1>8. PlanTypeInv'
  BY <1>1, <1>2, <1>5, <1>6 DEF PlanInv, PlanTypeInv
<1>9. OffsetsSorted'
  BY <1>1 DEF PlanInv, OffsetsSorted
<1>0. \A j \in DOMAIN assigned :
         j >= i /\ bestOffset # NoOffset => bestOffset + record[cur].size <= offset[assigned[j]]
  BY <1>1 DEF PlanInv, ScanInv
<1>10. ASSUME NEW j \in DOMAIN assigned, j < i + 1, Overlap(cur, assigned[j])
       PROVE  /\ End(assigned[j]) <= prevOffset'
              /\ bestOffset' # NoOffset =>
                   \/ End(assigned[j]) <= bestOffset'
                   \/ bestOffset' + record[cur].size <= offset[assigned[j]]
  <2>1. CASE j < i
    <3>1. /\ End(assigned[j]) <= prevOffset
          /\ bestOffset # NoOffset =>
               \/ End(assigned[j]) <= bestOffset
               \/ bestOffset + record[cur].size <= offset[assigned[j]]
      BY <1>1, <1>10, <2>1 DEF PlanInv, ScanInv
    <3> QED
      BY <1>2, <1>3, <1>5, <1>6, <3>1
  <2>2. CASE j = i
    <3>0. i >= i
      BY <1>2
    <3>1. bestOffset # NoOffset => bestOffset + record[cur].size <= offset[a]
      BY <1>0, <1>4, <3>0
    <3> QED
      BY <1>2, <1>4, <1>5, <1>6, <1>10, <2>2, <3>1
  <2> QED
    BY <1>2, <1>10, <2>1, <2>2
<1>11. ASSUME NEW j \in DOMAIN assigned, j >= i + 1, bestOffset' # NoOffset
       PROVE  bestOffset' + record[cur].size <= offset[assigned[j]]
  <2>1. bestOffset # NoOffset => bestOffset + record[cur].size <= offset[assigned[j]]
    <3>1. j >= i
      BY <1>2, <1>11
    <3> QED
      BY <1>0, <1>11, <3>1
  <2>2. offset[a] <= offset[assigned[j]]
    BY <1>2, <1>7, <1>11
  <2> QED
    BY <1>2, <1>3, <1>4, <1>6, <1>11, <2>1, <2>2
<1>12. ScanInv'
  BY <1>1, <1>10, <1>11 DEF ScanInv, End, Overlap
<1>13. PlacedApart' /\ BlobLargeEnough'
  BY <1>1 DEF PlanInv, PlacedApart, BlobLargeEnough, Overlap, End
<1> QED
  BY <1>8, <1>9, <1>12, <1>13 DEF PlanInv

\* The tensor that is placed keeps clear of all records that overlap.
LEMMA PlaceKeepsPlan ==
  ASSUME PlanInv, NEW k \in 0 .. Len(assigned), Place(k)
  PROVE  PlanInv' /\ Placed' = Placed \cup {cur} /\ Len(assigned') = Len(assigned) + 1
<1> DEFINE best == IF bestOffset = NoOffset THEN prevOffset ELSE bestOffset
           n    == Len(assigned)
           Root == {t \in Tensors : graph.view[t] = t}
<1>1. /\ phase = "place" /\ cur # NoTensor /\ i > n /\ cur' = NoTensor
      /\ phase' = phase /\ graph' = graph /\ record' = record /\ unplaced' = unplaced
      /\ i' = i /\ prevOffset' = prevOffset /\ bestOffset' = bestOffset
      /\ offset' = [offset EXCEPT ![cur] = best] /\ maxBlob' = BlobWith(best)
      /\ \A j \in DOMAIN assigned : j <= k <=> offset[assigned[j]] <= best
      /\ assigned' = [j \in 1 .. n + 1 |->
                        IF j <= k THEN assigned[j]
                        ELSE IF j = k + 1 THEN cur ELSE assigned[j - 1]]
  BY DEF Place, input
<1>2. /\ cur \in Root /\ cur \in Tensors /\ offset \in [Tensors -> Nat]
      /\ cur \notin Placed /\ i \in Nat
      /\ record[cur].size \in Nat /\ maxBlob \in Nat
      /\ best \in Nat
      /\ DOMAIN assigned = 1 .. n /\ n \in Nat
      /\ assigned \in Seq(Root)
      /\ \A j \in 1 .. n : assigned[j] \in Tensors
  BY <1>1 DEF PlanInv, PlanTypeInv, NoOffset
<1>3. assigned' \in Seq(Root) /\ DOMAIN assigned' = 1 .. n + 1
  BY <1>1, <1>2, Inserted
<1>4. Placed' = Placed \cup {cur}
  <2>1. ASSUME NEW j \in 1 .. n + 1 PROVE assigned'[j] \in Placed \cup {cur}
    <3>1. CASE j <= k
      <4>1. j \in 1 .. n /\ assigned'[j] = assigned[j]
        BY <1>1, <1>2, <3>1
      <4> QED
        BY <1>2, <4>1 DEF Placed
    <3>2. CASE j = k + 1
      BY <1>1, <1>2, <3>2
    <3>3. CASE j > k + 1
      <4>1. j - 1 \in 1 .. n /\ assigned'[j] = assigned[j - 1]
        BY <1>1, <1>2, <3>3
      <4> QED
        BY <1>2, <4>1 DEF Placed
    <3> QED
      BY <1>2, <3>1, <3>2, <3>3
  <2>2. ASSUME NEW j \in 1 .. n PROVE \E l \in 1 .. n + 1 : assigned'[l] = assigned[j]
    <3>1. CASE j <= k
      BY <1>1, <1>2, <3>1
    <3>2. CASE j > k
      <4>1. j + 1 \in 1 .. n + 1 /\ assigned'[j + 1] = assigned[j]
        BY <1>1, <1>2, <3>2
      <4> QED
        BY <4>1
    <3> QED
      BY <3>1, <3>2
  <2>3. k + 1 \in 1 .. n + 1 /\ assigned'[k + 1] = cur
    BY <1>1, <1>2
  <2>4. Placed' = {assigned'[j] : j \in 1 .. n + 1} /\ Placed = {assigned[j] : j \in 1 .. n}
    BY <1>2, <1>3 DEF Placed
  <2>5. Placed' \subseteq Placed \cup {cur}
    BY <2>1, <2>4
  <2>6. Placed \cup {cur} \subseteq Placed'
    BY <2>2, <2>3, <2>4
  <2> QED
    BY <2>5, <2>6
<1>5. offset' \in [Tensors -> Nat] /\ offset'[cur] = best
      /\ \A t \in Placed : t \in Tensors /\ offset'[t] = offset[t]
  BY <1>1, <1>2 DEF Placed
<1>6. maxBlob' \in Nat /\ maxBlob' >= maxBlob /\ maxBlob' >= best + record[cur].size
  BY <1>1, <1>2 DEF BlobWith
<1>7. PlanTypeInv'
  <2>1. cur' \notin unplaced' /\ (unplaced' \cup {cur'}) \cap Placed' = {}
    <3>1. unplaced \subseteq Tensors /\ unplaced \cap Placed = {} /\ cur \notin unplaced
      BY DEF PlanInv, PlanTypeInv
    <3>2. NoTensor \notin Tensors
      BY GraphsAssumption DEF NoTensor
    <3> QED
      BY <1>1, <1>2, <1>4, <1>5, <3>1, <3>2
  <2>2. (phase # "planned" => offset \in [Tensors -> Nat])' /\ maxBlob' \in Nat
    BY <1>5, <1>6
  <2>3. assigned' \in Seq(Root)
    BY <1>3
  <2> QED
    BY <1>1, <2>1, <2>2, <2>3 DEF PlanInv, PlanTypeInv
<1>8. OffsetsSorted'
  <2> DEFINE before(j) == offset[assigned[j]]
             after(j)  == offset'[assigned'[j]]
  <2>1. ASSUME NEW j \in 1 .. n PROVE before(j) \in Nat /\ (j <= k <=> before(j) <= best)
    BY <1>1, <1>2
  <2>2. ASSUME NEW j \in 1 .. n, NEW l \in 1 .. n, j < l PROVE before(j) <= before(l)
    BY <1>2, <2>2 DEF PlanInv, OffsetsSorted
  <2>3. ASSUME NEW j \in 1 .. n PROVE assigned[j] \in Placed
    BY <1>2 DEF Placed
  <2>4. ASSUME NEW j \in 1 .. n + 1, j <= k PROVE j \in 1 .. n /\ after(j) = before(j)
    BY <1>1, <1>2, <1>5, <2>3, <2>4
  <2>5. after(k + 1) = best
    BY <1>1, <1>2, <1>5
  <2>6. ASSUME NEW j \in 1 .. n + 1, j > k + 1
        PROVE  j - 1 \in 1 .. n /\ after(j) = before(j - 1)
    <3>1. j - 1 \in 1 .. n /\ assigned'[j] = assigned[j - 1]
      BY <1>1, <1>2, <2>6
    <3> QED
      BY <1>5, <2>3, <3>1
  <2> HIDE DEF before, after
  <2>7. ASSUME NEW j \in 1 .. n + 1, NEW l \in 1 .. n + 1, j < l
        PROVE  after(j) <= after(l)
    <3>1. CASE l <= k
      BY <1>2, <2>2, <2>4, <2>7, <3>1
    <3>2. CASE l = k + 1
      BY <1>2, <2>1, <2>4, <2>5, <2>7, <3>2
    <3>3. CASE l > k + 1 /\ j <= k
      <4>1. /\ j \in 1 .. n /\ after(j) = before(j)
            /\ l - 1 \in 1 .. n /\ after(l) = before(l - 1) /\ j < l - 1
        BY <1>2, <2>4, <2>6, <2>7, <3>3
      <4> QED
        BY <2>2, <4>1
    <3>4. CASE l > k + 1 /\ j = k + 1
      <4>1. l - 1 \in 1 .. n /\ after(l) = before(l - 1) /\ ~(l - 1 <= k)
        BY <1>2, <2>6, <3>4
      <4> QED
        BY <1>2, <2>1, <2>5, <3>4, <4>1
    <3>5. CASE l > k + 1 /\ j > k + 1
      <4>1. /\ j - 1 \in 1 .. n /\ after(j) = before(j - 1)
            /\ l - 1 \in 1 .. n /\ after(l) = before(l - 1) /\ j - 1 < l - 1
        BY <1>2, <2>6, <2>7, <3>5
      <4> QED
        BY <2>2, <4>1
    <3> QED
      BY <1>2, <3>1, <3>2, <3>3, <3>4, <3>5
  <2> QED
    BY <1>3, <2>7 DEF OffsetsSorted, after
<1>9. ScanInv'
  BY <1>1 DEF ScanInv
<1>10. ASSUME NEW t \in Placed, Overlap(cur, t)
       PROVE  End(t) <= best \/ best + record[cur].size <= offset[t]
  <2>1. PICK j \in 1 .. n : t = assigned[j]
    BY <1>2 DEF Placed
  <2>2. j < i
    BY <1>1, <1>2
  <2> QED
    BY <1>1, <1>2, <1>10, <2>1, <2>2 DEF PlanInv, ScanInv
<1> DEFINE e(t) == offset'[t] + record[t].size
<1>11. \A t : End(t)' = offset'[t] + record[t].size
  BY <1>1 DEF End
<1>12. PlacedApart'
  <2>1. ASSUME NEW t \in Placed, NEW u \in Placed, t # u, Overlap(t, u)
        PROVE  e(t) <= offset'[u] \/ e(u) <= offset'[t]
    BY <1>5, <2>1 DEF PlanInv, PlacedApart, End
  <2>2. ASSUME NEW t \in Placed, Overlap(cur, t)
        PROVE  e(t) <= offset'[cur] \/ e(cur) <= offset'[t]
    BY <1>5, <1>10, <2>2 DEF End
  <2>3. ASSUME NEW t \in Placed \cup {cur}, NEW u \in Placed \cup {cur}, t # u, Overlap(t, u)
        PROVE  e(t) <= offset'[u] \/ e(u) <= offset'[t]
    BY <2>1, <2>2, <2>3, OverlapSymmetric
  <2> QED
    BY <1>1, <1>4, <1>11, <2>3 DEF PlacedApart, Overlap
<1>13. BlobLargeEnough'
  <2>1. ASSUME NEW t \in Placed PROVE e(t) \in Nat /\ e(t) <= maxBlob
    BY <1>2, <1>5 DEF PlanInv, PlanTypeInv, BlobLargeEnough, End
  <2>2. ASSUME NEW t \in Placed \cup {cur} PROVE e(t) <= maxBlob'
    BY <1>2, <1>5, <1>6, <2>1
  <2> QED
    BY <1>4, <1>11, <2>2 DEF BlobLargeEnough
<1>14. Len(assigned') = n + 1
  BY <1>2, <1>3
<1> QED
  BY <1>4, <1>7, <1>8, <1>9, <1>12, <1>13, <1>14 DEF PlanInv

\* What is placed is no view and stays where it is.
LEMMA ViewsKeepPlan ==
  ASSUME PlanInv, AssignOffsetsToViews
  PROVE  PlanInv'
<1>1. /\ phase = "place" /\ phase' = "planned" /\ graph' = graph /\ record' = record
      /\ UNCHANGED <<unplaced, assigned, maxBlob, cur, i, prevOffset, bestOffset>>
      /\ \A t \in Tensors : graph.view[t] = t => offset'[t] = offset[t]
  BY DEF AssignOffsetsToViews, input, locals
<1>2. Placed' = Placed /\ \A t \in Placed : t \in Tensors /\ offset'[t] = offset[t]
  BY <1>1 DEF PlanInv, PlanTypeInv, Placed
<1>3. PlanTypeInv'
  BY <1>1, <1>2 DEF PlanInv, PlanTypeInv
<1>4. OffsetsSorted'
  BY <1>1, <1>2 DEF PlanInv, OffsetsSorted, Placed
<1>5. ScanInv'
  BY <1>1 DEF ScanInv
<1>6. PlacedApart' /\ BlobLargeEnough'
  BY <1>1, <1>2 DEF PlanInv, PlacedApart, BlobLargeEnough, Overlap, End
<1> QED
  BY <1>3, <1>4, <1>5, <1>6 DEF PlanInv

LEMMA StutterKeepsPlan == PlanInv /\ UNCHANGED vars => PlanInv'
  BY DEF PlanInv, PlanTypeInv, OffsetsSorted, ScanInv, PlacedApart, BlobLargeEnough,
         Placed, Overlap, End, vars, input, locals

----------------------------------------------------------------------------

THEOREM PlanInvariant == Spec => []PlanInv
<1>1. PlanInv /\ [Next]_vars => PlanInv'
  BY ScheduleKeepsPlan, RecordsKeepPlan, TakeKeepsPlan, ScanKeepsPlan, PlaceKeepsPlan,
     ViewsKeepPlan, StutterKeepsPlan DEF Next
<1> QED
  BY PlanInit, <1>1, PTL DEF Spec

\* Running a graph is a planning of it: the plan does not change once made.
THEOREM RunFollowsPlan == RunSpec => Spec
<1>1. RunInit => Init
  BY DEF RunInit
<1>2. [RunNext]_allVars => [Next]_vars
  BY DEF RunNext, Allocate, StartOperator, FinishOperator, JoinGroup, allVars
<1> QED
  BY <1>1, <1>2, PTL DEF RunSpec, Spec

\* Two tensors that are alive at the same time never share memory, in no plan and
\* for no run of it.
THEOREM PlacedApartCorrect == RunSpec => []PlacedApart
<1>1. PlanInv => PlacedApart
  BY DEF PlanInv
<1> QED
  BY <1>1, PlanInvariant, RunFollowsPlan, PTL

\* The block of the Model has room for every tensor.
THEOREM BlobLargeEnoughCorrect == RunSpec => []BlobLargeEnough
<1>1. PlanInv => BlobLargeEnough
  BY DEF PlanInv
<1> QED
  BY <1>1, PlanInvariant, RunFollowsPlan, PTL
----------------------------------------------------------------------------
(* The recursive functions of the planner: their equations have a solution *)
(* because a view comes after what it views, and a consumer after its      *)
(* producers.                                                              *)

OriginalOf(g) == CHOOSE f : f = [t \in Tensors |-> IF g.view[t] = t THEN t ELSE f[g.view[t]]]

Before(g, o) == {w \in Ops : w < o /\ g.outputs[w] \cap g.inputs[o] # {}}

RoundOf(g) ==
  CHOOSE f : f = [o \in Ops |-> IF Before(g, o) = {} THEN 0
                                ELSE 1 + Max({f[w] : w \in Before(g, o)})]

UniqueOffsetOf(g) ==
  CHOOSE f : f = [o \in Ops |-> IF o = Min(Ops) THEN 0 ELSE f[o - 1] + g.unique[o - 1]]

LEMMA Recursive == /\ Original = OriginalOf(graph) /\ Round = RoundOf(graph)
                   /\ UniqueOffset = UniqueOffsetOf(graph)
  BY DEF Original, OriginalOf, Round, RoundOf, Before, UniqueOffset, UniqueOffsetOf

\* A view comes after the tensor that it views.
LEMMA ViewedBefore ==
  ASSUME NEW g \in Graphs, NEW t \in Tensors, g.view[t] # t
  PROVE  g.view[t] \in Tensors /\ g.view[t] < t
<1>1. PICK w \in Ops : t \in g.outputs[w]
  BY SortedAssumption
<1>2. g.view[t] \in g.inputs[w]
  BY <1>1, SortedAssumption
<1>3. g.view[t] < t
  BY <1>1, <1>2, SortedAssumption
<1> QED
  BY <1>3, GraphsAssumption

\* The original of a tensor is no view, and not smaller.
LEMMA OriginalFacts ==
  ASSUME NEW g \in Graphs, NEW t \in Tensors
  PROVE  /\ OriginalOf(g)[t] \in Tensors /\ g.view[OriginalOf(g)[t]] = OriginalOf(g)[t]
         /\ OriginalOf(g)[t] <= t /\ g.size[t] <= g.size[OriginalOf(g)[t]]
         /\ g.view[t] = t => OriginalOf(g)[t] = t
         /\ g.view[t] # t => OriginalOf(g)[t] = OriginalOf(g)[g.view[t]]
<1> DEFINE n == Cardinality(Tensors)
           m == [x \in Tensors |-> x]
           G == [a \in Tensors \X [Tensors -> Tensors] |->
                   IF g.view[a[1]] = a[1] THEN a[1] ELSE a[2][g.view[a[1]]]]
<1>1. /\ Tensors \subseteq Nat
      /\ g.view \in [Tensors -> Tensors] /\ g.size \in [Tensors -> Nat]
  BY GraphsAssumption
<1>2. G \in [Tensors \X [Tensors -> Tensors] -> Tensors]
  BY <1>1
<1>3. ASSUME NEW x \in Tensors, NEW f \in [Tensors -> Tensors], NEW h \in [Tensors -> Tensors],
             \A y \in Tensors : m[y] < m[x] => f[y] = h[y]
      PROVE  G[<<x, f>>] = G[<<x, h>>]
  <2>1. g.view[x] # x => f[g.view[x]] = h[g.view[x]]
    BY <1>3, ViewedBefore
  <2> QED
    BY <2>1
<1>4. \E f \in [Tensors -> Tensors] : \A x \in Tensors : f[x] = G[<<x, f>>]
  <2>1. Tensors # {}
    OBVIOUS
  <2>2. m \in [Tensors -> 0 .. n] /\ n \in Nat
    BY GraphsAssumption
  <2>3. \A x \in Tensors : \A f, h \in [Tensors -> Tensors] :
          (\A y \in Tensors : m[y] < m[x] => f[y] = h[y]) => G[<<x, f>>] = G[<<x, h>>]
    BY <1>3
  <2> HIDE DEF m, n, G
  <2>4. Body(Tensors, Tensors, n, m, G)
    BY ONLY <1>2, <2>1, <2>2, <2>3 DEF Body
  <2> QED
    BY <2>4, RecursiveFunction
<1>5. PICK f \in [Tensors -> Tensors] : \A x \in Tensors : f[x] = G[<<x, f>>]
  BY <1>4
<1>6. \A x \in Tensors : f[x] = IF g.view[x] = x THEN x ELSE f[g.view[x]]
  BY <1>5
<1>7. f = [x \in Tensors |-> IF g.view[x] = x THEN x ELSE f[g.view[x]]]
  BY <1>6
<1>8. OriginalOf(g) = [x \in Tensors |-> IF g.view[x] = x THEN x ELSE OriginalOf(g)[g.view[x]]]
  BY <1>7 DEF OriginalOf
<1> HIDE DEF n, m, G
<1> DEFINE o(x) == OriginalOf(g)[x]
           Good(x) == /\ o(x) \in Tensors /\ g.view[o(x)] = o(x)
                      /\ o(x) <= x /\ g.size[x] <= g.size[o(x)]
           Bad == {x \in Tensors : ~Good(x)}
<1>9. ASSUME Bad # {} PROVE FALSE
  <2>1. PICK x \in Bad : \A y \in Bad : x <= y
    <3>1. Bad \in SUBSET Nat
      BY <1>1
    <3> HIDE DEF Bad
    <3> QED
      BY <1>9, <3>1, Least
  <2>2. x \in Tensors /\ x \in Nat /\ ~Good(x)
    BY <1>1, <2>1
  <2> HIDE DEF Good, Bad
  <2>3. g.view[x] # x
    BY <1>1, <1>8, <2>2 DEF Good
  <2>4. g.view[x] \in Tensors /\ g.view[x] < x /\ o(x) = o(g.view[x])
    BY <1>8, <2>2, <2>3, ViewedBefore
  <2>5. Good(g.view[x])
    <3>0. \A y \in Tensors : y < x => ~(x <= y)
      BY <1>1, <2>2
    <3>1. ~(x <= g.view[x])
      BY <2>4, <3>0
    <3>2. g.view[x] \notin Bad
      BY <2>1, <3>1
    <3> QED
      BY <2>4, <3>2 DEF Bad
  <2>6. g.size[x] <= g.size[g.view[x]]
    BY <2>2, <2>3, SortedAssumption
  <2>7. /\ g.view[x] \in Nat /\ o(x) \in Nat /\ g.size[x] \in Nat
        /\ g.size[g.view[x]] \in Nat /\ g.size[o(x)] \in Nat
    BY <1>1, <2>2, <2>4, <2>5 DEF Good
  <2>8. Good(x)
    BY <2>2, <2>4, <2>5, <2>6, <2>7 DEF Good
  <2> QED
    BY <2>2, <2>8
<1>10. Good(t)
  BY <1>9
<1> QED
  BY <1>8, <1>10

\* The rounds of the operators before an operator, and the latest of them.
LEMMA RoundsBounded ==
  ASSUME NEW g \in Graphs, NEW f,
         \A x \in Ops : \/ f[x] = 0
                        \/ Before(g, x) # {} /\ f[x] = 1 + Max({f[w] : w \in Before(g, x)})
  PROVE  \A x \in Ops : /\ f[x] \in Nat /\ f[x] <= x
                        /\ Before(g, x) # {} =>
                             /\ Max({f[w] : w \in Before(g, x)}) \in Nat
                             /\ \A w \in Before(g, x) : f[w] <= Max({f[v] : v \in Before(g, x)})
<1> DEFINE rounds(x) == {f[w] : w \in Before(g, x)}
           Bad == {x \in Ops : ~(f[x] \in Nat /\ f[x] <= x)}
<1>1. Ops \subseteq Nat /\ \A x \in Ops : \A w \in Before(g, x) : w \in Ops /\ w < x
  BY GraphsAssumption DEF Before
<1>2. ASSUME NEW x \in Ops, Before(g, x) # {},
             \A w \in Before(g, x) : f[w] \in Nat /\ f[w] <= w
      PROVE  /\ Max(rounds(x)) \in Nat /\ Max(rounds(x)) + 1 <= x
             /\ \A w \in Before(g, x) : f[w] <= Max(rounds(x))
  <2>1. rounds(x) \in SUBSET Nat /\ rounds(x) # {}
    BY <1>2
  <2>2. ASSUME NEW w \in Before(g, x) PROVE f[w] + 1 <= x
    <3>1. f[w] \in Nat /\ w \in Nat /\ x \in Nat /\ f[w] <= w /\ w < x
      BY <1>1, <1>2, <2>2
    <3> QED
      BY <3>1
  <2>3. x \in Nat /\ \A k \in rounds(x) : k <= x
    BY <1>1, <1>2, <2>2
  <2>4. Max(rounds(x)) \in rounds(x) /\ \A k \in rounds(x) : k <= Max(rounds(x))
    <3> HIDE DEF rounds
    <3> QED
      BY <2>1, <2>3, MaxIsGreatest
  <2>5. PICK top : top = Max(rounds(x))
    OBVIOUS
  <2>6. top \in Nat /\ top + 1 <= x /\ \A w \in Before(g, x) : f[w] <= top
    BY <2>1, <2>2, <2>4, <2>5
  <2> QED
    BY <2>5, <2>6
<1>3. ASSUME Bad # {} PROVE FALSE
  <2>1. PICK x \in Bad : \A y \in Bad : x <= y
    <3>1. Bad \in SUBSET Nat
      BY <1>1
    <3> HIDE DEF Bad
    <3> QED
      BY <1>3, <3>1, Least
  <2>2. x \in Ops /\ x \in Nat
    BY <1>1, <2>1
  <2>3. \A w \in Before(g, x) : f[w] \in Nat /\ f[w] <= w
    <3>1. \A w \in Ops : w < x => ~(x <= w)
      BY <1>1, <2>2
    <3>2. \A w \in Before(g, x) : w \in Ops /\ w \notin Bad
      BY <1>1, <2>1, <2>2, <3>1
    <3> QED
      BY <3>2
  <2>4. CASE Before(g, x) # {}
    <3>1. PICK top : top = Max(rounds(x))
      OBVIOUS
    <3>2. top \in Nat /\ top + 1 <= x /\ (f[x] = 0 \/ f[x] = 1 + top)
      BY <1>2, <2>2, <2>3, <2>4, <3>1
    <3> QED
      BY <2>1, <2>2, <3>2
  <2>5. CASE Before(g, x) = {}
    <3>1. f[x] = 0
      BY <2>2, <2>5
    <3> QED
      BY <2>1, <2>2, <3>1
  <2> QED
    BY <2>4, <2>5
<1>4. \A x \in Ops : f[x] \in Nat /\ f[x] <= x
  BY <1>3
<1>5. \A x \in Ops : \A w \in Before(g, x) : f[w] \in Nat /\ f[w] <= w
  BY <1>1, <1>4
<1> QED
  BY <1>2, <1>4, <1>5

\* The rounds are numbers, and a consumer has a later one than its producers.
LEMMA RoundFacts ==
  ASSUME NEW g \in Graphs, NEW o \in Ops
  PROVE  /\ RoundOf(g)[o] \in Nat
         /\ \A w \in Before(g, o) : RoundOf(g)[w] \in Nat /\ RoundOf(g)[w] < RoundOf(g)[o]
<1> DEFINE n == Cardinality(Ops)
           m == [x \in Ops |-> x]
           after(f, x) == LET top == Max({f[w] : w \in Before(g, x)})
                          IN  IF Before(g, x) # {} /\ top \in Nat THEN 1 + top ELSE 0
           G == [a \in Ops \X [Ops -> Nat] |-> after(a[2], a[1])]
<1>1. Ops \subseteq Nat /\ n \in Nat /\ m \in [Ops -> 0 .. n]
  BY GraphsAssumption
<1>2. \A x \in Ops : \A w \in Before(g, x) : w \in Ops /\ m[w] < m[x]
  BY DEF Before
<1>3. G \in [Ops \X [Ops -> Nat] -> Nat]
  <2>1. \A f, x : after(f, x) \in Nat
    OBVIOUS
  <2> HIDE DEF after
  <2> QED
    BY <2>1
<1>4. ASSUME NEW x \in Ops, NEW f \in [Ops -> Nat], NEW h \in [Ops -> Nat],
             \A y \in Ops : m[y] < m[x] => f[y] = h[y]
      PROVE  G[<<x, f>>] = G[<<x, h>>]
  <2>1. \A w \in Before(g, x) : f[w] = h[w]
    BY <1>2, <1>4
  <2>2. {f[w] : w \in Before(g, x)} = {h[w] : w \in Before(g, x)}
    BY <2>1
  <2>3. after(f, x) = after(h, x)
    BY <2>2
  <2> HIDE DEF after
  <2> QED
    BY <2>3
<1>5. \E f \in [Ops -> Nat] : \A x \in Ops : f[x] = G[<<x, f>>]
  <2>1. \A x \in Ops : \A f, h \in [Ops -> Nat] :
          (\A y \in Ops : m[y] < m[x] => f[y] = h[y]) => G[<<x, f>>] = G[<<x, h>>]
    BY <1>4
  <2>2. Nat # {}
    OBVIOUS
  <2> HIDE DEF m, n, G
  <2>3. Body(Ops, Nat, n, m, G)
    BY ONLY <1>1, <1>3, <2>1, <2>2 DEF Body
  <2> QED
    BY <2>3, RecursiveFunction
<1>6. PICK f \in [Ops -> Nat] : \A x \in Ops : f[x] = G[<<x, f>>]
  BY <1>5
<1>7. \A x \in Ops : f[x] = after(f, x)
  <2> HIDE DEF after
  <2> QED
    BY <1>6
<1> HIDE DEF n, m, G
<1>8. \A x \in Ops : Before(g, x) # {} => Max({f[w] : w \in Before(g, x)}) \in Nat
  <2>1. \A x \in Ops : \/ f[x] = 0
                       \/ Before(g, x) # {} /\ f[x] = 1 + Max({f[w] : w \in Before(g, x)})
    BY <1>7
  <2> QED
    BY <2>1, RoundsBounded
<1>9. \A x \in Ops : f[x] = IF Before(g, x) = {} THEN 0
                            ELSE 1 + Max({f[w] : w \in Before(g, x)})
  BY <1>7, <1>8
<1> DEFINE Solution(h) == h = [x \in Ops |-> IF Before(g, x) = {} THEN 0
                                            ELSE 1 + Max({h[w] : w \in Before(g, x)})]
<1>10. Solution(f)
  BY <1>9
<1>11. PICK r : r = RoundOf(g)
  OBVIOUS
<1>12. Solution(r)
  <2>1. RoundOf(g) = CHOOSE h : Solution(h)
    BY DEF RoundOf
  <2> HIDE DEF Solution
  <2> QED
    BY <1>10, <1>11, <2>1
<1>13. \A x \in Ops : r[x] = IF Before(g, x) = {} THEN 0
                             ELSE 1 + Max({r[w] : w \in Before(g, x)})
  BY <1>12
<1>14. \A x \in Ops : /\ r[x] \in Nat
                      /\ Before(g, x) # {} =>
                           /\ Max({r[w] : w \in Before(g, x)}) \in Nat
                           /\ \A w \in Before(g, x) : r[w] <= Max({r[v] : v \in Before(g, x)})
  <2>1. \A x \in Ops : \/ r[x] = 0
                       \/ Before(g, x) # {} /\ r[x] = 1 + Max({r[w] : w \in Before(g, x)})
    BY <1>13
  <2> QED
    BY <2>1, RoundsBounded
<1>15. ASSUME NEW w \in Before(g, o) PROVE r[w] \in Nat /\ r[w] < r[o]
  <2>1. PICK top : top = Max({r[v] : v \in Before(g, o)})
    OBVIOUS
  <2>2. w \in Ops /\ Before(g, o) # {}
    BY <1>2
  <2>3. top \in Nat /\ r[w] \in Nat /\ r[w] <= top /\ r[o] = 1 + top
    BY <1>13, <1>14, <1>15, <2>1, <2>2
  <2> QED
    BY <2>3
<1> QED
  BY <1>11, <1>14, <1>15

\* The slots of the operators in the unique scratch memory follow one another, and
\* are all at its start when no operator needs any.
LEMMA UniqueFacts ==
  ASSUME NEW g \in Graphs
  PROVE  /\ Min(Ops) \in Ops /\ Max(Ops) \in Ops /\ \A o \in Ops : o \in Nat /\ o <= Max(Ops)
         /\ \A o \in Ops : UniqueOffsetOf(g)[o] \in Nat
         /\ \A o, p \in Ops : o < p => UniqueOffsetOf(g)[o] + g.unique[o] <= UniqueOffsetOf(g)[p]
         /\ (\A o \in Ops : g.unique[o] = 0) => \A o \in Ops : UniqueOffsetOf(g)[o] = 0
<1> DEFINE n == Cardinality(Ops)
           m == [x \in Ops |-> x]
           G == [a \in Ops \X [Ops -> Nat] |->
                   IF a[1] = Min(Ops) THEN 0 ELSE a[2][a[1] - 1] + g.unique[a[1] - 1]]
<1>0. Ops = 1 .. n /\ n \in Nat \ {0} /\ g.unique \in [Ops -> Nat]
  BY GraphsAssumption
<1>1. /\ Ops \in SUBSET Nat /\ n \in Nat /\ Ops # {} /\ \A x \in Ops : 1 <= x /\ x <= n
      /\ m \in [Ops -> 0 .. n] /\ g.unique \in [Ops -> Nat]
  <2> HIDE DEF n
  <2> QED
    BY <1>0
<1>2. /\ Min(Ops) \in Ops /\ \A x \in Ops : Min(Ops) <= x
      /\ Max(Ops) \in Ops /\ \A x \in Ops : x <= Max(Ops)
  BY <1>1, MinIsLeast, MaxIsGreatest
<1>3. ASSUME NEW x \in Ops, x # Min(Ops) PROVE x - 1 \in Ops /\ m[x - 1] < m[x]
  <2>1. PICK least : least = Min(Ops)
    OBVIOUS
  <2>2. least \in 1 .. n /\ x \in 1 .. n /\ least <= x /\ x # least /\ n \in Nat
    <3> HIDE DEF n
    <3> QED
      BY <1>0, <1>1, <1>2, <1>3, <2>1
  <2>3. x - 1 \in 1 .. n
    BY <2>2
  <2>5. x - 1 \in Ops /\ x - 1 < x
    BY <1>0, <2>2, <2>3
  <2> QED
    BY <2>5
<1>4. G \in [Ops \X [Ops -> Nat] -> Nat]
  <2>1. ASSUME NEW x \in Ops, NEW f \in [Ops -> Nat]
        PROVE  (IF x = Min(Ops) THEN 0 ELSE f[x - 1] + g.unique[x - 1]) \in Nat
    <3>1. x # Min(Ops) => f[x - 1] \in Nat /\ g.unique[x - 1] \in Nat
      BY <1>1, <1>3
    <3> QED
      BY <3>1
  <2> QED
    BY <2>1
<1>5. \E f \in [Ops -> Nat] : \A x \in Ops : f[x] = G[<<x, f>>]
  <2>1. \A x \in Ops : \A f, h \in [Ops -> Nat] :
          (\A y \in Ops : m[y] < m[x] => f[y] = h[y]) => G[<<x, f>>] = G[<<x, h>>]
    <3>1. ASSUME NEW x \in Ops, NEW f \in [Ops -> Nat], NEW h \in [Ops -> Nat],
                 \A y \in Ops : m[y] < m[x] => f[y] = h[y]
          PROVE  G[<<x, f>>] = G[<<x, h>>]
      <4>1. x # Min(Ops) => f[x - 1] = h[x - 1]
        BY <1>3, <3>1
      <4> QED
        BY <4>1
    <3> QED
      BY <3>1
  <2>2. Nat # {}
    OBVIOUS
  <2> HIDE DEF m, n, G
  <2>3. Body(Ops, Nat, n, m, G)
    BY <1>1, <1>4, <2>1, <2>2 DEF Body
  <2> QED
    BY <2>3, RecursiveFunction
<1>6. PICK f \in [Ops -> Nat] : \A x \in Ops : f[x] = G[<<x, f>>]
  BY <1>5
<1> DEFINE Solution(h) == h = [x \in Ops |-> IF x = Min(Ops) THEN 0
                                            ELSE h[x - 1] + g.unique[x - 1]]
<1>7. Solution(f)
  BY <1>6
<1>8. PICK u : u = UniqueOffsetOf(g)
  OBVIOUS
<1>9. Solution(u)
  <2>1. UniqueOffsetOf(g) = CHOOSE h : Solution(h)
    BY DEF UniqueOffsetOf
  <2> HIDE DEF Solution
  <2> QED
    BY <1>7, <1>8, <2>1
<1>10. \A x \in Ops : u[x] = IF x = Min(Ops) THEN 0 ELSE u[x - 1] + g.unique[x - 1]
  BY <1>9
<1> HIDE DEF n, m, G, Solution
<1> DEFINE None == \A o \in Ops : g.unique[o] = 0
           Bad == {x \in Ops : ~ (/\ u[x] \in Nat /\ (None => u[x] = 0)
                                  /\ \A o \in Ops : o < x => u[o] + g.unique[o] <= u[x])}
<1>11. ASSUME Bad # {} PROVE FALSE
  <2>1. PICK x \in Bad : \A y \in Bad : x <= y
    <3>1. Bad \in SUBSET Nat
      BY <1>1
    <3> HIDE DEF Bad
    <3> QED
      BY <1>11, <3>1, Least
  <2>2. x \in Ops /\ x \in Nat
    BY <1>1, <2>1
  <2>3. x # Min(Ops)
    <3>1. ASSUME x = Min(Ops) PROVE FALSE
      <4>0. \A o \in Ops : o \in Nat /\ x <= o
        BY <1>1, <1>2, <3>1
      <4>1. ASSUME NEW o \in Ops, o < x PROVE FALSE
        <5>1. o \in Nat /\ x <= o
          BY <4>0
        <5> HIDE DEF Bad, None
        <5> QED
          BY <2>2, <4>1, <5>1
      <4>2. u[x] = 0
        BY <1>10, <2>2, <3>1
      <4> QED
        BY <2>1, <4>1, <4>2
    <3> QED
      BY <3>1
  <2>4. PICK y \in Ops : y = x - 1
    BY <1>3, <2>2, <2>3
  <2>5. y \in Nat /\ y < x /\ ~(x <= y) /\ u[x] = u[y] + g.unique[y] /\ g.unique[y] \in Nat
    BY <1>1, <1>10, <2>2, <2>3, <2>4
  <2>6. u[y] \in Nat /\ (None => u[y] = 0) /\ \A o \in Ops : o < y => u[o] + g.unique[o] <= u[y]
    BY <2>1, <2>5
  <2>7. ASSUME NEW o \in Ops, o < x PROVE u[o] + g.unique[o] <= u[x]
    <3>1. o \in Nat /\ g.unique[o] \in Nat /\ u[x] \in Nat
      BY <1>1, <2>5, <2>6
    <3>2. CASE o = y
      BY <2>5, <2>6, <3>2
    <3>3. CASE o < y
      <4>1. u[o] + g.unique[o] <= u[y]
        BY <2>6, <3>3
      <4>2. u[o] \in Nat
        <5>1. ~(x <= o)
          BY <2>2, <2>7, <3>1
        <5> QED
          BY <2>1, <5>1
      <4> QED
        BY <2>5, <2>6, <3>1, <4>1, <4>2
    <3> QED
      BY <2>2, <2>4, <2>7, <3>1, <3>2, <3>3
  <2>8. u[x] \in Nat /\ (None => u[x] = 0)
    BY <2>5, <2>6
  <2> QED
    BY <2>1, <2>7, <2>8
<1>12. \A x \in Ops : u[x] \in Nat /\ (None => u[x] = 0) /\ \A o \in Ops : o < x => u[o] + g.unique[o] <= u[x]
  BY <1>11
<1> QED
  BY <1>1, <1>2, <1>8, <1>12

----------------------------------------------------------------------------
(* The sequential schedule: the place of an occurrence is the number of    *)
(* those before it.                                                        *)

EarlierIn(S, a) == {b \in S : b[1] < a[1] \/ (b[1] = a[1] /\ b[2] < a[2])}

\* Of two occurrences one is earlier, and the order is transitive.
LEMMA EarlierOrder ==
  ASSUME NEW S \in SUBSET (Nat \X Nat), NEW a \in S, NEW b \in S
  PROVE  /\ a \notin EarlierIn(S, a)
         /\ a # b => a \in EarlierIn(S, b) \/ b \in EarlierIn(S, a)
         /\ b \in EarlierIn(S, a) => EarlierIn(S, b) \cup {b} \subseteq EarlierIn(S, a)
<1>1. \A x \in S : x[1] \in Nat /\ x[2] \in Nat /\ x = <<x[1], x[2]>>
  OBVIOUS
<1>2. a # b => a[1] # b[1] \/ a[2] # b[2]
  BY <1>1
<1>3. a # b => a \in EarlierIn(S, b) \/ b \in EarlierIn(S, a)
  BY <1>1, <1>2 DEF EarlierIn
<1>4. ASSUME b \in EarlierIn(S, a), NEW c \in EarlierIn(S, b) PROVE c \in EarlierIn(S, a)
  <2>1. /\ a[1] \in Nat /\ a[2] \in Nat /\ b[1] \in Nat /\ b[2] \in Nat
        /\ c \in S /\ c[1] \in Nat /\ c[2] \in Nat
    BY <1>1 DEF EarlierIn
  <2>2. /\ c[1] < b[1] \/ (c[1] = b[1] /\ c[2] < b[2])
        /\ b[1] < a[1] \/ (b[1] = a[1] /\ b[2] < a[2])
    BY <1>4 DEF EarlierIn
  <2>3. c[1] < a[1] \/ (c[1] = a[1] /\ c[2] < a[2])
    BY <2>1, <2>2
  <2> QED
    BY <2>1, <2>3 DEF EarlierIn
<1>5. a \notin EarlierIn(S, a)
  BY <1>1 DEF EarlierIn
<1> QED
  BY <1>3, <1>4, <1>5

\* A set of occurrences has an earliest one.
LEMMA Earliest ==
  ASSUME NEW S \in SUBSET (Nat \X Nat), NEW T \in SUBSET S, T # {}
  PROVE  \E a \in T : T \cap EarlierIn(S, a) = {}
<1>1. \A x \in T : x[1] \in Nat /\ x[2] \in Nat
  OBVIOUS
<1>2. PICK t \in {x[1] : x \in T} : \A k \in {x[1] : x \in T} : t <= k
  <2>1. {x[1] : x \in T} \in SUBSET Nat /\ {x[1] : x \in T} # {}
    BY <1>1
  <2> QED
    BY <2>1, Least
<1> DEFINE U == {x \in T : x[1] = t}
<1>3. PICK o \in {x[2] : x \in U} : \A k \in {x[2] : x \in U} : o <= k
  <2>1. {x[2] : x \in U} \in SUBSET Nat /\ {x[2] : x \in U} # {}
    BY <1>1, <1>2
  <2> QED
    BY <2>1, Least
<1>4. PICK a \in U : a[2] = o
  BY <1>3
<1>5. ASSUME NEW b \in T PROVE b \notin EarlierIn(S, a)
  <2>1. /\ a[1] = t /\ a[2] = o /\ t \in Nat /\ o \in Nat /\ b[1] \in Nat /\ b[2] \in Nat
        /\ t <= b[1] /\ (b[1] = t => o <= b[2])
    BY <1>1, <1>2, <1>3, <1>4
  <2> QED
    BY <2>1 DEF EarlierIn
<1> QED
  BY <1>4, <1>5

\* The numbers of earlier occurrences are all numbers up to that of all.
LEMMA Ranks ==
  ASSUME NEW S \in SUBSET (Nat \X Nat), IsFiniteSet(S)
  PROVE  /\ Cardinality(S) \in Nat
         /\ \A a \in S : /\ Cardinality(EarlierIn(S, a)) \in Nat
                         /\ Cardinality(EarlierIn(S, a)) < Cardinality(S)
                         /\ \A b \in EarlierIn(S, a) :
                              Cardinality(EarlierIn(S, b)) < Cardinality(EarlierIn(S, a))
         /\ \A k \in 1 .. Cardinality(S) : \E a \in S : Cardinality(EarlierIn(S, a)) = k - 1
<1> DEFINE rank(a) == Cardinality(EarlierIn(S, a))
           n == Cardinality(S)
<1>1. n \in Nat
  BY FS_CardinalityType
<1>2. ASSUME NEW a \in S
      PROVE  /\ IsFiniteSet(EarlierIn(S, a)) /\ rank(a) \in Nat
             /\ IsFiniteSet(EarlierIn(S, a) \cup {a})
             /\ Cardinality(EarlierIn(S, a) \cup {a}) = rank(a) + 1
  <2>1. EarlierIn(S, a) \in SUBSET S
    BY DEF EarlierIn
  <2>2. IsFiniteSet(EarlierIn(S, a))
    BY <2>1, FS_Subset
  <2>3. a \notin EarlierIn(S, a)
    BY EarlierOrder
  <2> QED
    BY <2>2, <2>3, FS_AddElement, FS_CardinalityType
<1>3. ASSUME NEW a \in S, NEW b \in EarlierIn(S, a) PROVE rank(b) < rank(a)
  <2>1. b \in S
    BY DEF EarlierIn
  <2>2. EarlierIn(S, b) \cup {b} \in SUBSET EarlierIn(S, a)
    BY <2>1, EarlierOrder
  <2>3. IsFiniteSet(EarlierIn(S, a)) /\ rank(a) \in Nat /\ rank(b) \in Nat
        /\ Cardinality(EarlierIn(S, b) \cup {b}) = rank(b) + 1
    BY <1>2, <2>1
  <2>4. Cardinality(EarlierIn(S, b) \cup {b}) <= rank(a)
    BY <2>2, <2>3, FS_Subset
  <2> HIDE DEF rank
  <2> QED
    BY <2>3, <2>4
<1>4. ASSUME NEW a \in S PROVE rank(a) + 1 <= n
  <2>1. EarlierIn(S, a) \cup {a} \in SUBSET S
    BY DEF EarlierIn
  <2>2. Cardinality(EarlierIn(S, a) \cup {a}) <= n
    BY <2>1, FS_Subset
  <2> QED
    BY <1>2, <2>2
<1> DEFINE Bad == {k \in Nat : k < n /\ \A a \in S : rank(a) # k}
<1>5. ASSUME Bad # {} PROVE FALSE
  <2>1. PICK k \in Bad : \A l \in Bad : k <= l
    <3>1. Bad \in SUBSET Nat
      OBVIOUS
    <3> HIDE DEF Bad
    <3> QED
      BY <1>5, <3>1, Least
  <2>2. k \in Nat /\ k < n /\ \A a \in S : rank(a) # k
    BY <2>1
  <2>3. CASE k = 0
    <3>1. S # {}
      BY <1>1, <2>2, <2>3, FS_EmptySet
    <3>2. PICK a \in S : S \cap EarlierIn(S, a) = {}
      BY <3>1, Earliest
    <3>3. EarlierIn(S, a) = {}
      BY <3>2 DEF EarlierIn
    <3>4. rank(a) = 0
      BY <3>3, FS_EmptySet
    <3> QED
      BY <2>2, <2>3, <3>4
  <2>4. CASE k # 0
    <3>1. k - 1 \in Nat /\ k - 1 < n /\ ~(k <= k - 1)
      BY <1>1, <2>2, <2>4
    <3>2. PICK a \in S : rank(a) = k - 1
      BY <2>1, <3>1
    <3> DEFINE upto == EarlierIn(S, a) \cup {a}
               rest == S \ upto
    <3>3. Cardinality(upto) = k
      BY <1>2, <2>2, <3>2
    <3>4. upto \subseteq S
      BY DEF EarlierIn
    <3>5. rest # {}
      <4>1. upto # S
        BY <1>1, <2>2, <3>3
      <4> QED
        BY <3>4, <4>1
    <3>6. PICK c \in rest : rest \cap EarlierIn(S, c) = {}
      <4>1. rest \in SUBSET S
        OBVIOUS
      <4> HIDE DEF rest
      <4> QED
        BY <3>5, <4>1, Earliest
    <3>7. c \in S /\ c # a /\ c \notin EarlierIn(S, a)
      BY <3>6
    <3>8. upto \subseteq EarlierIn(S, c)
      BY <3>7, EarlierOrder
    <3>9. EarlierIn(S, c) \subseteq upto
      BY <3>6 DEF EarlierIn
    <3>10. rank(c) = k
      <4>1. EarlierIn(S, c) = upto
        BY <3>8, <3>9
      <4> HIDE DEF upto
      <4> QED
        BY <3>3, <4>1
    <3> QED
      BY <2>2, <3>7, <3>10
  <2> QED
    BY <2>3, <2>4
<1>6. ASSUME NEW k \in 1 .. n PROVE \E a \in S : rank(a) = k - 1
  <2>1. k - 1 \in Nat /\ k - 1 < n
    BY <1>1
  <2> QED
    BY <1>5, <2>1
<1>7. \A a \in S : rank(a) \in Nat /\ rank(a) < n
  <2>1. ASSUME NEW a \in S PROVE rank(a) \in Nat /\ rank(a) < n
    <3>1. rank(a) \in Nat /\ rank(a) + 1 <= n
      BY <1>2, <1>4
    <3> HIDE DEF rank, n
    <3> QED
      BY <1>1, <3>1
  <2> QED
    BY <2>1
<1> QED
  BY <1>1, <1>3, <1>6, <1>7

----------------------------------------------------------------------------
(* The schedule.                                                           *)

\* Operator o is in group k of the schedule s.
In(s, k, o) == \E j \in DOMAIN s[k] : s[k][j] = o

\* The producers of what an operator reads run in earlier groups.
ProducersFirst(g, s) ==
  \A l \in DOMAIN s : \A m \in DOMAIN s[l] : \A t \in g.inputs[s[l][m]] : \A w \in Ops :
    t \in g.outputs[w] => \E k \in DOMAIN s : k < l /\ In(s, k, w)

\* In multi-stream mode a group has operators of one round, groups come in the
\* order of their rounds and before the operators that wait, and no operator
\* comes twice.
OnceEach(s) ==
  \A k, l \in DOMAIN s : \A j \in DOMAIN s[k] : \A m \in DOMAIN s[l] :
    s[k][j] = s[l][m] => k = l /\ j = m

RoundsInOrder(g, s) ==
  \A k \in DOMAIN s : \A j \in DOMAIN s[k] :
    /\ \A l \in DOMAIN s : \A m \in DOMAIN s[l] :
         /\ k <= l => RoundOf(g)[s[k][j]] <= RoundOf(g)[s[l][m]]
         /\ k = l => RoundOf(g)[s[k][j]] = RoundOf(g)[s[l][m]]
    /\ \A o \in Ops : (\A l \in DOMAIN s : ~In(s, l, o)) =>
                         RoundOf(g)[s[k][j]] <= RoundOf(g)[o]

ScheduleInv ==
  /\ graph \in Graphs /\ mode \in Modes
  /\ steps \in Seq(Seq(Ops))
  /\ \A k \in DOMAIN steps : Len(steps[k]) \in 1 .. MaxParallel
  /\ mode = 0 => \A k \in DOMAIN steps : Len(steps[k]) = 1
  /\ mode = 1 => OnceEach(steps) /\ RoundsInOrder(graph, steps)
  /\ ProducersFirst(graph, steps)

\* What a sequence of groups is.
LEMMA Groups ==
  ASSUME NEW s \in Seq(Seq(Ops))
  PROVE  /\ DOMAIN s = 1 .. Len(s) /\ Len(s) \in Nat
         /\ \A k \in DOMAIN s : /\ s[k] \in Seq(Ops) /\ Len(s[k]) \in Nat
                                /\ DOMAIN s[k] = 1 .. Len(s[k])
                                /\ \A j \in DOMAIN s[k] : s[k][j] \in Ops
<1>1. DOMAIN s = 1 .. Len(s) /\ Len(s) \in Nat /\ \A k \in 1 .. Len(s) : s[k] \in Seq(Ops)
  OBVIOUS
<1>2. ASSUME NEW q \in Seq(Ops)
      PROVE  /\ Len(q) \in Nat /\ DOMAIN q = 1 .. Len(q)
             /\ \A j \in DOMAIN q : q[j] \in Ops
  OBVIOUS
<1> QED
  BY <1>1, <1>2

\* Groups in the order of their rounds have the producers first.
LEMMA RoundsPutProducersFirst ==
  ASSUME NEW g \in Graphs, NEW s \in Seq(Seq(Ops)), RoundsInOrder(g, s)
  PROVE  ProducersFirst(g, s)
<1> SUFFICES ASSUME NEW l \in DOMAIN s, NEW m \in DOMAIN s[l], NEW t \in g.inputs[s[l][m]],
                    NEW w \in Ops, t \in g.outputs[w]
             PROVE  \E k \in DOMAIN s : k < l /\ In(s, k, w)
  BY DEF ProducersFirst
<1> DEFINE o == s[l][m]
           R == RoundOf(g)
<1>1. o \in Ops /\ l \in Nat
  BY Groups
<1>2. R[w] \in Nat /\ R[o] \in Nat /\ R[w] < R[o]
  <2>1. w < o
    BY <1>1, SortedAssumption
  <2>2. w \in Before(g, o)
    BY <2>1 DEF Before
  <2> QED
    BY <1>1, <2>2, RoundFacts
<1>3. PICK k \in DOMAIN s : In(s, k, w)
  <2>1. (\A k \in DOMAIN s : ~In(s, k, w)) => R[o] <= R[w]
    BY DEF RoundsInOrder
  <2> HIDE DEF R, o
  <2> QED
    BY <1>2, <2>1
<1>4. PICK j \in DOMAIN s[k] : s[k][j] = w
  BY <1>3 DEF In
<1>5. l <= k => R[o] <= R[w]
  BY <1>4 DEF RoundsInOrder
<1>6. k < l
  <2>1. k \in Nat
    BY Groups
  <2> HIDE DEF R, o
  <2> QED
    BY <1>1, <1>2, <1>5, <2>1
<1> QED
  BY <1>3, <1>6

\* The schedule z is s with operator o added as the p-th one of the last group n.
Adds(s, z, n, p, o) ==
  /\ n \in DOMAIN z /\ p \in DOMAIN z[n] /\ z[n][p] = o
  /\ \A k \in DOMAIN s : \A j \in DOMAIN s[k] :
       k \in DOMAIN z /\ j \in DOMAIN z[k] /\ z[k][j] = s[k][j]
  /\ \A k \in DOMAIN z : k <= n /\ \A j \in DOMAIN z[k] :
       \/ k = n /\ j = p
       \/ k \in DOMAIN s /\ j \in DOMAIN s[k] /\ z[k][j] = s[k][j]

\* Where ScheduleParallel puts an operator: at the end of the last group or in a
\* new one.
LEMMA GroupShape ==
  ASSUME ScheduleInv, NEW o \in Ops
  PROVE  /\ Group(o) \in Seq(Seq(Ops))
         /\ \A k \in DOMAIN Group(o) : Len(Group(o)[k]) \in 1 .. MaxParallel
         /\ \E n, p : /\ Adds(steps, Group(o), n, p, o)
                      /\ n \in DOMAIN steps => Round[steps[n][1]] = Round[o] /\ 1 \in DOMAIN steps[n]
<1> DEFINE new == Group(o)
           n == Len(steps)
<1>1. /\ n \in Nat /\ DOMAIN steps = 1 .. n /\ steps \in Seq(Seq(Ops))
      /\ \A k \in 1 .. n : /\ steps[k] \in Seq(Ops) /\ Len(steps[k]) \in Nat
                           /\ DOMAIN steps[k] = 1 .. Len(steps[k])
                           /\ Len(steps[k]) \in 1 .. MaxParallel
  <2>1. steps \in Seq(Seq(Ops))
    BY DEF ScheduleInv
  <2>2. \A k \in DOMAIN steps : Len(steps[k]) \in 1 .. MaxParallel
    BY DEF ScheduleInv
  <2> QED
    BY <2>1, <2>2, Groups
<1>2. MaxParallel \in Nat \ {0}
  BY GraphsAssumption
<1>3. CASE steps # <<>> /\ Len(steps[n]) < MaxParallel /\ Round[steps[n][1]] = Round[o]
  <2>1. n \in 1 .. n /\ 1 \in DOMAIN steps[n]
    <3>1. n # 0
      BY <1>3, <1>1
    <3> HIDE DEF n
    <3>2. n \in 1 .. n
      BY <1>1, <3>1
    <3>3. PICK x \in Nat : x = Len(steps[n])
      BY <1>1, <3>2
    <3>4. x \in 1 .. MaxParallel /\ DOMAIN steps[n] = 1 .. x
      BY <1>1, <3>2, <3>3
    <3> QED
      BY <1>2, <3>2, <3>4
  <2>2. PICK q \in Seq(Ops) : q = Append(steps[n], o)
    <3>1. steps[n] \in Seq(Ops)
      BY <1>1, <2>1
    <3>2. \A r \in Seq(Ops) : Append(r, o) \in Seq(Ops)
      OBVIOUS
    <3>3. Append(steps[n], o) \in Seq(Ops)
      BY <3>1, <3>2, Zenon
    <3> QED
      BY <3>3, Zenon
  <2>3. /\ Len(q) = Len(steps[n]) + 1 /\ DOMAIN q = 1 .. Len(steps[n]) + 1
        /\ q[Len(steps[n]) + 1] = o /\ \A j \in 1 .. Len(steps[n]) : q[j] = steps[n][j]
    BY <1>1, <2>1, <2>2
  <2>4. new = [steps EXCEPT ![n] = q]
    BY <1>3, <2>2 DEF Group
  <2> HIDE DEF new, n
  <2>5. /\ DOMAIN new = 1 .. n /\ new[n] = q /\ \A k \in 1 .. n : k # n => new[k] = steps[k]
        /\ new \in Seq(Seq(Ops))
    BY <1>1, <2>1, <2>4
  <2>6. \A k \in DOMAIN new : Len(new[k]) \in 1 .. MaxParallel
    <3>1. Len(q) \in 1 .. MaxParallel
      BY <1>1, <1>2, <1>3, <2>1, <2>3
    <3> QED
      BY <1>1, <2>5, <3>1
  <2>7. ASSUME NEW k \in DOMAIN steps, NEW j \in DOMAIN steps[k]
        PROVE  k \in DOMAIN new /\ j \in DOMAIN new[k] /\ new[k][j] = steps[k][j]
    <3>1. CASE k = n
      BY <1>1, <2>3, <2>5, <2>7, <3>1
    <3>2. CASE k # n
      BY <1>1, <2>5, <3>2
    <3> QED
      BY <3>1, <3>2
  <2>8. PICK p \in Nat : p = Len(steps[n]) + 1
    BY <1>1, <2>1
  <2>9. n \in DOMAIN new /\ p \in DOMAIN new[n] /\ new[n][p] = o
    BY <1>1, <2>1, <2>3, <2>5, <2>8
  <2>10. ASSUME NEW k \in DOMAIN new
         PROVE  k <= n /\ \A j \in DOMAIN new[k] :
                  \/ k = n /\ j = p
                  \/ k \in DOMAIN steps /\ j \in DOMAIN steps[k] /\ new[k][j] = steps[k][j]
    <3>1. CASE k = n
      <4>1. ASSUME NEW j \in DOMAIN new[k], j # p
            PROVE  j \in DOMAIN steps[k] /\ new[k][j] = steps[k][j]
        <5>1. j \in 1 .. Len(steps[n]) + 1 /\ Len(steps[n]) \in Nat
          BY <1>1, <2>1, <2>3, <2>5, <3>1, <4>1
        <5>2. j \in 1 .. Len(steps[n])
          BY <2>8, <4>1, <5>1
        <5> QED
          BY <1>1, <2>1, <2>3, <2>5, <3>1, <5>2
      <4> QED
        BY <1>1, <2>1, <3>1, <4>1
    <3>2. CASE k # n
      BY <1>1, <2>5, <3>2
    <3> QED
      BY <3>1, <3>2
  <2>11. n \in DOMAIN steps => Round[steps[n][1]] = Round[o] /\ 1 \in DOMAIN steps[n]
    BY <1>3, <2>1
  <2>12. Adds(steps, new, n, p, o)
    BY <2>7, <2>9, <2>10, Zenon DEF Adds
  <2> QED
    BY <2>5, <2>6, <2>11, <2>12 DEF new
<1>4. CASE ~ (steps # <<>> /\ Len(steps[n]) < MaxParallel /\ Round[steps[n][1]] = Round[o])
  <2>1. new = Append(steps, <<o>>)
    BY <1>4 DEF Group
  <2>2. <<o>> \in Seq(Ops) /\ Len(<<o>>) = 1 /\ DOMAIN <<o>> = {1} /\ <<o>>[1] = o
    OBVIOUS
  <2>3. PICK q \in Seq(Ops) : q = <<o>>
    BY <2>2
  <2> HIDE DEF new, n
  <2>4. /\ new \in Seq(Seq(Ops)) /\ DOMAIN new = 1 .. n + 1 /\ new[n + 1] = q
        /\ \A k \in 1 .. n : new[k] = steps[k]
    <3>1. new = Append(steps, q) /\ n = Len(steps)
      BY <2>1, <2>3 DEF n
    <3> QED
      BY <1>1, <3>1
  <2>5. n + 1 \in Nat /\ n + 1 \notin DOMAIN steps
    BY <1>1
  <2>6. \A k \in DOMAIN new : Len(new[k]) \in 1 .. MaxParallel
    <3>1. Len(q) \in 1 .. MaxParallel
      BY <1>2, <2>2, <2>3
    <3>2. ASSUME NEW k \in 1 .. n + 1 PROVE k \in 1 .. n \/ k = n + 1
      BY <1>1
    <3> QED
      BY <1>1, <2>4, <3>1, <3>2
  <2>7. \A k \in DOMAIN steps : \A j \in DOMAIN steps[k] :
          k \in DOMAIN new /\ j \in DOMAIN new[k] /\ new[k][j] = steps[k][j]
    BY <1>1, <2>4
  <2>8. n + 1 \in DOMAIN new /\ 1 \in DOMAIN new[n + 1] /\ new[n + 1][1] = o
    BY <1>1, <2>2, <2>3, <2>4
  <2>9. ASSUME NEW k \in DOMAIN new
        PROVE  k <= n + 1 /\ \A j \in DOMAIN new[k] :
                 \/ k = n + 1 /\ j = 1
                 \/ k \in DOMAIN steps /\ j \in DOMAIN steps[k] /\ new[k][j] = steps[k][j]
    BY <1>1, <2>2, <2>3, <2>4, <2>9
  <2>12. Adds(steps, new, n + 1, 1, o)
    BY <2>7, <2>8, <2>9, Zenon DEF Adds
  <2> QED
    BY <2>4, <2>5, <2>6, <2>12 DEF new
<1> QED
  BY <1>3, <1>4


\* An operator of the earliest round that waits may be added to the last group, if
\* that is of its round, or to a new one.
LEMMA AddedInOrder ==
  ASSUME NEW g \in Graphs, NEW s \in Seq(Seq(Ops)), NEW z \in Seq(Seq(Ops)), NEW n, NEW p,
         NEW o \in Ops, Adds(s, z, n, p, o), OnceEach(s), RoundsInOrder(g, s),
         \A k \in DOMAIN s : ~In(s, k, o),
         \A q \in Ops : (\A k \in DOMAIN s : ~In(s, k, q)) => RoundOf(g)[o] <= RoundOf(g)[q],
         n \in DOMAIN s => 1 \in DOMAIN s[n] /\ RoundOf(g)[s[n][1]] = RoundOf(g)[o]
  PROVE  OnceEach(z) /\ RoundsInOrder(g, z)
<1> DEFINE R(q) == RoundOf(g)[q]
           Old(k, j) == k \in DOMAIN s /\ j \in DOMAIN s[k] /\ z[k][j] = s[k][j]
<1>1. \A q \in Ops : R(q) \in Nat
  BY RoundFacts
<1>2. /\ n \in Nat /\ \A k \in DOMAIN z : k \in Nat /\ k <= n
      /\ \A k \in DOMAIN z : \A j \in DOMAIN z[k] : z[k][j] \in Ops /\ ((k = n /\ j = p) \/ Old(k, j))
  BY Groups DEF Adds
<1>3. z[n][p] = o
  BY DEF Adds
<1>4. ASSUME NEW k, NEW j, Old(k, j)
      PROVE  /\ z[k][j] # o /\ R(z[k][j]) <= R(o)
             /\ k = n => R(z[k][j]) = R(o)
  <2>1. s[k][j] # o
    BY <1>4 DEF In
  <2>2. R(s[k][j]) <= R(o)
    BY <1>4 DEF RoundsInOrder
  <2>3. k = n => R(s[k][j]) = R(s[n][1]) /\ R(s[n][1]) = R(o)
    BY <1>4 DEF RoundsInOrder
  <2> QED
    BY <1>4, <2>1, <2>2, <2>3
<1>5. ASSUME NEW k \in DOMAIN z, NEW j \in DOMAIN z[k], NEW l \in DOMAIN z, NEW m \in DOMAIN z[l]
      PROVE  /\ z[k][j] = z[l][m] => k = l /\ j = m
             /\ k <= l => R(z[k][j]) <= R(z[l][m])
             /\ k = l => R(z[k][j]) = R(z[l][m])
  <2>0. /\ R(z[k][j]) \in Nat /\ R(z[l][m]) \in Nat /\ R(o) \in Nat
        /\ k \in Nat /\ l \in Nat /\ k <= n /\ l <= n /\ n \in Nat
    BY <1>1, <1>2
  <2>1. CASE Old(k, j) /\ Old(l, m)
    <3>1. s[k][j] = s[l][m] => k = l /\ j = m
      BY <2>1 DEF OnceEach
    <3>2. /\ k <= l => R(s[k][j]) <= R(s[l][m])
          /\ k = l => R(s[k][j]) = R(s[l][m])
      BY <2>1 DEF RoundsInOrder
    <3> QED
      BY <2>1, <3>1, <3>2
  <2>2. CASE k = n /\ j = p /\ Old(l, m)
    <3>1. z[l][m] # o /\ R(z[l][m]) <= R(o) /\ (l = n => R(z[l][m]) = R(o))
      BY <1>4, <2>2
    <3>2. k <= l => l = n
      BY <2>0, <2>2
    <3> HIDE DEF R
    <3> QED
      BY <1>3, <2>0, <2>2, <3>1, <3>2
  <2>3. CASE Old(k, j) /\ l = n /\ m = p
    <3>1. z[k][j] # o /\ R(z[k][j]) <= R(o) /\ (k = n => R(z[k][j]) = R(o))
      BY <1>4, <2>3
    <3> HIDE DEF R
    <3> QED
      BY <1>3, <2>0, <2>3, <3>1
  <2>4. CASE k = n /\ j = p /\ l = n /\ m = p
    BY <2>0, <2>4
  <2> QED
    BY <1>2, <2>1, <2>2, <2>3, <2>4
<1>6. OnceEach(z)
  BY <1>5 DEF OnceEach
<1>7. ASSUME NEW k \in DOMAIN z, NEW j \in DOMAIN z[k], NEW q \in Ops,
             \A l \in DOMAIN z : ~In(z, l, q)
      PROVE  R(z[k][j]) <= R(q)
  <2>1. \A l \in DOMAIN s : ~In(s, l, q)
    BY <1>7 DEF In, Adds
  <2>2. CASE k = n /\ j = p
    BY <1>3, <2>1, <2>2
  <2>3. CASE Old(k, j)
    <3>1. R(s[k][j]) <= R(q)
      BY <2>1, <2>3 DEF RoundsInOrder
    <3> QED
      BY <2>3, <3>1
  <2> QED
    BY <1>2, <2>2, <2>3
<1>8. RoundsInOrder(g, z)
  BY <1>5, <1>7 DEF RoundsInOrder
<1> QED
  BY <1>6, <1>8

\* What is scheduled, by groups.
LEMMA ScheduledIsIn ==
  ASSUME NEW o PROVE o \in Scheduled <=> \E k \in DOMAIN steps : In(steps, k, o)
BY DEF Scheduled, In

LEMMA ParallelKeepsSchedule ==
  ASSUME ScheduleInv, NEW o \in Ops, ScheduleParallel(o)
  PROVE  ScheduleInv'
<1>1. /\ graph \in Graphs /\ mode = 1 /\ 1 \in Modes /\ graph' = graph /\ mode' = mode
      /\ steps \in Seq(Seq(Ops)) /\ OnceEach(steps) /\ RoundsInOrder(graph, steps)
      /\ o \notin Scheduled /\ \A q \in Ops \ Scheduled : Round[o] <= Round[q]
  BY DEF ScheduleInv, ScheduleParallel, input
<1>2. PICK z : z = Group(o)
  OBVIOUS
<1>3. steps' = z
  BY <1>2 DEF ScheduleParallel
<1>4. /\ z \in Seq(Seq(Ops)) /\ \A k \in DOMAIN z : Len(z[k]) \in 1 .. MaxParallel
      /\ \E n, p : /\ Adds(steps, z, n, p, o)
                   /\ n \in DOMAIN steps => Round[steps[n][1]] = Round[o] /\ 1 \in DOMAIN steps[n]
  BY <1>2, GroupShape
<1>5. PICK n, p : /\ Adds(steps, z, n, p, o)
                  /\ n \in DOMAIN steps => Round[steps[n][1]] = Round[o] /\ 1 \in DOMAIN steps[n]
  BY <1>4
<1>6. OnceEach(z) /\ RoundsInOrder(graph, z)
  <2>1. /\ \A k \in DOMAIN steps : ~In(steps, k, o)
        /\ \A q \in Ops : (\A k \in DOMAIN steps : ~In(steps, k, q)) =>
                            RoundOf(graph)[o] <= RoundOf(graph)[q]
    BY <1>1, ScheduledIsIn, Recursive
  <2>2. n \in DOMAIN steps =>
          1 \in DOMAIN steps[n] /\ RoundOf(graph)[steps[n][1]] = RoundOf(graph)[o]
    BY <1>5, Recursive
  <2> QED
    BY <1>1, <1>4, <1>5, <2>1, <2>2, AddedInOrder
<1>7. ProducersFirst(graph, z)
  BY <1>1, <1>4, <1>6, RoundsPutProducersFirst
<1> QED
  BY <1>1, <1>3, <1>4, <1>6, <1>7 DEF ScheduleInv

\* The operators of the sequential schedule, in the order of sorted_ops.
Sequence(s, n, S) ==
  /\ s = [k \in 1 .. n |-> s[k]]
  /\ \A k \in 1 .. n : \E a \in S : s[k] = <<a[2]>> /\ Cardinality(EarlierIn(S, a)) = k - 1

OccurrencesIn(g) == {a \in Tensors \X Ops : a[1] \in g.outputs[a[2]]}

LEMMA FinitelyMany ==
  ASSUME NEW g \in Graphs
  PROVE  OccurrencesIn(g) \in SUBSET (Nat \X Nat) /\ IsFiniteSet(OccurrencesIn(g))
<1>1. /\ Tensors \subseteq Nat /\ Ops \subseteq Nat
      /\ IsFiniteSet(Tensors) /\ IsFiniteSet(Ops)
  <2>1. PICK n, m : n = Cardinality(Tensors) /\ m = Cardinality(Ops)
    OBVIOUS
  <2>2. n \in Nat /\ m \in Nat /\ Tensors = 1 .. n /\ Ops = 1 .. m
    BY <2>1, GraphsAssumption
  <2>3. IsFiniteSet(1 .. n) /\ IsFiniteSet(1 .. m)
    BY <2>2, FS_Interval
  <2> QED
    BY <2>2, <2>3
<1>2. IsFiniteSet(Tensors \X Ops)
  BY <1>1, FS_Product
<1>3. OccurrencesIn(g) \subseteq Tensors \X Ops
  BY DEF OccurrencesIn
<1> QED
  BY <1>1, <1>2, <1>3, FS_Subset

\* A producer's occurrence comes before that of a consumer.
LEMMA SequenceHasProducersFirst ==
  ASSUME NEW g \in Graphs, NEW s,
         Sequence(s, Cardinality(OccurrencesIn(g)), OccurrencesIn(g))
  PROVE  s \in Seq(Seq(Ops)) /\ (\A k \in DOMAIN s : Len(s[k]) = 1) /\ ProducersFirst(g, s)
<1> DEFINE S == OccurrencesIn(g)
           rank(a) == Cardinality(EarlierIn(S, a))
           n == Cardinality(S)
<1>1. S \subseteq {a \in Tensors \X Ops : a[1] \in g.outputs[a[2]]}
      /\ \A t \in Tensors : \A w \in Ops : t \in g.outputs[w] => <<t, w>> \in S
  BY DEF OccurrencesIn
<1>2. S \in SUBSET (Nat \X Nat) /\ IsFiniteSet(S)
  BY FinitelyMany
<1>3. /\ n \in Nat
      /\ \A a \in S : /\ rank(a) \in Nat /\ rank(a) < n
                      /\ \A b \in EarlierIn(S, a) : rank(b) < rank(a)
  BY <1>2, Ranks
<1>4. \A a, b \in S : rank(a) = rank(b) => a = b
  <2> SUFFICES ASSUME NEW a \in S, NEW b \in S, rank(a) = rank(b), a # b PROVE FALSE
    OBVIOUS
  <2>1. a \in EarlierIn(S, b) \/ b \in EarlierIn(S, a)
    BY <1>2, EarlierOrder
  <2>2. rank(a) < rank(b) \/ rank(b) < rank(a)
    BY <1>3, <2>1
  <2>3. rank(a) \in Nat /\ rank(b) \in Nat
    BY <1>3
  <2> HIDE DEF rank
  <2> QED
    BY <2>2, <2>3
<1>5. ASSUME NEW k \in 1 .. n
      PROVE  \E a \in S : s[k] = <<a[2]>> /\ rank(a) = k - 1 /\ a[2] \in Ops
  BY <1>1, <1>5 DEF Sequence
<1>6. DOMAIN s = 1 .. n
  BY DEF Sequence
<1> HIDE DEF rank, n, S
<1>7. ASSUME NEW k \in 1 .. n
      PROVE  s[k] \in Seq(Ops) /\ Len(s[k]) = 1 /\ DOMAIN s[k] = {1}
  <2>1. PICK a \in S : s[k] = <<a[2]>> /\ a[2] \in Ops
    BY <1>5
  <2> QED
    BY <2>1
<1>8. s \in Seq(Seq(Ops))
  <2>1. s = [k \in 1 .. n |-> s[k]]
    BY DEF Sequence, n, S
  <2>2. s \in [1 .. n -> Seq(Ops)]
    BY <1>7, <2>1
  <2> QED
    BY <1>3, <2>2
<1>9. ASSUME NEW l \in DOMAIN s, NEW m \in DOMAIN s[l], NEW t \in g.inputs[s[l][m]],
             NEW w \in Ops, t \in g.outputs[w]
      PROVE  \E k \in DOMAIN s : k < l /\ In(s, k, w)
  <2>1. PICK a \in S : s[l] = <<a[2]>> /\ rank(a) = l - 1 /\ a[2] \in Ops
    BY <1>5, <1>6
  <2>2. s[l][m] = a[2] /\ a[1] \in g.outputs[a[2]] /\ a[1] \in Tensors
    BY <1>1, <1>6, <1>7, <2>1
  <2>3. t \in Tensors
    BY <2>1, <2>2, GraphsAssumption
  <2>4. t < a[1]
    BY <2>1, <2>2, SortedAssumption
  <2>5. PICK b \in S : b = <<t, w>>
    BY <1>1, <1>9, <2>3
  <2>6. b \in EarlierIn(S, a)
    BY <2>4, <2>5 DEF EarlierIn
  <2>7. rank(b) \in Nat /\ rank(a) \in Nat /\ rank(b) < rank(a) /\ rank(a) < n /\ l \in Nat
    BY <1>3, <1>6, <2>6
  <2>8. PICK k \in Nat : k = rank(b) + 1
    BY <2>7
  <2>9. k \in 1 .. n /\ k < l
    BY <1>3, <2>1, <2>7, <2>8
  <2>10. PICK c \in S : s[k] = <<c[2]>> /\ rank(c) = k - 1
    BY <1>5, <2>9
  <2>11. c = b
    <3>1. rank(c) = rank(b)
      BY <2>7, <2>8, <2>10
    <3> QED
      BY <1>4, <3>1
  <2>12. s[k][1] = w /\ 1 \in DOMAIN s[k]
    BY <1>7, <2>5, <2>9, <2>10, <2>11
  <2> QED
    BY <1>6, <2>9, <2>12 DEF In
<1> QED
  BY <1>6, <1>7, <1>8, <1>9 DEF ProducersFirst

LEMMA SequentialKeepsSchedule ==
  ASSUME ScheduleInv, ScheduleSequential
  PROVE  ScheduleInv'
<1>1. /\ graph \in Graphs /\ mode = 0 /\ 0 \in Modes /\ graph' = graph /\ mode' = mode
      /\ MaxParallel \in Nat \ {0}
  BY GraphsAssumption DEF ScheduleInv, ScheduleSequential, input
<1>2. PICK S : S = OccurrencesIn(graph)
  OBVIOUS
<1>3. Occurrences = S
  BY <1>2 DEF Occurrences, Writers, OccurrencesIn
<1>4. \A a \in S : Earlier(a) = EarlierIn(S, a)
  BY <1>3 DEF Earlier, EarlierIn
<1>5. PICK z : z = steps'
  OBVIOUS
<1>6. z = [k \in 1 .. Cardinality(S) |->
             <<(CHOOSE a \in S : Cardinality(Earlier(a)) = k - 1)[2]>>]
  BY <1>3, <1>5 DEF ScheduleSequential
<1>7. S \in SUBSET (Nat \X Nat) /\ IsFiniteSet(S)
  BY <1>1, <1>2, FinitelyMany
<1>8. \A k \in 1 .. Cardinality(S) : \E a \in S : Cardinality(Earlier(a)) = k - 1
  BY <1>4, <1>7, Ranks
<1>9. Sequence(z, Cardinality(S), S)
  <2>1. ASSUME NEW k \in 1 .. Cardinality(S)
        PROVE  \E a \in S : z[k] = <<a[2]>> /\ Cardinality(EarlierIn(S, a)) = k - 1
    <3>1. PICK a : a = CHOOSE b \in S : Cardinality(Earlier(b)) = k - 1
      OBVIOUS
    <3>2. a \in S /\ Cardinality(Earlier(a)) = k - 1
      BY <1>8, <3>1
    <3>3. z[k] = <<a[2]>>
      BY <1>6, <3>1
    <3> QED
      BY <1>4, <3>2, <3>3
  <2> QED
    BY <1>6, <2>1 DEF Sequence
<1>10. z \in Seq(Seq(Ops)) /\ (\A k \in DOMAIN z : Len(z[k]) = 1) /\ ProducersFirst(graph, z)
  BY <1>1, <1>2, <1>9, SequenceHasProducersFirst
<1>11. \A k \in DOMAIN z : Len(z[k]) \in 1 .. MaxParallel
  <2>1. 1 \in 1 .. MaxParallel
    BY <1>1
  <2> QED
    BY <1>10, <2>1
<1>12. steps' = z
  BY <1>5
<1> QED
  BY <1>1, <1>10, <1>11, <1>12 DEF ScheduleInv

----------------------------------------------------------------------------
(* Usage records.                                                          *)

\* Every operator has its place in the schedule s.
AllIn(s) == \A o \in Ops : \E k \in DOMAIN s : In(s, k, o)

UsedIn(g, s, T) ==
  {k \in DOMAIN s : \E j \in DOMAIN s[k] : (g.inputs[s[k][j]] \cup g.outputs[s[k][j]]) \cap T # {}}

Aliases(g, t) == {t} \cup {u \in Tensors : OriginalOf(g)[u] = t}

FirstIn(g, s, t) == Min(UsedIn(g, s, {t}))
LastIn(g, s, t)  == IF Aliases(g, t) \cap g.results # {} THEN Len(s)
                    ELSE Max(UsedIn(g, s, Aliases(g, t)))

RecordsOf(g, s) ==
  [t \in Tensors |-> [first |-> FirstIn(g, s, t), last |-> LastIn(g, s, t), size |-> g.size[t]]]

\* What MakeTensorUsageRecords computes.
LEMMA RecordsMade ==
  ASSUME MakeTensorUsageRecords
  PROVE  record' = RecordsOf(graph, steps) /\ AllIn(steps)
<1>1. \A T : UsedAt(T) = UsedIn(graph, steps, T)
  BY DEF UsedAt, UsedIn, Uses
<1>2. \A t \in Tensors : LastUse(t) = LastIn(graph, steps, t)
  BY <1>1, Recursive DEF LastUse, LastIn, Aliases
<1>3. \A t \in Tensors : Min(UsedAt({t})) = FirstIn(graph, steps, t)
  BY <1>1 DEF FirstIn
<1>4. record' = RecordsOf(graph, steps)
  BY <1>2, <1>3 DEF MakeTensorUsageRecords, RecordsOf
<1> QED
  BY <1>4, ScheduledIsIn DEF MakeTensorUsageRecords, AllIn

\* A tensor is used first and last at steps of the schedule, and all its uses, and
\* those of the tensors that are views of it, are in between.
LEMMA RecordFacts ==
  ASSUME NEW g \in Graphs, NEW s \in Seq(Seq(Ops)), AllIn(s), NEW t \in Tensors
  PROVE  /\ FirstIn(g, s, t) \in UsedIn(g, s, {t}) /\ FirstIn(g, s, t) \in 1 .. Len(s)
         /\ LastIn(g, s, t) \in 1 .. Len(s)
         /\ \A k \in UsedIn(g, s, {t}) : FirstIn(g, s, t) <= k
         /\ \A k \in UsedIn(g, s, Aliases(g, t)) : k <= LastIn(g, s, t)
<1> DEFINE A == UsedIn(g, s, {t})
           B == UsedIn(g, s, Aliases(g, t))
           n == Len(s)
<1>1. DOMAIN s = 1 .. n /\ n \in Nat
  BY Groups
<1>2. A \subseteq B /\ B \subseteq 1 .. n
  BY <1>1 DEF UsedIn, Aliases
<1>3. A # {}
  <2>1. PICK o \in Ops : t \in g.outputs[o]
    BY SortedAssumption
  <2>2. PICK k \in DOMAIN s : In(s, k, o)
    BY DEF AllIn
  <2>3. PICK j \in DOMAIN s[k] : s[k][j] = o
    BY <2>2 DEF In
  <2> QED
    BY <2>1, <2>3 DEF UsedIn
<1>4. FirstIn(g, s, t) = Min(A) /\ (LastIn(g, s, t) = n \/ LastIn(g, s, t) = Max(B))
  BY DEF FirstIn, LastIn
<1> HIDE DEF A, B, n
<1>5. Min(A) \in A /\ \A k \in A : Min(A) <= k
  <2>1. A \in SUBSET Nat
    BY <1>1, <1>2
  <2> QED
    BY <1>3, <2>1, MinIsLeast
<1>6. Max(B) \in B /\ \A k \in B : k <= Max(B)
  <2>0. \A k \in 1 .. n : k \in Nat /\ k <= n
    BY <1>1
  <2>1. B \in SUBSET Nat /\ B # {} /\ \A k \in B : k <= n
    BY <1>2, <1>3, <2>0
  <2> QED
    BY <1>1, <2>1, MaxIsGreatest
<1>7. n \in 1 .. n /\ \A k \in B : k <= n
  <2>1. PICK x \in 1 .. n : TRUE
    BY <1>2, <1>6
  <2>2. n \in 1 .. n
    BY <1>1, <2>1
  <2>3. \A k \in 1 .. n : k <= n
    BY <1>1
  <2> QED
    BY <1>2, <2>2, <2>3
<1>8. Min(A) \in 1 .. n /\ Max(B) \in 1 .. n
  BY <1>2, <1>5, <1>6
<1> QED
  BY <1>4, <1>5, <1>6, <1>7, <1>8 DEF A, B, n

\* The tensor of which another is a view is used before it.
LEMMA OriginalUsedFirst ==
  ASSUME NEW g \in Graphs, NEW s \in Seq(Seq(Ops)), AllIn(s), ProducersFirst(g, s),
         NEW t \in Tensors
  PROVE  FirstIn(g, s, OriginalOf(g)[t]) <= FirstIn(g, s, t)
<1> DEFINE f(u) == FirstIn(g, s, u)
           O(u) == OriginalOf(g)[u]
           Bad == {u \in Tensors : ~(f(O(u)) <= f(u))}
<1>1. ASSUME NEW u \in Tensors PROVE f(u) \in Nat /\ O(u) \in Tensors /\ u \in Nat
  <2>1. f(u) \in 1 .. Len(s)
    BY RecordFacts
  <2>2. f(u) \in Nat
    BY <2>1
  <2>3. O(u) \in Tensors
    BY OriginalFacts
  <2>4. u \in Nat
    BY GraphsAssumption
  <2> QED
    BY <2>2, <2>3, <2>4
<1>2. ASSUME NEW u \in Tensors, g.view[u] # u
      PROVE  f(g.view[u]) <= f(u)
  <2>0. g.view[u] \in Tensors
    BY <1>2, ViewedBefore
  <2>1. f(u) \in DOMAIN s /\ f(u) \in UsedIn(g, s, {u})
    BY RecordFacts DEF UsedIn
  <2>2. PICK j \in DOMAIN s[f(u)] : u \in g.inputs[s[f(u)][j]] \cup g.outputs[s[f(u)][j]]
    BY <2>1 DEF UsedIn
  <2>3. s[f(u)][j] \in Ops
    BY <2>1, <2>2, Groups
  <2>4. CASE u \in g.outputs[s[f(u)][j]]
    <3>1. g.view[u] \in g.inputs[s[f(u)][j]]
      BY <1>2, <2>3, <2>4, SortedAssumption
    <3>2. f(u) \in UsedIn(g, s, {g.view[u]})
      BY <2>1, <2>2, <3>1 DEF UsedIn
    <3> QED
      BY <2>0, <3>2, RecordFacts
  <2>5. CASE u \in g.inputs[s[f(u)][j]]
    <3>1. PICK w \in Ops : u \in g.outputs[w]
      BY SortedAssumption
    <3>2. PICK k \in DOMAIN s : k < f(u) /\ In(s, k, w)
      BY <2>1, <2>2, <2>5, <3>1 DEF ProducersFirst
    <3>3. k \in UsedIn(g, s, {u})
      BY <3>1, <3>2 DEF UsedIn, In
    <3>4. f(u) <= k
      BY <3>3, RecordFacts
    <3>5. k \in Nat
      BY <3>2, Groups
    <3> HIDE DEF f
    <3> QED
      BY <1>1, <3>2, <3>4, <3>5
  <2> QED
    BY <2>2, <2>4, <2>5
<1>3. ASSUME Bad # {} PROVE FALSE
  <2>1. PICK x \in Bad : \A y \in Bad : x <= y
    <3>1. Bad \in SUBSET Nat
      BY <1>1
    <3> HIDE DEF Bad
    <3> QED
      BY <1>3, <3>1, Least
  <2>2. x \in Tensors /\ ~(f(O(x)) <= f(x))
    BY <2>1
  <2>3. g.view[x] # x
    <3>1. g.view[x] = x => O(x) = x
      BY <2>2, OriginalFacts
    <3>2. f(x) \in Nat
      BY <1>1, <2>2
    <3> HIDE DEF f, O
    <3> QED
      BY <2>2, <3>1, <3>2
  <2>4. g.view[x] \in Tensors /\ g.view[x] < x /\ O(x) = O(g.view[x])
    BY <2>2, <2>3, ViewedBefore, OriginalFacts
  <2>5. f(O(g.view[x])) <= f(g.view[x])
    <3>1. x \in Nat /\ g.view[x] \in Nat
      BY <1>1, <2>2, <2>4
    <3>2. ~(x <= g.view[x])
      BY <2>4, <3>1
    <3>3. g.view[x] \notin Bad
      BY <2>1, <3>2
    <3> QED
      BY <2>4, <3>3
  <2>6. f(g.view[x]) <= f(x)
    BY <1>2, <2>2, <2>3
  <2>7. f(x) \in Nat /\ f(g.view[x]) \in Nat /\ f(O(x)) \in Nat
    BY <1>1, <2>2, <2>4
  <2> HIDE DEF f, O, Bad
  <2> QED
    BY <2>2, <2>4, <2>5, <2>6, <2>7
<1> QED
  BY <1>3

----------------------------------------------------------------------------
(* The plan in detail: schedule, records and the locals of the placement.  *)

RecordInv ==
  /\ phase = "schedule" => record = [t \in Tensors |-> [first |-> 0, last |-> 0, size |-> 0]]
  /\ phase # "schedule" =>
       /\ AllIn(steps) /\ record = RecordsOf(graph, steps)
       /\ \A t \in Tensors : graph.view[t] = t => t \in unplaced \cup {cur} \cup Placed
  /\ phase = "planned" =>
       /\ unplaced = {} /\ cur = NoTensor
       /\ \A t \in Tensors : offset[t] = offset[OriginalOf(graph)[t]]

LocalsInv ==
  offset \in [Tensors -> Nat] /\ smallestGap \in Nat /\ i \in 1 .. Len(assigned) + 1

DetailInv == PlanInv /\ ScheduleInv /\ RecordInv /\ LocalsInv

LEMMA DetailInit == Init => DetailInv
<1> SUFFICES ASSUME Init PROVE DetailInv
  OBVIOUS
<1>1. graph \in Graphs /\ mode \in Modes /\ phase = "schedule" /\ steps = <<>>
  BY DEF Init
<1>2. steps \in Seq(Seq(Ops)) /\ DOMAIN steps = {}
  BY <1>1
<1>3. ScheduleInv
  BY <1>1, <1>2 DEF ScheduleInv, OnceEach, RoundsInOrder, ProducersFirst
<1>4. RecordInv
  BY DEF Init, RecordInv
<1>5. LocalsInv
  BY GraphsAssumption DEF Init, LocalsInv
<1> QED
  BY <1>3, <1>4, <1>5, PlanInit DEF DetailInv

\* Scheduling is the only thing that changes the schedule.
LEMMA ScheduleStays ==
  ASSUME ScheduleInv, UNCHANGED <<graph, mode, steps>>
  PROVE  ScheduleInv'
  BY DEF ScheduleInv

LEMMA SchedulingKeepsDetail ==
  ASSUME DetailInv, ScheduleSequential \/ \E o \in Ops : ScheduleParallel(o)
  PROVE  DetailInv'
<1>1. /\ phase = "schedule" /\ phase' = phase /\ record' = record
      /\ offset' = offset /\ smallestGap' = smallestGap /\ i' = i /\ assigned' = assigned
  BY DEF ScheduleSequential, ScheduleParallel, locals
<1>2. ScheduleInv'
  BY ParallelKeepsSchedule, SequentialKeepsSchedule DEF DetailInv
<1>3. RecordInv'
  BY <1>1 DEF DetailInv, RecordInv
<1>4. LocalsInv'
  BY <1>1 DEF DetailInv, LocalsInv
<1> QED
  BY <1>2, <1>3, <1>4, ScheduleKeepsPlan DEF DetailInv

LEMMA RecordsKeepDetail ==
  ASSUME DetailInv, MakeTensorUsageRecords
  PROVE  DetailInv'
<1>1. /\ phase' = "place" /\ UNCHANGED <<graph, mode, steps, offset, smallestGap, i, assigned>>
      /\ unplaced' = {t \in Tensors : graph.view[t] = t}
  BY DEF MakeTensorUsageRecords, input, locals
<1>2. record' = RecordsOf(graph, steps) /\ AllIn(steps)
  BY RecordsMade
<1>3. ScheduleInv'
  BY <1>1, ScheduleStays DEF DetailInv
<1>4. RecordInv'
  BY <1>1, <1>2 DEF RecordInv
<1>5. LocalsInv'
  BY <1>1 DEF DetailInv, LocalsInv
<1> QED
  BY <1>3, <1>4, <1>5, RecordsKeepPlan DEF DetailInv

LEMMA TakeKeepsDetail ==
  ASSUME DetailInv, NEW t \in Tensors, TakeLargest(t)
  PROVE  DetailInv'
<1>1. /\ phase = "place" /\ phase' = phase /\ UNCHANGED <<graph, mode, steps, record, offset, assigned>>
      /\ cur = NoTensor /\ cur' = t /\ unplaced' = unplaced \ {t} /\ i' = 1 /\ smallestGap' = 0
  BY DEF TakeLargest, input
<1>2. Placed' = Placed
  BY <1>1 DEF Placed
<1>3. RecordInv'
  <2>1. ASSUME NEW u \in Tensors, graph.view[u] = u
        PROVE  u \in unplaced' \cup {cur'} \cup Placed'
    <3>1. u # NoTensor
      BY GraphsAssumption DEF NoTensor
    <3>2. u \in unplaced \cup {cur} \cup Placed
      BY <1>1, <2>1 DEF DetailInv, RecordInv
    <3> QED
      BY <1>1, <1>2, <3>1, <3>2
  <2>2. AllIn(steps) /\ record = RecordsOf(graph, steps)
    BY <1>1 DEF DetailInv, RecordInv
  <2> QED
    BY <1>1, <2>1, <2>2 DEF RecordInv
<1>4. LocalsInv'
  <2>1. Len(assigned) \in Nat /\ offset \in [Tensors -> Nat]
    BY DEF DetailInv, PlanInv, PlanTypeInv, LocalsInv
  <2> QED
    BY <1>1, <2>1 DEF LocalsInv
<1> QED
  BY <1>1, <1>3, <1>4, ScheduleStays, TakeKeepsPlan DEF DetailInv

LEMMA ScanKeepsDetail ==
  ASSUME DetailInv, ScanRecord
  PROVE  DetailInv'
<1>1. /\ phase = "place" /\ i <= Len(assigned) /\ i' = i + 1 /\ cur # NoTensor
      /\ UNCHANGED <<phase, graph, mode, steps, record, offset, assigned, unplaced, cur>>
      /\ \/ smallestGap' = smallestGap
         \/ /\ record[cur].size <= offset[assigned[i]] - prevOffset
            /\ smallestGap' = offset[assigned[i]] - prevOffset
  BY DEF ScanRecord, FitsBetter, input
<1>2. /\ Len(assigned) \in Nat /\ i \in 1 .. Len(assigned) /\ DOMAIN assigned = 1 .. Len(assigned)
      /\ assigned[i] \in Tensors /\ cur \in Tensors
      /\ record[cur].size \in Nat /\ prevOffset \in Nat
      /\ offset \in [Tensors -> Nat] /\ smallestGap \in Nat
  <2>1. /\ assigned \in Seq({t \in Tensors : graph.view[t] = t})
        /\ cur \in {t \in Tensors : graph.view[t] = t} \cup {NoTensor}
        /\ \A t \in Tensors : record[t].size \in Nat
        /\ prevOffset \in Nat
    BY DEF DetailInv, PlanInv, PlanTypeInv
  <2>2. /\ Len(assigned) \in Nat /\ DOMAIN assigned = 1 .. Len(assigned)
        /\ \A j \in 1 .. Len(assigned) : assigned[j] \in Tensors
    BY <2>1
  <2>3. i \in 1 .. Len(assigned) + 1 /\ offset \in [Tensors -> Nat] /\ smallestGap \in Nat
    BY DEF DetailInv, LocalsInv
  <2>4. i \in 1 .. Len(assigned)
    BY <1>1, <2>2, <2>3
  <2> QED
    BY <1>1, <2>1, <2>2, <2>3, <2>4
<1>3. smallestGap' \in Nat
  <2>1. offset[assigned[i]] \in Nat
    BY <1>2
  <2> QED
    BY <1>1, <1>2, <2>1
<1>4. LocalsInv'
  BY <1>1, <1>2, <1>3 DEF LocalsInv
<1>5. Placed' = Placed
  BY <1>1 DEF Placed
<1>6. RecordInv'
  BY <1>1, <1>5 DEF DetailInv, RecordInv
<1> QED
  BY <1>1, <1>4, <1>6, ScheduleStays, ScanKeepsPlan DEF DetailInv

LEMMA PlaceKeepsDetail ==
  ASSUME DetailInv, NEW k \in 0 .. Len(assigned), Place(k)
  PROVE  DetailInv'
<1>1. /\ phase = "place" /\ cur' = NoTensor
      /\ UNCHANGED <<phase, graph, mode, steps, record, unplaced, i, smallestGap>>
  BY DEF Place, input
<1>2. PlanInv' /\ Placed' = Placed \cup {cur} /\ Len(assigned') = Len(assigned) + 1
  BY PlaceKeepsPlan DEF DetailInv
<1>3. offset' \in [Tensors -> Nat]
  BY <1>1, <1>2 DEF PlanInv, PlanTypeInv
<1>4. LocalsInv'
  <2>1. Len(assigned) \in Nat
    BY DEF DetailInv, PlanInv, PlanTypeInv
  <2>2. i \in 1 .. Len(assigned) + 1 /\ smallestGap \in Nat
    BY DEF DetailInv, LocalsInv
  <2>3. i' \in 1 .. Len(assigned') + 1
    BY <1>1, <1>2, <2>1, <2>2
  <2> QED
    BY <1>1, <1>3, <2>2, <2>3 DEF LocalsInv
<1>5. RecordInv'
  <2>1. \A t \in Tensors : graph.view[t] = t => t \in unplaced' \cup {cur'} \cup Placed'
    BY <1>1, <1>2 DEF DetailInv, RecordInv
  <2>2. AllIn(steps) /\ record = RecordsOf(graph, steps)
    BY <1>1 DEF DetailInv, RecordInv
  <2> QED
    BY <1>1, <2>1, <2>2 DEF RecordInv
<1> QED
  BY <1>1, <1>2, <1>4, <1>5, ScheduleStays DEF DetailInv

LEMMA ViewsKeepDetail ==
  ASSUME DetailInv, AssignOffsetsToViews
  PROVE  DetailInv'
<1>1. /\ phase = "place" /\ cur = NoTensor /\ unplaced = {} /\ phase' = "planned"
      /\ UNCHANGED <<graph, mode, steps, record, unplaced, assigned, cur, i, smallestGap>>
      /\ offset' = [t \in Tensors |-> IF graph.view[t] = t THEN offset[t] ELSE offset[Original[t]]]
  BY DEF AssignOffsetsToViews, input, locals
<1>2. graph \in Graphs /\ offset \in [Tensors -> Nat]
  BY DEF DetailInv, ScheduleInv, LocalsInv
<1>3. ASSUME NEW t \in Tensors
      PROVE  offset'[t] \in Nat /\ offset'[t] = offset'[OriginalOf(graph)[t]]
  <2>1. PICK r \in Tensors : r = OriginalOf(graph)[t] /\ graph.view[r] = r
    BY <1>2, OriginalFacts
  <2>2. graph.view[t] = t => r = t
    BY <1>2, <2>1, OriginalFacts
  <2>3. offset'[r] = offset[r]
    BY <1>1, <2>1
  <2>4. Original[t] = r
    BY <2>1, Recursive
  <2>5. offset'[t] = offset[r]
    BY <1>1, <2>2, <2>4
  <2> QED
    BY <1>2, <2>1, <2>3, <2>5
<1>4. LocalsInv'
  <2>1. offset' \in [Tensors -> Nat]
    BY <1>1, <1>3
  <2> QED
    BY <1>1, <2>1 DEF DetailInv, LocalsInv
<1>5. RecordInv'
  <2>1. Placed' = Placed
    BY <1>1 DEF Placed
  <2>2. /\ AllIn(steps) /\ record = RecordsOf(graph, steps)
        /\ \A t \in Tensors : graph.view[t] = t => t \in unplaced' \cup {cur'} \cup Placed'
    BY <1>1, <2>1 DEF DetailInv, RecordInv
  <2> QED
    BY <1>1, <1>3, <2>2 DEF RecordInv
<1> QED
  BY <1>1, <1>4, <1>5, ScheduleStays, ViewsKeepPlan DEF DetailInv

LEMMA StutterKeepsDetail ==
  ASSUME DetailInv, UNCHANGED vars
  PROVE  DetailInv'
<1>1. UNCHANGED <<graph, mode, phase, steps, record, unplaced, assigned, offset, cur, i, smallestGap>>
  BY DEF vars, input, locals
<1>2. RecordInv'
  <2>1. Placed' = Placed
    BY <1>1 DEF Placed
  <2> QED
    BY <1>1, <2>1 DEF DetailInv, RecordInv
<1>3. LocalsInv'
  BY <1>1 DEF DetailInv, LocalsInv
<1> QED
  BY <1>1, <1>2, <1>3, ScheduleStays, StutterKeepsPlan DEF DetailInv

THEOREM DetailInvariant == Spec => []DetailInv
<1>1. DetailInv /\ [Next]_vars => DetailInv'
  BY SchedulingKeepsDetail, RecordsKeepDetail, TakeKeepsDetail, ScanKeepsDetail,
     PlaceKeepsDetail, ViewsKeepDetail, StutterKeepsDetail DEF Next
<1> QED
  BY DetailInit, <1>1, PTL DEF Spec

\* Locals, records and offsets stay in their ranges, and no group is larger than
\* it may be.
THEOREM PlanningTypes == RunSpec => []TypeOK
<1>1. DetailInv => TypeOK
  <2> SUFFICES ASSUME DetailInv PROVE TypeOK
    OBVIOUS
  <2>1. PICK n : n = Len(steps)
    OBVIOUS
  <2>2. steps \in Seq(Seq(Ops)) /\ graph \in Graphs /\ mode \in Modes
    BY DEF DetailInv, ScheduleInv
  <2>3. n \in Nat
    BY <2>1, <2>2
  <2>4. record \in [Tensors -> [first : 0 .. n, last : 0 .. n, size : Nat]]
    <3>1. CASE phase = "schedule"
      <4>1. 0 \in 0 .. n /\ 0 \in Nat
        BY <2>3
      <4> QED
        BY <3>1, <4>1 DEF DetailInv, RecordInv
    <3>2. CASE phase # "schedule"
      <4>1. AllIn(steps) /\ record = RecordsOf(graph, steps)
        BY <3>2 DEF DetailInv, RecordInv
      <4>2. ASSUME NEW t \in Tensors
            PROVE  /\ FirstIn(graph, steps, t) \in 0 .. n /\ LastIn(graph, steps, t) \in 0 .. n
                   /\ graph.size[t] \in Nat
        <5>1. FirstIn(graph, steps, t) \in 1 .. n /\ LastIn(graph, steps, t) \in 1 .. n
          BY <2>1, <2>2, <4>1, RecordFacts
        <5>2. graph.size[t] \in Nat
          BY <2>2, GraphsAssumption
        <5> QED
          BY <2>3, <5>1, <5>2
      <4> QED
        BY <4>1, <4>2 DEF RecordsOf
    <3> QED
      BY <3>1, <3>2
  <2>5. record \in [Tensors -> [first : 0 .. Len(steps), last : 0 .. Len(steps), size : Nat]]
    BY <2>1, <2>4
  <2>6. \A k \in DOMAIN steps : Len(steps[k]) \in 1 .. MaxParallel
    BY DEF DetailInv, ScheduleInv
  <2>7. /\ phase \in {"schedule", "place", "planned"} /\ unplaced \subseteq Tensors
        /\ assigned \in Seq(Tensors) /\ cur \in Tensors \cup {NoTensor}
        /\ prevOffset \in Nat /\ bestOffset \in Nat \cup {NoOffset} /\ maxBlob \in Nat
    BY DEF DetailInv, PlanInv, PlanTypeInv
  <2>8. offset \in [Tensors -> Nat] /\ smallestGap \in Nat /\ i \in 1 .. Len(assigned) + 1
    BY DEF DetailInv, LocalsInv
  <2> QED
    BY <2>2, <2>5, <2>6, <2>7, <2>8 DEF TypeOK
<1> QED
  BY <1>1, DetailInvariant, RunFollowsPlan, PTL

----------------------------------------------------------------------------
(* The memory of a planned graph.                                          *)

\* Where the bytes of tensor t of graph g are when tensors have the offsets f.
CellsIn(g, f, t) ==
  IF \E r \in g.results : OriginalOf(g)[r] = OriginalOf(g)[t]
  THEN {-OriginalOf(g)[t]}
  ELSE f[t] + 1 .. f[t] + g.size[t]

LEMMA CellsAre == \A t : Cells(t) = CellsIn(graph, offset, t)
  BY Recursive DEF Cells, CellsIn

\* A tensor has its place within that of its original, and that in the block.
LEMMA PlaceOfOriginal ==
  ASSUME DetailInv, phase = "planned", NEW t \in Tensors
  PROVE  LET r == OriginalOf(graph)[t]
         IN  /\ r \in Tensors /\ r \in Placed /\ r \in Nat \ {0} /\ offset[t] = offset[r]
             /\ offset[r] \in Nat /\ graph.size[t] \in Nat /\ graph.size[r] \in Nat
             /\ graph.size[t] <= graph.size[r] /\ End(r) = offset[r] + graph.size[r]
             /\ End(r) <= maxBlob /\ maxBlob \in Nat
<1>1. graph \in Graphs /\ offset \in [Tensors -> Nat]
  BY DEF DetailInv, ScheduleInv, LocalsInv
<1>2. PICK r \in Tensors : r = OriginalOf(graph)[t]
  BY <1>1, OriginalFacts
<1>3. graph.view[r] = r /\ graph.size[t] <= graph.size[r]
  BY <1>1, <1>2, OriginalFacts
<1>4. r \in Nat \ {0}
  BY GraphsAssumption
<1>5. r \in Placed
  BY <1>3, <1>4 DEF DetailInv, RecordInv, NoTensor
<1>6. offset[t] = offset[r]
  BY <1>2 DEF DetailInv, RecordInv
<1>7. graph.size[t] \in Nat /\ graph.size[r] \in Nat
  BY <1>1, GraphsAssumption
<1>8. End(r) = offset[r] + graph.size[r]
  <2>1. record = RecordsOf(graph, steps)
    BY DEF DetailInv, RecordInv
  <2> QED
    BY <2>1 DEF RecordsOf, End
<1>9. End(r) <= maxBlob /\ maxBlob \in Nat
  BY <1>5 DEF DetailInv, PlanInv, PlanTypeInv, BlobLargeEnough
<1> QED
  BY <1>1, <1>2, <1>3, <1>4, <1>5, <1>6, <1>7, <1>8, <1>9

Memory == 1 .. maxBlob \cup {-t : t \in Tensors}

\* The cells of a tensor exist.
LEMMA CellsInMemory ==
  ASSUME DetailInv, phase = "planned", NEW t \in Tensors
  PROVE  CellsIn(graph, offset, t) \subseteq Memory
<1>1. PICK r : r = OriginalOf(graph)[t]
  OBVIOUS
<1>2. PICK e : e = End(r)
  OBVIOUS
<1>3. /\ r \in Tensors /\ offset[t] = offset[r] /\ offset[r] \in Nat
      /\ graph.size[t] \in Nat /\ graph.size[r] \in Nat /\ graph.size[t] <= graph.size[r]
      /\ e = offset[r] + graph.size[r] /\ e <= maxBlob /\ maxBlob \in Nat
  BY <1>1, <1>2, PlaceOfOriginal
<1>4. ASSUME NEW c \in offset[t] + 1 .. offset[t] + graph.size[t] PROVE c \in 1 .. maxBlob
  BY <1>3
<1>5. -r \in Memory
  BY <1>3 DEF Memory
<1> QED
  BY <1>1, <1>4, <1>5 DEF CellsIn, Memory

\* Tensors that are alive at the same step share cells only with the views of what
\* they view.
LEMMA CellsApart ==
  ASSUME DetailInv, phase = "planned", NEW t \in Tensors, NEW u \in Tensors, NEW k \in Nat,
         LET r == OriginalOf(graph)[t]
             q == OriginalOf(graph)[u]
         IN  /\ record[r].first <= k /\ k <= record[r].last
             /\ record[q].first <= k /\ k <= record[q].last,
         NEW c \in CellsIn(graph, offset, t) \cap CellsIn(graph, offset, u)
  PROVE  OriginalOf(graph)[t] = OriginalOf(graph)[u]
<1>1. PICK r, q : r = OriginalOf(graph)[t] /\ q = OriginalOf(graph)[u]
  OBVIOUS
<1>2. /\ r \in Tensors /\ r \in Placed /\ r \in Nat \ {0} /\ offset[t] = offset[r]
      /\ offset[r] \in Nat /\ graph.size[t] \in Nat /\ graph.size[r] \in Nat
      /\ graph.size[t] <= graph.size[r] /\ End(r) = offset[r] + graph.size[r]
  BY <1>1, PlaceOfOriginal
<1>3. /\ q \in Tensors /\ q \in Placed /\ q \in Nat \ {0} /\ offset[u] = offset[q]
      /\ offset[q] \in Nat /\ graph.size[u] \in Nat /\ graph.size[q] \in Nat
      /\ graph.size[u] <= graph.size[q] /\ End(q) = offset[q] + graph.size[q]
  BY <1>1, PlaceOfOriginal
<1>4. Overlap(r, q)
  <2>1. record = RecordsOf(graph, steps) /\ AllIn(steps)
    BY DEF DetailInv, RecordInv
  <2>2. graph \in Graphs /\ steps \in Seq(Seq(Ops)) /\ Len(steps) \in Nat
    BY DEF DetailInv, ScheduleInv
  <2>3. /\ record[r].first \in Nat /\ record[r].last \in Nat
        /\ record[q].first \in Nat /\ record[q].last \in Nat
    <3>1. ASSUME NEW x \in Tensors PROVE record[x].first \in Nat /\ record[x].last \in Nat
      <4>1. /\ FirstIn(graph, steps, x) \in 1 .. Len(steps)
            /\ LastIn(graph, steps, x) \in 1 .. Len(steps)
        BY <2>1, <2>2, RecordFacts
      <4>2. FirstIn(graph, steps, x) \in Nat /\ LastIn(graph, steps, x) \in Nat
        BY <2>2, <4>1
      <4> QED
        BY <2>1, <4>2 DEF RecordsOf
    <3> QED
      BY <1>2, <1>3, <3>1
  <2>4. /\ record[r].first <= k /\ k <= record[r].last
        /\ record[q].first <= k /\ k <= record[q].last
    BY <1>1
  <2> QED
    BY <2>3, <2>4 DEF Overlap
<1>5. r # q => End(r) <= offset[q] \/ End(q) <= offset[r]
  BY <1>2, <1>3, <1>4 DEF DetailInv, PlanInv, PlacedApart
<1>6. /\ c = -r \/ c \in offset[r] + 1 .. offset[r] + graph.size[t]
      /\ c = -q \/ c \in offset[q] + 1 .. offset[q] + graph.size[u]
  BY <1>1, <1>2, <1>3 DEF CellsIn
<1>7. CASE c = -r /\ c = -q
  <2>1. r \in Nat /\ q \in Nat
    BY <1>2, <1>3
  <2>2. r = q
    BY <1>7, <2>1
  <2> QED
    BY <1>1, <2>2
<1>8. CASE c = -r /\ c \in offset[q] + 1 .. offset[q] + graph.size[u]
  BY <1>2, <1>3, <1>8
<1>9. CASE c = -q /\ c \in offset[r] + 1 .. offset[r] + graph.size[t]
  BY <1>2, <1>3, <1>9
<1>10. CASE /\ c \in offset[r] + 1 .. offset[r] + graph.size[t]
            /\ c \in offset[q] + 1 .. offset[q] + graph.size[u]
  <2>1. c \in Int /\ c > offset[r] /\ c > offset[q] /\ c <= End(r) /\ c <= End(q)
    BY <1>2, <1>3, <1>10
  <2>2. End(r) \in Nat /\ End(q) \in Nat
    BY <1>2, <1>3
  <2>3. ~(End(r) <= offset[q] \/ End(q) <= offset[r])
    BY <1>2, <1>3, <2>1, <2>2
  <2> QED
    BY <1>1, <1>5, <2>3
<1> QED
  BY <1>6, <1>7, <1>8, <1>9, <1>10

----------------------------------------------------------------------------
(* The run: which operators have run, and what the memory holds.           *)

\* The block is there when the plan is; operators of earlier groups have run, and
\* those of later groups have not started.
ProgressInv ==
  /\ phase # "planned" => memory = <<>>
  /\ memory = <<>> => step = 1 /\ started = {} /\ done = {}
  /\ memory # <<>> => DOMAIN memory = Memory
  /\ step \in 1 .. Len(steps) + 1
  /\ done \subseteq started /\ started \subseteq Ops
  /\ \A o \in started : \E k \in DOMAIN steps : k <= step /\ In(steps, k, o)
  /\ \A k \in DOMAIN steps : k < step => \A o \in Ops : In(steps, k, o) => o \in done

\* A stream runs the operators of a group one after the other.
StreamsInOrder ==
  \A s \in DOMAIN steps : \A j, k \in DOMAIN steps[s] :
    j < k /\ StreamOf(j) = StreamOf(k) /\ steps[s][k] \in started => steps[s][j] \in done

\* What an operator has written is in memory until the last use of the tensor.
MemoryInv ==
  \A t \in Tensors : \A w \in started :
    t \in graph.outputs[w] /\ step <= record[OriginalOf(graph)[t]].last =>
      \A c \in CellsIn(graph, offset, t) :
        /\ c \in DOMAIN memory /\ memory[c].tensor = OriginalOf(graph)[t]
        /\ w \in memory[c].by

RunInv == DetailInv /\ ProgressInv /\ StreamsInOrder /\ MemoryInv

\* While it is used, a tensor and the one that it is a view of are alive.
LEMMA AliveWhenUsed ==
  ASSUME DetailInv, phase # "schedule", NEW t \in Tensors, NEW k \in UsedIn(graph, steps, {t})
  PROVE  LET r == OriginalOf(graph)[t] IN record[r].first <= k /\ k <= record[r].last
<1>1. record = RecordsOf(graph, steps) /\ AllIn(steps)
  BY DEF DetailInv, RecordInv
<1>2. graph \in Graphs /\ steps \in Seq(Seq(Ops)) /\ ProducersFirst(graph, steps)
  BY DEF DetailInv, ScheduleInv
<1>3. PICK r \in Tensors : r = OriginalOf(graph)[t]
  BY <1>2, OriginalFacts
<1>4. PICK f, h, l : /\ f = FirstIn(graph, steps, r) /\ h = FirstIn(graph, steps, t)
                     /\ l = LastIn(graph, steps, r)
  OBVIOUS
<1>5. record[r].first = f /\ record[r].last = l
  BY <1>1, <1>4 DEF RecordsOf
<1>6. f <= h
  BY <1>1, <1>2, <1>3, <1>4, OriginalUsedFirst
<1>7. h <= k
  BY <1>1, <1>2, <1>4, RecordFacts
<1>8. k <= l
  <2>1. k \in UsedIn(graph, steps, Aliases(graph, r))
    BY <1>3 DEF UsedIn, Aliases
  <2> QED
    BY <1>1, <1>2, <1>4, <2>1, RecordFacts
<1>9. f \in Nat /\ h \in Nat /\ k \in Nat
  <2>1. f \in 1 .. Len(steps) /\ h \in 1 .. Len(steps)
    BY <1>1, <1>2, <1>3, <1>4, RecordFacts
  <2>2. k \in 1 .. Len(steps)
    BY <1>2, Groups DEF UsedIn
  <2> QED
    BY <2>1, <2>2
<1> QED
  BY <1>3, <1>5, <1>6, <1>7, <1>8, <1>9

LEMMA RunInitially == RunInit => RunInv
<1> SUFFICES ASSUME RunInit PROVE RunInv
  OBVIOUS
<1>1. DetailInv
  BY DetailInit DEF RunInit
<1>2. steps \in Seq(Seq(Ops)) /\ Len(steps) \in Nat /\ phase = "schedule"
  BY <1>1 DEF DetailInv, ScheduleInv, RunInit, Init
<1>3. memory = <<>> /\ step = 1 /\ started = {} /\ done = {}
  BY DEF RunInit
<1>4. ProgressInv
  <2>1. step \in 1 .. Len(steps) + 1
    BY <1>2, <1>3
  <2>2. \A k \in DOMAIN steps : ~(k < step)
    BY <1>2, <1>3
  <2> QED
    BY <1>3, <2>1, <2>2 DEF ProgressInv
<1>5. StreamsInOrder /\ MemoryInv
  BY <1>3 DEF StreamsInOrder, MemoryInv
<1> QED
  BY <1>1, <1>4, <1>5 DEF RunInv

\* While the plan is made nothing runs.
LEMMA PlanningKeepsRun ==
  ASSUME RunInv, Next, UNCHANGED runVars
  PROVE  RunInv'
<1>1. phase # "planned"
  BY DEF Next, ScheduleParallel, ScheduleSequential, MakeTensorUsageRecords, TakeLargest,
         ScanRecord, Place, AssignOffsetsToViews
<1>2. memory = <<>> /\ step = 1 /\ started = {} /\ done = {}
  BY <1>1 DEF RunInv, ProgressInv
<1>3. memory' = <<>> /\ step' = 1 /\ started' = {} /\ done' = {}
  BY <1>2 DEF runVars
<1>4. DetailInv'
  BY SchedulingKeepsDetail, RecordsKeepDetail, TakeKeepsDetail, ScanKeepsDetail,
     PlaceKeepsDetail, ViewsKeepDetail DEF RunInv, Next
<1>5. ProgressInv'
  <2>1. steps' \in Seq(Seq(Ops))
    BY <1>4 DEF DetailInv, ScheduleInv
  <2>2. Len(steps') \in Nat /\ \A k \in DOMAIN steps' : ~(k < 1)
    BY <2>1
  <2>3. step' \in 1 .. Len(steps') + 1
    BY <1>3, <2>2
  <2> QED
    BY <1>3, <2>2, <2>3 DEF ProgressInv
<1>6. StreamsInOrder' /\ MemoryInv'
  BY <1>3 DEF StreamsInOrder, MemoryInv
<1> QED
  BY <1>4, <1>5, <1>6 DEF RunInv

LEMMA AllocateKeepsRun ==
  ASSUME RunInv, Allocate
  PROVE  RunInv'
<1>1. /\ vars' = vars /\ step' = step /\ started' = started /\ done' = done
      /\ phase = "planned" /\ memory = <<>> /\ DOMAIN memory' = Memory
  BY DEF Allocate, Memory
<1>2. UNCHANGED <<graph, mode, phase, steps, record, offset, maxBlob>>
  BY <1>1 DEF vars, input, locals
<1>3. step = 1 /\ started = {} /\ done = {}
  BY <1>1 DEF RunInv, ProgressInv
<1>4. DetailInv'
  BY <1>1, StutterKeepsDetail DEF RunInv
<1>5. ProgressInv'
  BY <1>1, <1>2, <1>3 DEF RunInv, ProgressInv, Memory
<1>6. StreamsInOrder' /\ MemoryInv'
  BY <1>1, <1>3 DEF StreamsInOrder, MemoryInv
<1> QED
  BY <1>4, <1>5, <1>6 DEF RunInv

\* The group that runs.
LEMMA CurrentIs ==
  ASSUME RunInv, NEW j \in DOMAIN Current
  PROVE  /\ phase = "planned" /\ step \in DOMAIN steps /\ step \in Nat
         /\ Current = steps[step] /\ Current[j] \in Ops /\ In(steps, step, Current[j])
<1>1. DOMAIN << >> = {}
  OBVIOUS
<1>2. phase = "planned" /\ step <= Len(steps) /\ Current = steps[step]
  BY <1>1 DEF Current
<1>3. steps \in Seq(Seq(Ops)) /\ step \in 1 .. Len(steps) + 1
  BY DEF RunInv, DetailInv, ScheduleInv, ProgressInv
<1>4. DOMAIN steps = 1 .. Len(steps) /\ Len(steps) \in Nat
  BY <1>3, Groups
<1>5. step \in DOMAIN steps /\ step \in Nat
  BY <1>2, <1>3, <1>4
<1>6. Current[j] \in Ops
  BY <1>2, <1>3, <1>5, Groups
<1> QED
  BY <1>2, <1>5, <1>6 DEF In

\* What a kernel writes.
LEMMA WrittenIs ==
  ASSUME NEW o, NEW c \in DOMAIN memory
  PROVE  /\ DOMAIN Written(o) = DOMAIN memory
         /\ \/ /\ \A u \in graph.outputs[o] : c \notin CellsIn(graph, offset, u)
               /\ Written(o)[c] = memory[c]
            \/ \E u \in graph.outputs[o] :
                 /\ c \in CellsIn(graph, offset, u)
                 /\ Written(o)[c].tensor = OriginalOf(graph)[u] /\ o \in Written(o)[c].by
                 /\ memory[c].tensor = OriginalOf(graph)[u] =>
                      memory[c].by \subseteq Written(o)[c].by
<1> DEFINE mine == {t \in graph.outputs[o] : c \in Cells(t)}
           first == CHOOSE t \in mine : TRUE
<1>1. DOMAIN Written(o) = DOMAIN memory
  BY DEF Written
<1>2. Written(o)[c] = IF mine = {} THEN memory[c]
                      ELSE [tensor |-> Original[first],
                            by |-> {o} \cup IF memory[c].tensor = Original[first]
                                            THEN memory[c].by ELSE {}]
  BY DEF Written
<1>3. CASE mine = {}
  <2>1. \A u \in graph.outputs[o] : c \notin CellsIn(graph, offset, u)
    BY <1>3, CellsAre
  <2> QED
    BY <1>1, <1>2, <1>3, <2>1
<1>4. CASE mine # {}
  <2>1. PICK u : u = first
    OBVIOUS
  <2>2. u \in mine
    BY <1>4, <2>1
  <2>3. u \in graph.outputs[o] /\ c \in CellsIn(graph, offset, u)
    BY <2>2, CellsAre
  <2>4. Original[u] = OriginalOf(graph)[u]
    BY Recursive
  <2> HIDE DEF mine, first
  <2>5. Written(o)[c] = [tensor |-> Original[u],
                         by |-> {o} \cup IF memory[c].tensor = Original[u]
                                         THEN memory[c].by ELSE {}]
    BY <1>2, <1>4, <2>1
  <2>6. /\ Written(o)[c].tensor = OriginalOf(graph)[u] /\ o \in Written(o)[c].by
        /\ memory[c].tensor = OriginalOf(graph)[u] => memory[c].by \subseteq Written(o)[c].by
    BY <2>4, <2>5
  <2> QED
    BY <1>1, <2>3, <2>6
<1> QED
  BY <1>3, <1>4

\* A kernel that starts writes to no cell that another tensor needs.
LEMMA StartKeepsRun ==
  ASSUME RunInv, memory # <<>>, NEW j \in DOMAIN Current, StartOperator(j)
  PROVE  RunInv'
<1> DEFINE O(t) == OriginalOf(graph)[t]
<1>1. PICK o : o = Current[j]
  OBVIOUS
<1>2. /\ vars' = vars /\ step' = step /\ done' = done /\ o \notin started
      /\ started' = started \cup {o} /\ memory' = Written(o)
      /\ \A k \in 1 .. j - 1 : StreamOf(k) = StreamOf(j) => Current[k] \in done
  BY <1>1 DEF StartOperator
<1>3. UNCHANGED <<graph, mode, phase, steps, record, offset, maxBlob>>
  BY <1>2 DEF vars, input, locals
<1>4. /\ phase = "planned" /\ step \in DOMAIN steps /\ step \in Nat
      /\ Current = steps[step] /\ o \in Ops /\ In(steps, step, o) /\ steps[step][j] = o
  BY <1>1, CurrentIs
<1>5. /\ graph \in Graphs /\ steps \in Seq(Seq(Ops)) /\ mode \in {0, 1}
      /\ record = RecordsOf(graph, steps) /\ AllIn(steps)
  <2>1. graph \in Graphs /\ steps \in Seq(Seq(Ops)) /\ mode \in {0, 1}
    BY GraphsAssumption DEF RunInv, DetailInv, ScheduleInv
  <2>2. record = RecordsOf(graph, steps) /\ AllIn(steps)
    BY <1>4 DEF RunInv, DetailInv, RecordInv
  <2> QED
    BY <2>1, <2>2
<1>6. DetailInv'
  BY <1>2, StutterKeepsDetail DEF RunInv
<1>7. DOMAIN memory = Memory /\ DOMAIN memory' = Memory /\ Memory' = Memory /\ memory' # <<>>
  <2>1. DOMAIN memory = Memory
    BY DEF RunInv, ProgressInv
  <2>2. DOMAIN Written(o) = DOMAIN memory
    BY DEF Written
  <2>3. \E c : c \in Memory
    <3>1. PICK t : t \in graph.outputs[o]
      BY <1>4, <1>5, SortedAssumption
    <3>2. t \in Tensors
      BY <1>4, <1>5, <3>1, GraphsAssumption
    <3> QED
      BY <3>2 DEF Memory
  <2>4. Memory' = Memory
    BY <1>3 DEF Memory
  <2>5. DOMAIN << >> = {}
    OBVIOUS
  <2> QED
    BY <1>2, <2>1, <2>2, <2>3, <2>4, <2>5
<1>8. ProgressInv'
  <2>1. \A q \in started' : \E k \in DOMAIN steps : k <= step /\ In(steps, k, q)
    BY <1>2, <1>4 DEF RunInv, ProgressInv
  <2>2. /\ done \subseteq started' /\ started' \subseteq Ops
        /\ step \in 1 .. Len(steps) + 1
        /\ \A k \in DOMAIN steps : k < step => \A q \in Ops : In(steps, k, q) => q \in done
    BY <1>2, <1>4 DEF RunInv, ProgressInv
  <2> QED
    BY <1>2, <1>3, <1>4, <1>7, <2>1, <2>2 DEF ProgressInv
<1>9. StreamsInOrder'
  <2> SUFFICES ASSUME NEW s \in DOMAIN steps, NEW h \in DOMAIN steps[s], NEW k \in DOMAIN steps[s],
                      h < k, StreamOf(h) = StreamOf(k), steps[s][k] \in started'
               PROVE  steps[s][h] \in done
    BY <1>2, <1>3 DEF StreamsInOrder, StreamOf
  <2>1. CASE steps[s][k] \in started
    BY <2>1 DEF RunInv, StreamsInOrder
  <2>2. CASE steps[s][k] = o
    <3>1. h \in Nat \ {0} /\ k \in Nat \ {0} /\ DOMAIN steps[s] = 1 .. Len(steps[s])
      BY <1>5, Groups
    <3>2. mode # 0
      <4>1. mode = 0 => Len(steps[s]) = 1
        BY DEF RunInv, DetailInv, ScheduleInv
      <4> QED
        BY <3>1, <4>1
    <3>3. OnceEach(steps)
      BY <1>5, <3>2 DEF RunInv, DetailInv, ScheduleInv
    <3>4. j \in DOMAIN steps[step]
      BY <1>4
    <3>5. s = step /\ k = j
      BY <1>4, <2>2, <3>3, <3>4 DEF OnceEach
    <3>6. h \in 1 .. j - 1
      BY <3>1, <3>5
    <3> QED
      BY <1>2, <1>4, <3>5, <3>6
  <2> QED
    BY <1>2, <2>1, <2>2
<1>10. MemoryInv'
  <2> SUFFICES ASSUME NEW t \in Tensors, NEW w \in started', t \in graph.outputs[w],
                      step <= record[O(t)].last, NEW c \in CellsIn(graph, offset, t)
               PROVE  /\ c \in DOMAIN memory' /\ memory'[c].tensor = O(t)
                      /\ w \in memory'[c].by
    BY <1>2, <1>3 DEF MemoryInv
  <2>1. c \in DOMAIN memory
    BY <1>4, <1>7, CellsInMemory DEF RunInv
  <2>2. w \in started => memory[c].tensor = O(t) /\ w \in memory[c].by
    BY DEF RunInv, MemoryInv
  <2>3. w \notin started => w = o
    BY <1>2
  <2>4. CASE /\ \A u \in graph.outputs[o] : c \notin CellsIn(graph, offset, u)
             /\ memory'[c] = memory[c]
    BY <1>7, <2>1, <2>2, <2>3, <2>4
  <2>5. CASE \E u \in graph.outputs[o] :
               /\ c \in CellsIn(graph, offset, u)
               /\ memory'[c].tensor = O(u) /\ o \in memory'[c].by
               /\ memory[c].tensor = O(u) => memory[c].by \subseteq memory'[c].by
    <3>1. PICK u \in graph.outputs[o] :
               /\ c \in CellsIn(graph, offset, u)
               /\ memory'[c].tensor = O(u) /\ o \in memory'[c].by
               /\ memory[c].tensor = O(u) => memory[c].by \subseteq memory'[c].by
      BY <2>5
    <3>2. u \in Tensors
      BY <1>4, <1>5, <3>1, GraphsAssumption
    <3>3. record[O(u)].first <= step /\ step <= record[O(u)].last
      <4>1. step \in UsedIn(graph, steps, {u})
        BY <1>4, <3>1 DEF UsedIn
      <4> QED
        BY <1>4, <3>2, <4>1, AliveWhenUsed DEF RunInv
    <3>4. record[O(t)].first <= step
      <4>1. PICK k \in DOMAIN steps : k <= step /\ In(steps, k, w)
        BY <1>2, <1>4 DEF RunInv, ProgressInv
      <4>2. k \in UsedIn(graph, steps, {t})
        BY <4>1 DEF UsedIn, In
      <4>3. record[O(t)].first <= k
        BY <1>4, <4>2, AliveWhenUsed DEF RunInv
      <4>4. record[O(t)].first \in Nat /\ k \in Nat
        <5>1. O(t) \in Tensors
          BY <1>5, OriginalFacts
        <5>2. FirstIn(graph, steps, O(t)) \in 1 .. Len(steps)
          BY <1>5, <5>1, RecordFacts
        <5>3. record[O(t)].first = FirstIn(graph, steps, O(t))
          BY <1>5, <5>1 DEF RecordsOf
        <5>4. k \in Nat
          BY <1>5, Groups
        <5> QED
          BY <5>2, <5>3, <5>4
      <4> QED
        BY <1>4, <4>1, <4>3, <4>4
    <3>5. O(t) = O(u)
      <4>1. c \in CellsIn(graph, offset, t) \cap CellsIn(graph, offset, u)
        BY <3>1
      <4> QED
        BY <1>4, <3>2, <3>3, <3>4, <4>1, CellsApart DEF RunInv
    <3> QED
      BY <1>7, <2>1, <2>2, <2>3, <3>1, <3>5
  <2> QED
    BY <1>2, <2>1, <2>4, <2>5, WrittenIs
<1> QED
  BY <1>6, <1>8, <1>9, <1>10 DEF RunInv

LEMMA FinishKeepsRun ==
  ASSUME RunInv, NEW o \in Ops, FinishOperator(o)
  PROVE  RunInv'
<1>1. /\ vars' = vars /\ step' = step /\ started' = started /\ memory' = memory
      /\ o \in started /\ done' = done \cup {o}
  BY DEF FinishOperator, Running
<1>2. UNCHANGED <<graph, mode, phase, steps, record, offset, maxBlob>>
  BY <1>1 DEF vars, input, locals
<1>3. DetailInv'
  BY <1>1, StutterKeepsDetail DEF RunInv
<1>4. ProgressInv'
  <2>1. Memory' = Memory
    BY <1>2 DEF Memory
  <2>2. started # {}
    BY <1>1
  <2> QED
    BY <1>1, <1>2, <2>1, <2>2 DEF RunInv, ProgressInv
<1>5. StreamsInOrder'
  BY <1>1, <1>2 DEF RunInv, StreamsInOrder, StreamOf
<1>6. MemoryInv'
  BY <1>1, <1>2 DEF RunInv, MemoryInv
<1> QED
  BY <1>3, <1>4, <1>5, <1>6 DEF RunInv

LEMMA JoinKeepsRun ==
  ASSUME RunInv, memory # <<>>, JoinGroup
  PROVE  RunInv'
<1>1. /\ vars' = vars /\ started' = started /\ memory' = memory /\ done' = done
      /\ step' = step + 1 /\ Current # <<>>
      /\ \A j \in DOMAIN Current : Current[j] \in done
  BY DEF JoinGroup
<1>2. UNCHANGED <<graph, mode, phase, steps, record, offset, maxBlob>>
  BY <1>1 DEF vars, input, locals
<1>3. DetailInv'
  BY <1>1, StutterKeepsDetail DEF RunInv
<1>4. /\ phase = "planned" /\ Current = steps[step] /\ step \in 1 .. Len(steps)
      /\ Len(steps) \in Nat /\ DOMAIN steps = 1 .. Len(steps)
  <2>1. phase = "planned" /\ Current = steps[step] /\ step <= Len(steps)
    BY <1>1 DEF Current
  <2>2. steps \in Seq(Seq(Ops)) /\ step \in 1 .. Len(steps) + 1
    BY DEF RunInv, DetailInv, ScheduleInv, ProgressInv
  <2>3. DOMAIN steps = 1 .. Len(steps) /\ Len(steps) \in Nat
    BY <2>2, Groups
  <2> QED
    BY <2>1, <2>2, <2>3
<1>5. ProgressInv'
  <2>1. Memory' = Memory
    BY <1>2 DEF Memory
  <2>2. step' \in 1 .. Len(steps) + 1
    BY <1>1, <1>4
  <2>3. ASSUME NEW k \in DOMAIN steps, k < step', NEW o \in Ops, In(steps, k, o)
        PROVE  o \in done
    <3>1. CASE k < step
      BY <2>3, <3>1 DEF RunInv, ProgressInv
    <3>2. CASE k = step
      BY <1>1, <1>4, <2>3, <3>2 DEF In
    <3> QED
      BY <1>1, <1>4, <2>3, <3>1, <3>2
  <2>4. \A o \in started : \E k \in DOMAIN steps : k <= step' /\ In(steps, k, o)
    <3>1. \A k \in DOMAIN steps : k <= step => k <= step'
      BY <1>1, <1>4
    <3> QED
      BY <3>1 DEF RunInv, ProgressInv
  <2>5. /\ phase # "planned" => memory = <<>>
        /\ memory # <<>> => DOMAIN memory = Memory
        /\ done \subseteq started /\ started \subseteq Ops
    BY DEF RunInv, ProgressInv
  <2> QED
    BY <1>1, <1>2, <2>1, <2>2, <2>3, <2>4, <2>5 DEF ProgressInv
<1>6. StreamsInOrder'
  BY <1>1, <1>2 DEF RunInv, StreamsInOrder, StreamOf
<1>7. MemoryInv'
  <2>1. ASSUME NEW t \in Tensors, step' <= record[OriginalOf(graph)[t]].last
        PROVE  step <= record[OriginalOf(graph)[t]].last
    <3>1. PICK l : l = record[OriginalOf(graph)[t]].last
      OBVIOUS
    <3>2. l \in Nat
      <4>1. graph \in Graphs /\ steps \in Seq(Seq(Ops))
        BY DEF RunInv, DetailInv, ScheduleInv
      <4>2. record = RecordsOf(graph, steps) /\ AllIn(steps)
        BY <1>4 DEF RunInv, DetailInv, RecordInv
      <4>3. OriginalOf(graph)[t] \in Tensors
        BY <4>1, OriginalFacts
      <4>4. LastIn(graph, steps, OriginalOf(graph)[t]) \in 1 .. Len(steps)
        BY <4>1, <4>2, <4>3, RecordFacts
      <4>5. l = LastIn(graph, steps, OriginalOf(graph)[t])
        BY <3>1, <4>2, <4>3 DEF RecordsOf
      <4> QED
        BY <4>4, <4>5
    <3> QED
      BY <1>1, <1>4, <2>1, <3>1, <3>2
  <2> QED
    BY <1>1, <1>2, <2>1 DEF RunInv, MemoryInv
<1> QED
  BY <1>3, <1>5, <1>6, <1>7 DEF RunInv

LEMMA StutterKeepsRun ==
  ASSUME RunInv, UNCHANGED allVars
  PROVE  RunInv'
<1>1. vars' = vars /\ UNCHANGED <<step, started, done, memory>>
  BY DEF allVars, runVars
<1>2. UNCHANGED <<graph, mode, phase, steps, record, offset, maxBlob>>
  BY <1>1 DEF vars, input, locals
<1>3. DetailInv'
  BY <1>1, StutterKeepsDetail DEF RunInv
<1>4. ProgressInv'
  <2>1. Memory' = Memory
    BY <1>2 DEF Memory
  <2> QED
    BY <1>1, <1>2, <2>1 DEF RunInv, ProgressInv
<1>5. StreamsInOrder' /\ MemoryInv'
  BY <1>1, <1>2 DEF RunInv, StreamsInOrder, StreamOf, MemoryInv
<1> QED
  BY <1>3, <1>4, <1>5 DEF RunInv

THEOREM RunInvariant == RunSpec => []RunInv
<1>1. RunInv /\ [RunNext]_allVars => RunInv'
  <2> SUFFICES ASSUME RunInv, [RunNext]_allVars PROVE RunInv'
    OBVIOUS
  <2>1. CASE Next /\ UNCHANGED runVars
    BY <2>1, PlanningKeepsRun
  <2>2. CASE Allocate
    BY <2>2, AllocateKeepsRun
  <2>3. CASE memory # <<>> /\ \E j \in DOMAIN Current : StartOperator(j)
    BY <2>3, StartKeepsRun
  <2>4. CASE memory # <<>> /\ \E o \in Ops : FinishOperator(o)
    BY <2>4, FinishKeepsRun
  <2>5. CASE memory # <<>> /\ JoinGroup
    BY <2>5, JoinKeepsRun
  <2>6. CASE UNCHANGED allVars
    BY <2>6, StutterKeepsRun
  <2> QED
    BY <2>1, <2>2, <2>3, <2>4, <2>5, <2>6 DEF RunNext
<1> QED
  BY RunInitially, <1>1, PTL DEF RunSpec

\* In every run of every plan a running operator has the inputs that their
\* producers wrote.
THEOREM InputsIntactCorrect == RunSpec => []InputsIntact
<1>1. RunInv => InputsIntact
  <2> SUFFICES ASSUME RunInv, NEW o \in Running, NEW t \in graph.inputs[o], NEW c \in Cells(t)
               PROVE  memory[c].tensor = Original[t] /\ Writers(t) \subseteq memory[c].by
    BY DEF InputsIntact, Intact
  <2>1. o \in started /\ o \notin done /\ o \in Ops
    BY DEF Running, RunInv, ProgressInv
  <2>2. graph \in Graphs /\ steps \in Seq(Seq(Ops)) /\ ProducersFirst(graph, steps)
    BY DEF RunInv, DetailInv, ScheduleInv
  <2>3. t \in Tensors
    BY <2>1, <2>2, GraphsAssumption
  <2>4. phase = "planned"
    BY <2>1 DEF RunInv, ProgressInv
  <2>5. PICK k \in DOMAIN steps : k <= step /\ In(steps, k, o)
    BY <2>1 DEF RunInv, ProgressInv
  <2>6. k = step
    <3>1. ~(k < step)
      BY <2>1, <2>5 DEF RunInv, ProgressInv
    <3>2. k \in Nat /\ step \in Int
      BY <2>2, Groups DEF RunInv, ProgressInv
    <3> QED
      BY <2>5, <3>1, <3>2
  <2>7. PICK j \in DOMAIN steps[k] : steps[k][j] = o
    BY <2>5 DEF In
  <2>8. step <= record[OriginalOf(graph)[t]].last
    <3>1. step \in UsedIn(graph, steps, {t})
      BY <2>6, <2>7 DEF UsedIn
    <3> QED
      BY <2>3, <2>4, <3>1, AliveWhenUsed DEF RunInv
  <2>9. c \in CellsIn(graph, offset, t)
    BY CellsAre
  <2>10. ASSUME NEW w \in Writers(t)
         PROVE  memory[c].tensor = OriginalOf(graph)[t] /\ w \in memory[c].by
    <3>1. w \in Ops /\ t \in graph.outputs[w]
      BY DEF Writers
    <3>2. PICK l \in DOMAIN steps : l < k /\ In(steps, l, w)
      BY <2>2, <2>7, <3>1 DEF ProducersFirst
    <3>3. w \in started
      BY <2>6, <3>1, <3>2 DEF RunInv, ProgressInv
    <3> QED
      BY <2>3, <2>8, <2>9, <3>1, <3>3 DEF RunInv, MemoryInv
  <2>11. \E w : w \in Writers(t)
    BY <2>2, <2>3, SortedAssumption DEF Writers
  <2> QED
    BY <2>10, <2>11, Recursive
<1> QED
  BY <1>1, RunInvariant, PTL

----------------------------------------------------------------------------
(* Scratch memory.                                                         *)

\* Numbers that the operators have have a largest one.
LEMMA LargestOfOps ==
  ASSUME NEW f \in [Ops -> Nat]
  PROVE  /\ Max({f[o] : o \in Ops}) \in Nat
         /\ \A o \in Ops : f[o] <= Max({f[p] : p \in Ops})
<1> DEFINE n == Cardinality(Ops)
           Bounded(k, b) == \A o \in Ops : o <= k => f[o] <= b
           Bad == {k \in Nat : ~ \E b \in Nat : Bounded(k, b)}
           S == {f[o] : o \in Ops}
<1>0. Ops \subseteq Nat
  BY GraphsAssumption
<1>1. n \in Nat \ {0} /\ Ops = 1 .. n
  BY GraphsAssumption
<1>2. ASSUME Bad # {} PROVE FALSE
  <2>1. PICK k \in Bad : \A l \in Bad : k <= l
    <3>1. Bad \in SUBSET Nat
      OBVIOUS
    <3> HIDE DEF Bad
    <3> QED
      BY <1>2, <3>1, Least
  <2>2. k \in Nat
    OBVIOUS
  <2>3. k # 0
    <3>1. Bounded(0, 0)
      BY <1>1
    <3> QED
      BY <3>1
  <2>4. k - 1 \in Nat /\ ~(k <= k - 1)
    BY <2>2, <2>3
  <2>5. PICK b \in Nat : Bounded(k - 1, b)
    BY <2>1, <2>4
  <2>6. PICK a \in Nat : b <= a /\ (k \in Ops => f[k] <= a)
    <3>1. CASE k \in Ops
      <4>1. f[k] \in Nat
        BY <3>1
      <4>2. b + f[k] \in Nat /\ b <= b + f[k] /\ f[k] <= b + f[k]
        BY <4>1
      <4> QED
        BY <4>2
    <3>2. CASE k \notin Ops
      BY <3>2
    <3> QED
      BY <3>1, <3>2
  <2>7. Bounded(k, a)
    <3> SUFFICES ASSUME NEW o \in Ops, o <= k PROVE f[o] <= a
      OBVIOUS
    <3>1. o \in Nat /\ f[o] \in Nat
      BY <1>0
    <3>2. CASE o = k
      BY <2>6, <3>2
    <3>3. CASE o # k
      <4>1. o <= k - 1
        BY <2>2, <3>1, <3>3
      <4>2. f[o] <= b
        BY <2>5, <4>1
      <4> QED
        BY <2>6, <3>1, <4>2
    <3> QED
      BY <3>2, <3>3
  <2> QED
    BY <2>1, <2>7
<1>3. PICK b \in Nat : Bounded(n, b)
  BY <1>1, <1>2
<1>4. \A k \in S : k <= b
  BY <1>1, <1>3
<1>5. S \in SUBSET Nat /\ S # {}
  BY <1>1
<1>6. Max(S) \in S /\ \A k \in S : k <= Max(S)
  <2> HIDE DEF S, Bounded
  <2> QED
    BY <1>3, <1>4, <1>5, MaxIsGreatest
<1> QED
  BY <1>5, <1>6

\* The sizes of the two parts of the scratch memory, and the slots in them.
LEMMA ScratchSizes ==
  ASSUME DetailInv
  PROVE  /\ SharedSize \in Nat /\ UniqueSize \in Nat
         /\ \A o \in Ops : /\ graph.workspace[o] \in Nat /\ graph.workspace[o] <= SharedSize
                           /\ graph.unique[o] \in Nat /\ UniqueOffset[o] \in Nat
                           /\ UniqueOffset[o] + graph.unique[o] <= UniqueSize
<1> DEFINE U == UniqueOffsetOf(graph)
<1>1. /\ graph \in Graphs /\ graph.workspace \in [Ops -> Nat] /\ graph.unique \in [Ops -> Nat]
  BY GraphsAssumption DEF DetailInv, ScheduleInv
<1>2. SharedSize \in Nat /\ \A o \in Ops : graph.workspace[o] <= SharedSize
  BY <1>1, LargestOfOps DEF SharedSize
<1>3. UniqueOffset = U
  BY Recursive
<1>4. /\ Max(Ops) \in Ops /\ \A o \in Ops : o \in Nat /\ o <= Max(Ops)
      /\ \A o \in Ops : U[o] \in Nat
      /\ \A o, p \in Ops : o < p => U[o] + graph.unique[o] <= U[p]
  BY <1>1, UniqueFacts
<1> HIDE DEF U
<1>5. PICK m \in Ops : m = Max(Ops)
  BY <1>4
<1>6. UniqueSize = U[m] + graph.unique[m]
  BY <1>3, <1>5 DEF UniqueSize
<1>7. U[m] \in Nat /\ graph.unique[m] \in Nat
  BY <1>1, <1>4
<1>8. ASSUME NEW o \in Ops
      PROVE  U[o] + graph.unique[o] <= UniqueSize
  <2>1. U[o] \in Nat /\ graph.unique[o] \in Nat /\ o \in Nat /\ m \in Nat /\ o <= m
    BY <1>1, <1>4, <1>5
  <2>2. CASE o = m
    BY <1>6, <2>1, <2>2
  <2>3. CASE o < m
    <3>1. U[o] + graph.unique[o] <= U[m]
      BY <1>4, <2>3
    <3> QED
      BY <1>6, <1>7, <2>1, <3>1
  <2> QED
    BY <2>1, <2>2, <2>3
<1> QED
  BY <1>1, <1>2, <1>3, <1>4, <1>6, <1>7, <1>8

\* A stream comes before another by at least one slice.
LEMMA Slices ==
  ASSUME NEW a \in Nat, NEW x \in Nat, NEW y \in Nat, x < y
  PROVE  a * x \in Nat /\ a * y \in Nat /\ a * x + a <= a * y
<1>1. PICK d \in Nat : y = x + 1 + d
  <2>1. y - x - 1 \in Nat /\ y = x + 1 + (y - x - 1)
    OBVIOUS
  <2> QED
    BY <2>1
<1>2. a * x \in Nat /\ a * d \in Nat /\ a * y = a * x + a + a * d
  BY <1>1
<1> QED
  BY <1>2

\* The scratch memory of an operator on a stream lies in the workspace, when the
\* operator runs on the base stream or the graph has one kind of scratch memory only.
LEMMA ScratchInside ==
  ASSUME DetailInv, NEW o \in Ops, NEW s \in 0 .. ExtraStreams,
         s = 0 \/ UniqueSize = 0 \/ SharedSize = 0
  PROVE  Scratch(o, s) \subseteq 1 .. WorkspaceSize
<1>1. PICK S, U, E, w, q, f : /\ S = SharedSize /\ U = UniqueSize /\ E = ExtraStreams
                              /\ w = graph.workspace[o] /\ q = graph.unique[o]
                              /\ f = UniqueOffset[o]
  OBVIOUS
<1>2. /\ S \in Nat /\ U \in Nat /\ E \in Nat /\ w \in Nat /\ w <= S
      /\ q \in Nat /\ f \in Nat /\ f + q <= U /\ s \in 0 .. E
      /\ s = 0 \/ U = 0 \/ S = 0
  BY <1>1, ScratchSizes, ExtraStreamsAssumption
<1>3. PICK W : W = (S + U) * (E + 1)
  OBVIOUS
<1>4. W = S * (E + 1) + U * (E + 1) /\ W \div (E + 1) = S + U
  BY <1>2, <1>3
<1>5. Scratch(o, s) = (U * (E + 1) + (S + U) * s + 1 .. U * (E + 1) + (S + U) * s + w)
                      \cup (U * s + f + 1 .. U * s + f + q)
  BY <1>1, <1>3, <1>4 DEF Scratch, Region, WorkspaceSize
<1>6. /\ S * (E + 1) \in Nat /\ U * (E + 1) \in Nat /\ S * s \in Nat /\ U * s \in Nat
      /\ S * s + S <= S * (E + 1) /\ U * s + U <= U * (E + 1)
  <2>1. s \in Nat /\ E + 1 \in Nat /\ s < E + 1
    BY <1>2
  <2> QED
    BY <1>2, <2>1, Slices
<1>7. (S + U) * s = S * s + U * s
  BY <1>2
<1>8. s = 0 \/ U = 0 => U * s = 0
  BY <1>2
<1>9. S = 0 => w = 0
  BY <1>2
<1>10. PICK a, b, c, d : a = S * (E + 1) /\ b = U * (E + 1) /\ c = S * s /\ d = U * s
  OBVIOUS
<1>11. ASSUME NEW x \in b + (c + d) + 1 .. b + (c + d) + w PROVE x \in 1 .. a + b
  <2>1. /\ a \in Nat /\ b \in Nat /\ c \in Nat /\ d \in Nat /\ c + S <= a
        /\ w \in Nat /\ w <= S /\ (d = 0 \/ w = 0) /\ S \in Nat
    BY <1>2, <1>6, <1>8, <1>9, <1>10
  <2> QED
    BY <2>1
<1>12. ASSUME NEW x \in d + f + 1 .. d + f + q PROVE x \in 1 .. a + b
  <2>1. /\ a \in Nat /\ b \in Nat /\ d \in Nat /\ d + U <= b
        /\ f \in Nat /\ q \in Nat /\ f + q <= U /\ U \in Nat
    BY <1>2, <1>6, <1>10
  <2> QED
    BY <2>1
<1>13. Scratch(o, s) = (b + (c + d) + 1 .. b + (c + d) + w) \cup (d + f + 1 .. d + f + q)
  BY <1>5, <1>7, <1>10
<1>14. WorkspaceSize = a + b
  BY <1>1, <1>3, <1>4, <1>10 DEF WorkspaceSize
<1> QED
  BY <1>11, <1>12, <1>13, <1>14

\* Operators on two streams have their scratch memory apart when the graph has one
\* kind of it only.
LEMMA ScratchOfStreams ==
  ASSUME DetailInv, NEW o \in Ops, NEW p \in Ops, NEW s \in Nat, NEW z \in Nat, s < z,
         UniqueSize = 0 \/ SharedSize = 0
  PROVE  Scratch(o, s) \cap Scratch(p, z) = {}
<1>1. PICK S, U, E : S = SharedSize /\ U = UniqueSize /\ E = ExtraStreams
  OBVIOUS
<1>2. PICK w, q, f, v, r, g : /\ w = graph.workspace[o] /\ q = graph.unique[o] /\ f = UniqueOffset[o]
                              /\ v = graph.workspace[p] /\ r = graph.unique[p] /\ g = UniqueOffset[p]
  OBVIOUS
<1>3. /\ S \in Nat /\ U \in Nat /\ E \in Nat /\ (U = 0 \/ S = 0)
      /\ w \in Nat /\ w <= S /\ q \in Nat /\ f \in Nat /\ f + q <= U
      /\ v \in Nat /\ v <= S /\ r \in Nat /\ g \in Nat /\ g + r <= U
  BY <1>1, <1>2, ScratchSizes, ExtraStreamsAssumption
<1>4. ((S + U) * (E + 1)) \div (E + 1) = S + U
  BY <1>3
<1>5. /\ Scratch(o, s) = (U * (E + 1) + (S + U) * s + 1 .. U * (E + 1) + (S + U) * s + w)
                         \cup (U * s + f + 1 .. U * s + f + q)
      /\ Scratch(p, z) = (U * (E + 1) + (S + U) * z + 1 .. U * (E + 1) + (S + U) * z + v)
                         \cup (U * z + g + 1 .. U * z + g + r)
  BY <1>1, <1>2, <1>4 DEF Scratch, Region, WorkspaceSize
<1>6. CASE U = 0
  <2>1. U * (E + 1) = 0 /\ U * s = 0 /\ U * z = 0 /\ S + U = S /\ f = 0 /\ q = 0 /\ g = 0 /\ r = 0
    BY <1>3, <1>6
  <2>2. PICK a, b : a = S * s /\ b = S * z
    OBVIOUS
  <2>3. a \in Nat /\ b \in Nat /\ a + S <= b
    BY <1>3, <2>2, Slices
  <2>4. Scratch(o, s) = (a + 1 .. a + w) \cup (1 .. 0) /\ Scratch(p, z) = (b + 1 .. b + v) \cup (1 .. 0)
    <3>1. 0 + a + 1 = a + 1 /\ 0 + a + w = a + w /\ 0 + b + 1 = b + 1 /\ 0 + b + v = b + v
          /\ 0 + 0 + 1 = 1 /\ 0 + 0 + 0 = 0
      BY <1>3, <2>3
    <3> QED
      BY <1>5, <2>1, <2>2, <3>1
  <2>5. (a + 1 .. a + w) \cap (b + 1 .. b + v) = {} /\ 1 .. 0 = {}
    BY <1>3, <2>3
  <2> QED
    BY <2>4, <2>5
<1>7. CASE S = 0
  <2>1. w = 0 /\ v = 0 /\ S + U = U
    BY <1>3, <1>7
  <2>2. PICK a, b, c : a = U * s /\ b = U * z /\ c = U * (E + 1)
    OBVIOUS
  <2>3. a \in Nat /\ b \in Nat /\ c \in Nat /\ a + U <= b
    <3>1. U * (E + 1) \in Nat
      BY <1>3
    <3> QED
      BY <1>3, <2>2, <3>1, Slices
  <2>4. /\ Scratch(o, s) = (c + a + 1 .. c + a + 0) \cup (a + f + 1 .. a + f + q)
        /\ Scratch(p, z) = (c + b + 1 .. c + b + 0) \cup (b + g + 1 .. b + g + r)
    BY <1>5, <2>1, <2>2
  <2>5. /\ c + a + 1 .. c + a + 0 = {} /\ c + b + 1 .. c + b + 0 = {}
        /\ (a + f + 1 .. a + f + q) \cap (b + g + 1 .. b + g + r) = {}
    BY <1>3, <2>3
  <2> QED
    BY <2>4, <2>5
<1> QED
  BY <1>3, <1>6, <1>7

\* A graph with one kind of scratch memory has one part only.
LEMMA OneKindOfScratch ==
  ASSUME NEW f \in [Ops -> Nat], \A o \in Ops : f[o] = 0
  PROVE  Max({f[o] : o \in Ops}) = 0
<1>1. {f[o] : o \in Ops} = {0}
  BY GraphsAssumption
<1>2. {0} \in SUBSET Nat /\ \A k \in {0} : k <= 0
  OBVIOUS
<1> QED
  BY <1>1, <1>2, MaxIsGreatest

\* The scratch memory of running operators lies in the workspace and apart.  The
\* slice of a sub-stream is as large as all of a stream's scratch memory but begins
\* behind the unique part of all streams: it needs that a graph that runs on
\* several streams has one kind of scratch memory only.
THEOREM ScratchApartCorrect ==
  ASSUME \/ 1 \notin Modes \/ ExtraStreams = 0
         \/ \A g \in Graphs : \/ \A o \in Ops : g.unique[o] = 0
                              \/ \A o \in Ops : g.workspace[o] = 0
  PROVE  RunSpec => []ScratchApart
<1>1. ASSUME DetailInv PROVE mode = 0 \/ ExtraStreams = 0 \/ UniqueSize = 0 \/ SharedSize = 0
  <2>1. /\ graph \in Graphs /\ mode \in Modes /\ mode \in {0, 1}
        /\ graph.workspace \in [Ops -> Nat] /\ graph.unique \in [Ops -> Nat]
    BY <1>1, GraphsAssumption DEF DetailInv, ScheduleInv
  <2>2. CASE \A o \in Ops : graph.unique[o] = 0
    <3>1. PICK m \in Ops : m = Max(Ops)
      BY <2>1, UniqueFacts
    <3>2. UniqueSize = UniqueOffset[m] + 0
      BY <2>2, <3>1 DEF UniqueSize
    <3>3. UniqueOffset[m] = 0
      BY <2>1, <2>2, <3>1, UniqueFacts, Recursive
    <3> QED
      BY <3>2, <3>3
  <2>3. CASE \A o \in Ops : graph.workspace[o] = 0
    BY <2>1, <2>3, OneKindOfScratch DEF SharedSize
  <2> QED
    BY <2>1, <2>2, <2>3
<1>2. RunInv => ScratchApart
  <2> SUFFICES ASSUME RunInv, NEW j \in DOMAIN Current, NEW k \in DOMAIN Current,
                      Current[j] \in Running, Current[k] \in Running
               PROVE  /\ Scratch(Current[j], StreamOf(j)) \subseteq 1 .. WorkspaceSize
                      /\ j # k => Scratch(Current[j], StreamOf(j))
                                    \cap Scratch(Current[k], StreamOf(k)) = {}
    BY DEF ScratchApart
  <2>1. DetailInv
    BY DEF RunInv
  <2>2. /\ step \in DOMAIN steps /\ Current = steps[step]
        /\ Current[j] \in Ops /\ Current[k] \in Ops
    BY CurrentIs
  <2>3. /\ steps \in Seq(Seq(Ops)) /\ mode \in Modes
        /\ mode = 0 => Len(steps[step]) = 1
    BY <2>1, <2>2 DEF DetailInv, ScheduleInv
  <2>4. /\ DOMAIN steps[step] = 1 .. Len(steps[step]) /\ j \in Nat \ {0} /\ k \in Nat \ {0}
    BY <2>2, <2>3, Groups
  <2>5. mode = 0 => j = 1 /\ k = 1
    BY <2>2, <2>3, <2>4
  <2>6. ASSUME NEW x \in Nat \ {0}
        PROVE  /\ StreamOf(x) \in 0 .. ExtraStreams
               /\ x = 1 \/ ExtraStreams = 0 => StreamOf(x) = 0
    <3>1. ExtraStreams + 1 \in Nat \ {0} /\ x - 1 \in Nat
      BY ExtraStreamsAssumption
    <3> QED
      BY <3>1, ExtraStreamsAssumption DEF StreamOf
  <2>7. StreamOf(j) = 0 \/ UniqueSize = 0 \/ SharedSize = 0
    BY <1>1, <2>1, <2>4, <2>5, <2>6
  <2>8. Scratch(Current[j], StreamOf(j)) \subseteq 1 .. WorkspaceSize
    BY <2>1, <2>2, <2>4, <2>6, <2>7, ScratchInside
  <2>9. ASSUME NEW x \in DOMAIN Current, NEW y \in DOMAIN Current, x < y,
               Current[x] \in Running, Current[y] \in Running
        PROVE  StreamOf(x) # StreamOf(y)
    BY <2>2, <2>9 DEF RunInv, StreamsInOrder, Running
  <2>10. ASSUME j # k
         PROVE  Scratch(Current[j], StreamOf(j)) \cap Scratch(Current[k], StreamOf(k)) = {}
    <3>1. StreamOf(j) # StreamOf(k)
      BY <2>4, <2>9, <2>10
    <3>2. StreamOf(j) \in Nat /\ StreamOf(k) \in Nat
      BY <2>4, <2>6, ExtraStreamsAssumption
    <3>3. UniqueSize = 0 \/ SharedSize = 0
      <4>1. mode # 0
        BY <2>5, <2>10
      <4>2. ExtraStreams # 0
        BY <2>4, <2>6, <3>1
      <4> QED
        BY <1>1, <2>1, <4>1, <4>2
    <3>4. CASE StreamOf(j) < StreamOf(k)
      BY <2>1, <2>2, <3>2, <3>3, <3>4, ScratchOfStreams
    <3>5. CASE StreamOf(k) < StreamOf(j)
      BY <2>1, <2>2, <3>2, <3>3, <3>5, ScratchOfStreams
    <3> QED
      BY <3>1, <3>2, <3>4, <3>5
  <2> QED
    BY <2>8, <2>10
<1> QED
  BY <1>2, RunInvariant, PTL
=============================================================================
