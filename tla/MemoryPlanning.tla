---------------------------- MODULE MemoryPlanning ----------------------------
(***************************************************************************)
(* Memory planning (compiler/transform/memory_planning.py): the schedule   *)
(* of the operators, the usage records of the tensors and the greedy       *)
(* placement of the tensors in one block of memory.                        *)
(*                                                                         *)
(* A graph is a record: inputs and outputs give the tensors of an          *)
(* operator, size the bytes of a tensor (in units of the alignment),       *)
(* view the tensor it is a view of (itself if it is none), results the     *)
(* tensors marked is_output, workspace and unique the scratch memory of an *)
(* operator.  Weights and inputs of the graph, which the planner skips,    *)
(* are left out.  Operators and tensors are numbers, in the order of       *)
(* sorted_graph.                                                           *)
(***************************************************************************)
EXTENDS Integers, Sequences, FiniteSets, FiniteSetsExt

CONSTANTS
  Ops, Tensors,  \* operators and tensors, 1 .. n each
  Graphs,        \* the graphs that are compiled
  Modes,         \* of AIT_MULTISTREAM_MODE: 0 or 1
  MaxParallel    \* AIT_MULTISTREAM_MAX_MEM_PARALLEL_OPS

ASSUME GraphsAssumption ==
  /\ Cardinality(Ops) \in Nat \ {0} /\ Ops = 1 .. Cardinality(Ops)
  /\ Cardinality(Tensors) \in Nat /\ Tensors = 1 .. Cardinality(Tensors)
  /\ \A g \in Graphs :
       /\ g.inputs \in [Ops -> SUBSET Tensors] /\ g.outputs \in [Ops -> SUBSET Tensors]
       /\ g.size \in [Tensors -> Nat] /\ g.view \in [Tensors -> Tensors]
       /\ g.results \subseteq Tensors
       /\ g.workspace \in [Ops -> Nat] /\ g.unique \in [Ops -> Nat]
  /\ Modes \subseteq {0, 1} /\ MaxParallel \in Nat \ {0}

\* What the passes before hand over.  Every operator makes something, and every
\* tensor that is no weight and no input of the graph is made by an operator.
\* toposort puts what an operator reads before what it makes, so the producers of
\* what it reads come before it.  A view is made by an operator that reads what
\* is viewed (view_ops.py, identity.py), and it is no larger.
ASSUME SortedAssumption ==
  \A g \in Graphs :
    /\ \A o \in Ops : g.outputs[o] # {}
    /\ \A t \in Tensors : \E o \in Ops : t \in g.outputs[o]
    /\ \A o \in Ops : \A t \in g.inputs[o] :
         /\ \A u \in g.outputs[o] : t < u
         /\ \A w \in Ops : t \in g.outputs[w] => w < o
    /\ \A t \in Tensors : g.view[t] # t =>
         /\ g.size[t] <= g.size[g.view[t]]
         /\ \A w \in Ops : t \in g.outputs[w] => g.view[t] \in g.inputs[w]

NoTensor == 0
NoOffset == -1

VARIABLES
  graph, mode,
  phase,     \* "schedule", "place", "planned"
  steps,     \* the groups of operators that run side by side
  record,    \* per tensor, the TensorUsageRecord
  unplaced,  \* records the placement has not come to
  assigned,  \* sorted_assigned_records
  offset,    \* per tensor, _attrs["offset"]
  maxBlob,   \* max_blob
  cur, i, prevOffset, bestOffset, smallestGap  \* locals of the placement

input  == <<graph, mode>>
locals == <<cur, i, prevOffset, bestOffset, smallestGap>>
vars   == <<input, phase, steps, record, unplaced, assigned, offset, maxBlob, locals>>

Uses(o)    == graph.inputs[o] \cup graph.outputs[o]
Writers(t) == {o \in Ops : t \in graph.outputs[o]}

\* _find_original_tensor
Original[t \in Tensors] == IF graph.view[t] = t THEN t ELSE Original[graph.view[t]]

----------------------------------------------------------------------------
(* The schedule.                                                           *)

\* track_graph_timings: the round in which an operator has all its inputs.
Round[o \in Ops] ==
  LET before == {w \in Ops : w < o /\ graph.outputs[w] \cap graph.inputs[o] # {}}
  IN  IF before = {} THEN 0 ELSE 1 + Max({Round[w] : w \in before})

Scheduled == UNION {{steps[k][j] : j \in DOMAIN steps[k]} : k \in DOMAIN steps}

\* Mutant: a full group takes operators of the next round too.
GroupIgnoringRounds(o) ==
  IF steps # <<>> /\ Len(steps[Len(steps)]) < MaxParallel
  THEN [steps EXCEPT ![Len(steps)] = Append(@, o)]
  ELSE Append(steps, <<o>>)

\* split_simple_multistream_parallel_ops: groups of one round, none too large.
Group(o) ==
  IF /\ steps # <<>> /\ Len(steps[Len(steps)]) < MaxParallel
     /\ Round[steps[Len(steps)][1]] = Round[o]
  THEN [steps EXCEPT ![Len(steps)] = Append(@, o)]
  ELSE Append(steps, <<o>>)

\* The operators of a round come in the order of a Python set.
ScheduleParallel(o) ==
  /\ phase = "schedule" /\ mode = 1
  /\ o \notin Scheduled
  /\ \A p \in Ops \ Scheduled : Round[o] <= Round[p]
  /\ steps' = Group(o)
  /\ UNCHANGED <<input, phase, record, unplaced, assigned, offset, maxBlob, locals>>

\* sorted_ops: the operators tensor by tensor; one with several outputs comes
\* several times.
Occurrences == {a \in Tensors \X Ops : a[2] \in Writers(a[1])}
Earlier(a)  == {b \in Occurrences : b[1] < a[1] \/ (b[1] = a[1] /\ b[2] < a[2])}

ScheduleSequential ==
  /\ phase = "schedule" /\ mode = 0 /\ steps = <<>>
  /\ steps' = [k \in 1 .. Cardinality(Occurrences) |->
                 <<(CHOOSE a \in Occurrences : Cardinality(Earlier(a)) = k - 1)[2]>>]
  /\ UNCHANGED <<input, phase, record, unplaced, assigned, offset, maxBlob, locals>>

----------------------------------------------------------------------------
(* Usage records.                                                          *)

\* The steps with an operator that uses one of the tensors.
UsedAt(T) == {k \in DOMAIN steps : \E j \in DOMAIN steps[k] : Uses(steps[k][j]) \cap T # {}}

\* Views extend the life of their original, and results live to the last step.
LastUse(t) ==
  LET aliases == {t} \cup {u \in Tensors : Original[u] = t}
  IN  IF aliases \cap graph.results # {} THEN Len(steps) ELSE Max(UsedAt(aliases))

\* _make_tensor_usage_records and its multi-stream form: none for a view.
MakeTensorUsageRecords ==
  /\ phase = "schedule" /\ Scheduled = Ops
  /\ record' = [t \in Tensors |-> [first |-> Min(UsedAt({t})), last |-> LastUse(t),
                                   size |-> graph.size[t]]]
  /\ unplaced' = {t \in Tensors : graph.view[t] = t}
  /\ phase' = "place"
  /\ UNCHANGED <<input, steps, assigned, offset, maxBlob, locals>>

----------------------------------------------------------------------------
(* _greedy_by_size_memory_planning                                         *)

\* Largest first.
TakeLargest(t) ==
  /\ phase = "place" /\ cur = NoTensor
  /\ t \in unplaced /\ \A u \in unplaced : record[u].size <= record[t].size
  /\ cur' = t /\ unplaced' = unplaced \ {t}
  /\ i' = 1 /\ prevOffset' = 0 /\ bestOffset' = NoOffset /\ smallestGap' = 0
  /\ UNCHANGED <<input, phase, steps, record, assigned, offset, maxBlob>>

\* The two tensors are alive at the same time.
Overlap(t, u) == record[t].first <= record[u].last /\ record[u].first <= record[t].last

End(t) == offset[t] + record[t].size

\* Mutant: the gap need not be large enough.
GapTooSmall(gap) == bestOffset = NoOffset \/ gap < smallestGap

FitsBetter(gap) ==
  record[cur].size <= gap /\ (bestOffset = NoOffset \/ gap < smallestGap)

\* Mutant: a short record hides the end of a longer one before it.
AdvanceToLast(a) == End(a)

Advance(a) == IF End(a) > prevOffset THEN End(a) ELSE prevOffset

\* One turn of the loop over the records placed before.
ScanRecord ==
  /\ phase = "place" /\ cur # NoTensor /\ i <= Len(assigned)
  /\ LET a   == assigned[i]
         gap == offset[a] - prevOffset
     IN  IF Overlap(cur, a)
         THEN /\ IF FitsBetter(gap)
                 THEN smallestGap' = gap /\ bestOffset' = prevOffset
                 ELSE UNCHANGED <<smallestGap, bestOffset>>
              /\ prevOffset' = Advance(a)
         ELSE UNCHANGED <<smallestGap, bestOffset, prevOffset>>
  /\ i' = i + 1
  /\ UNCHANGED <<input, phase, steps, record, unplaced, assigned, offset, maxBlob, cur>>

\* Mutant: the block grows to where the last tensor begins.
BlobUpTo(best) == IF best > maxBlob THEN best ELSE maxBlob

BlobWith(best) == IF best + record[cur].size > maxBlob THEN best + record[cur].size ELSE maxBlob

\* The tensor goes to the best gap or behind the last record, and its record to
\* its place (bisect_right) in the order of offsets.
Place(k) ==
  /\ phase = "place" /\ cur # NoTensor /\ i > Len(assigned)
  /\ LET best == IF bestOffset = NoOffset THEN prevOffset ELSE bestOffset
     IN  /\ \A j \in DOMAIN assigned : j <= k <=> offset[assigned[j]] <= best
         /\ offset' = [offset EXCEPT ![cur] = best]
         /\ maxBlob' = BlobWith(best)
  /\ assigned' = [j \in 1 .. Len(assigned) + 1 |->
                    IF j <= k THEN assigned[j] ELSE IF j = k + 1 THEN cur ELSE assigned[j - 1]]
  /\ cur' = NoTensor
  /\ UNCHANGED <<input, phase, steps, record, unplaced, i, prevOffset, bestOffset, smallestGap>>

\* assign_offsets_to_views_and_outputs
AssignOffsetsToViews ==
  /\ phase = "place" /\ cur = NoTensor /\ unplaced = {}
  /\ offset' = [t \in Tensors |-> IF graph.view[t] = t THEN offset[t] ELSE offset[Original[t]]]
  /\ phase' = "planned"
  /\ UNCHANGED <<input, steps, record, unplaced, assigned, maxBlob, locals>>

----------------------------------------------------------------------------
(* _compute_workspace: operators share scratch memory or have their own.   *)

SharedSize == Max({graph.workspace[o] : o \in Ops})

UniqueOffset[o \in Ops] ==
  IF o = Min(Ops) THEN 0 ELSE UniqueOffset[o - 1] + graph.unique[o - 1]
UniqueSize == UniqueOffset[Max(Ops)] + graph.unique[Max(Ops)]

----------------------------------------------------------------------------

Init ==
  /\ graph \in Graphs /\ mode \in Modes
  /\ phase = "schedule" /\ steps = <<>>
  /\ record = [t \in Tensors |-> [first |-> 0, last |-> 0, size |-> 0]]
  /\ unplaced = {} /\ assigned = <<>>
  /\ offset = [t \in Tensors |-> 0] /\ maxBlob = 0
  /\ cur = NoTensor /\ i = 1 /\ prevOffset = 0 /\ bestOffset = NoOffset /\ smallestGap = 0

Next ==
  \/ \E o \in Ops : ScheduleParallel(o)
  \/ ScheduleSequential
  \/ MakeTensorUsageRecords
  \/ \E t \in Tensors : TakeLargest(t)
  \/ ScanRecord
  \/ \E k \in 0 .. Len(assigned) : Place(k)
  \/ AssignOffsetsToViews

Spec == Init /\ [][Next]_vars

----------------------------------------------------------------------------
(* Properties.                                                             *)

TypeOK ==
  /\ mode \in Modes
  /\ phase \in {"schedule", "place", "planned"}
  /\ \A k \in DOMAIN steps : Len(steps[k]) \in 1 .. MaxParallel
  /\ record \in [Tensors -> [first : 0 .. Len(steps), last : 0 .. Len(steps), size : Nat]]
  /\ unplaced \subseteq Tensors /\ assigned \in Seq(Tensors)
  /\ offset \in [Tensors -> Nat] /\ maxBlob \in Nat
  /\ cur \in Tensors \cup {NoTensor} /\ i \in 1 .. Len(assigned) + 1
  /\ prevOffset \in Nat /\ bestOffset \in Nat \cup {NoOffset} /\ smallestGap \in Nat

Placed == {assigned[j] : j \in DOMAIN assigned}

\* Tensors alive at the same step are placed apart.  (The greedy loop looks at
\* the gap to the previous overlapping record only.)
PlacedApart ==
  \A t, u \in Placed :
    t # u /\ Overlap(t, u) => End(t) <= offset[u] \/ End(u) <= offset[t]

\* The block is as large as its tensors need.
BlobLargeEnough == \A t \in Placed : End(t) <= maxBlob
=============================================================================
