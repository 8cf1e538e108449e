-------------------------- MODULE ElementwiseFusion --------------------------
(***************************************************************************)
(* fuse_elementwise of compiler/transform/fuse_ops.py: the elementwise ops *)
(* of a graph are gathered in groups, each group is split by the shapes of *)
(* its outputs, every part becomes one fused_elementwise, and the graph is *)
(* sorted and cleaned up again.                                            *)
(*                                                                         *)
(* Every op of the original graph makes one tensor and has its number; ops *)
(* are numbered in the order of their tensors in sorted_graph.  Tensor 0   *)
(* stands for the inputs of the model.  Ops above NumOps are fused ones.   *)
(***************************************************************************)
EXTENDS Integers, FiniteSets, SequencesExt

CONSTANTS
  NumOps,
  Shapes,
  Graphs      \* the graphs: what each op reads, which ops are elementwise, which
              \* tensors are outputs of the model, and the shapes

Ops     == 1..NumOps
Tensors == 0..NumOps

ASSUME FusionAssumption ==
  /\ NumOps \in Nat
  /\ \A g \in Graphs :
       /\ g \in [reads : [Ops -> SUBSET Tensors], elementwise : SUBSET Ops,
                 outputs : SUBSET Ops, shape : [Ops -> Shapes]]
       /\ \A o \in Ops : g.reads[o] # {} /\ g.reads[o] \subseteq 0..(o - 1)
       \* sorted_graph holds what toposort found from the outputs.
       /\ \A o \in Ops : o \in g.outputs \/ \E q \in Ops : o \in g.reads[q]

VARIABLES
  graph,
  src, dst,      \* _attrs["src_ops"] and _attrs["dst_ops"] of each tensor
  group,         \* node_to_set_mapping; {}: the op is not in it
  at,            \* the op whose add is next or under way
  cur, todo,     \* current_set, and the dependent_nodes still to be looked at
  fused,         \* the fused_elementwise ops: what they stand for, read and make
  left,          \* the groups that are not fused yet
  kept,          \* the tensors that toposort and sanitize_sorted_graph return
  phase          \* "group", "merge", "fuse", "done", or the error raised

vars == <<graph, src, dst, group, at, cur, todo, fused, left, kept, phase>>

Reads(o)   == IF o \in Ops THEN graph.reads[o] ELSE fused[o - NumOps].ins
Parents(o) == UNION {src[t] : t \in Reads(o)}
Present    == Ops \cup {NumOps + i : i \in DOMAIN fused}

\* is_ancestor looks from op to op through src_ops.
Ancestors(o) ==
  LET up[n \in 0..NumOps] ==
        IF n = 0 THEN Parents(o)
        ELSE LET s == up[n - 1] IN s \cup UNION {Parents(p) : p \in s}
  IN up[NumOps]

Init ==
  /\ graph \in Graphs
  /\ src = [t \in Tensors |-> {t} \ {0}]
  /\ dst = [t \in Tensors |-> {o \in Ops : t \in graph.reads[o]}]
  /\ group = [o \in Ops |-> {}]
  /\ at = 1 /\ cur = {} /\ todo = {}
  /\ fused = <<>> /\ left = {} /\ kept = {} /\ phase = "group"

----------------------------------------------------------------------------
(* SimpleDisjointSet                                                       *)

\* _find_fusable_elementwise_ops: the parents of an op that it may be fused with.
\* What another op or the caller needs stays apart, so does what is also further
\* up, and so does whatever is above an op that stays apart.
Fusable(o) ==
  LET parents  == Parents(o)
      needed   == {p \in parents : \/ p \notin graph.elementwise
                                   \/ p \in graph.outputs
                                   \/ ~(dst[p] \subseteq graph.elementwise)}
      further  == {p \in parents : \E q \in parents \ {p} :
                                     p \in Ancestors(q) /\ p \notin Parents(q)}
      apart    == needed \cup further
  IN {p \in parents \ apart : \A q \in apart : p \notin Ancestors(q)}

\* Mutant: groups are joined without the test.
DetectCycleNever(g) == FALSE

\* _detect_cycle: an op outside that a member reads depends on a member.
DetectCycle(g) ==
  \E q \in (UNION {Parents(o) : o \in g}) \ g : Ancestors(q) \cap g # {}

\* fuse_elementwise looks at the next tensor.
Add ==
  /\ phase = "group" /\ at <= NumOps
  /\ IF at \in graph.elementwise
     THEN cur' = {at} /\ todo' = Fusable(at) /\ phase' = "merge" /\ UNCHANGED at
     ELSE at' = at + 1 /\ UNCHANGED <<cur, todo, phase>>
  /\ UNCHANGED <<graph, src, dst, group, fused, left, kept>>

\* Mutant: the sets that joined before are not updated.
MergeOnlyNew(d) ==
  /\ phase = "merge" /\ d \in todo
  /\ todo' = todo \ {d}
  /\ LET joined == cur \cup group[d]
     IN IF group[d] = {} \/ DetectCycle(joined)
        THEN UNCHANGED <<cur, group>>
        ELSE /\ cur' = joined
             /\ group' = [o \in Ops |-> IF o \in group[d] THEN joined ELSE group[o]]
  /\ UNCHANGED <<graph, src, dst, at, fused, left, kept, phase>>

\* One dependent, in the order of a Python set: its group joins unless that makes
\* a cycle.
Merge(d) ==
  /\ phase = "merge" /\ d \in todo
  /\ todo' = todo \ {d}
  /\ LET joined == cur \cup group[d]
     IN IF group[d] = {} \/ DetectCycle(joined)
        THEN UNCHANGED <<cur, group>>
        ELSE /\ cur' = joined
             /\ group' = [o \in Ops |-> IF o \in joined \ {at} THEN joined ELSE group[o]]
  /\ UNCHANGED <<graph, src, dst, at, fused, left, kept, phase>>

Added ==
  /\ phase = "merge" /\ todo = {}
  /\ group' = [o \in Ops |-> IF o \in cur THEN cur ELSE group[o]]
  /\ at' = at + 1 /\ cur' = {} /\ phase' = "group"
  /\ UNCHANGED <<graph, src, dst, todo, fused, left, kept>>

Grouped ==
  /\ phase = "group" /\ at = NumOps + 1
  /\ left' = {group[o] : o \in Ops} \ {{}}
  /\ phase' = "fuse"
  /\ UNCHANGED <<graph, src, dst, group, at, cur, todo, fused, kept>>

----------------------------------------------------------------------------
(* _partition_subgraphs, _collect_info and _create_fuse_ops                *)

\* Mutant: what only another op reads is not an output.
ExternalOnlyOutputs(ops, all) == {o \in ops : o \in graph.outputs}

\* The members whose tensors are needed outside.
External(ops, all) == {o \in ops : o \in graph.outputs \/ ~(dst[o] \subseteq all)}

\* Mutant: the parents of the outputs, and not what is further up.
PartOfParents(g, outs) == {o \in g : o \in outs \/ \E q \in outs : o \in Parents(q)}

\* The ops that make the given outputs.
Part(g, outs) == {o \in g : o \in outs \/ \E q \in outs : o \in Ancestors(q)}

ReadBy(ops) == UNION {Reads(o) : o \in ops}

\* One part for each shape of an output.
PartsOf(g) ==
  LET outs == External(g, g)
  IN {Part(g, {o \in outs : graph.shape[o] = s}) : s \in {graph.shape[o] : o \in outs}}

\* The op that takes the place of a part.
FusedOp(ops, all) ==
  [ops  |-> ops,
   ins  |-> {t \in ReadBy(ops) : src[t] = {} \/ ~(src[t] \subseteq all)},
   outs |-> External(ops, all)]

\* The assertions of _get_inputs_outputs, and that of _collect_info: sorted_graph has
\* everything that an op of the part reads.
Asserted(f) ==
  /\ \A o \in f.ops : /\ \A t \in Reads(o) : o \in dst[t]
                      /\ src[o] = {o}
                      /\ Reads(o) \subseteq Tensors
  /\ f.ins = ReadBy(f.ops) \ f.ops
  /\ f.ops \ ReadBy(f.ops) \subseteq f.outs
  /\ f.outs \subseteq f.ops

\* The groups come in the order of their first ops.
IsNextGroup(g) == \A h \in left : \E o \in g : \A q \in h : o <= q

FuseGroup(g) ==
  /\ phase = "fuse" /\ g \in left /\ IsNextGroup(g)
  /\ LET new      == SetToSeq({FusedOp(p, g) : p \in PartsOf(g)})
         newId(i) == NumOps + Len(fused) + i
         gone     == UNION {new[i].ops : i \in DOMAIN new}
     IN CASE \E i \in DOMAIN new : ~Asserted(new[i]) ->
               phase' = "assertion failed" /\ UNCHANGED <<src, dst, fused, left>>
          [] \E i \in DOMAIN new : \E o, q \in new[i].outs : graph.shape[o] # graph.shape[q] ->
               phase' = "shapes differ" /\ UNCHANGED <<src, dst, fused, left>>
          [] OTHER ->
               /\ fused' = fused \o new
               /\ src' = [t \in Tensors |->
                            (src[t] \ gone) \cup {newId(i) : i \in {j \in DOMAIN new : t \in new[j].outs}}]
               /\ dst' = [t \in Tensors |->
                            (dst[t] \ gone) \cup {newId(i) : i \in {j \in DOMAIN new : t \in new[j].ins}}]
               /\ left' = left \ {g}
               /\ UNCHANGED phase
  /\ UNCHANGED <<graph, group, at, cur, todo, kept>>

----------------------------------------------------------------------------
(* toposort and sanitize_sorted_graph                                      *)

\* A tensor is sorted once everything that its ops read is: what is on a cycle or
\* behind one never is, and _priSort ends without it.
Sorted ==
  LET ready[n \in 0..NumOps + 1] ==
        IF n = 0 THEN {}
        ELSE LET s == ready[n - 1]
             IN {t \in Tensors : \A o \in src[t] : Reads(o) \subseteq s}
  IN ready[NumOps + 1]

Sort ==
  /\ phase = "fuse" /\ left = {}
  /\ kept' = {t \in Sorted : src[t] # {} \/ dst[t] # {} \/ t = 0 \/ t \in graph.outputs}
  /\ phase' = "done"
  /\ UNCHANGED <<graph, src, dst, group, at, cur, todo, fused, left>>

Next == \/ Add \/ Added \/ Grouped \/ Sort
        \/ \E d \in Ops : Merge(d)
        \/ \E g \in left : FuseGroup(g)

Spec == Init /\ [][Next]_vars

----------------------------------------------------------------------------
TypeOK ==
  /\ src \in [Tensors -> SUBSET Present] /\ dst \in [Tensors -> SUBSET Present]
  /\ group \in [Ops -> SUBSET graph.elementwise]
  /\ at \in 1..(NumOps + 1)
  /\ cur \subseteq graph.elementwise /\ todo \subseteq graph.elementwise
  /\ \A i \in DOMAIN fused : fused[i] \in [ops : SUBSET graph.elementwise,
                                           ins : SUBSET Tensors, outs : SUBSET Ops]
  /\ left \subseteq SUBSET graph.elementwise
  /\ kept \subseteq Tensors
  /\ phase \in {"group", "merge", "fuse", "done", "assertion failed", "shapes differ"}
  \* The groups are those of a disjoint set.
  /\ \A o \in Ops : group[o] # {} =>
       (group[o] \ {at}) = {q \in Ops \ {at} : group[q] = group[o]}

\* Fusing one group alone never makes a cycle: no path between two of its members
\* leaves it, although it has grown by the union of whole groups (_detect_cycle).
GroupsAreConvex ==
  phase = "group" =>
    \A g \in {group[o] : o \in Ops} :
      \A p \in (UNION {Ancestors(o) : o \in g}) \ g : Ancestors(p) \cap g = {}

\* The assertions of _get_inputs_outputs and _collect_info never fail, whichever
\* groups were fused before: the graph still names the ops of a part as the one maker
\* of what they make and as readers of what they read, and a part reads what it makes
\* itself or what an op outside of its group makes.
AssertionsHold == phase # "assertion failed"

\* After the fusion every tensor that an op reads or that the caller gets has exactly
\* one op that makes it, also where a group was split and an op belongs to two parts.
OneProducer ==
  phase \in {"fuse", "done"} /\ left = {} =>
    \A t \in Ops :
      t \in graph.outputs \/ (\E o \in Present : src[t] # {t} /\ o \in dst[t]) =>
        Cardinality(src[t]) = 1

\* No output gets lost: sanitize_sorted_graph promises that inputs and outputs are
\* always kept (transform_utils.py:260).
OutputsKept == phase = "done" => graph.outputs \subseteq kept
=============================================================================
