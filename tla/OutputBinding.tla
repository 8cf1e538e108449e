----------------------------- MODULE OutputBinding -----------------------------
(***************************************************************************)
(* Where the outputs of a compiled graph live.  An output may be a view of *)
(* an internal tensor, of an input, of a constant or of another output, so *)
(* two graph passes (transform/mark_param_tensor.py) mark the tensors that *)
(* share memory, code generation (backend/codegen.py) points a tensor to   *)
(* the client's memory, to that of another tensor or to the block of the   *)
(* Model, and some outputs are copied when the kernels are done.           *)
(*                                                                         *)
(* A graph is a record: kind is "input", "constant" or "computed" (by a    *)
(* kernel), view the tensor it is a view of (itself if it is none),        *)
(* outputs the tensors marked is_output.  Tensors are numbers, in the      *)
(* order of sorted_graph.  Views of constants have been folded.            *)
(***************************************************************************)
EXTENDS Integers, FiniteSets, FiniteSetsExt

CONSTANTS Tensors, Graphs

ASSUME BindingAssumption ==
  /\ IsFiniteSet(Tensors) /\ Tensors = 1 .. Cardinality(Tensors)
  /\ \A g \in Graphs :
       /\ g \in [kind : [Tensors -> {"input", "constant", "computed"}],
                 view : [Tensors -> Tensors], outputs : SUBSET Tensors]
       /\ \A t \in Tensors : g.view[t] <= t /\ (g.view[t] # t => g.kind[t] = "computed")

None == 0

VARIABLES
  graph,
  phase,     \* the pass that comes next
  hasAlias,  \* per tensor, _attrs["has_output_aliases"]
  external,  \* per tensor, _attrs["external_tensor"]
  index,     \* output_name_to_idx: per tensor, the output whose memory is its own
  address,   \* per tensor, where its pointer points to
  copies,    \* device_to_device_copies: from a tensor to the memory of an output
  client     \* per output, the tensor whose values the client's memory holds

vars == <<graph, phase, hasAlias, external, index, address, copies, client>>

IsView(t)   == graph.view[t] # t
ViewsOf(t)  == {v \in Tensors : v # t /\ graph.view[v] = t}
IsOutput(t) == t \in graph.outputs

Original[t \in Tensors] == IF IsView(t) THEN Original[graph.view[t]] ELSE t

----------------------------------------------------------------------------

\* mark_param_tensor visits the views of a tensor from the last to the first,
\* and each one sets has_output_aliases anew.
AliasMarks(t) ==
  LET marks[u \in Tensors] ==
        /\ ViewsOf(u) # {}
        /\ IsOutput(Min(ViewsOf(u))) \/ marks[Min(ViewsOf(u))]
  IN  marks[t]

MarkParamTensor ==
  /\ phase = "mark_param_tensor"
  /\ hasAlias' = [t \in Tensors |-> AliasMarks(t)]
  /\ phase' = "mark_special_views"
  /\ UNCHANGED <<graph, external, index, address, copies, client>>

\* Mutant: a view of a view of an input or output is not special.
ExternalDirect(t) ==
  IF IsView(t) /\ (graph.kind[graph.view[t]] # "computed" \/ IsOutput(graph.view[t]))
  THEN graph.view[t] ELSE None

\* mark_special_views: the input, constant or output that the tensor is a view
\* of, directly or through other views.
External(t) ==
  LET ext[u \in Tensors] ==
        IF ~IsView(u) THEN None
        ELSE IF ext[graph.view[u]] # None THEN ext[graph.view[u]]
        ELSE IF graph.kind[graph.view[u]] # "computed" \/ IsOutput(graph.view[u])
             THEN graph.view[u] ELSE None
  IN  ext[t]

MarkSpecialViews ==
  /\ phase = "mark_special_views"
  /\ external' = [t \in Tensors |-> External(t)]
  /\ phase' = "codegen"
  /\ UNCHANGED <<graph, hasAlias, index, address, copies, client>>

\* _construct_output_name_to_index_map: an index is handed on to the tensor
\* that is viewed, unless that one has an index already.
OutputIndex(t) ==
  LET idx[u \in Tensors] ==
        IF IsOutput(u) THEN u
        ELSE LET indexed == {v \in ViewsOf(u) : idx[v] # None}
             IN  IF indexed = {} THEN None ELSE idx[Max(indexed)]
  IN  idx[t]

Place(kind, t) == [kind |-> kind, tensor |-> t]

\* append_tensor: views point to where the viewed tensor is.
Address(t) ==
  LET u == Original[t]
  IN  IF graph.kind[u] # "computed" THEN Place(graph.kind[u], u)
      ELSE IF IsOutput(u) \/ hasAlias[u] THEN Place("client", OutputIndex(u))
      ELSE Place("block", u)

\* Outputs that are constants or inputs, or have an external tensor, are copied.
Copied(o) == external[o] # None \/ graph.kind[o] # "computed"

AppendAllTensors ==
  /\ phase = "codegen"
  /\ index' = [t \in Tensors |-> OutputIndex(t)]
  /\ address' = [t \in Tensors |-> Address(t)]
  /\ copies' = {[from |-> IF external[o] # None THEN external[o] ELSE o, to |-> o] :
                  o \in {p \in graph.outputs : Copied(p)}}
  /\ phase' = "run"
  /\ UNCHANGED <<graph, hasAlias, external, client>>

\* The kernels write every computed tensor where its pointer points to.
RunImpl ==
  /\ phase = "run"
  /\ client' = [o \in Tensors |->
       LET here == {t \in Tensors : /\ ~IsView(t) /\ graph.kind[t] = "computed"
                                    /\ address[t] = Place("client", o)}
       IN  IF here = {} THEN client[o] ELSE Max(here)]
  /\ phase' = "copy"
  /\ UNCHANGED <<graph, hasAlias, external, index, address, copies>>

\* What a copy finds at an address.
Held(a) == IF a.kind = "client" THEN client[a.tensor] ELSE a.tensor

DeviceToDeviceCopies ==
  /\ phase = "copy"
  /\ client' = [o \in Tensors |->
       LET mine == {c \in copies : c.to = o}
       IN  IF mine = {} THEN client[o]
           ELSE Held(address[(CHOOSE c \in mine : TRUE).from])]
  /\ phase' = "done"
  /\ UNCHANGED <<graph, hasAlias, external, index, address, copies>>

----------------------------------------------------------------------------

Init ==
  /\ graph \in Graphs /\ phase = "mark_param_tensor"
  /\ hasAlias = [t \in Tensors |-> FALSE]
  /\ external = [t \in Tensors |-> None]
  /\ index = [t \in Tensors |-> None]
  /\ address = [t \in Tensors |-> Place("block", t)]
  /\ copies = {}
  /\ client = [t \in Tensors |-> None]

Next ==
  MarkParamTensor \/ MarkSpecialViews \/ AppendAllTensors \/ RunImpl \/ DeviceToDeviceCopies

Spec == Init /\ [][Next]_vars

----------------------------------------------------------------------------
(* Properties.                                                             *)

\* When a run is over, the client finds the values of every output in the
\* memory it has provided for it.
OutputsDelivered ==
  phase = "done" => \A o \in graph.outputs : client[o] = Original[o]
=============================================================================
