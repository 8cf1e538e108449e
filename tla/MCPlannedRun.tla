----------------------------- MODULE MCPlannedRun -----------------------------
(***************************************************************************)
(* PlannedRun on the graphs of four operators and four tensors of certain  *)
(* shapes.                                                                 *)
(***************************************************************************)
EXTENDS PlannedRun

MCOps     == 1 .. 4
MCTensors == 1 .. 4

\* Operator k writes tensor k and reads any tensors written before; unused
\* operators have been removed.
Chains ==
  {[outputs |-> [o \in MCOps |-> {o}], inputs |-> in, size |-> sz,
    view |-> [t \in MCTensors |-> t], results |-> {4},
    workspace |-> [o \in MCOps |-> 1 + (o % 2)], unique |-> [o \in MCOps |-> 0]] :
     in \in {f \in [MCOps -> SUBSET (1 .. 3)] :
              /\ \A o \in MCOps : \A t \in f[o] : t < o
              /\ UNION {f[o] : o \in MCOps} = 1 .. 3},
     sz \in [MCTensors -> 1 .. 2]}

\* One tensor is a view of an input of its operator.
Views == {[g EXCEPT !.view[t] = u, !.size[t] = g.size[u]] :
            g \in Chains, t \in 2 .. 4, u \in 1 .. 3}
ViewGraphs == {g \in Views : \A t \in MCTensors : g.view[t] = t \/ g.view[t] \in g.inputs[t]}

\* Operator 2 writes a part of tensor 1 too (an output of a concatenation
\* written in place), or operator 1 writes tensor 2 as well (a split).
JoinGraphs == {[g EXCEPT !.outputs[2] = {1, 2}] : g \in {h \in Chains : h.inputs[2] = {}}}
SplitGraphs == {[g EXCEPT !.outputs[1] = {1, 2}] : g \in {h \in Chains : h.inputs[2] = {}}}

\* Two independent operators with scratch memory of their own.
ScratchGraphs ==
  {[g EXCEPT !.unique = [o \in MCOps |-> 1]] :
     g \in {h \in Chains : h.inputs[2] = {} /\ h.size = [t \in MCTensors |-> 1]}}

\* Tensor 2 is a result too.
ResultGraphs == {[g EXCEPT !.results = {2, 4}] : g \in ViewGraphs}

MCGraphs == Chains \cup ViewGraphs \cup JoinGraphs \cup SplitGraphs \cup ResultGraphs
=============================================================================
