---------------------------- MODULE MCOutputBinding ----------------------------
(***************************************************************************)
(* OutputBinding on all graphs of five tensors of a certain form.          *)
(***************************************************************************)
EXTENDS OutputBinding

MCTensors == 1 .. 5

\* A tensor is an input, a constant, made by a kernel, or a view of an earlier
\* one.
AllGraphs ==
  {g \in [kind : [MCTensors -> {"input", "constant", "computed"}],
          view : {f \in [MCTensors -> MCTensors] : \A t \in MCTensors : f[t] <= t},
          outputs : SUBSET MCTensors \ {{}}] :
     \A t \in MCTensors : g.view[t] # t => /\ g.kind[t] = "computed"
                                           /\ g.kind[g.view[t]] # "constant"}

Views(g, t) == {v \in MCTensors : v # t /\ g.view[v] = t}

\* An internal tensor has one view at most; inputs and outputs any number.
ChainGraphs ==
  {g \in AllGraphs : \A t \in MCTensors :
     g.kind[t] = "computed" /\ t \notin g.outputs => Cardinality(Views(g, t)) <= 1}

\* Graphs with one output.
OneOutputGraphs == {g \in AllGraphs : Cardinality(g.outputs) = 1}
=============================================================================
