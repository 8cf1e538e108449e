SPECIFICATION Spec
CONSTANTS
  Tensors <- MCTensors
  Graphs <- ChainGraphs
INVARIANT OutputsDelivered
\* The run ends.
CHECK_DEADLOCK FALSE
