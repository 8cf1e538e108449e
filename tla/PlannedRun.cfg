SPECIFICATION RunSpec
CONSTANTS
  Ops <- MCOps
  Tensors <- MCTensors
  Graphs <- MCGraphs
  Modes = {0, 1}
  MaxParallel = 3
  ExtraStreams = 1
INVARIANT TypeOK
INVARIANT PlacedApart
INVARIANT BlobLargeEnough
INVARIANT InputsIntact
INVARIANT ScratchApart
\* The run ends.
CHECK_DEADLOCK FALSE
