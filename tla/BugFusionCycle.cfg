SPECIFICATION Spec
CONSTANTS
  NumOps = 6
  Shapes = {"narrow", "wide"}
  Graphs <- CrossedPairs
INVARIANT OutputsKept
\* The pass ends.
CHECK_DEADLOCK FALSE
