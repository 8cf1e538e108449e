SPECIFICATION Spec
CONSTANTS
  NumOps = 5
  Shapes = {"narrow", "wide"}
  Graphs <- SmallGraphs
INVARIANT TypeOK
INVARIANT GroupsAreConvex
INVARIANT AssertionsHold
INVARIANT OneProducer
\* The pass ends.
CHECK_DEADLOCK FALSE
