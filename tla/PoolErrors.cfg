SPECIFICATION Spec
CONSTANTS
  NoThread = NoThread
  Threads = {t1, t2}
  NumModels = 2
  Streams = {s1}
  Ops = {"run_async", "benchmark", "fold_async", "fold_sync", "set_constant"}
  LiveUpdates = FALSE
  FoldedAtStart = FALSE
  MaxCalls = 4
  MaxIters = 1
  FailureKinds = {"prepare", "midrun", "wait", "fold", "event"}
  MaxFailures = 2
SYMMETRY Symmetry
INVARIANT TypeOK
INVARIANT OneOwner
PROPERTY FirstFoldOnce
\* The clients may stop calling.
CHECK_DEADLOCK FALSE
