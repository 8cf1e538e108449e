SPECIFICATION FairSpec
CONSTANTS
  NoThread = NoThread
  Threads = {t1, t2, t3}
  NumModels = 1
  Streams = {s1}
  Ops = {"run_async", "run_sync", "set_constant"}
  LiveUpdates = TRUE
  FoldedAtStart = FALSE
  MaxCalls = 4
  MaxIters = 1
  FailureKinds = {}
  MaxFailures = 0
INVARIANT MaintenanceIsQuiet
PROPERTY EveryCallReturns
\* The clients may stop calling.
CHECK_DEADLOCK FALSE
