SPECIFICATION Spec
CONSTANTS
  NoThread = NoThread
  Threads = {t1}
  NumModels = 1
  Streams = {s1, s2}
  Ops = {"run_async", "set_constant"}
  LiveUpdates = TRUE
  FoldedAtStart = FALSE
  MaxCalls = 5
  MaxIters = 1
  FailureKinds = {}
  MaxFailures = 0
INVARIANT NoReuseInFlight
\* The clients may stop calling.
CHECK_DEADLOCK FALSE
