SPECIFICATION Spec
CONSTANTS
  NoThread = NoThread
  Threads = {t1, t2, t3}
  NumModels = 2
  Streams = {s1, s2}
  Ops = {"benchmark", "profile", "run_async", "run_host"}
  LiveUpdates = FALSE
  FoldedAtStart = TRUE
  MaxCalls = 3
  MaxIters = 2
  FailureKinds = {"prepare", "wait"}
  MaxFailures = 1
SYMMETRY Symmetry
INVARIANT OneOwner
INVARIANT NoReuseInFlight
INVARIANT NoModelLost
PROPERTY ImplementsLease
\* The clients may stop calling.
CHECK_DEADLOCK FALSE
