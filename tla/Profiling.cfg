SPECIFICATION FairSpec
CONSTANTS
  k1 = k1
  k2 = k2
  k3 = k3
  d1 = d1
  d2 = d2
  Devices = {d1, d2}
  NoDevice = NoDevice
  DeviceLists <- OneOrTwoDevices
  Graphs <- OneWorkloadEach
  Keys = {k1, k2, k3}
  Indices = {1, 2}
  Configs <- TwoConfigs
  SplitKs <- Splits
  Jobs <- MCJobs
  NoAlgo = NoAlgo
  Durations = {1, 2}
  Faults <- OnlyStderr
  Timeout = 1
  LaunchFails = TRUE
  MaxAttempts = 2
  JoinTimeout = TRUE
INVARIANT TypeOK
INVARIANT OneTaskPerDevice
INVARIANT OneProfilerPerDevice
INVARIANT AllResultsIn
INVARIANT ChosenWasMeasured
INVARIANT FastestOnOneDevice
INVARIANT SplitKFits
INVARIANT UndecidedOnlyIfFailed
PROPERTY ProfilingEnds
\* The clients may stop compiling.
CHECK_DEADLOCK FALSE
