SPECIFICATION Spec
CONSTANTS
  k1 = k1
  k2 = k2
  k3 = k3
  d1 = d1
  d2 = d2
  Devices = {d1, d2}
  NoDevice = NoDevice
  DeviceLists <- OnlyTwoDevices
  Graphs <- TwoGemms
  Keys = {k1, k2, k3}
  Indices = {1, 2}
  Configs <- TwoConfigs
  SplitKs <- TwoSplits
  Jobs <- MCJobs
  NoAlgo = NoAlgo
  Durations = {1, 2}
  Faults = {}
  Timeout = 1
  LaunchFails = FALSE
  MaxAttempts = 2
  JoinTimeout = FALSE
INVARIANT FastestIsChosen
\* The clients may stop compiling.
CHECK_DEADLOCK FALSE
