SPECIFICATION ModelSpec
CONSTANTS
  NumModels = 2
  FoldFirst = TRUE
  InPlace = {{"mb", "fb"}, {"mu", "fu"}}
  Interrupted = {{"mu", "fb"}}
  Destroyed = {}
  Accepted = {{"mu"}}
  SwapPolicy = "drained"
  MaxVersion = 3
  MaxFailures = 1
INVARIANT TypeOK
INVARIANT ReadsWhatIsDue
INVARIANT SessionsWriteInactive
INVARIANT SwapInstallsOneGeneration
INVARIANT SettledTensorsAreHeld
PROPERTY FoldedSessionIsSwapped
