SPECIFICATION Spec
CONSTANTS
  Procs = {p1, p2, p3}
  Keys = {k1, k2}
  Temps = {t1, t2}
  Files = {f1, f2}
  None = None
  CrashesIn <- Anywhere
  MaxBuilds = 3
  MaxCrashes = 1
SYMMETRY Symmetry
INVARIANT TypeOK
INVARIANT ArtifactsFit
INVARIANT EntriesAreWhole
PROPERTY EvictsUnusedOnly
INVARIANT CacheRaisesInRacesOnly
\* The clients may stop building.
CHECK_DEADLOCK FALSE
