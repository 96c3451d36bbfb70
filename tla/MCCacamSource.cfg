\* callbacks of two threads, two phones that share a local port
SPECIFICATION FairSpec
CONSTANTS
  None = None
  p1 = p1
  p2 = p2
  Callers = {c1, c2}
  Phones = {p1, p2}
  Ports = {18080}
  DefaultPort = 18080
  Settings <- MCSettings
  HealthRetries = 1
  SnapshotFailures = 2
INVARIANTS
  CacamInvariant
  WorkerRunsCurrentSettings
  WorkerIffAutomatic
  OnlySelectedPhone
PROPERTY JoinReturns
