SPECIFICATION DeploySpec
CONSTANTS
  Pids = {p1, p2, p3, p4}
  NoFile = NoFile
  Empty = Empty
  NoPid = NoPid
  SerialStarts = TRUE
  PidReuse = TRUE
  Counts = {0, 1, 2}
  Others = {2, 3}
  Retries = 4
  MaxSent = 1
  NoRef = NoRef
  NoDeal = NoDeal
INVARIANTS
  MutualExclusion
  PassMeansRoundTrip
PROPERTIES
  DeletesOwnLock
  StaleTakenOver
  OthersUntouched
