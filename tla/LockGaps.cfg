SPECIFICATION Spec
CONSTANTS
  Pids = {p1, p2}
  NoFile = NoFile
  Empty = Empty
  NoPid = NoPid
  SerialStarts = FALSE
  PidReuse = TRUE
INVARIANTS MutualExclusion
PROPERTIES
  NoManualCleanup
