SPECIFICATION PreflightSpec
CONSTANTS
  Counts = {0, 1, 2}
  Others = {1, 2}
  Retries = 4
  MaxSent = 2
  NoRef = NoRef
  NoDeal = NoDeal
INVARIANT PassMeansRoundTrip
PROPERTY OthersUntouched
\* The command ends.
CHECK_DEADLOCK FALSE
