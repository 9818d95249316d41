SPECIFICATION SessionSpec
CONSTANTS
  Procs = {engine}
  Sessions = {s1, s2}
  None = None
  NoCache = NoCache
  Torn = Torn
  Interval = 1
  Timeout = 1
  MaxRetries = 2
  Backoff = 1
  Ttl = 6
  Life = 8
PROPERTY CallEnds
