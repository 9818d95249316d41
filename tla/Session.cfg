SPECIFICATION SessionSpec
CONSTANTS
  Procs = {engine, command}
  Sessions = {s1, s2, s3}
  None = None
  NoCache = NoCache
  Torn = Torn
  Interval = 1
  Timeout = 1
  MaxRetries = 1
  Backoff = 1
  Ttl = 3
  Life = 5
SYMMETRY SessionSymmetry
PROPERTIES ReloginHelps LoadedTokenLives Spaced
