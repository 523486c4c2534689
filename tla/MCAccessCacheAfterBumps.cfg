CONSTANTS
  Calls = {c1}
  Writers = {w1, w2}
  InitialGraphs <- LineGraphs
  Volatile <- Line
  TimeMatters = FALSE
  Ttl = FALSE
  MaxGeneration = 2
SPECIFICATION Spec
INVARIANT NoStaleEntryAfterBumps
