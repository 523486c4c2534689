CONSTANTS
  Calls = {c1}
  Writers = {w1}
  InitialGraphs <- LiveGraphs
  Volatile <- Live
  TimeMatters = TRUE
  Ttl = TRUE
  MaxGeneration = 1
SPECIFICATION Spec
INVARIANTS
  LiveLegsHeldDuringCall
  UndisturbedCallIsExact
