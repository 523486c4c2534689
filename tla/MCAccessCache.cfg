CONSTANTS
  Calls = {c1, c2}
  Writers = {w1, w2}
  InitialGraphs <- LineGraphs
  Volatile <- Line
  TimeMatters = FALSE
  Ttl = FALSE
  MaxGeneration = 2
SPECIFICATION Spec
SYMMETRY Sym
INVARIANTS
  IInv
  CleanEntryIsNeverStale
PROPERTY BumpRetiresEveryEntry
