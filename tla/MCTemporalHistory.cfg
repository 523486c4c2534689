CONSTANTS
  c1 = c1
  c2 = c2
  m1 = m1
  v1 = v1
  v2 = v2
  NoValue = NoValue
  NoEvent = NoEvent
  NoRow = NoRow
  Calls = {c1, c2}
  Dates = {1, 2}
  Values = {v1, v2}
  ManualIds = {m1}
  Olds = {NoValue, v1}
  News = {v2}
SPECIFICATION Spec
SYMMETRY Sym
INVARIANTS
  IInv
  TimelineMatchesHistory
PROPERTIES
  ClosedRowsAreFinal
  ImplementsChain
