CONSTANTS
  e1 = e1
  e2 = e2
  e3 = e3
  p1 = p1
  p2 = p2
  p3 = p3
  p4 = p4
  Calls = {c1, c2}
  Employees = {e1, e2, e3}
  Pairs = {p1, p2, p3, p4}
  Stored <- Tables0
  Scopes <- EverybodyOrOne
  NoOne = NoOne
  NoPair = NoPair
  NoCall = NoCall
SPECIFICATION FairSpec
CHECK_DEADLOCK FALSE
INVARIANTS
  IInv
  SectionIsFaithful
PROPERTIES
  ImplementsRegister
  RequestsEnd
