CONSTANTS
  p1 = p1
  p2 = p2
  e1 = e1
  e2 = e2
  proj = proj
  man = man
  Calls = {c1, c2}
  Worlds <- WorldTables
  LastMonth = 2
  People = {p1, p2}
  Employees = {e1, e2}
  Nobody = Nobody
  IdentityTables <- Identities
  LastTime = 3
  MaxChanges = 1
  Works <- OneKindOfWork
  ManualRows = {man}
  ManualRecords <- ManualTables
  StoredAssignments <- AssignmentTables
  Window = 1
  Ttl = 1
  Unlisted = Unlisted
  KnownAtStart <- NobodyOrOne
  LeaveKinds = {"vacation", "sick"}
  LastDate = 5
SYMMETRY CallsAreAlike
SPECIFICATION MCSpec
CHECK_DEADLOCK FALSE
INVARIANTS
  AccessFollowsTheFeed
  GroupingIsExact
PROPERTIES
  UndisturbedSyncIsExact
  UnmarkedAnswersAreFresh
