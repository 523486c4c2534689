CONSTANTS
  e1 = e1
  e2 = e2
  e3 = e3
  f1 = f1
  f2 = f2
  Calls = {c1, c2}
  Employees = {e1, e2, e3}
  Nobody = Nobody
  OrgTables <- Orgs
  MaxMoves = 1
  Null = Null
  FieldIds = {f1, f2}
  FieldManagers = {e2}
  DefinitionTables <- Definitions
  RosterTables <- Rosters
  Drafts <- MCDrafts
  Definers = {e1, e2}
  SetOrders <- MCSetOrders
  Readers <- MCReaders
  DayOf <- MCDayOf
  IsoOf <- MCIsoOf
  Place <- MCPlace
  Lower <- MCLower
  Within <- MCWithin
  Queries <- MCQueries
  Faults <- OneProvider
  MaxPageSize = 2
  ThisYear = 2024
  n1 = n1
  k1 = k1
  p1 = p1
  d1 = d1
  d2 = d2
  x1 = x1
  x2 = x2
  b1 = b1
  m1 = m1
  a1 = a1
  h1 = h1
  NoRecord = NoRecord
  StoredIds = {n1, k1, p1, d1, d2, x1, x2, b1, m1, a1, h1}
  RecordTables <- MCRecords
  Photos <- MCPhotos
  Asks <- MCAsks
  Permitted <- MCPermitted
  Today = 2
  Works <- OneKindOfWork
SYMMETRY CallsAreAlike
SPECIFICATION MCSpec
CHECK_DEADLOCK FALSE
INVARIANTS
  NothingHiddenIsShown
  ValuesAreKept
  FilesAreThere
PROPERTIES
  UndisturbedListIsExact
  CompletedPlansAreFinal
  UndisturbedRecordIsExact
