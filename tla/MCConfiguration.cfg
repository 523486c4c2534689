CONSTANTS
  hr = hr
  r1 = r1
  nhr = nhr
  n1 = n1
  s1 = s1
  s2 = s2
  w1 = w1
  Calls = {c1, c2}
  Staff = {s1, s2}
  Callers = {s1}
  StoredRoles = {hr, r1}
  HrAdmin = hr
  RoleNames = {nhr, n1}
  NoName = NoName
  Nobody = Nobody
  StoredViews = {w1}
  Users = {s1, s2, s3}
  Layouts = {x1}
  NoLayout = NoLayout
  NoOwner = NoOwner
  v1 = v1
  v2 = v2
  own = own
  added = added
  l1 = l1
  Viewers = {v1, v2}
  StoredLinks = {l1}
  Default = own
  Configurable = {added}
  Never = {hidden}
  Deferred = {}
  Accesses <- AccessOfTheCreator
  Lifetimes = {1}
  MaxTime = 1
  NoViewer = NoViewer
  Beginnings <- Starts
SPECIFICATION FairSpec
CHECK_DEADLOCK FALSE
INVARIANTS
  RolesAreConsistent
  ViewsAreConsistent
  DisclosureIsAuthorized
PROPERTIES
  DeadLinksStayDead
  UndisturbedAssignmentKeepsAnAdmin
  UndisturbedShareIsExact
  RequestsEnd
