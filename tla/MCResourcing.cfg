\* Two calls while the directory changes under them.
SPECIFICATION FairSpec
CONSTANTS
  um = um
  dm1 = dm1
  dm2 = dm2
  Employees = {um, dm1, dm2}
  Requests = {r1}
  Proposals = {p1, p2}
  Calls = {c1, c2}
  Headcounts = {1}
  Environments <- ChangingDirectory
  NoOne = NoOne
  NoRequest = NoRequest
  NoProposal = NoProposal
  NoCall = NoCall
INVARIANTS
  IInv
  HeadcountNotExceeded
  DecisionBuildsOnCurrentStatus
PROPERTIES
  ImplementsLedger
  CallsEnd
