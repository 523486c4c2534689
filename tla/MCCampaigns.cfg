CONSTANTS
  f1 = f1
  Calls = {c1, c2}
  Campaigns = {k1}
  Employees = {1, 2, 3}
  Creator = 1
  ManualItems = {m1}
  Texts = {t1, t2}
  NoText = NoText
  Filters = {f1}
  NoFilter = NoFilter
  PageSize = 2
  Directories <- Staff
  Audiences <- Invitations
  Nothing = Nothing
SPECIFICATION FairSpec
INVARIANTS
  IInv
  ItemsMatchTheCampaign
  UndisturbedActivationIsExact
PROPERTIES
  ImplementsCampaignLedger
  RequestsEnd
