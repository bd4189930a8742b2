\* access: two people and one browser with two tabs
SPECIFICATION Spec
CONSTANTS
  None = None
  ada = ada
  ben = ben
  b1 = b1
  t1 = t1
  t2 = t2
  Browsers = {b1}
  Tabs = {t1, t2}
  BrowserOf <- TwoTabs
  Users = {ada, ben}
  Staff = {ben}
  Profiles = {1, 2}
  RoleOf <- Roles
  FirstOwner <- TheOwners
  Keys = {1, 2, 3}
  AdminVerification = FALSE
  Visits <- TheVisits
  Edits <- TheEdits
INVARIANTS TypeOK ProfileWasOwned ProfileAfterSecondFactor
PROPERTIES IdleStaysIdle EveryRequestSettles IdleIsSignedOut
