\* directory_import: two imports, two forms, sign-ins, three mailboxes
SPECIFICATION Spec
CONSTANTS
  None = None
  ann = ann
  bob = bob
  sam = sam
  dept = dept
  agency = agency
  sysA = sysA
  f1 = f1
  f2 = f2
  Forms <- TheForms
  People <- Everyone
  OrgNames <- TheOrgs
  SystemNames <- TheSystems
  Rows <- TheRows
  FormRoles <- TheFormRoles
  Typed <- TheTyped
  InitAccounts <- TheAccounts
  InitProfiles <- TheProfiles
  InitOrgs <- FirstOrgs
  MaxAccounts = 5
  MaxProfiles = 4
  MaxImports = 2
SYMMETRY AnyForm
INVARIANTS TypeOK UsernameNamesMailbox NoTwinAdvisors ImportComplete HoldersCanSignIn
PROPERTY ChangedFromWithin
CHECK_DEADLOCK FALSE
