SPECIFICATION Spec
CONSTANTS
  NoUser = NoUser
  NoEmail = NoEmail
  NoCode = NoCode
  Phones = {root, p1, p2}
  Founders = {root}
  Emails = {e1}
  Codes = {c1}
  Handlers = {h1, h2}
  RefreshLife = 1
  Retention = 1
  MaxTokens = 2
  Workloads <- MCWorkloads
  Faults = {"db", "redis", "crash"}
SYMMETRY Symmetry
INVARIANTS
  AccountInv
PROPERTIES
  LastAdministratorStays
  ValidSessionsStay
  EmailClashesAreRaces
  VerdictsDriftByRace
  RegisterSpec
CHECK_DEADLOCK FALSE
