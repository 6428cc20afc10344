SPECIFICATION Spec
CONSTANTS
  Browsers = {b1}
  Calls = {c1, c2}
  Jtis = {j1, j2, j3}
  NULL = NULL
  Kinds = {"request", "profile", "mistyped", "password", "login", "logout"}
  AccessTTL = 1
  RefreshTTL = 2
  MaxNow = 1
  MaxPassword = 1
  MaxFaults = 1
INVARIANTS
  SessionInv
  GrantedInSession
PROPERTIES
  PasswordEndsSessions
  ValidSessionKept
SYMMETRY SessionSymmetry
CHECK_DEADLOCK FALSE
