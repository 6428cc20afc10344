SPECIFICATION MCFairSpec
CONSTANTS
  Accounts = {a1, a2}
  NULL = NULL
  Me = a1
  Old = i1
  Name = n1
  Served = Served
  Calls = {c1, c2}
  Plans <- ShortPlans
  PushOps = {p1, p2}
  MaxEndpoints = 2
  Ids = {i1, i2}
  Names = {n1, n2}
  VoiceOps = {v1, v2}
INVARIANTS
  SitePagesTypeOK
  ProfileFollows
  BadgeTrue
PROPERTIES
  UntouchedSaveKeeps
  ButtonRecovers
  LoadingEnds
CHECK_DEADLOCK FALSE
