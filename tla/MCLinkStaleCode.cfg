SPECIFICATION Spec
CONSTANTS
  Users = {u1, u2}
  Chats = {c1, c2}
  Codes = {k1, k2}
  Requests = {r1}
  Messages = {m1}
  NULL = NULL
  TTL = 2
  Attempts = 2
  MaxNow = 3
SYMMETRY LinkSymmetry
INVARIANT LinkCodeResolves
CHECK_DEADLOCK FALSE
