SPECIFICATION ApartSpec
CONSTANTS
  Users = {u1, u2}
  Chats = {c1, c2}
  Codes = {k1, k2}
  Requests = {r1, r2}
  Messages = {m1, m2}
  NULL = NULL
  TTL = 1
  Attempts = 2
  MaxNow = 2
SYMMETRY LinkSymmetry
INVARIANT LinkInv
PROPERTY ImplementsLinks
CHECK_DEADLOCK FALSE
