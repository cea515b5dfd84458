SPECIFICATION DeskSpec
CONSTANTS
  a = a
  b = b
  c = c
  t1 = t1
  t2 = t2
  People = {a, b, c}
  Founder = a
  Newcomers = {c}
  PageLimit = 1
  Threads = {t1, t2}
  MaxRequests = 3
  MayFail = TRUE
  MaxKeys = 2
  MaxSignals = 2
  MaxCalls = 1
SYMMETRY Symmetry
INVARIANTS
  AdminTypeOK
  AnAdminRemains
  
  TrailExplainsRole
  UsersPagesComplete
  ResearchTypeOK
  WithAuthority
  KeysOnRecord
  ActionsOwned
CHECK_DEADLOCK FALSE
