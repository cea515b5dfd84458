SPECIFICATION SignInSpec
CONSTANTS
  Threads = {t1, t2}
  Isolates = {i1, i2}
  Never = Never
  FlowTtl = 1
  Leeway = 1
  MinTtl = 1
  JwksTtl = 2
  EdgeTtl = 1
  TokenLife = 2
  Skews <- SmallSkews
  MaxFlows = 1
  MaxRequests = 3
  MaxKeys = 2
  MaxTime = 3
SYMMETRY Alike
INVARIANTS
  SignInTypeOK
  SignsInOnce
  KeysRecent
  GenuineAccepted
CHECK_DEADLOCK FALSE
