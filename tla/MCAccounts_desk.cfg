SPECIFICATION AccountsSpec
CONSTANTS
  Members = {m1, m2}
  Threads = {t1, t2}
  MaxRequests = 3
  MaxUsers = 3
  MayFail = TRUE
INVARIANTS
  AccountsTypeOK
  LinkIsOwn
  PromiseKept
PROPERTIES
  SessionsEndTogether
CHECK_DEADLOCK FALSE
