SPECIFICATION AccountsSpec
CONSTANTS
  Members = {m1}
  Threads = {t1, t2}
  MaxRequests = 3
  MaxUsers = 3
  MayFail = FALSE
INVARIANTS
  IndexComplete
CHECK_DEADLOCK FALSE
