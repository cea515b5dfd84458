SPECIFICATION AccountsSpec
CONSTANTS
  Members = {m1}
  Threads = {t1}
  MaxRequests = 3
  MaxUsers = 3
  MayFail = FALSE
INVARIANTS
  DataIsGone
CHECK_DEADLOCK FALSE
