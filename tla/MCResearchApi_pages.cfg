SPECIFICATION WorkerSpec
CONSTANTS
  a = a
  t1 = t1
  People = {a}
  Founder = a
  Newcomers = {}
  PageLimit = 1
  Threads = {t1}
  MaxRequests = 5
  MayFail = FALSE
  MaxKeys = 1
  MaxSignals = 3
  MaxCalls = 5
INVARIANT
  SignalPagesComplete
CHECK_DEADLOCK FALSE
