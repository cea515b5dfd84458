SPECIFICATION ExecSpec
CONSTANTS
  Instruments <- TwoInstruments
  Requests <- DeskRequests
  Prices = {1, 3}
  SessionMode = "backtest"
  LatencyBars = 0
  MaxQtyPerBar = 0
  SlippageBps = 0
  BpsUnit = 1
  FeePerShare = 0
  FeeMin = 0
  StartingCash = 100
  MaxOrders = 3
  NoLimit = NoLimit
  MaxQtyPerSymbol = 3
  MaxNotional = 5
  MaxOrdersPerMinute = 2
  MaxDailyLoss = 4
  Minute = 2
  Worths <- DeskWorths
  Share = 2
  MaxChildQty = 3
  MaxTime = 2
  Ticks = {1}
INVARIANTS
  OMSTypeOK
  RateCapped
  PositionsAgree
  SymbolLimitHolds
  MovesToward
  ReachesTarget
PROPERTIES
  OrdersStopAtLoss
