SPECIFICATION BTSpec
CONSTANTS
  Instruments <- TwoInstruments
  Requests <- NoRequests
  Prices = {2, 3}
  SessionMode = "backtest"
  LatencyBars = 0
  MaxQtyPerBar = 0
  SlippageBps = 1
  BpsUnit = 2
  FeePerShare = 1
  FeeMin = 1
  StartingCash = 100
  MaxOrders = 6
  NoLimit = NoLimit
  MaxQtyPerSymbol = NoLimit
  MaxNotional = NoLimit
  MaxOrdersPerMinute = 2
  MaxDailyLoss = NoLimit
  Minute = 2
  MaxTime = 3
  Ticks = {1}
  Lot = 2
  MaxBars = 6
INVARIANTS
  BTTypeOK
  LedgersAgree
  OneLotAtMost
  PortfolioFollowsSignals
  EquityIsWorthAlone
