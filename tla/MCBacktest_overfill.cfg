SPECIFICATION BTSpec
CONSTANTS
  Instruments <- OneInstrument
  Requests <- NoRequests
  Prices = {2, 3}
  SessionMode = "backtest"
  LatencyBars = 0
  MaxQtyPerBar = 1
  SlippageBps = 1
  BpsUnit = 2
  FeePerShare = 1
  FeeMin = 1
  StartingCash = 100
  MaxOrders = 6
  NoLimit = NoLimit
  MaxQtyPerSymbol = NoLimit
  MaxNotional = NoLimit
  MaxOrdersPerMinute = 2
  MaxDailyLoss = NoLimit
  Minute = 2
  MaxTime = 2
  Ticks = {1}
  Lot = 2
  MaxBars = 4
INVARIANTS
  FilledIsExecuted
