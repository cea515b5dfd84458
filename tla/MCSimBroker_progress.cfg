SPECIFICATION SimFairSpec
CONSTANTS
  Instruments <- TwoInstruments
  Requests <- ProgressRequests
  Prices = {2}
  SessionMode = "backtest"
  LatencyBars = 1
  MaxQtyPerBar = 2
  SlippageBps = 0
  BpsUnit = 1
  FeePerShare = 0
  FeeMin = 0
  StartingCash = 0
  MaxOrders = 2
PROPERTIES
  MarketOrdersComplete
