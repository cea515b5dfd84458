SPECIFICATION SimSpec
CONSTANTS
  Instruments <- TwoInstruments
  Requests <- BookRequests
  Prices = {1, 2}
  SessionMode = "backtest"
  LatencyBars = 1
  MaxQtyPerBar = 2
  SlippageBps = 1
  BpsUnit = 4
  FeePerShare = 1
  FeeMin = 2
  StartingCash = 100
  MaxOrders = 3
INVARIANTS
  SimTypeOK
  BookHoldsOpenOrders
  QueueOrderRespected
  OrdersReconcile
  PositionsReconcile
  CashReconciles
PROPERTIES
  LatencyRespected
  ImplementsLifecycle
