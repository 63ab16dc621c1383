SPECIFICATION Spec
CONSTANTS
  MaxTrade = 3
  LongTrades <- OddTrades
  LimitTrades <- LastTwo
  MaxSlots = 2
  Prices <- GapPrices
  SlDist = 3
  TpDist = 3
  TimeStop = 3
  InvalDist = 1
  RecalcBars = 1
  LimitLife = 1
  MaxSignals = 2
  MaxBar = 6
PROPERTIES ImplementsTradeBook ReachedStopsExit NoLookAhead
CHECK_DEADLOCK FALSE
