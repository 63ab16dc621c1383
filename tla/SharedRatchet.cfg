SPECIFICATION Spec
CONSTANTS
  MaxTrade = 2
  LongTrades <- AllTrades
  LimitTrades <- AllTrades
  MaxSlots = 2
  Prices <- ThreePrices
  SlDist = 1
  TpDist = 0
  TimeStop = 0
  InvalDist = 0
  RecalcBars = 1
  LimitLife = 2
  MaxSignals = 1
  MaxBar = 6
PROPERTIES EveryExitIsCausal
CHECK_DEADLOCK FALSE
