SPECIFICATION Spec
CONSTANTS
  MaxTrade = 2
  LongTrades <- TwoLongs
  LimitTrades <- None
  UsesStop = TRUE
  UsesTarget = FALSE
  Levels <- OneLong
  Prices <- HighPrice
  SlotChoices <- TwoSlots
  MaxSignals = 2
  MayReplayAnew = FALSE
  LimitLife = 2
  MaxBar = 3
  MaxPos = 4
  MaxOrd = 6
  Span = 5
  Drift <- LateFills
  HardSlotCeiling = 8
  Scale = 6
  ReservedReported = TRUE
  DrainOk = FALSE
  IgnorePhantoms = FALSE
  MayKill = FALSE
  MayStub = FALSE
  MayLoseLog = FALSE
  MayMeddle = FALSE
  MayRunAgain = TRUE
  MaxFault = 1
INVARIANTS OnlyExitedTradesAreClosed
