SPECIFICATION FairSpec
CONSTANTS
  MaxTrade = 3
  LongTrades <- ThreeLongs
  LimitTrades <- OneLong
  UsesStop = FALSE
  UsesTarget = TRUE
  Levels <- OneLong
  Prices <- HighPrice
  SlotChoices <- TwoSlots
  MaxSignals = 2
  MayReplayAnew = FALSE
  LimitLife = 1
  MaxBar = 3
  MaxPos = 6
  MaxOrd = 9
  Span = 5
  Drift <- LateFills
  HardSlotCeiling = 8
  Scale = 6
  ReservedReported = TRUE
  DrainOk = FALSE
  IgnorePhantoms = FALSE
  MayKill = TRUE
  MayStub = TRUE
  MayLoseLog = FALSE
  MayMeddle = FALSE
  MayRunAgain = FALSE
  MaxFault = 1
INVARIANTS TypeOK UndisturbedRunProtects
PROPERTIES KillFlattens Converges
