SPECIFICATION Spec
CONSTANTS
  MaxTrade = 2
  LongTrades <- TwoLongs
  LimitTrades <- TwoLongs
  UsesStop = TRUE
  UsesTarget = FALSE
  Levels <- OneLong
  Prices <- HighPrice
  SlotChoices <- TwoSlots
  MaxSignals = 2
  MayReplayAnew = FALSE
  LimitLife = 1
  MaxBar = 3
  MaxPos = 2
  MaxOrd = 6
  Span = 5
  Drift <- LateFills
  HardSlotCeiling = 8
  Scale = 6
  ReservedReported = TRUE
  DrainOk = FALSE
  IgnorePhantoms = FALSE
  MayKill = FALSE
  MayStub = FALSE
  MayLoseLog = FALSE
  MayMeddle = FALSE
  MayRunAgain = FALSE
  MaxFault = 0
INVARIANTS ExpiredEntriesAreCancelled
