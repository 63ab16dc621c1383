SPECIFICATION FairSpec
CONSTANTS
  MaxTrade = 2
  LongTrades <- TwoLongs
  LimitTrades <- None
  UsesStop = TRUE
  UsesTarget = FALSE
  Levels <- ThreeLevels
  Prices <- AnyPrice
  SlotChoices <- TwoSlots
  MaxSignals = 2
  MayReplayAnew = FALSE
  LimitLife = 1
  MaxBar = 3
  MaxPos = 2
  MaxOrd = 8
  Span = 5
  Drift <- LateFills
  HardSlotCeiling = 8
  Scale = 6
  ReservedReported = TRUE
  DrainOk = FALSE
  IgnorePhantoms = FALSE
  MayKill = FALSE
  MayStub = FALSE
  MayLoseLog = TRUE
  MayMeddle = FALSE
  MayRunAgain = FALSE
  MaxFault = 2
INVARIANTS RecordedOwnersAreTrue CancelsAreSurgical UndisturbedRunProtects
PROPERTIES Converges
