SPECIFICATION FairSpec
CONSTANTS
  MaxTrade = 3
  LongTrades <- TwoLongs
  LimitTrades <- OneLong
  UsesStop = TRUE
  UsesTarget = TRUE
  Levels <- OneLong
  Prices <- HighPrice
  SlotChoices <- TwoOrThree
  MaxSignals = 2
  MayReplayAnew = TRUE
  LimitLife = 1
  MaxBar = 3
  MaxPos = 7
  MaxOrd = 10
  Span = 5
  Drift <- LateFills
  HardSlotCeiling = 8
  Scale = 6
  ReservedReported = TRUE
  DrainOk = TRUE
  IgnorePhantoms = TRUE
  MayKill = FALSE
  MayStub = FALSE
  MayLoseLog = FALSE
  MayMeddle = FALSE
  MayRunAgain = TRUE
  MaxFault = 1
PROPERTIES EntriesRespectSlots PairingIsFair DrainWindsDown
