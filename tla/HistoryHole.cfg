SPECIFICATION ComponentsSpec
CONSTANTS
  PageSize = 2
  MaxTicks = 3
  BarWidth = 2
  HandRuns <- CronJobs
  MayReset = TRUE
  MaxId = 6
  Retained = 4
  MaxFaults = 1
  MaxHand = 1
  DayLen = 4
  MaxHour = 9
  MaxLag = 1
  Parts = {"history"}
  FirstHour = 4
  Walkers = {p, q}
  WindowDays = 1
  KeepDays = 1
  Shift = 1
  Enough = 2
  Listed <- TwoBooks
  Defaults = {1}
  Malformed = Malformed
  Omitted = Omitted
  SlotCounts = {0, 1, 3}
  DefaultSlots = 2
  Caps = {1, 3}
  MaxAge = 1
  MaxBehind = 2
  LastHour = 2
  MaxEdits = 2
  Left = {1, 2, 3}
  Right = {1, 2}
  Costs = {0, 1, 2}
  NBins = 3
  Unit = 72
  Coverage <- SevenTenths
  SigmaR <- Half
  PocRatio <- One
  MinFrac <- Half
  MinNodeBars = 2
  Size = 2
  Middle = 1
  MaxLegs = 2
  MinLegs = 1
  Alpha <- Half
  Fallback <- Tenth
  WinsorK <- ThreeHalves
  SignsTried <- SignNames
  Shapes <- FiveShapes
  Openings <- TwoOpenings
  MaxBars = 16
  Window = 3
  Confirm = 1
  MaxBandPct <- Quarter
  BreakFrac <- Zero
  BodyRatio <- TwoThirds
  VolCap = 2
  Lookback = 4
  ClearAir <- Tenth
  Touch <- Tenth
  Pierce <- One
  Near <- Tenth
  Lookbacks = {2, 4}
  WallWindow = 4
  Dominant = 5
  LegsKept = 2
  StopBuffer <- Tenth
  RidesTried <- RideNames
  RideShapes <- BarShapes
  Histories <- ThreeHistories
  MaxHistory = 24
  RideDay = 2
  RideDays = 8
  TargetWindow = 8
  MinDist <- Zero
  SlMult <- ThreeQuarters
  Recency <- LateWeights
  BreakoutK <- Zero
  LimitOffset <- Zero
  AcceptBand <- Half
  InvalDepth <- Third
  MaxBase = 4
  LimitWindow = 2
  RideTimeStop = 3
  AtrPeriod = 2
  RankWindow = 6
  SqueezeMax <- ThreeQuarters
  ExpandMult <- ThreeHalves
  MaxAtrRank <- ThreeQuarters
  GateMin <- Half
  Oversold <- Quarter
  Overbought <- ThreeQuarters
  TrendSpan = 3
  TrendLag = 1
  Draws <- TwoInThree
  Shells = {s1, s2}
  Lot = 2
  HandSizes = {1, 3}
  MaxSent = 2
  MaxScreens = 2
  Calls = {c1, c2}
  MaxViewBars = 2
  BarsPerDate = 2
  FirstRows = {0, 2}
  MaxRows = 3
  MaxAppends = 1
  MaxRewrites = 1
  MaxCalls = 2
  Absent = Absent
  Torn = Torn
  Viewers = {c1, c2}
  Ttl <- TwoTtls
  MaxClock = 2
  MaxViews = 2
  Nothing = Nothing
  SimPrices <- ThreePrices
  OwnConfigs <- TwoConfigs
  StaticConfig <- StaticRule
  Atrs = {0, 100}
  FeePct = 1
  BurstMult = 3
  MaxSimBars = 4
  None = None
  BookBars <- TwoBookBars
  BookSignals <- OneOrPair
  BookSlotCap = 2
  SwapPct = 1
  DateBars = 2
  OrderBars = 1
  MaxBookBars = 4
  Markets <- TwoMarkets
  FirstCached = 2
  InSampleOf <- ThreeQuarters
  Threshold <- ThreeTenths
  LookAhead = 2
  Longs = {1, 2, 5}
  Shorts = {3, 4}
  MonthBars = 2
  PhaseLists <- AllPhases
  MaxStudies = 2
  Hold = 1
  SimWarm = 0
  Scale = 12
  QuarterBars = 2
  Boundaries <- TwoBoundaries
  DefaultBoundary = 1
  ForwardBooks <- ThreeBooks
  MinFwdTrades = 2
  MinFwdBars = 3
  MaxCycles = 2
  Deployed <- TwoDeployed
  OurLots <- LotTable
  VenueLots <- LotTables
  PriceTables <- TwoPriceTables
  Deposits = {12, 18, 27, 40}
  NoCap = NoCap
  NotANumber = NotANumber
  NotionalCaps <- CapsTried
  Leverage = 2
  Headroom <- ThreeHalves
  MinRatio = 200
  MaxMoves = 2
INVARIANT RawSetIsContiguous
CHECK_DEADLOCK FALSE
