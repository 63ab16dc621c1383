---------------------------- MODULE ComponentsMC ----------------------------
(***************************************************************************)
(* The components that do not share state with the executor, together for  *)
(* TLC.  A behaviour exercises one of them, its part; the others rest, so  *)
(* that the state space is the sum of theirs and not the product.          *)
(***************************************************************************)
EXTENDS History, LiveBars, GmoImport, AutoTrader, BestFirstMC, Rides,
        Commands, Dashboard, LiveTab, MultiBook, Cycle, Preflight

CONSTANTS
    Parts,      \* the parts a behaviour may exercise
    FirstHour   \* the clock of the klines at the start

AllParts ==
    {"history", "live bars", "import", "trader", "pairing", "signs", "rides", "bitflyer shell",
     "gmo shell", "results", "pages", "live tab", "simulator", "book", "benchmark", "cycle",
     "preflight"}

ASSUME PartsAssumption == Parts \subseteq AllParts

VARIABLE part

cacheVars == <<cache, walkVars, servedShort>>
tableVars == <<table, stage, day, extent, reply, emptyDays>>
barVars   == <<signVars, rideVars>>
deskVars  == <<commandVars, dashboardVars, liveTabVars, simVars, multiVars>>
studyVars == <<benchmarkVars, cycleVars, preflightVars>>
restVars  == <<historyVars, venueVars, cacheVars, tableVars, traderVars, edges, barVars,
               deskVars, studyVars>>
allVars   == <<part, restVars>>

CronJobs == {<<"back">>, <<"forward">>, <<"collect">>}
TwoBooks == <<1, 2>>

(* The bars of the signs and of the rides, prices multiples of 2 * NBins   *)
(* and of the spans: calm, a strong rise, a strong fall, a long lower wick *)
(* and a heavy bar above.                                                  *)
Bar(open, high, low, close, volume) ==
    [open |-> open, high |-> high, low |-> low, close |-> close, volume |-> volume]

Q == Bar(66, 72, 60, 66, 1)
R == Bar(60, 84, 60, 84, 3)
F == Bar(66, 66, 60, 60, 1)
W == Bar(72, 72, 54, 66, 1)
H == Bar(72, 78, 72, 78, 3)

BarShapes  == {Q, R, F, W}
FiveShapes == {Q, R, F, W, H}
TwoOpenings ==
    { <<H, Q, Q, R, Q, Q, W, Q, Q, Q, R, Q, Q>>,
      <<Q, Q, W, Q, Q, R, Q, Q, Q, W, Q, F, F>> }
ThreeHistories ==
    { <<H, H, H, R, W, F, H, F, W, R, W, F, W, Q, Q, R, Q, Q, W, H, Q, H>>,
      <<R, R, W, Q, F, Q, F, F, W, H, R, Q, H, Q, Q, W, R, R, Q, W, F, H>>,
      <<R, F, W, Q, F, F, F, Q, Q, F, Q, Q, H, R, Q, Q, R, Q, F, F, Q, H>> }

(* Fractions and weights, which a configuration cannot write.              *)
Zero == <<0, 1>>
One == <<1, 1>>
Tenth == <<1, 10>>
Quarter == <<1, 4>>
Third == <<1, 3>>
Half == <<1, 2>>
TwoThirds == <<2, 3>>
SevenTenths == <<7, 10>>
ThreeQuarters == <<3, 4>>
ThreeHalves == <<3, 2>>
LateWeights == <<1, 2, 4>>
TwoInThree == [i \in 1 .. MaxHistory |-> i % 3 # 0]

(* Times to live, and the exit configurations of the simulator.            *)
TwoTtls == "bars" :> 2 @@ "account" :> 1
ThreePrices == {200, 300, 400}
Rule(abs, atr, pct) == [abs |-> abs, atr |-> atr, pct |-> pct]
NoRule == Rule(None, None, None)
NearStop == [tp |-> Rule(None, 2, 50), sl |-> Rule(100, None, None), trail |-> None, timeStop |-> 1]
TrailOnly == [tp |-> NoRule, sl |-> NoRule, trail |-> 1, timeStop |-> None]
StaticRule == [tp |-> Rule(100, None, None), sl |-> Rule(None, None, 50), trail |-> None, timeStop |-> 0]
TwoConfigs == {NearStop, TrailOnly}

(* The bars and the signals of a book with several slots.                  *)
TwoBookBars == {[open |-> 200, close |-> 400], [open |-> 400, close |-> 200]}
OneOrPair ==
    {[market |-> <<>>, limits |-> <<>>], [market |-> <<1, -1>>, limits |-> <<>>],
     [market |-> <<>>, limits |-> <<-1>>]}

(* The closes of the studies, and the frozen boundaries.                   *)
TwoMarkets == {<<4, 3, 2, 6, 4, 6, 3>>, <<2, 3, 6, 4, 6, 3, 4>>}
AllPhases == {<<"validate", "benchmark", "report", "backtest">>}
TwoBoundaries == <<"a">> :> 2 @@ <<"a", "p">> :> 3
ThreeBooks == {<<"a", "p">>, <<"a", "q">>, <<"b", "q">>}
ThreeTenths == <<3, 10>>

(* The deployment that is checked, and what GMO may say of its symbols.    *)
TwoDeployed == {[symbol |-> "BTC", slots |-> 2], [symbol |-> "XRP", slots |-> 3]}
LotTable  == "BTC" :> 1 @@ "XRP" :> 2
LotTables == {LotTable, "BTC" :> 2 @@ "XRP" :> 2, "BTC" :> 1 @@ "XRP" :> 1, "BTC" :> 1 @@ "XRP" :> 0}
LowPrices   == "BTC" :> 6 @@ "XRP" :> 2
TwoPriceTables == {LowPrices, "BTC" :> 9 @@ "XRP" :> 3}
CapsTried   == {NoCap, NotANumber, 12}

SignsRest ==
    /\ sign = "" /\ series = <<>> /\ buffer = <<>> /\ answer = {} /\ detected = <<>>
RidesRest ==
    /\ ride = "" /\ market = <<>> /\ windowStart = 1 /\ signals = <<>> /\ acted = {}

(* A part that rests is in one of its initial states, or has no bars.      *)
DesksRest ==
    /\ part \notin {"bitflyer shell", "gmo shell"} => settings = [useLive |-> FALSE, allowOrders |-> FALSE]
    /\ part \notin {"results", "pages"} => db.rows = 0
    /\ part \notin {"benchmark", "cycle"} => closes = <<4, 3, 2, 6, 4, 6, 3>>
    /\ part # "book" => ~nextOpen
    /\ part # "preflight" => deposit = 12 /\ notionalCap = NoCap /\ priceOf = LowPrices

ComponentsInit ==
    /\ part \in Parts
    /\ HistoryInit /\ (part # "history" => issued = 0)
    /\ hour = FirstHour /\ published = FirstHour - 1
    /\ LiveBarsInit /\ ImportInit
    /\ TraderInit /\ (part # "trader" => cap = 1 /\ ~unset /\ \A b \in BooksListed : entry[b] = 1)
    /\ Init
    /\ IF part = "signs" THEN SignsInit ELSE SignsRest
    /\ IF part = "rides" THEN RidesInit ELSE RidesRest
    /\ CommandsInit /\ DashboardInit /\ LiveTabInit /\ SimInit /\ MultiInit /\ BenchmarkInit
    /\ CycleInit /\ PreflightInit /\ DesksRest

(* The parts at the feet of the data: bars, and what is computed from them. *)
BarsNext ==
    \/ /\ part = "history" /\ HistoryNext
       /\ UNCHANGED <<venueVars, cacheVars, tableVars, traderVars, edges, barVars>>
    \/ /\ part = "live bars" /\ LiveBarsNext
       /\ UNCHANGED <<historyVars, tableVars, traderVars, edges, barVars>>
    \/ /\ part = "import" /\ ImportNext
       /\ UNCHANGED <<historyVars, cacheVars, traderVars, edges, barVars>>
    \/ /\ part = "trader" /\ TraderNext
       /\ UNCHANGED <<historyVars, venueVars, cacheVars, tableVars, edges, barVars>>
    \/ /\ part = "pairing" /\ AddEdge
       /\ UNCHANGED <<historyVars, venueVars, cacheVars, tableVars, traderVars, barVars>>
    \/ /\ part = "signs" /\ SignsNext
       /\ UNCHANGED <<historyVars, venueVars, cacheVars, tableVars, traderVars, edges, rideVars>>
    \/ /\ part = "rides" /\ RidesNext
       /\ UNCHANGED <<historyVars, venueVars, cacheVars, tableVars, traderVars, edges, signVars>>

(* The parts somebody sits at.                                             *)
DesksNext ==
    \/ /\ part = "bitflyer shell" /\ FlyerNext
       /\ UNCHANGED <<dashboardVars, liveTabVars, simVars, multiVars>>
    \/ /\ part = "gmo shell" /\ GmoNext
       /\ UNCHANGED <<dashboardVars, liveTabVars, simVars, multiVars>>
    \/ /\ part = "results" /\ ResultNext
       /\ UNCHANGED <<commandVars, liveTabVars, simVars, multiVars>>
    \/ /\ part = "pages" /\ PageNext
       /\ UNCHANGED <<commandVars, liveTabVars, simVars, multiVars>>
    \/ /\ part = "live tab" /\ LiveTabNext
       /\ UNCHANGED <<commandVars, dashboardVars, simVars, multiVars>>
    \/ /\ part = "simulator" /\ SimNext
       /\ UNCHANGED <<commandVars, dashboardVars, liveTabVars, multiVars>>
    \/ /\ part = "book" /\ MultiNext
       /\ UNCHANGED <<commandVars, dashboardVars, liveTabVars, simVars>>

(* The parts that evaluate and check beforehand.                           *)
StudiesNext ==
    \/ part = "benchmark" /\ BenchmarkNext /\ UNCHANGED <<cycleVars, preflightVars>>
    \/ part = "cycle" /\ CycleNext /\ UNCHANGED preflightVars
    \/ part = "preflight" /\ PreflightNext /\ UNCHANGED <<benchmarkVars, cycleVars>>

ComponentsNext ==
    /\ UNCHANGED part
    /\ \/ BarsNext /\ UNCHANGED <<deskVars, studyVars>>
       \/ /\ DesksNext /\ UNCHANGED studyVars
          /\ UNCHANGED <<historyVars, venueVars, cacheVars, tableVars, traderVars, edges, barVars>>
       \/ /\ StudiesNext /\ UNCHANGED deskVars
          /\ UNCHANGED <<historyVars, venueVars, cacheVars, tableVars, traderVars, edges, barVars>>

ComponentsSpec == ComponentsInit /\ [][ComponentsNext]_allVars

(* Fairness of the history part, which the behaviours of the others meet   *)
(* trivially.                                                              *)
ComponentsFairSpec ==
    /\ ComponentsSpec
    /\ WF_historyVars(part = "history" /\ CronRun)
    /\ WF_historyVars(part = "history" /\ Work)
=============================================================================
