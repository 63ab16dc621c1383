----------------------------- MODULE Benchmark -----------------------------
(***************************************************************************)
(* The sign benchmark: what backtest/sign_benchmark.py and its monthly and *)
(* calibration companions read of the cached bars, how backtest/zigzag.py  *)
(* measures the outcome of a fire, and the rows sign_fire and              *)
(* sign_benchmark_run keep.  Between two studies the store grows at either *)
(* end: forwards as bars close, backwards as history.py fills it.  Closes  *)
(* are integers, a stored bar is a closed one, and on which bars the sign  *)
(* fires is given.                                                         *)
(***************************************************************************)
EXTENDS Integers, Sequences, FiniteSets, SequencesExt, FiniteSetsExt, Functions, Lists

CONSTANTS
    Markets,     \* closing prices, bar by bar
    FirstCached, \* the bar the store begins with
    InSampleOf,  \* <<n, d>>: 1 - OOS_FRACTION
    Threshold,   \* <<n, d>>: a move of n/d of the entry confirms a swing
    LookAhead,   \* bars after the fire that are looked at
    Longs,       \* the bars on which the sign fires long
    Shorts,      \* and short
    MonthBars,   \* bars of a month
    PhaseLists,  \* the phases a monthly run is asked for
    MaxStudies   \* bound: studies

Phases == {"benchmark", "validate", "report", "backtest"}

ASSUME BenchmarkAssumption ==
    /\ \A m \in Markets : m \in Seq(Nat \ {0}) /\ FirstCached \in DOMAIN m
    /\ {Threshold, InSampleOf} \subseteq (Nat \ {0}) \X (Nat \ {0})
    /\ InSampleOf[1] < InSampleOf[2]
    /\ {LookAhead, MonthBars} \subseteq Nat \ {0}
    /\ Longs \cup Shorts \subseteq Nat /\ Longs \cap Shorts = {}
    /\ PhaseLists \subseteq Seq(Phases)

VARIABLES
    closes,     \* what the market's bars close at, past and to come
    firstBar,   \* the oldest bar of the cache
    lastBar,    \* and the newest
    fires,      \* sign_fire
    pooled,     \* sign_benchmark_run; no months: the row of period "pooled"
    studied     \* history: the bars every study has read

storeVars     == <<closes, firstBar, lastBar>>
benchmarkVars == <<storeVars, fires, pooled, studied>>

BenchmarkInit ==
    /\ closes \in Markets /\ firstBar = FirstCached /\ lastBar = FirstCached
    /\ fires = <<>> /\ pooled = <<>> /\ studied = <<>>

Stored == firstBar .. lastBar

BarCloses ==
    /\ lastBar < Len(closes) /\ lastBar' = lastBar + 1
    /\ UNCHANGED <<closes, firstBar, fires, pooled, studied>>

OlderBarFilled ==
    /\ firstBar > 1 /\ firstBar' = firstBar - 1
    /\ UNCHANGED <<closes, lastBar, fires, pooled, studied>>

-----------------------------------------------------------------------------
(* The split, and what a fire came to.                                     *)

(* The last bar of the sample: the most recent bars are kept out of it.    *)
LastInSample ==
    firstBar - 1 + (Cardinality(Stored) * InSampleOf[1]) \div InSampleOf[2]

(* Mutant: the split is forgotten.                                         *)
MutBarsOf(phase) == Stored

BarsOf(phase) ==
    {b \in Stored : IF phase = "backtest" THEN b > LastInSample ELSE b <= LastInSample}

Confirms(move, entry) == move * Threshold[2] >= Threshold[1] * entry

(* Mutant: the larger excursion decides.                                   *)
MutRises(up, down, high, low) == high >= low

(* The threshold crossed first decides, else the larger excursion.         *)
Rises(up, down, high, low) ==
    IF up = {} /\ down = {} THEN high >= low
    ELSE up # {} /\ (down = {} \/ Min(up) < Min(down))

(* The closes are read until both thresholds are crossed or the window, or *)
(* the study's last bar, ends.                                             *)
UntilBothCrossed(ahead, up, down) ==
    {b \in ahead : up = {} \/ down = {} \/ b <= Max({Min(up), Min(down)})}

PeakOf(up, down, high, low) ==
    IF high = 0 /\ low = 0 THEN [dir |-> 0, size |-> 0]
    ELSE IF Rises(up, down, high, low) THEN [dir |-> 1, size |-> high]
    ELSE [dir |-> -1, size |-> low]

FirstZigzagPeak(bar, last) ==
    LET ahead == (bar + 1) .. Min({last, bar + LookAhead})
        Move(b) == closes[b] - closes[bar]
        up    == {b \in ahead : Confirms(Move(b), closes[bar])}
        down  == {b \in ahead : Confirms(-Move(b), closes[bar])}
        read  == UntilBothCrossed(ahead, up, down)
    IN  PeakOf(up, down, Max({Move(b) : b \in read} \cup {0}),
                         Max({-Move(b) : b \in read} \cup {0}))

(* The outcome as the fire's side sees it.                                 *)
Measured(bar, last) ==
    LET peak == FirstZigzagPeak(bar, last)
    IN  [at |-> bar, size |-> peak.size,
         dir |-> IF bar \in Shorts THEN -peak.dir ELSE peak.dir]

MeasureFires(bars) ==
    LET fired == InOrder(bars \cap (Longs \cup Shorts))
    IN  [i \in DOMAIN fired |-> Measured(fired[i], Max(bars))]

(* sign_metrics counts the fires whose signed return is not zero.          *)
Events(rows) == Cardinality({i \in DOMAIN rows : rows[i].size # 0})

-----------------------------------------------------------------------------
(* The studies.                                                            *)

Study(phase, bars) ==
    [phase |-> phase, from |-> firstBar, bars |-> bars]

(* What the store keeps the rows of.                                       *)
Stores(phase) == phase \in {"benchmark", "backtest"}

Replaces(phase) == phase = "benchmark"

RunBenchmark ==
    /\ Len(studied) < MaxStudies
    /\ \E phase \in {"benchmark", "backtest"}, persist \in BOOLEAN :
          LET rows == MeasureFires(BarsOf(phase))
          IN  /\ studied' = Append(studied, Study(phase, BarsOf(phase)))
              /\ IF persist
                 THEN /\ fires' = (IF Replaces(phase) THEN <<>> ELSE fires) \o rows
                      /\ pooled' = Append(pooled, [phase |-> phase, months |-> {}, n |-> Events(rows)])
                 ELSE UNCHANGED <<fires, pooled>>
    /\ UNCHANGED storeVars

MonthOf(bar) == bar \div MonthBars

(* One row for each month that has a fire.                                 *)
MonthRows(phase, rows) ==
    LET months    == InOrder({MonthOf(rows[i].at) : i \in DOMAIN rows})
        Of(month) == Restrict(rows, {i \in DOMAIN rows : MonthOf(rows[i].at) = month})
    IN  [i \in DOMAIN months |->
           [phase |-> phase, months |-> {months[i]}, n |-> Events(Of(months[i]))]]

PhaseRows(phase) ==
    IF Stores(phase) THEN MonthRows(phase, MeasureFires(BarsOf(phase))) ELSE <<>>

(* The phases of one call read one cache; only two of them are stored.     *)
RunMultiyear ==
    /\ Len(studied) < MaxStudies
    /\ \E phases \in PhaseLists :
          /\ studied' = studied \o [i \in DOMAIN phases |-> Study(phases[i], BarsOf(phases[i]))]
          /\ pooled' = FoldLeft(LAMBDA all, phase : all \o PhaseRows(phase), pooled, phases)
    /\ UNCHANGED <<storeVars, fires>>

(* The score calibration and the regime split store nothing.               *)
Calibrate ==
    /\ Len(studied) < MaxStudies
    /\ studied' = Append(studied, Study("calibrate", BarsOf("calibrate")))
    /\ UNCHANGED <<storeVars, fires, pooled>>

BenchmarkNext ==
    \/ BarCloses \/ OlderBarFilled \/ RunBenchmark \/ RunMultiyear \/ Calibrate

BenchmarkSpec == BenchmarkInit /\ [][BenchmarkNext]_benchmarkVars

-----------------------------------------------------------------------------
(* While the store only grows forwards, no bar a fitting study has read is *)
(* ever tested on as out of sample afterwards (evaluation_guide.md:550).   *)
OosStaysUnseen ==
    \A i, j \in DOMAIN studied :
        /\ i < j /\ studied[i].phase # "backtest" /\ studied[j].phase = "backtest"
        /\ studied[i].from = studied[j].from
        => studied[i].bars \cap studied[j].bars = {}

(* Two measurements of a fire that both see a confirmed swing agree on its *)
(* direction, over however many bars and in whichever phase each was made. *)
Confirmed(row) == Confirms(row.size, closes[row.at])

DirectionsAreFinal ==
    [][\A i \in DOMAIN fires, j \in DOMAIN fires' :
          fires[i].at = fires'[j].at /\ Confirmed(fires[i]) /\ Confirmed(fires'[j])
          => fires'[j].dir = fires[i].dir]_benchmarkVars

(* The fires that are stored are those the pooled rows since the last      *)
(* benchmark count, runs out of sample and repeated ones included.         *)
FiresAreAccountedFor ==
    LET all   == {i \in DOMAIN pooled : pooled[i].months = {}}
        start == Max({i \in all : Replaces(pooled[i].phase)} \cup {1})
    IN  Events(fires) = SumFunctionOnSet([i \in DOMAIN pooled |-> pooled[i].n],
                                         {i \in all : i >= start})

(* What the studies report can be relied on.                               *)
BenchmarksAreSound == OosStaysUnseen /\ FiresAreAccountedFor

=============================================================================
