-------------------------------- MODULE Rides --------------------------------
(***************************************************************************)
(* The strategies that are replayed over a window of bars: each hour the   *)
(* auto trader hands precompute_multi the bars live_bars returned, and the *)
(* simulator looks the entries of every bar up in its answer.  The window  *)
(* starts at the beginning of a day, so it slides; a position lives only   *)
(* as long as the replay still finds the entry that opened it.             *)
(*                                                                         *)
(* Positions in a window count from 1; the code's index t is u - 1.        *)
(***************************************************************************)
EXTENDS Signs

CONSTANTS
    RidesTried,     \* the strategies under test, of RideNames
    RideShapes,     \* the bars the market can print next
    Histories,      \* the series a behaviour may start with
    MaxHistory,     \* bound: bars of a series
    RideDay,        \* bars of a trading day
    RideDays,       \* closed trading days of a window
    TargetWindow,   \* target_window
    MinDist,        \* target_min_dist_frac
    SlMult,         \* sl_mult
    Recency,        \* weights of the box of density_pullback, oldest bar first
    BreakoutK,      \* breakout_k
    LimitOffset,    \* limit_offset
    AcceptBand,     \* accept_band of the confirmed variant
    InvalDepth,     \* invalidation_depth of the ETH and XRP variants
    MaxBase,        \* max_base_bars
    LimitWindow,    \* limit_window
    RideTimeStop,   \* time_stop_bars
    AtrPeriod,      \* atr_period
    RankWindow,     \* rank_window, also atr_rank_window
    SqueezeMax,     \* squeeze_rank_max
    ExpandMult,     \* expand_mult
    MaxAtrRank,     \* max_atr_rank of random_hedge_volfilter
    GateMin,        \* atr_rank_min of the regime gate
    Oversold, Overbought,  \* of 1
    TrendSpan,      \* trend_ema, odd so that its smoothing is 1 over a whole number
    TrendLag,       \* trend_slope_lb
    Draws           \* the random entries: a Boolean for each bar of a replay

RideNames ==
    {"random_hedge", "random_hedge_volfilter", "random_hedge_density",
     "density_multi_breakout", "density_multi_relative", "density_multi_volgate",
     "density_pullback", "density_pullback_xrp", "density_pullback_market",
     "density_pullback_confirm", "zigzag_bounce_ride", "zigzag_bounce_ride_pullback",
     "vol_expansion_ride", "rsi_extreme_ride", "combo_dp_ver"}

PullbackNames ==
    {"density_pullback", "density_pullback_xrp", "density_pullback_market",
     "density_pullback_confirm"}

MultiNames ==
    {"density_multi_breakout", "density_multi_relative", "density_multi_volgate"}

(* The strategies the default books run.                                   *)
LiveNames == {"density_pullback", "density_pullback_xrp"}

ASSUME RidesAssumption ==
    /\ RidesTried \subseteq RideNames
    /\ {RideDay, RideDays, TargetWindow, AtrPeriod, RankWindow, TrendSpan, MaxBase,
        LimitWindow, RideTimeStop} \subseteq Nat \ {0}
    /\ TrendSpan % 2 = 1 /\ TrendLag \in Nat
    /\ Len(Recency) = Window
    /\ \A bars \in Histories : bars # <<>> /\ bars \in Seq(Range(bars))

VARIABLES
    ride,       \* the strategy of this behaviour
    market,     \* every bar so far
    windowStart, \* the first bar of the window
    signals,    \* what the replay of the window signals at each of its bars
    acted       \* history: the entries of the bars that were the newest

rideVars == <<ride, market, windowStart, signals, acted>>

---------------------------------------------------------------------------
(* The average of values that moves 1/n of the way to each next one; to be *)
(* whole, in units of 1 / n ^ (their number - 1).                          *)
SmoothedTo(values, n) ==
    LET at[k \in DOMAIN values] ==
          IF k = 1 THEN values[1] ELSE (n - 1) * at[k - 1] + n ^ (k - 2) * values[k]
    IN at[Len(values)]

Smoothed(values, n) == [k \in DOMAIN values |-> SmoothedTo(SubSeq(values, 1, k), n)]

(* The first values are not known, and are zero.                           *)
Warmed(values, unknown) ==
    [k \in DOMAIN values |-> IF k <= unknown THEN 0 ELSE values[k]]

Distance(x, y) == Larger(x, y) - Smaller(x, y)

TrueRange(bars) ==
    [k \in DOMAIN bars |->
       IF k = 1 THEN bars[k].high - bars[k].low
       ELSE Max({bars[k].high - bars[k].low, Distance(bars[k].high, bars[k - 1].close),
                 Distance(bars[k].low, bars[k - 1].close)})]

Closes(bars) == [k \in DOMAIN bars |-> bars[k].close]

Atr(bars) == Warmed(Smoothed(TrueRange(bars), AtrPeriod), AtrPeriod - 1)

(* RSI as a fraction of 1: the average gain over gain and loss.            *)
Rsi(bars) ==
    LET delta == [k \in 1 .. Len(bars) - 1 |-> bars[k + 1].close - bars[k].close]
        gain  == Smoothed([k \in DOMAIN delta |-> Atleast0(delta[k])], AtrPeriod)
        loss  == Smoothed([k \in DOMAIN delta |-> Atleast0(-delta[k])], AtrPeriod)
    IN [k \in DOMAIN bars |->
          IF k <= AtrPeriod THEN <<0, 1>>
          ELSE IF loss[k - 1] = 0 THEN <<1, 1>>
          ELSE <<gain[k - 1], gain[k - 1] + loss[k - 1]>>]

Below(x, y) == x[1] * y[2] < y[1] * x[2]

(* The share of values that are at most v, compared with a fraction.       *)
Rank(values, v) ==
    <<Cardinality({ k \in DOMAIN values : values[k] <= v }), Len(values)>>

(* The direction of the average: 1 up, -1 down, 0 neither.                 *)
Trend(bars, u) ==
    LET n     == (TrendSpan + 1) \div 2
        avg   == Warmed(Smoothed(Closes(bars), n), TrendSpan - 1)
        close == bars[u].close * n ^ (u - 1)
        was   == avg[u - TrendLag] * n ^ TrendLag
    IN IF u <= TrendLag THEN 0
       ELSE IF close > avg[u] /\ avg[u] > was THEN 1
       ELSE IF close < avg[u] /\ avg[u] < was THEN -1
       ELSE 0

(* _trend_ok, for the rides that drop entries against the trend.           *)
WithTrend(bars, side, u) == Trend(bars, u) # (IF side = Long THEN -1 ELSE 1)

(* The ATRs from a bar to bar u, in units of the last.                     *)
AtrsUpTo(atr, first, u) ==
    [k \in 1 .. u - first + 1 |-> atr[first + k - 1] * AtrPeriod ^ (u - first - k + 1)]

(* _gate_ok of random_hedge_volfilter.                                     *)
QuietEnough(atr, u) ==
    Below(Rank(AtrsUpTo(atr, Larger(1, u - RankWindow), u), atr[u]), MaxAtrRank)

(* A quantile interpolated between two values, times q[2].                 *)
Quantile(values, q) ==
    LET s   == SortSeq(values, <)
        pos == q[1] * (Len(s) - 1)
        k   == pos \div q[2] + 1
    IN q[2] * s[k]
         + (pos % q[2]) * (s[Smaller(k + 1, Len(s))] - s[k])

(* The regime gate: the upper part of the ATRs of the last RankWindow bars.*)
InRegime(atr, u) ==
    LET past == AtrsUpTo(atr, Larger(1, u - RankWindow + 1), u)
    IN Len(past) >= RankWindow \div 2 /\ GateMin[2] * atr[u] >= Quantile(past, GateMin)

(* Whether a strategy may enter at a bar: the gate in front of another.    *)
Gated(name, atr, u) == name = "density_multi_volgate" => InRegime(atr, u)

---------------------------------------------------------------------------
(* A signal is [side, price, stop, target, limit, inval]: stop is the      *)
(* distance of the stop, target the node the target was read from, limit   *)
(* the resting order's price; NoPrice where there is none.                 *)

(* The bars a replay needs before it signals.                              *)
HedgeWarm == Larger(TargetWindow, Size * (MaxLegs + 2)) + 2

PullbackWarm == Larger(HedgeWarm, Window + 2)

Warm(name) ==
    CASE name \in PullbackNames -> PullbackWarm
      [] name \in MultiNames -> Window
      [] name = "random_hedge_density" -> Larger(HedgeWarm, Window + 1)
      [] name \in {"zigzag_bounce_ride", "zigzag_bounce_ride_pullback"} ->
           Larger(HedgeWarm, BounceWindow)
      [] name = "vol_expansion_ride" -> Larger(HedgeWarm, RankWindow + 2)
      [] OTHER -> HedgeWarm

(* The window of the live books warms up the longest lookback, the bars of *)
(* the box and the accepted ones before it, and then still holds the entry *)
(* of every open position (recent_bars, days).                             *)
ASSUME WindowAssumption ==
    /\ PullbackWarm > Window + MaxBase
    /\ RideDays * RideDay > PullbackWarm + LimitWindow + RideTimeStop

(* The node an entry at bar u aims at.                                     *)
Target(bars, u, side, price, dist) ==
    NextDense(SubSeq(bars, Larger(1, u - TargetWindow), u - 1), price, side = Long, dist)

(* The exits of the hedge framework around an entry, from a band.          *)
Entry(bars, u, side, price, limit, inval, band) ==
    [side |-> side, price |-> price, limit |-> limit, inval |-> inval,
     stop |-> Times(SlMult, band),
     target |-> Target(bars, u, side, price, Times(MinDist, band))]

(* random_hedge: both sides, on a random bar.                              *)
Drawn(name, u) == Draws[u - Warm(name)]

BothSides == <<Long, Short>>

Hedge(bars, peaks, u) ==
    LET close == bars[u].close
    IN [i \in 1 .. 2 |-> Entry(bars, u, BothSides[i], close, NoPrice, NoPrice,
                               BandOf(Legs(bars, peaks, u), close))]

(* random_hedge_density: limits at the edges of the box that are a         *)
(* concession.  A box of one bin has both edges at its centre.             *)
BoxEdges(profile, bins) ==
    << [side |-> Long, price |-> profile.center[Min(bins)]],
       [side |-> Short, price |-> profile.center[Max(bins)]] >>

EdgeHedge(bars, peaks, u) ==
    LET profile == TimeProfile(SubSeq(bars, u - Window, u - 1))
        close   == bars[u].close
        corners == BoxEdges(profile, ValueBins(profile.weight))
        legs    == AtPlaces(corners, { k \in 1 .. 2 :
                                       Past(corners[k].side, corners[k].price, close) > 0 })
    IN [i \in DOMAIN legs |->
          Entry(bars, u, legs[i].side, legs[i].price, legs[i].price, NoPrice,
                BandOf(Legs(bars, peaks, u), close))]

(* The box before bar u, _rolling_bands and its two variants.              *)
Box(name, bars, u) ==
    IF u <= Window THEN NoBand
    ELSE LET past == SubSeq(bars, u - Window, u - 1)
         IN CASE name \in PullbackNames -> ValueArea(WeightedTimeProfile(past, Recency))
              [] name = "density_multi_relative" -> RelativeBand(TimeProfile(past))
              [] OTHER -> ValueArea(TimeProfile(past))

(* The edge of the box that bar u closes beyond, coming from inside.       *)
BoxBreaks(name, bars, u, k) ==
    { f \in Edges(Box(name, bars, u)) :
        /\ Inside(f, bars[u - 1].close)
        /\ Tight(Height(f), bars[u].close)
        /\ k[2] * Past(f.side, f.near, bars[u].close) > k[1] * Height(f) }

(* density_multi_breakout: the stop beyond the far edge, the target beyond *)
(* the near one by a fraction of the box.                                  *)
MultiEntries(name, bars, u) ==
    { [side |-> f.side, price |-> bars[u].close, limit |-> NoPrice, inval |-> NoPrice,
       stop |-> <<StopBuffer[2] * Past(f.side, f.far, bars[u].close)
                    + StopBuffer[1] * Height(f), StopBuffer[2]>>,
       target |-> Target(bars, u, f.side, f.near, Times(MinDist, <<Height(f), 1>>))] :
        f \in BoxBreaks(name, bars, u, <<0, 1>>) }

---------------------------------------------------------------------------
(* density_pullback.                                                       *)
Accepted(name, bars, j) ==
    \E f \in Edges(Box(name, bars, j)) : Inside(f, bars[j].close)

(* base_streak[t - 1] > max_base_bars                                      *)
LongAccepted(name, bars, u) ==
    \A j \in u - 1 - MaxBase .. u - 1 : j > 0 /\ Accepted(name, bars, j)

(* A level in the box, measured from the edge that broke.                  *)
Within(f, depth) ==
    IF f.side = Long THEN <<depth[2] * f.near - depth[1] * Height(f), depth[2]>>
                     ELSE <<depth[2] * f.near + depth[1] * Height(f), depth[2]>>

(* The first bar to close back behind the edge, unless it closes through   *)
(* the acceptance band.                                                    *)
Confirmation(f, bars, u) ==
    LET back == { j \in u + 1 .. Smaller(u + LimitWindow, Len(bars)) :
                    Past(f.side, f.near, bars[j].close) <= 0 }
        j    == Min(back)
        floor == Within(f, AcceptBand)
    IN IF back = {} THEN {}
       ELSE IF Past(f.side, floor[1], floor[2] * bars[j].close) < 0 THEN {} ELSE {j}

(* The bars whose close an entry for the breakout f of bar u is read from. *)
EntryBars(name, f, bars, u) ==
    IF name = "density_pullback_confirm" THEN Confirmation(f, bars, u) ELSE {u}

(* Prices divide by LimitOffset[2] and InvalDepth[2].                      *)
Pullback(name, f, bars, peaks, u) ==
    LET offset == Within(f, LimitOffset)
        inval  == Within(f, InvalDepth)
        price  == IF name = "density_pullback_market" THEN bars[u].close
                  ELSE offset[1] \div offset[2]
    IN Entry(bars, u, f.side, price,
             IF name \in {"density_pullback_market", "density_pullback_confirm"}
             THEN NoPrice ELSE price,
             IF name = "density_pullback_xrp" THEN inval[1] \div inval[2] ELSE NoPrice,
             BandOf(Legs(bars, peaks, u), price))

AsSeq(S) == SetToSeq(S)

(* The breakout of bar u, when bar v is where its entry is read from.      *)
BreakoutEntry(name, bars, peaks, u, v) ==
    { Pullback(name, f, bars, peaks, u) :
        f \in { g \in BoxBreaks(name, bars, u, BreakoutK) :
                  ~LongAccepted(name, bars, u) /\ v \in EntryBars(name, g, bars, u) } }

PullbackEntries(name, bars, peaks, v) ==
    LET first == Larger(Warm(name) + 1, v - LimitWindow)
    IN FlattenSeq([k \in 1 .. v - first + 1 |->
                     AsSeq(BreakoutEntry(name, bars, peaks, first + k - 1, v))])

---------------------------------------------------------------------------
(* vol_expansion_ride: a bar that bursts out of a squeeze, unless it first *)
(* went beyond the bar before it the other way.                            *)
Bursts(bars, atr, u) ==
    LET before == atr[u - 1]
        side   == IF bars[u].close >= bars[u].open THEN Long ELSE Short
        past   == AtrsUpTo(atr, Larger(1, u - 1 - RankWindow), u - 1)
        scale  == AtrPeriod ^ (u - 2)
    IN { s \in {side} :
           /\ before > 0
           /\ ~Below(SqueezeMax, Rank(past, before))
           /\ ExpandMult[2] * scale * TrueRange(bars)[u] >= ExpandMult[1] * before
           /\ IF s = Long THEN bars[u].low >= bars[u - 1].low
                          ELSE bars[u].high <= bars[u - 1].high
           /\ WithTrend(bars, s, u) }

(* rsi_extreme_ride: the index leaves its range, and price goes on.        *)
Extremes(bars, u) ==
    LET r  == Rsi(bars)[u]
        rp == Rsi(bars)[u - 1]
    IN { s \in {Long, Short} :
           IF s = Short THEN ~Below(rp, Oversold) /\ Below(r, Oversold)
                        ELSE ~Below(Overbought, rp) /\ Below(Overbought, r) }

(* Market entries of the hedge framework.                                  *)
MarketEntries(bars, peaks, u, sides) ==
    LET close == bars[u].close
    IN { Entry(bars, u, s, close, NoPrice, NoPrice, BandOf(Legs(bars, peaks, u), close)) :
           s \in sides }

(* zigzag_bounce_ride: the fires of the sign; the pullback variant waits   *)
(* at the level when that is a concession.                                 *)
BounceEntries(name, bars, u) ==
    LET close == bars[u].close
        Limit(f) == IF name = "zigzag_bounce_ride_pullback" /\ Past(f.side, f.near, close) > 0
                    THEN f.near ELSE NoPrice
        Price(f) == IF Limit(f) = NoPrice THEN close ELSE f.near
    IN { Entry(bars, u, f.side, Price(f), Limit(f), NoPrice, BandOf(f.legs, close)) :
           f \in { g \in ZigzagBounce(TRUE, bars, u) : WithTrend(bars, g.side, u) } }

---------------------------------------------------------------------------
(* What the replay of a window signals at its bar u, in order.             *)
WarmSignals(name, bars, peaks, atr, u) ==
    CASE name \in {"random_hedge", "random_hedge_volfilter"} ->
           IF Drawn(name, u) /\ (name = "random_hedge_volfilter" => QuietEnough(atr, u))
           THEN Hedge(bars, peaks, u) ELSE <<>>
      [] name = "random_hedge_density" ->
           IF Drawn(name, u) THEN EdgeHedge(bars, peaks, u) ELSE <<>>
      [] name \in MultiNames ->
           IF Gated(name, atr, u) THEN AsSeq(MultiEntries(name, bars, u)) ELSE <<>>
      [] name \in PullbackNames -> PullbackEntries(name, bars, peaks, u)
      [] name \in {"zigzag_bounce_ride", "zigzag_bounce_ride_pullback"} ->
           AsSeq(BounceEntries(name, bars, u))
      [] OTHER ->
           AsSeq(MarketEntries(bars, peaks, u,
                   IF name = "vol_expansion_ride" THEN Bursts(bars, atr, u)
                   ELSE Extremes(bars, u)))

SignalsAt(name, bars, peaks, atr, u) ==
    IF u <= Warm(name) THEN <<>> ELSE WarmSignals(name, bars, peaks, atr, u)

(* precompute_multi; combo_dp_ver puts two strategies in one book.         *)
Precompute(name, bars) ==
    LET peaks == Peaks(bars)
        atr   == SubSeq(Atr(bars), 1, Len(bars))
        inner == IF name = "combo_dp_ver" THEN <<"density_pullback", "vol_expansion_ride">>
                 ELSE <<name>>
    IN [u \in DOMAIN bars |->
          FlattenSeq([i \in DOMAIN inner |-> SignalsAt(inner[i], bars, peaks, atr, u)])]

---------------------------------------------------------------------------
(* The window of the run after bar n has closed: the bars of the day that  *)
(* then is and of the RideDays days before it.                             *)
MutWindowStart(n) == Larger(0, n \div RideDay - RideDays + 1) * RideDay + 1

WindowStart(n) == Larger(0, n \div RideDay - RideDays) * RideDay + 1

WindowBars(bars) == SubSeq(bars, WindowStart(Len(bars)), Len(bars))

(* By bar of the market.                                                   *)
Replayed(name, bars) ==
    LET first == WindowStart(Len(bars))
        found == Precompute(name, WindowBars(bars))
    IN [t \in first .. Len(bars) |-> found[t - first + 1]]

Entries(n, sigs) ==
    { [bar |-> n, side |-> sigs[n][k].side, limit |-> sigs[n][k].limit] :
        k \in DOMAIN sigs[n] }

RidesInit ==
    /\ ride \in RidesTried
    /\ market \in Histories
    /\ windowStart = WindowStart(Len(market))
    /\ \E runs \in { [n \in DOMAIN market |-> Replayed(ride, SubSeq(market, 1, n))] } :
         /\ signals = runs[Len(market)]
         /\ acted = UNION { Entries(n, runs[n]) : n \in DOMAIN market }

(* An hour later: the newest bar, and the replay of the window that ends   *)
(* with it.  What it signals at that bar is acted on.                      *)
NextRun(bar) ==
    /\ Len(market) < MaxHistory
    /\ market' = Append(market, bar)
    /\ windowStart' = WindowStart(Len(market'))
    /\ signals' = Replayed(ride, market')
    /\ acted' = acted \cup Entries(Len(market'), signals')
    /\ UNCHANGED ride

RidesNext == \E bar \in RideShapes : NextRun(bar)

RidesSpec == RidesInit /\ [][RidesNext]_rideVars

---------------------------------------------------------------------------
(* An entry that was acted on is still signalled, at its bar, on its side  *)
(* and at its price, while its order can rest and its position be held:    *)
(* the window never drops the entry of an open position (recent_bars, "A   *)
(* window that drops an open position's entry makes the strategy stop      *)
(* wanting it").                                                           *)
ActedEntriesStay ==
    ride \in LiveNames =>
        \A a \in acted : Len(market) - a.bar <= LimitWindow + RideTimeStop =>
            a \in Entries(a.bar, signals)

(* Confirmed peaks alternate between highs and lows, so that a leg is the  *)
(* distance of a whole swing (confirmed_leg_sizes).                        *)
ConfirmedPeaksAlternate ==
    LET peaks == Peaks(market)
        swings == { k \in DOMAIN peaks : peaks[k].kind \in {2, -2} }
    IN \A j, k \in swings :
         j < k /\ j + 1 .. k - 1 \cap swings = {} => peaks[j].kind = -peaks[k].kind

(* A run signals at the bars its window is long enough for what the run    *)
(* before it did, also when the window has moved on (recent_bars: long     *)
(* enough to warm up "the strategy's longest lookback", the accepted bars  *)
(* of the box included).                                                   *)
EntriesSurviveTheSlide ==
    [][\A t \in windowStart' + Warm(ride) .. Len(market) :
         ride \in LiveNames => Entries(t, signals') = Entries(t, signals)]_rideVars

(* No repainting: as long as the window starts where it did, what a replay *)
(* signals at a bar, exits included, is what the replays after it signal   *)
(* there (the comments "causal" of every precompute_multi).                *)
SignalsAreFinal ==
    [][windowStart' = windowStart => \A t \in DOMAIN signals : signals'[t] = signals[t]]_rideVars

(* What a run of the auto trader signalled, the runs after it signal too.  *)
RunsAgree == EntriesSurviveTheSlide /\ SignalsAreFinal
=============================================================================
