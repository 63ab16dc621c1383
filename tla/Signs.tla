------------------------------- MODULE Signs -------------------------------
(***************************************************************************)
(* The detectors under signs/ and the strategies that ask them bar by bar. *)
(* A detector looks at a run of bars and says whether the last one fires.  *)
(* Two callers ask it: the benchmark hands detect() the whole series, the  *)
(* simulator pushes one bar at a time into a strategy that keeps only a    *)
(* bounded buffer and evaluates it once it is warm.  The comments of the   *)
(* strategies promise that both see the same fires.                        *)
(***************************************************************************)
EXTENDS Indicators

CONSTANTS
    SignsTried,     \* the detectors under test, of SignNames
    Shapes,         \* the bars the market can print next
    Openings,       \* the series a behaviour may start with
    MaxBars,        \* bound: bars of a series
    Window,         \* bars a profile is built from
    Confirm,        \* confirm_bars
    MaxBandPct,     \* max_band_pct
    BreakFrac,      \* min_break_frac
    BodyRatio,      \* body_ratio of the acceptance profiles
    VolCap,         \* vol_clip
    Lookback,       \* swing_lookback
    ClearAir,       \* clear_air_pct
    Touch,          \* tol_pct of density_band
    Pierce,         \* pierce_frac
    Near,           \* tol_pct of zigzag_bounce
    Lookbacks,      \* windows of zigzag_bounce
    WallWindow,     \* wall_window
    Dominant,       \* dominant_window
    LegsKept,       \* n_legs
    StopBuffer      \* sl_buffer

SignNames ==
    {"density_breakout", "density_breakout_acc", "density_breakout_vol",
     "density_breakout_clearair", "density_volwall_breakout", "density_band",
     "zigzag_bounce", "zigzag_bounce_levels"}

ASSUME SignsAssumption ==
    /\ SignsTried \subseteq SignNames
    /\ Window \in Nat /\ Window >= 2 /\ Confirm \in Nat \ {0} /\ Confirm <= Window
    /\ Lookback \in Nat \ {0} /\ WallWindow \in Nat \ {0} /\ Dominant \in Nat \ {0}
    /\ Lookbacks # {} /\ Lookbacks \subseteq Nat \ {0} /\ IsFiniteSet(Lookbacks)
    /\ \A bars \in Openings : bars \in Seq(Range(bars))

VARIABLES
    sign,       \* the detector of this behaviour
    series,     \* the bars so far
    buffer,     \* the bars the strategy keeps
    answer,     \* what on_bar made of the newest bar
    detected    \* detect() over the series: the fires of each bar

signVars == <<sign, series, buffer, answer, detected>>

---------------------------------------------------------------------------
(* A fire is [side, near, far]: the broken or touched edge and the one      *)
(* across the band.  An evaluation is the set of at most one fire.         *)
Long == "LONG"
Short == "SHORT"
At(bars, back) == bars[Len(bars) - back]

Edges(band) ==
    IF band = NoBand THEN {}
    ELSE { [side |-> Long, near |-> band[2], far |-> band[1]],
           [side |-> Short, near |-> band[1], far |-> band[2]] }

(* How far a price is beyond an edge, in the direction of a side.          *)
Past(side, edge, price) == IF side = Long THEN price - edge ELSE edge - price

Height(f) == Larger(f.near, f.far) - Smaller(f.near, f.far)
Tight(height, close) == MaxBandPct[2] * height <= MaxBandPct[1] * close
Inside(f, price) == Past(f.side, f.near, price) <= 0 /\ Past(f.side, f.far, price) >= 0

(* The bars the profile of the newest one is built from.                   *)
ProfileBars(bars) == SubSeq(bars, Len(bars) - Window, Len(bars) - 1)

(* A close out of the value area of the Window bars before it, the bar     *)
(* before the confirming run still inside.                                 *)
Breakout(bars, profile) ==
    IF Len(bars) < Window + 1 \/ Len(bars) < Confirm + 1 THEN {}
    ELSE LET close == At(bars, 0).close
         IN { f \in Edges(ValueArea(profile)) :
                /\ Inside(f, At(bars, Confirm).close)
                /\ Tight(Height(f), close)
                /\ \A back \in 0 .. Confirm - 1 : Past(f.side, f.near, At(bars, back).close) > 0
                /\ BreakFrac[2] * Past(f.side, f.near, close) >= BreakFrac[1] * Height(f) }

(* No swing of the last Lookback bars, known by bar t, lies just ahead.    *)
MutConfirmable(peak, t) == peak.at <= t  \* the swing is still forming

Confirmable(peak, t) == peak.at + Size <= t

HasClearAir(bars, peaks, t, side) ==
    LET close == bars[t].close
    IN \/ ClearAir[1] = 0
       \/ \A k \in DOMAIN peaks :
            LET p == peaks[k]
                room == Past(side, close, PriceOf(bars, p))
            IN \/ ~Confirmable(p, t) \/ p.at < t - Lookback
               \/ (p.kind > 0) # (side = Long)
               \/ room < 0 \/ ClearAir[2] * room >= ClearAir[1] * close

(* A close out of a wall that only the volume profile has.                 *)
Overlaps(a, b) == a[1] <= b[2] /\ b[1] <= a[2]

OnlyVolume(walls, times) == { w \in walls : \A u \in times : ~Overlaps(w, u) }

VolWalls(past) ==
    IF Max(Highs(past)) <= Min(Lows(past)) THEN {}
    ELSE OnlyVolume(Walls(VolumeProfile(past, <<1, 2>>, VolCap)), Walls(TimeProfile(past)))

VolWallBreakout(bars) ==
    IF Len(bars) < Window + 1 THEN {}
    ELSE { f \in UNION { Edges(w) : w \in VolWalls(ProfileBars(bars)) } :
             /\ Inside(f, At(bars, 1).close)
             /\ Tight(Height(f), At(bars, 0).close)
             /\ Past(f.side, f.near, At(bars, 0).close) > 0 }

(* A bar that comes back to the band from outside and only touches it.     *)
BandTouch(bars) ==
    IF Len(bars) < Window + 1 THEN {}
    ELSE LET Tip(f) == IF f.side = Long THEN At(bars, 0).low ELSE At(bars, 0).high
         IN { f \in Edges(ValueArea(TimeProfile(ProfileBars(bars)))) :
                /\ Past(f.side, f.near, At(bars, 1).close) > 0
                /\ Touch[2] * (Larger(Tip(f), f.near) - Smaller(Tip(f), f.near)) <= Touch[1] * f.near
                /\ Pierce[2] * Past(f.side, f.near, Tip(f)) >= -(Pierce[1] * Height(f)) }

---------------------------------------------------------------------------
(* zigzag_bounce: the bar Middle bars back is the newest extreme, and a    *)
(* confirmed peak stands near it.                                          *)
ConfirmedSince(peaks, ep, window) ==
    SelectSeq(peaks, LAMBDA p : /\ p.kind \in {2, -2}
                                /\ ep - window <= p.at /\ p.at < ep)

OfKind(peaks, high) == SelectSeq(peaks, LAMBDA p : (p.kind > 0) = high)

Gap(bars, p, price) ==
    Larger(PriceOf(bars, p), price) - Smaller(PriceOf(bars, p), price)

(* The first of those that are least, as min() returns it.                 *)
Closest(bars, peaks, price) ==
    LET k == CHOOSE i \in DOMAIN peaks : \A j \in DOMAIN peaks :
               \/ Gap(bars, peaks[i], price) < Gap(bars, peaks[j], price)
               \/ Gap(bars, peaks[i], price) = Gap(bars, peaks[j], price) /\ i <= j
    IN peaks[k]

Outermost(bars, peaks) ==
    IF peaks = <<>> THEN <<>>
    ELSE LET k == CHOOSE i \in DOMAIN peaks : \A j \in DOMAIN peaks :
                    \/ Beats(bars, peaks[i].at, peaks[j].at, peaks[i].kind)
                    \/ ~Beats(bars, peaks[j].at, peaks[i].at, peaks[i].kind) /\ i <= j
         IN <<peaks[k]>>

(* A level of the other kind that price has crossed since.                 *)
Broken(bars, peaks, ep, high) ==
    SelectSeq(OfKind(peaks, ~high),
              LAMBDA p : IF high THEN Low(bars, p.at + 1 .. ep) < PriceOf(bars, p)
                                 ELSE High(bars, p.at + 1 .. ep) > PriceOf(bars, p))

Candidates(bars, peaks, ep, high, window) ==
    LET recent == ConfirmedSince(peaks, ep, window)
    IN Outermost(bars, OfKind(recent, high)) \o Broken(bars, recent, ep, high)

(* The levels tried: with wall matching every wall, otherwise those of the *)
(* narrowest window that has any, and those of the dominant one.           *)
References(walls, bars, peaks, ep, high) ==
    IF walls THEN OfKind(ConfirmedSince(peaks, ep, WallWindow), high)
    ELSE LET found == { w \in Lookbacks : Candidates(bars, peaks, ep, high, w) # <<>> }
         IN (IF found = {} THEN <<>> ELSE Candidates(bars, peaks, ep, high, Min(found)))
              \o Candidates(bars, peaks, ep, high, Dominant)

(* The entry already went through the latest swing of the other kind.      *)
Chases(bars, peaks, ep, high) ==
    LET swings == OfKind(ConfirmedSince(peaks, ep, WallWindow), ~high)
        recent == PriceOf(bars, swings[Len(swings)])
        close  == bars[Len(bars)].close
    IN swings # <<>> /\ IF high THEN close < recent ELSE close > recent

NearestOf(bars, refs, price) == IF refs = <<>> THEN {} ELSE {Closest(bars, refs, price)}

(* The extreme at ep is a high, or a low.                                  *)
BounceAt(walls, bars, peaks, ep, high) ==
    LET price == IF high THEN bars[ep].high ELSE bars[ep].low
    IN { [side |-> IF high THEN Short ELSE Long,
          near |-> PriceOf(bars, level), far |-> NoPrice,
          legs |-> Newest(ConfirmedLegs(bars, peaks), LegsKept)] :
           level \in { p \in NearestOf(bars, References(walls, bars, peaks, ep, high), price) :
                        /\ Near[2] * Gap(bars, p, price) <= Near[1] * price
                        /\ ~Chases(bars, peaks, ep, high) } }

Bounce(walls, bars) ==
    LET ep == Len(bars) - Middle
        around == ep - Size .. Len(bars)
        Extreme(high) == IF high THEN bars[ep].high = High(bars, around)
                                 ELSE bars[ep].low = Low(bars, around)
    IN UNION { BounceAt(walls, bars, Peaks(bars), ep, high) :
                 high \in { h \in BOOLEAN : ep > Size /\ Extreme(h) /\ ~Extreme(~h) } }

BounceWindow == Max(Lookbacks \cup {Dominant, WallWindow}) + 2 * Size + Middle + 5

---------------------------------------------------------------------------
(* What detect() makes of bar t of a series, last_fire() of the last one:  *)
(* each sign slices the bars it reads.  The peaks are those of all the     *)
(* bars it is given.                                                       *)
Slice(bars, t) == SubSeq(bars, Larger(1, t - Window), t)

DensityBreakout(bars, t) ==
    LET s == Slice(bars, t) IN Breakout(s, TimeProfile(ProfileBars(s)))

DensityBreakoutAcc(bars, t) ==
    LET s == Slice(bars, t) IN Breakout(s, TimeAcceptanceProfile(ProfileBars(s), BodyRatio))

DensityBreakoutVol(bars, t) ==
    LET s == Slice(bars, t) IN Breakout(s, VolumeProfile(ProfileBars(s), BodyRatio, VolCap))

DensityBreakoutClearair(bars, peaks, t) ==
    { f \in DensityBreakout(bars, t) : HasClearAir(bars, peaks, t, f.side) }

DensityVolwallBreakout(bars, t) == VolWallBreakout(Slice(bars, t))

DensityBand(bars, t) == BandTouch(Slice(bars, t))

ZigzagBounce(walls, bars, t) ==
    Bounce(walls, SubSeq(bars, Larger(1, t - BounceWindow + 1), t))

FireAt(name, bars, peaks, t) ==
    CASE name = "density_breakout" -> DensityBreakout(bars, t)
      [] name = "density_breakout_acc" -> DensityBreakoutAcc(bars, t)
      [] name = "density_breakout_vol" -> DensityBreakoutVol(bars, t)
      [] name = "density_breakout_clearair" -> DensityBreakoutClearair(bars, peaks, t)
      [] name = "density_volwall_breakout" -> DensityVolwallBreakout(bars, t)
      [] name = "density_band" -> DensityBand(bars, t)
      [] OTHER -> ZigzagBounce(name = "zigzag_bounce", bars, t)

PeaksFor(name, bars) ==
    IF name = "density_breakout_clearair" THEN Peaks(bars) ELSE <<>>

Detect(name, bars) ==
    LET peaks == PeaksFor(name, bars)
    IN [t \in DOMAIN bars |-> FireAt(name, bars, peaks, t)]

(* max_buffer of the strategy around a sign, which is also its warmup: the *)
(* swings that can matter must have become known within it.                *)
MutClearAirBuffer == Larger(Window, Lookback) + Confirm + 1

ClearAirBuffer == Larger(Window, Lookback) + Size + Confirm + 1

BufferLength(name) ==
    CASE name \in {"density_breakout", "density_breakout_acc", "density_breakout_vol"} ->
           Window + Confirm + 1
      [] name = "density_breakout_clearair" -> ClearAirBuffer
      [] name \in {"density_volwall_breakout", "density_band"} -> Window + 2
      [] OTHER -> BounceWindow

(* The order on_bar makes of a fire.  The strategies of the breakouts put   *)
(* the stop beyond the far edge of the band and set no target, the one of  *)
(* the band rebound aims a band height away (tp_mult 1), and that of the   *)
(* bounce sets both at the volatility band of the swings before it.        *)
BeyondFar(f, close) ==
    <<Larger(StopBuffer[2] * Past(f.side, f.far, close) + StopBuffer[1] * Height(f),
             StopBuffer[1] * Height(f)),
      StopBuffer[2]>>

OrderOf(f, stop, targets) ==
    [side |-> f.side, near |-> f.near, stop |-> stop, targets |-> targets]

NewestClose(bars) == bars[Len(bars)].close

RideOrders(bars, fires) ==
    { OrderOf(f, BeyondFar(f, NewestClose(bars)), {}) : f \in fires }

BandOrders(bars, fires) ==
    { OrderOf(f, BeyondFar(f, NewestClose(bars)), {<<Height(f), 1>>}) : f \in fires }

BothAt(f, band) == OrderOf(f, band, {band})

BounceOrders(bars, fires) ==
    { BothAt(f, BandOf(f.legs, NewestClose(bars))) : f \in fires }

(* on_bar of each strategy: what its sign says of the bars it keeps, and   *)
(* the order that goes with it.                                            *)
BreakoutOnBar(bars) == RideOrders(bars, DensityBreakout(bars, Len(bars)))
AccOnBar(bars) == RideOrders(bars, DensityBreakoutAcc(bars, Len(bars)))
VolOnBar(bars) == RideOrders(bars, DensityBreakoutVol(bars, Len(bars)))
ClearAirOnBar(bars) ==
    RideOrders(bars, DensityBreakoutClearair(bars, Peaks(bars), Len(bars)))
VolWallOnBar(bars) == RideOrders(bars, DensityVolwallBreakout(bars, Len(bars)))
BandOnBar(bars) == BandOrders(bars, DensityBand(bars, Len(bars)))
BounceOnBar(name, bars) ==
    BounceOrders(bars, ZigzagBounce(name = "zigzag_bounce", bars, Len(bars)))

(* What a strategy answers to the newest bar it keeps, once it is warm.    *)
OnBar(name, bars) ==
    IF Len(bars) < BufferLength(name) THEN {}
    ELSE CASE name = "density_breakout" -> BreakoutOnBar(bars)
           [] name = "density_breakout_acc" -> AccOnBar(bars)
           [] name = "density_breakout_vol" -> VolOnBar(bars)
           [] name = "density_breakout_clearair" -> ClearAirOnBar(bars)
           [] name = "density_volwall_breakout" -> VolWallOnBar(bars)
           [] name = "density_band" -> BandOnBar(bars)
           [] OTHER -> BounceOnBar(name, bars)

---------------------------------------------------------------------------
SignsInit ==
    /\ sign \in SignsTried
    /\ series \in Openings
    /\ buffer = Newest(series, BufferLength(sign))
    /\ answer = OnBar(sign, buffer)
    /\ detected = Detect(sign, series)

(* Strategy.push, and the benchmark's detect() over the longer series.     *)
PushBar(bar) ==
    /\ Len(series) < MaxBars
    /\ series' = Append(series, bar)
    /\ buffer' = Newest(Append(buffer, bar), BufferLength(sign))
    /\ answer' = OnBar(sign, buffer')
    /\ detected' = Detect(sign, series')
    /\ UNCHANGED sign

SignsNext == \E bar \in Shapes : PushBar(bar)

SignsSpec == SignsInit /\ [][SignsNext]_signVars

---------------------------------------------------------------------------
(* The strategy and the benchmark see the same fires: what on_bar makes of *)
(* the bars it keeps is the order that goes with what detect() finds in    *)
(* the whole series, stop and target included.  (The buffer's length in    *)
(* each strategy: "so on_bar and detect() agree".)                         *)
OrdersFor(name, bars, fires) ==
    CASE name = "density_band" -> BandOrders(bars, fires)
      [] name \in {"zigzag_bounce", "zigzag_bounce_levels"} -> BounceOrders(bars, fires)
      [] OTHER -> RideOrders(bars, fires)

OnBarAgreesWithDetect ==
    Len(series) >= BufferLength(sign) =>
        answer = OrdersFor(sign, series, detected[Len(series)])

(* No look-ahead: a later bar neither adds nor takes away the fire of an   *)
(* earlier one (Sign.detect, "MUST NOT use any data after a fire's bar").  *)
FiresAreFinal ==
    [][\A t \in DOMAIN series : detected'[t] = detected[t]]_signVars
=============================================================================
