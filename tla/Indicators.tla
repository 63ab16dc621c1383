----------------------------- MODULE Indicators -----------------------------
(***************************************************************************)
(* The pure algorithms the strategies read a window of bars with:          *)
(*   - the price histograms of indicators/density.py and what is cut from  *)
(*     them: the value area, the relative band, the walls, the next dense  *)
(*     node;                                                               *)
(*   - the zigzag peaks of indicators/zigzag.py, and the volatility band   *)
(*     exit/zs_tp_sl.py takes from the legs between them.                  *)
(*                                                                         *)
(* A bar is a record of open, high, low, close and volume.  Prices are     *)
(* multiples of 2 * NBins, so that edges and centres of bins are integers; *)
(* a histogram counts in units of 1/Unit of a bar, Unit a multiple of      *)
(* every span a bar can have.  Fractions are pairs <<p, q>>.               *)
(***************************************************************************)
EXTENDS Integers, Sequences, SequencesExt, FiniteSetsExt, Folds, Lists

CONSTANTS
    NBins,          \* n_bins
    Unit,           \* weight of a bar of weight 1
    Coverage,       \* coverage of the value area
    SigmaR,         \* sigma_r of the relative band, prominence_k of the walls
    PocRatio,       \* min_poc_ratio
    MinFrac,        \* target_min_frac
    MinNodeBars,    \* bars a target profile needs
    Size, Middle,   \* size and middle_size of the zigzag
    MaxLegs, MinLegs, Alpha, Fallback, WinsorK  \* parameters of ZsTpSl

NoPrice == -1

ASSUME IndicatorsAssumption ==
    /\ NBins \in Nat \ {0} /\ Unit \in Nat \ {0} /\ MinNodeBars \in Nat
    /\ Middle \in Nat /\ Size \in Nat /\ Middle < Size
    /\ MaxLegs \in Nat \ {0} /\ MinLegs \in Nat \ {0}

Total(w) == FoldFunction(+, 0, w)
Lows(bars) == { bars[k].low : k \in DOMAIN bars }
Highs(bars) == { bars[k].high : k \in DOMAIN bars }
Clip(x, lo, hi) == IF x < lo THEN lo ELSE IF x > hi THEN hi ELSE x
Atleast0(x) == IF x < 0 THEN 0 ELSE x
Smaller(x, y) == IF x < y THEN x ELSE y
Larger(x, y) == IF x > y THEN x ELSE y

---------------------------------------------------------------------------
(* Histograms.  The bounds are those of the window.                        *)
Edge(lo, hi, j) == lo + (j * (hi - lo)) \div NBins
Center(lo, hi, j) == (Edge(lo, hi, j - 1) + Edge(lo, hi, j)) \div 2

BinOf(lo, hi, p) ==
    Clip(Cardinality({ j \in 0 .. NBins : Edge(lo, hi, j) <= p }), 1, NBins)

Overlap(lo, hi, j, bottom, top) ==
    Atleast0(Smaller(top, Edge(lo, hi, j)) - Larger(bottom, Edge(lo, hi, j - 1)))

(* A part of a whole, or all of it when the whole is a point.              *)
ShareOf(part, whole, atPoint) ==
    IF whole > 0 THEN (Unit * part) \div whole ELSE IF atPoint THEN Unit ELSE 0

(* What a bar leaves in bin j: its weight, spread evenly over its range.   *)
TimeShare(lo, hi, bar, j) ==
    ShareOf(Overlap(lo, hi, j, bar.low, bar.high), bar.high - bar.low,
            j = BinOf(lo, hi, bar.low))

(* ... or tilted towards its body: a unit of body counts r, one of wick    *)
(* 1 - r.                                                                  *)
Tilted(r, body, all) == body * r[1] + Atleast0(all - body) * (r[2] - r[1])

BodyShare(r, lo, hi, bar, j) ==
    LET bottom == Smaller(bar.open, bar.close)
        top    == Larger(bar.open, bar.close)
    IN ShareOf(Tilted(r, Overlap(lo, hi, j, bottom, top), Overlap(lo, hi, j, bar.low, bar.high)),
               Tilted(r, top - bottom, bar.high - bar.low),
               j = BinOf(lo, hi, bar.close))

(* A value for each bin, written out once.                                 *)
PerBin(f) == SubSeq(f, 1, NBins)

(* shares[k][j]: what bin j has of bar k.                                  *)
Histogram(bars, norm, shares) ==
    LET lo == Min(Lows(bars))
        hi == Max(Highs(bars))
    IN IF hi <= lo
       THEN [center |-> PerBin([j \in 1 .. NBins |-> lo]),
             weight |-> PerBin([j \in 1 .. NBins |->
                          IF j = NBins \div 2 + 1 THEN Unit * Total(norm) ELSE 0])]
       ELSE [center |-> PerBin([j \in 1 .. NBins |-> Center(lo, hi, j)]),
             weight |-> PerBin([j \in 1 .. NBins |->
                          Total([k \in DOMAIN bars |-> norm[k] * shares[k][j]])])]

Ones(bars) == [k \in DOMAIN bars |-> 1]

TimeShares(bars) ==
    LET lo == Min(Lows(bars))
        hi == Max(Highs(bars))
    IN [k \in DOMAIN bars |-> [j \in 1 .. NBins |-> TimeShare(lo, hi, bars[k], j)]]

BodyShares(bars, r) ==
    LET lo == Min(Lows(bars))
        hi == Max(Highs(bars))
    IN [k \in DOMAIN bars |-> [j \in 1 .. NBins |-> BodyShare(r, lo, hi, bars[k], j)]]

TimeProfile(bars) == Histogram(bars, Ones(bars), TimeShares(bars))

WeightedTimeProfile(bars, weights) == Histogram(bars, weights, TimeShares(bars))

TimeAcceptanceProfile(bars, r) == Histogram(bars, Ones(bars), BodyShares(bars, r))

(* Volume over its mean, capped; in units of the window's mean, which no   *)
(* reader of the profile can tell from 1.                                  *)
VolumeNorm(bars, cap) ==
    LET sum == Total([k \in DOMAIN bars |-> bars[k].volume])
    IN IF sum = 0 THEN Ones(bars)
       ELSE [k \in DOMAIN bars |-> Smaller(bars[k].volume * Len(bars), cap * sum)]

VolumeProfile(bars, r, cap) ==
    Histogram(bars, VolumeNorm(bars, cap), BodyShares(bars, r))

---------------------------------------------------------------------------
(* Cuts through a histogram.                                               *)
Heaviest(w, bins) ==
    CHOOSE j \in bins : \A k \in bins : w[k] < w[j] \/ (w[k] = w[j] /\ j <= k)

(* The value area: from the busiest bin outwards, always to the heavier    *)
(* side, upwards when they are equal.                                      *)
Grow(w, area) ==
    LET enough == Coverage[2] * Total([j \in area |-> w[j]]) >= Coverage[1] * Total(w)
        up     == Max(area) + 1
        down   == Min(area) - 1
    IN CASE enough \/ area = 1 .. NBins -> area
         [] OTHER -> IF up <= NBins /\ (down < 1 \/ w[up] >= w[down])
                     THEN area \cup {up} ELSE area \cup {down}

ValueBins(w) ==
    IF Total(w) = 0 THEN {Heaviest(w, 1 .. NBins)}
    ELSE FoldLeft(LAMBDA area, k : Grow(w, area), {Heaviest(w, 1 .. NBins)},
                  [k \in 1 .. NBins |-> k])

(* A band is <<bottom, top>>; a value area of one bin is none.             *)
NoBand == <<>>

Band(profile, bins) ==
    LET lo == profile.center[Min(bins)]
        hi == profile.center[Max(bins)]
    IN IF hi > lo THEN <<lo, hi>> ELSE NoBand

ValueArea(profile) == Band(profile, ValueBins(profile.weight))

(* weight - mean compared with sigma standard deviations, times n, squared. *)
StandsOut(w, j) ==
    LET excess == NBins * w[j] - Total(w)
        spread == NBins * Total([k \in 1 .. NBins |-> w[k] * w[k]]) - Total(w) * Total(w)
    IN [atLeast |-> /\ excess >= 0
                    /\ SigmaR[2] * SigmaR[2] * excess * excess
                         >= SigmaR[1] * SigmaR[1] * spread,
        above   |-> /\ excess >= 0
                    /\ SigmaR[2] * SigmaR[2] * excess * excess
                         > SigmaR[1] * SigmaR[1] * spread]

RunAround(j, bins) ==
    { k \in 1 .. NBins : Smaller(j, k) .. Larger(j, k) \subseteq bins }

RelativeBand(profile) ==
    LET w   == profile.weight
        poc == Heaviest(w, 1 .. NBins)
        dense == { j \in 1 .. NBins : j = poc \/ StandsOut(w, j).atLeast }
    IN IF \/ Total(w) = 0
          \/ PocRatio[2] * w[poc] * NBins < PocRatio[1] * Total(w)
       THEN NoBand
       ELSE Band(profile, RunAround(poc, dense))

(* Every run of bins that stands out, half a bin wider on each side.       *)
Walls(profile) ==
    LET w == profile.weight
        c == profile.center
        dense == { j \in 1 .. NBins : StandsOut(w, j).above }
        half == IF NBins >= 2 THEN (c[2] - c[1]) \div 2 ELSE 0
    IN { <<c[Min(run)] - half, c[Max(run)] + half>> :
           run \in { RunAround(j, dense) : j \in dense } }

(* The heaviest node of the bars that lies beyond a price by a distance.   *)
HeaviestNode(profile, mask) ==
    IF \/ mask = {}
       \/ MinFrac[2] * profile.weight[Heaviest(profile.weight, mask)]
            < MinFrac[1] * profile.weight[Heaviest(profile.weight, 1 .. NBins)]
    THEN NoPrice
    ELSE profile.center[Heaviest(profile.weight, mask)]

Beyond(profile, price, long, dist) ==
    { j \in 1 .. NBins :
        IF long THEN dist[2] * (profile.center[j] - price) > dist[1]
                ELSE dist[2] * (price - profile.center[j]) > dist[1] }

NextDense(bars, price, long, dist) ==
    LET profile == TimeProfile(bars)
    IN IF Len(bars) < MinNodeBars \/ bars = <<>> THEN NoPrice
       ELSE HeaviestNode(profile, Beyond(profile, price, long, dist))

---------------------------------------------------------------------------
(* The zigzag.  A peak is [at, kind]: kind 2 confirmed and 1 early, negative *)
(* for troughs.  A bar is judged when the Size - 1 bars after it exist.    *)
High(bars, S) == Max({ bars[k].high : k \in S })
Low(bars, S) == Min({ bars[k].low : k \in S })

FullWindow(p) == p - Size .. p + Size - 1
EarlyWindow(p) == p - Size .. p + Middle

Kind(bars, p) ==
    IF bars[p].high = High(bars, FullWindow(p)) THEN 2
    ELSE IF bars[p].low = Low(bars, FullWindow(p)) THEN -2
    ELSE IF bars[p].high = High(bars, EarlyWindow(p)) THEN 1
    ELSE IF bars[p].low = Low(bars, EarlyWindow(p)) THEN -1
    ELSE 0

Beats(bars, p, q, kind) ==
    IF kind > 0 THEN bars[p].high > bars[q].high ELSE bars[p].low < bars[q].low

(* Mutant: a peak never yields to a later one it does not beat.            *)
MutMerge(bars, p, kind, later) == <<[at |-> p, kind |-> kind]>> \o later

(* An older confirmed peak takes the confirmation from the later ones of   *)
(* its sign it beats, up to one it does not beat, to which it yields, or   *)
(* to a confirmed peak of the other sign.                                  *)
Merge(bars, p, kind, later) ==
    LET turn    == { j \in DOMAIN later : later[j].kind = -kind }
        run     == 1 .. (IF turn = {} THEN Len(later) ELSE Min(turn) - 1)
        rivals  == { j \in run : later[j].kind = kind }
        holders == { j \in rivals : ~Beats(bars, p, later[j].at, kind) }
        demoted == { j \in rivals : \A h \in holders : j < h }
        early   == IF kind > 0 THEN 1 ELSE -1
    IN IF kind \in {1, -1}
       THEN <<[at |-> p, kind |-> kind]>> \o later
       ELSE <<[at |-> p, kind |-> IF holders = {} THEN kind ELSE early]>>
              \o [j \in DOMAIN later |->
                    IF j \in demoted THEN [later[j] EXCEPT !.kind = early] ELSE later[j]]

(* From the newest bar that can be judged to the oldest, in time order.    *)
AddPeak(bars, later, p) ==
    IF Kind(bars, p) = 0 THEN later ELSE Merge(bars, p, Kind(bars, p), later)

Peaks(bars) ==
    FoldLeft(LAMBDA later, p : AddPeak(bars, later, p), <<>>,
             [k \in 1 .. Atleast0(Len(bars) - 2 * Size) |-> Len(bars) - Size + 2 - k])

PriceOf(bars, peak) == IF peak.kind > 0 THEN bars[peak.at].high ELSE bars[peak.at].low

Steps(prices) ==
    [k \in 1 .. Atleast0(Len(prices) - 1) |->
       Larger(prices[k], prices[k + 1]) - Smaller(prices[k], prices[k + 1])]

Newest(seq, n) == SubSeq(seq, Larger(1, Len(seq) - n + 1), Len(seq))

(* The legs an entry at bar t knows: between peaks Size bars before it.    *)
MutKnown(peaks, t) == AtPlaces(peaks, { k \in DOMAIN peaks : peaks[k].at <= t })

Known(peaks, t) == AtPlaces(peaks, { k \in DOMAIN peaks : peaks[k].at + Size <= t })

Legs(bars, peaks, t) ==
    LET known == Known(peaks, t)
    IN Steps(Newest([k \in DOMAIN known |-> PriceOf(bars, known[k])], MaxLegs + 1))

ConfirmedLegs(bars, peaks) ==
    LET confirmed == SelectSeq(peaks, LAMBDA p : p.kind \in {2, -2})
    IN Steps([k \in DOMAIN confirmed |-> PriceOf(bars, confirmed[k])])

(* The band of an entry: an average of its legs that favours the newest,   *)
(* outliers capped first, or a fraction of the price when there are few.   *)
Median2(seq) ==
    LET s == SortSeq(seq, <)
        n == Len(s)
    IN IF n % 2 = 1 THEN 2 * s[(n + 1) \div 2] ELSE s[n \div 2] + s[n \div 2 + 1]

(* In halves of a price and in quarters of it, so that medians are whole.  *)
Deviation(legs, med) ==
    Median2([k \in DOMAIN legs |-> Larger(2 * legs[k], med) - Smaller(2 * legs[k], med)])

CappedAt(legs, med, mad) ==
    [k \in DOMAIN legs |->
       IF Len(legs) < 3 \/ mad = 0 THEN 4 * WinsorK[2] * legs[k]
       ELSE Smaller(4 * WinsorK[2] * legs[k], 2 * WinsorK[2] * med + WinsorK[1] * mad)]

Capped(legs) ==
    LET med == Median2(legs) IN CappedAt(legs, med, Deviation(legs, med))

Average(legs) ==
    FoldLeft(LAMBDA out, leg : <<Alpha[1] * leg * out[2] + (Alpha[2] - Alpha[1]) * out[1],
                                 Alpha[2] * out[2]>>,
             <<Head(legs), 1>>, Tail(legs))

Times(x, y) == <<x[1] * y[1], x[2] * y[2]>>

BandOf(legs, price) ==
    IF Len(legs) < MinLegs THEN <<price * Fallback[1], Fallback[2]>>
    ELSE Times(Average(Capped(legs)), <<1, 4 * WinsorK[2]>>)
=============================================================================
