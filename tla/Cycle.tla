------------------------------- MODULE Cycle -------------------------------
(***************************************************************************)
(* The evaluation of a strategy: backtest/cycle.py simulates it over each  *)
(* split and decides whether it ships, backtest/paper_forward.py scores it *)
(* on the bars after a frozen boundary, both with backtest/metrics.py.     *)
(* The strategy is a given set of signals, each entered at the next bar    *)
(* and held for Hold bars; its own exits are Simulator's and Replay's      *)
(* subject, costs are left out.  A Sharpe ratio is compared by its signed  *)
(* square, and fractional returns are multiples of 1 / Scale.              *)
(***************************************************************************)
EXTENDS Benchmark

CONSTANTS
    Hold,          \* bars a position is held
    SimWarm,       \* bars a run needs before its first signal
    Scale,         \* a multiple of every close
    QuarterBars,   \* bars of a calendar quarter
    Boundaries,    \* LOCKBOX_BOUNDARIES, by <<strategy, product>> or <<strategy>>
    DefaultBoundary, \* DEFAULT_LOCKBOX
    ForwardBooks,  \* the <<strategy, product>> that are scored forward
    MinFwdTrades,
    MinFwdBars,    \* MIN_FWD_DAYS in bars
    MaxCycles      \* bound: cycles and forward runs

ASSUME CycleAssumption ==
    /\ {Hold, QuarterBars, Scale} \subseteq Nat \ {0}
    /\ {SimWarm, MinFwdTrades, MinFwdBars} \subseteq Nat
    /\ \A m \in Markets : \A b \in DOMAIN m : Scale % m[b] = 0

VARIABLES
    cycle,    \* what the last cycle found
    forward,  \* what the last forward run of each book found
    cycles    \* cycles and forward runs so far

cycleVars == <<cycle, forward, cycles>>

NoCycle == [in |-> <<>>, oos |-> <<>>, split |-> 0, dd |-> 0, ship |-> FALSE]
NoForward == [from |-> 0, entries |-> {}, verdict |-> "ACCRUING"]

CycleInit ==
    /\ cycle = NoCycle /\ forward = [k \in ForwardBooks |-> NoForward] /\ cycles = 0

-----------------------------------------------------------------------------
(* A simulation over a run of bars.                                        *)

Sign(t) == IF t.entry - 1 \in Shorts THEN -1 ELSE 1

(* A position still held at the run's last bar is closed there.            *)
TradeAt(entry, bars) == [entry |-> entry, exit |-> Min({entry + Hold, Max(bars)})]

(* One position at a time, or any number.                                  *)
Simulate(bars, multi) ==
    LET due == {b \in bars : /\ b - 1 \in bars \cap (Longs \cup Shorts)
                             /\ b - 1 >= Min(bars) + SimWarm}
        Take(taken, b) ==
            IF multi \/ taken = <<>> \/ Last(taken).exit < b
            THEN Append(taken, TradeAt(b, bars)) ELSE taken
    IN  FoldLeft(Take, <<>>, InOrder(due))

SumOf(f) == SumFunction(f)

(* The equity at a bar: open positions at the market, or not at all.       *)
Level(trades, b, multi) ==
    SumOf([i \in DOMAIN trades |->
        LET t == trades[i]
        IN  IF t.entry > b \/ (~multi /\ t.exit > b) THEN 0
            ELSE Sign(t) * (closes[Min({b, t.exit})] - closes[t.entry])])

EquityCurve(bars, trades, multi) ==
    [i \in 1 .. Cardinality(bars) |-> Level(trades, Min(bars) + i - 1, multi)]

-----------------------------------------------------------------------------
(* metrics.py.                                                             *)

Increments(levels) == [i \in DOMAIN levels \ {Len(levels)} |-> levels[i + 1] - levels[i]]

Signed(n) == IF n < 0 THEN -(n * n) ELSE n * n

(* The signed square of mean over standard deviation, as a fraction.       *)
SharpeOf(steps) ==
    LET n        == Len(steps)
        sum      == SumOf(steps)
        variance == n * SumOf([i \in 1 .. n |-> steps[i] * steps[i]]) - sum * sum
    IN  IF n < 2 \/ variance = 0 THEN <<0, 1>> ELSE <<Signed(sum) * (n - 1), n * variance>>

AtLeast(p, q) == p[1] * q[2] >= q[1] * p[2]

(* Buy and hold over the same bars, by fractional returns.                 *)
BarReturns(bars) ==
    [i \in (1 .. Cardinality(bars)) \ {Cardinality(bars)} |->
        LET b == Min(bars) + i IN ((closes[b] - closes[b - 1]) * Scale) \div closes[b - 1]]

ReturnPct(t) == (Sign(t) * (closes[t.exit] - closes[t.entry]) * Scale) \div closes[t.entry]

TradeReturns(trades) == [i \in DOMAIN trades |-> ReturnPct(trades[i])]

Cumulated(returns) == [i \in DOMAIN returns |-> SumOf(SubSeq(returns, 1, i))]

FallsTo(acc, v) == LET peak == Max({acc.peak, v})
                   IN  [peak |-> peak, dd |-> Max({acc.dd, peak - v})]

MaxDrawdown(curve) ==
    IF curve = <<>> THEN 0 ELSE FoldLeft(FallsTo, [peak |-> curve[1], dd |-> 0], curve).dd

-----------------------------------------------------------------------------
(* The ship gate.                                                          *)

QuarterOf(bar) == bar \div QuarterBars

(* A part of a whole; none of nothing.                                     *)
Share(part, whole) == IF whole = {} THEN <<0, 1>> ELSE <<Cardinality(part), Cardinality(whole)>>

QuarterReturn(trades, q) ==
    SumOf(TradeReturns(SelectSeq(trades, LAMBDA t : QuarterOf(t.exit) = q)))

StrategyQuarters(trades) ==
    LET all == {QuarterOf(trades[i].exit) : i \in DOMAIN trades}
    IN  Share({q \in all : QuarterReturn(trades, q) >= 0}, all)

HeldQuarters(bars) ==
    LET all == {QuarterOf(b) : b \in bars}
        LastClose(q) == closes[Max({b \in bars : QuarterOf(b) = q})]
        later == {q \in all : q - 1 \in all}
    IN  Share({q \in later : LastClose(q) >= LastClose(q - 1)}, later)

BeatsHolding(bars, trades, multi) ==
    AtLeast(SharpeOf(Increments(EquityCurve(bars, trades, multi))), SharpeOf(BarReturns(bars)))

(* Mutant: one simulation over all bars, its trades dealt out by entry.    *)
MutCycleTrades(phase, multi) ==
    SelectSeq(Simulate(Stored, multi), LAMBDA t : t.entry \in BarsOf(phase))

CycleTrades(phase, multi) == Simulate(BarsOf(phase), multi)

Ships(in, oos, multi) ==
    /\ BeatsHolding(BarsOf("benchmark"), in, multi)
    /\ BeatsHolding(BarsOf("backtest"), oos, multi)
    /\ AtLeast(StrategyQuarters(in), HeldQuarters(BarsOf("benchmark")))

EvaluateCycle ==
    /\ cycles < MaxCycles
    /\ \E multi \in BOOLEAN :
          LET in  == CycleTrades("benchmark", multi)
              oos == CycleTrades("backtest", multi)
          IN  cycle' = [in |-> in, oos |-> oos, split |-> LastInSample,
                        dd |-> MaxDrawdown(Cumulated(TradeReturns(in))),
                        ship |-> Ships(in, oos, multi)]
    /\ cycles' = cycles + 1 /\ UNCHANGED forward

-----------------------------------------------------------------------------
(* The forward record.                                                     *)

(* The most specific entry.                                                *)
Boundary(k) ==
    IF k \in DOMAIN Boundaries THEN Boundaries[k]
    ELSE IF <<k[1]>> \in DOMAIN Boundaries THEN Boundaries[<<k[1]>>]
    ELSE DefaultBoundary

RunForward(k) ==
    /\ cycles < MaxCycles
    /\ LET trades == Simulate(Stored, TRUE)
           curve  == EquityCurve(Stored, trades, TRUE)
           after  == {b \in Stored : b > Boundary(k)}
           scored == {trades[i].entry : i \in DOMAIN trades} \cap after
           levels == SubSeq(curve, Len(curve) - Cardinality(after) + 1, Len(curve))
           enough == Cardinality(scored) >= MinFwdTrades /\ Cardinality(after) >= MinFwdBars
           better == AtLeast(SharpeOf(Increments(levels)), SharpeOf(BarReturns(after)))
       IN  forward' = [forward EXCEPT ![k] =
              [from |-> firstBar, entries |-> scored,
               verdict |-> IF ~enough THEN "ACCRUING"
                           ELSE IF better THEN "CONFIRMED" ELSE "NOT CONFIRMED"]]
    /\ cycles' = cycles + 1 /\ UNCHANGED cycle

CycleNext ==
    \/ (BarCloses \/ OlderBarFilled) /\ UNCHANGED cycleVars
    \/ (EvaluateCycle \/ \E k \in ForwardBooks : RunForward(k)) /\ UNCHANGED benchmarkVars

CycleSpec == BenchmarkInit /\ CycleInit /\ [][CycleNext]_<<benchmarkVars, cycleVars>>

-----------------------------------------------------------------------------
(* No trade of a cycle is opened in the sample and closed out of it: what  *)
(* the in-sample metrics see never depends on a bar of the other split.    *)
SplitsTradesApart ==
    /\ \A i \in DOMAIN cycle.in : cycle.in[i].exit <= cycle.split
    /\ \A i \in DOMAIN cycle.oos : cycle.oos[i].entry > cycle.split

(* The drawdown is the deepest fall of the cumulated returns from any      *)
(* earlier value to any later one.                                         *)
DrawdownIsWorstFall ==
    LET curve == Cumulated(TradeReturns(cycle.in))
        falls == {curve[p[1]] - curve[p[2]] :
                     p \in {q \in (DOMAIN curve) \X (DOMAIN curve) : q[1] <= q[2]}}
    IN  cycle.dd = Max(falls \cup {0})

(* What a cycle reports is sound.                                          *)
CyclesAreSound == SplitsTradesApart /\ DrawdownIsWorstFall

(* While the store only grows forwards, a forward record never loses a     *)
(* trade it has scored, and a verdict once due never lapses.               *)
ForwardRecordsOnlyGrow ==
    [][\A k \in ForwardBooks :
          forward[k].from = forward'[k].from =>
             /\ forward[k].entries \subseteq forward'[k].entries
             /\ forward[k].verdict # "ACCRUING"
                => forward'[k].verdict # "ACCRUING"]_cycleVars

(* Measured again over more bars, a study does not take back what it said. *)
StudiesAreRepeatable == DirectionsAreFinal /\ ForwardRecordsOnlyGrow

=============================================================================
