----------------------------- MODULE Simulator -----------------------------
(***************************************************************************)
(* Simulator.run over bars one by one: the exit of the position that is    *)
(* held, the fill of the signal of the bar before at this bar's open, and  *)
(* the signal of this bar, read only when flat; with the exit rules of     *)
(* src/exit/rules.py.  The strategy may signal on any bar, with an exit    *)
(* configuration of its own or without.                                    *)
(*                                                                         *)
(* Prices, fractions and fees are in hundredths, the size is one.          *)
(***************************************************************************)
EXTENDS Integers, Sequences, FiniteSetsExt

CONSTANTS
    SimPrices,    \* prices, multiples of a hundred
    OwnConfigs,   \* the ExitConfigs a signal may carry
    StaticConfig, \* the strategy's get_exit_rules()
    Atrs,         \* values of the ATR, 0 before it is warm
    FeePct,       \* fee_rate
    BurstMult,    \* burst_cost_mult
    MaxSimBars,   \* bound: bars
    None          \* no value

ASSUME SimulatorAssumption ==
    /\ \A p \in SimPrices : p \in Nat /\ p % 100 = 0
    /\ Atrs \subseteq Nat /\ FeePct \in Nat /\ BurstMult \in Nat \ {0}
    /\ \A c \in OwnConfigs \cup {StaticConfig} : c.timeStop \in Nat \cup {None}
    /\ None \notin [reason : {"stop loss", "trail stop", "take profit", "time stop"}, price : Int]
    /\ MaxSimBars \in Nat

VARIABLES
    bar,      \* bars so far
    pos,      \* the open position
    pending,  \* the signal to fill at the next open
    equity,   \* the sum of the pnl of the trades
    curve,    \* the last point of equity_curve
    trade,    \* history: the trade closed last
    before    \* history: the trade closed before it

simVars == <<bar, pos, pending, equity, curve, trade, before>>

SimBars == { b \in [open : SimPrices, high : SimPrices, low : SimPrices, close : SimPrices] :
               /\ b.low <= b.open /\ b.low <= b.close
               /\ b.open <= b.high /\ b.close <= b.high }

Signals == [side : {1, -1}, config : OwnConfigs \union {None}]

SimInit ==
    /\ bar = 0 /\ pos = None /\ pending = None
    /\ equity = 0 /\ curve = 0
    /\ trade = None /\ before = None

-----------------------------------------------------------------------------
(* _tp_sl_distances: an absolute distance, else one of the ATR at entry    *)
(* when it is known, else a fraction of the price.                         *)
ExitDistance(p, rule) ==
    IF rule.abs # None THEN rule.abs
    ELSE IF rule.atr # None /\ p.atr > 0 THEN rule.atr * p.atr
    ELSE IF rule.pct # None THEN (rule.pct * p.entry) \div 100
    ELSE None

(* A price d better than level for position p; worse for a negative d.     *)
Better(p, level, d) == level + p.side * d

(* The bar's best and worst price for p.                                   *)
BestOf(p, b)  == IF p.side = 1 THEN b.high ELSE b.low
WorstOf(p, b) == IF p.side = 1 THEN b.low ELSE b.high

AtOrBetter(p, price, level) == p.side * price >= p.side * level

Extreme(p, b) == IF AtOrBetter(p, BestOf(p, b), p.best) THEN BestOf(p, b) ELSE p.best

Exits(reason, price) == [reason |-> reason, price |-> price]

(* The levels of evaluate_exit, the stops before the target.               *)
StopExit(p, b) ==
    LET d == ExitDistance(p, p.config.sl)
        level == Better(p, p.entry, -d)
    IN  IF d # None /\ AtOrBetter(p, level, WorstOf(p, b))
        THEN Exits("stop loss", level) ELSE None

TrailExit(p, b) ==
    LET level == Better(p, Extreme(p, b), -p.config.trail * p.atr)
    IN  IF p.config.trail # None /\ p.atr > 0 /\ AtOrBetter(p, level, WorstOf(p, b))
        THEN Exits("trail stop", level) ELSE None

TargetExit(p, b) ==
    LET d == ExitDistance(p, p.config.tp)
        level == Better(p, p.entry, d)
    IN  IF d # None /\ AtOrBetter(p, BestOf(p, b), level)
        THEN Exits("take profit", level) ELSE None

TimeExit(p, b) ==
    IF p.config.timeStop # None /\ p.held >= p.config.timeStop
    THEN Exits("time stop", b.close) ELSE None

EvaluateExit(p, b) ==
    LET found == <<StopExit(p, b), TrailExit(p, b), TargetExit(p, b), TimeExit(p, b)>>
        hits  == {i \in 1 .. 4 : found[i] # None}
    IN  IF hits = {} THEN None ELSE found[Min(hits)]

-----------------------------------------------------------------------------
(* The position opened by signal s at bar b.                               *)
Opened(s, b) ==
    [side |-> s.side, entry |-> b.open, atr |-> s.atr, best |-> b.open, held |-> 0,
     config |-> IF s.config # None THEN s.config ELSE StaticConfig,
     signalled |-> s.at, entered |-> bar + 1]

(* _close and Trade.pnl: the price difference less the fees of both sides, *)
(* and the wider spread of a stop-out.                                     *)
Cost(p, exit) ==
    (2 * p.entry * FeePct) \div 100
    + (IF exit.reason = "stop loss" THEN (exit.price * FeePct * (BurstMult - 1)) \div 100 ELSE 0)

TradeOf(p, exit, last) ==
    [side |-> p.side, signalled |-> p.signalled, entered |-> p.entered, left |-> last,
     held |-> Max({1, last - p.entered}), reason |-> exit.reason,
     timeStop |-> p.config.timeStop,
     pnl |-> p.side * (exit.price - p.entry) - Cost(p, exit)]

(* The position after the bar's exits, when there was one.                 *)
Held(p, b) == [p EXCEPT !.best = Extreme(p, b), !.held = @ + 1]

(* push and precompute are asked for a signal only when flat.              *)
Listens(p) == p = None

ExitOn(b) == IF pos = None THEN None ELSE EvaluateExit(pos, b)

(* A bar that exits so, if at all.                                         *)
BarWith(b, exit, signal, atr) ==
    LET kept  == IF pos = None \/ exit # None THEN None ELSE Held(pos, b)
        fills == kept = None /\ pending # None
    IN  /\ bar' = bar + 1
        /\ IF exit = None THEN UNCHANGED <<trade, before, equity>>
           ELSE /\ trade' = TradeOf(pos, exit, bar + 1) /\ before' = trade
                /\ equity' = equity + trade'.pnl
        /\ pos' = IF fills THEN Opened(pending, b) ELSE kept
        /\ pending' = IF signal # None /\ Listens(pos')
                      THEN [side |-> signal.side, config |-> signal.config,
                            atr |-> atr, at |-> bar + 1]
                      ELSE IF fills THEN None ELSE pending
        /\ curve' = equity'

(* One iteration over bar b, with the signal the strategy has on it.       *)
NextBar(b, signal, atr) == bar < MaxSimBars /\ BarWith(b, ExitOn(b), signal, atr)

(* equity_curve[-1] = equity.                                              *)
LastPoint(point, total) == total

(* The bars end: what is held is closed at the last close, and the result  *)
(* is returned.                                                            *)
EndOfData(close) ==
    /\ pos # None
    /\ trade' = TradeOf(pos, Exits("end of data", close), bar) /\ before' = trade
    /\ equity' = equity + trade'.pnl
    /\ curve' = LastPoint(curve, equity')
    /\ pos' = None /\ pending' = None
    /\ bar' = MaxSimBars

SimNext ==
    \/ \E b \in SimBars, signal \in Signals \union {None}, atr \in Atrs : NextBar(b, signal, atr)
    \/ \E close \in SimPrices : EndOfData(close)

-----------------------------------------------------------------------------
(* Trades are causal and one at a time: each was entered on the bar right  *)
(* after its signal's, left on a later bar unless the data ended, and its  *)
(* signal is not older than the exit of the trade before it.               *)
TradesAreCausal ==
    trade # None =>
        /\ trade.entered = trade.signalled + 1
        /\ trade.left > trade.entered \/ trade.reason = "end of data"
        /\ before # None => trade.signalled >= before.left

(* A position with a time stop of n bars is left at the latest n + 1 bars  *)
(* after its entry, however the data end.                                  *)
TimeStopBoundsTheHold ==
    trade # None /\ trade.timeStop # None => trade.held <= trade.timeStop + 1

(* The curve ends at the sum of the pnl of the trades, the one closed at   *)
(* the end of the data included.                                           *)
CurveEndsAtTheBook == curve = equity

(* The trades and the curve of a back-test.                                *)
TradesKeepTheRules == TradesAreCausal /\ TimeStopBoundsTheHold /\ CurveEndsAtTheBook
=============================================================================
