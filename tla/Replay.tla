------------------------------- MODULE Replay -------------------------------
(***************************************************************************)
(* The loop of MultiSimulator._simulate over hourly bars, with the exit    *)
(* rules of src/exit/rules.py and the ratchet of RandomHedgeStrategy (and  *)
(* the invalidation exit density_pullback adds to it).  One Bar step is    *)
(* one iteration: exits in book order, market entries at the open, limit   *)
(* entries, then the signals of the bar.                                   *)
(*                                                                         *)
(* Entry signals are data here: each bar may bring any of them.  Prices    *)
(* are integers, and all trades have the same exit distances.              *)
(***************************************************************************)
EXTENDS Integers, SequencesExt

CONSTANTS
    MaxTrade,      \* trades the strategy may signal
    LongTrades,    \* the trades that are long; the others are short
    LimitTrades,   \* the trades entered by a resting limit order
    MaxSlots,      \* strategy.max_slots
    Prices,        \* prices a bar may reach
    SlDist,        \* distance of the initial stop, 0 when there is none
    TpDist,        \* distance of the target, 0 when there is none
    TimeStop,      \* time_stop_bars, 0 when there is none
    InvalDist,     \* distance of the invalidation level, 0 when there is none
    RecalcBars,    \* bars between two recomputations of the ratchet
    LimitLife,     \* limit_expiry_bars
    MaxSignals,    \* signals per bar
    MaxBar         \* bound: bars replayed

Trades == 1..MaxTrade

ASSUME ReplayAssumption ==
    /\ {MaxTrade, SlDist, TpDist, TimeStop, InvalDist, MaxSignals, MaxBar} \subseteq Nat
    /\ {MaxSlots, RecalcBars, LimitLife} \subseteq Nat \ {0}
    /\ LongTrades \subseteq Trades /\ LimitTrades \subseteq Trades
    /\ Prices \subseteq Nat /\ Prices # {}
    /\ \A p \in Prices : p > SlDist

VARIABLES
    tpAtNextOpen, \* BOOLEAN: tp_at_next_open
    n,          \* bars replayed: the index of the next one
    slots,      \* book: the open positions, in the order they were opened
    pending,    \* market entries to fill at the next open
    working,    \* resting limit entries
    trail,      \* _stop and _last_recalc, for the keys of open positions
    nextTrade,  \* the next trade to be signalled
    bar,        \* history: range and close of the last bar
    closed,     \* history: the trades the last bar closed
    entered     \* history: the trades that have been in the book

vars == <<tpAtNextOpen, n, slots, pending, working, trail, nextTrade, bar, closed, entered>>

Bars == { b \in [open : Prices, high : Prices, low : Prices, close : Prices] :
            b.low <= b.open /\ b.low <= b.close /\ b.open <= b.high /\ b.close <= b.high }

(* What properties see of a bar.                                           *)
SeenOf(b) == [high |-> b.high, low |-> b.low, close |-> b.close]

Long(t) == t \in LongTrades

AtMost(a, b)  == IF a < b THEN a ELSE b
AtLeast(a, b) == IF a < b THEN b ELSE a

(* The level that is d worse, or d better, than p for trade t.             *)
Worse(t, p, d)  == IF Long(t) THEN p - d ELSE p + d
Better(t, p, d) == Worse(t, p, -d)

Tighter(t, new, old) == IF Long(t) THEN new > old ELSE new < old

(* The bar trades at a level below (above, for a short) the market ...     *)
FallsTo(t, b, level) == IF Long(t) THEN b.low <= level ELSE b.high >= level

(* ... or at one above it.                                                 *)
RisesTo(t, b, level) == IF Long(t) THEN b.high >= level ELSE b.low <= level

(* _open: the position opened by trade t at price p.                       *)
Opened(t, p) ==
    [trade |-> t, entry |-> p, idx |-> n, held |-> 0, best |-> p,
     sl |-> IF SlDist > 0 THEN Worse(t, p, SlDist) ELSE 0, deferred |-> FALSE]

Outcome(reason, price, tr) == [reason |-> reason, price |-> price, trail |-> tr]

(***************************************************************************)
(* Exits.  s.best already includes the bar.                                *)
(***************************************************************************)

(* evaluate_exit                                                           *)
StaticExit(s, b, tr) ==
    IF SlDist > 0 /\ FallsTo(s.trade, b, s.sl)
    THEN Outcome("STOP_LOSS", s.sl, tr)
    ELSE IF TpDist > 0 /\ RisesTo(s.trade, b, Better(s.trade, s.entry, TpDist))
    THEN Outcome("TAKE_PROFIT", Better(s.trade, s.entry, TpDist), tr)
    ELSE IF TimeStop > 0 /\ s.held >= TimeStop
    THEN Outcome("TIME_STOP", b.close, tr)
    ELSE Outcome("none", 0, tr)

(* Ratchet state is kept by entry bar and side.                            *)
Key(s) == <<s.idx, Long(s.trade)>>

(* Every call notes it.                                                    *)
Noted(s, r, tr) == [k \in DOMAIN tr \cup {Key(s)} |-> IF k = Key(s) THEN r ELSE tr[k]]

(* Its value before the bar: the first call fills it in.                   *)
Ratchet(s, tr) == IF Key(s) \in DOMAIN tr THEN tr[Key(s)] ELSE [stop |-> s.sl, last |-> n]

(* The recomputation, every RecalcBars bars and never looser.              *)
Recomputed(s, r) ==
    LET due  == n - r.last >= RecalcBars
        wins == Tighter(s.trade, s.best, s.entry)
        new  == Worse(s.trade, s.best, SlDist)
    IN [stop |-> IF due /\ wins /\ Tighter(s.trade, new, r.stop) THEN new ELSE r.stop,
        last |-> IF due THEN n ELSE r.last]

(* The stop of an open position, as live_state publishes it.               *)
CurrentStop(s) == Ratchet(s, trail).stop

(* Filled at the stop, or at the open when the bar opens beyond it.        *)
StopFill(t, b, stop) == IF Long(t) THEN AtMost(stop, b.open) ELSE AtLeast(stop, b.open)

(* Mutant: the recomputed stop is checked against the bar that moved it.   *)
MutDynamicExit(s, b, tr) ==
    LET old  == Ratchet(s, tr)
        r    == Recomputed(s, old)
        next == Noted(s, r, tr)
    IN IF FallsTo(s.trade, b, r.stop)
       THEN Outcome("TRAIL_STOP", StopFill(s.trade, b, r.stop), next)
       ELSE Outcome("none", 0, next)

(* Mutant: a breach counts only when the bar closes beyond the stop.       *)
MutCloseBreach(s, b, tr) ==
    LET r    == Ratchet(s, tr)
        hit  == SlDist > 0 /\ ~ Tighter(s.trade, b.close, r.stop)
        next == Noted(s, IF hit \/ SlDist = 0 THEN r ELSE Recomputed(s, r), tr)
    IN IF hit THEN Outcome("TRAIL_STOP", StopFill(s.trade, b, r.stop), next)
       ELSE Outcome("none", 0, next)

(* dynamic_exit: the breach is checked first, against the stop of a bar    *)
(* before; the recomputed one counts from the next bar on.                 *)
DynamicExit(s, b, tr) ==
    LET r    == Ratchet(s, tr)
        hit  == SlDist > 0 /\ FallsTo(s.trade, b, r.stop)
        next == Noted(s, IF hit \/ SlDist = 0 THEN r ELSE Recomputed(s, r), tr)
        lost == InvalDist > 0 /\ Tighter(s.trade, Worse(s.trade, s.entry, InvalDist), b.close)
    IN IF hit THEN Outcome("TRAIL_STOP", StopFill(s.trade, b, r.stop), next)
       ELSE IF lost THEN Outcome("STOP_LOSS", b.close, next)
       ELSE Outcome("none", 0, next)

ExitOf(s, b, tr) ==
    IF s.deferred THEN Outcome("TAKE_PROFIT", b.open, tr)
    ELSE LET x == StaticExit(s, b, tr)
         IN IF x.reason # "none" THEN x ELSE DynamicExit(s, b, tr)

(* The best price of a position, with the bar's.                           *)
Marked(s, b) ==
    [s EXCEPT !.best = IF Long(s.trade) THEN AtLeast(@, b.high) ELSE AtMost(@, b.low)]

(* Step 1 for one position: acc holds what the positions before it left.   *)
ExitStep(acc, old, b) ==
    LET s     == Marked(old, b)
        x     == ExitOf(s, b, acc.trail)
        defer == tpAtNextOpen /\ x.reason = "TAKE_PROFIT" /\ ~ s.deferred
        stays == x.reason = "none" \/ defer
    IN [kept   |-> IF stays
                   THEN Append(acc.kept, [s EXCEPT !.held = @ + 1, !.deferred = defer])
                   ELSE acc.kept,
        trail  |-> x.trail,
        closed |-> IF stays THEN acc.closed
                   ELSE acc.closed \cup {[trade |-> s.trade, reason |-> x.reason,
                                          price |-> x.price]}]

Exits(b) ==
    FoldLeft(LAMBDA acc, s : ExitStep(acc, s, b),
             [kept |-> <<>>, trail |-> trail, closed |-> {}], slots)

(***************************************************************************)
(* Entries.                                                                *)
(***************************************************************************)

(* Step 2: market entries fill at the open, in order, while slots are free *)
(* after the exits of the bar; the others are dropped.                     *)
FillPending(book, b) ==
    LET room == MaxSlots - Len(book)
    IN book \o [k \in 1..AtMost(Len(pending), room) |-> Opened(pending[k], b.open)]

(* Mutant: a touched limit fills whether or not there is a free slot.      *)
MutLimitStep(acc, w, b) ==
    IF n > w.expiry THEN acc
    ELSE IF FallsTo(w.trade, b, w.limit)
    THEN [acc EXCEPT !.book = Append(@, Opened(w.trade, w.limit))]
    ELSE [acc EXCEPT !.kept = Append(@, w)]

(* Step 3 for one resting order: dropped when expired, filled when touched *)
(* while a slot is free, kept otherwise.                                   *)
LimitStep(acc, w, b) ==
    IF n > w.expiry THEN acc
    ELSE IF FallsTo(w.trade, b, w.limit) /\ Len(acc.book) < MaxSlots
    THEN [acc EXCEPT !.book = Append(@, Opened(w.trade, w.limit))]
    ELSE [acc EXCEPT !.kept = Append(@, w)]

Limits(book, b) ==
    FoldLeft(LAMBDA acc, w : LimitStep(acc, w, b), [book |-> book, kept |-> <<>>], working)

(* Step 4: the signals read from the bar, in order; market entries wait    *)
(* for the next open, the others rest.                                     *)
NewTrades(k) == [j \in 1..k |-> nextTrade + j - 1]

SortSignal(acc, t) ==
    IF t \in LimitTrades THEN [acc EXCEPT !.resting = Append(@, t)]
    ELSE [acc EXCEPT !.market = Append(@, t)]

Signals(k) == FoldLeft(SortSignal, [market |-> <<>>, resting |-> <<>>], NewTrades(k))

Rest(t, limit) == [trade |-> t, limit |-> limit, expiry |-> n + LimitLife]

(***************************************************************************)
(* The loop.                                                               *)
(***************************************************************************)

Init ==
    /\ tpAtNextOpen \in BOOLEAN
    /\ n = 0 /\ slots = <<>> /\ pending = <<>> /\ working = <<>>
    /\ trail = <<>> /\ nextTrade = 1 /\ closed = {} /\ entered = {}
    /\ bar \in { SeenOf(b) : b \in { c \in Bars : c.low = c.high } }

(* A limit rests at a price at which it would not fill at once.            *)
Bar(b, k) ==
    LET ex     == Exits(b)
        li     == Limits(FillPending(ex.kept, b), b)
        limits == Signals(k).resting
    IN /\ UNCHANGED tpAtNextOpen
       /\ n < MaxBar /\ n' = n + 1
       /\ nextTrade + k <= MaxTrade + 1 /\ nextTrade' = nextTrade + k
       /\ slots' = li.book
       /\ pending' = Signals(k).market
       /\ \E level \in [DOMAIN limits -> Prices] :
            /\ \A j \in DOMAIN limits : ~ Tighter(limits[j], level[j], b.close)
            /\ working' = li.kept \o [j \in DOMAIN limits |-> Rest(limits[j], level[j])]
       /\ trail' = Restrict(ex.trail, DOMAIN ex.trail \cap { Key(s) : s \in ToSet(li.book) })
       /\ bar' = SeenOf(b) /\ closed' = ex.closed
       /\ entered' = entered \cup { s.trade : s \in ToSet(li.book) }

Next == \E b \in Bars, k \in 0..MaxSignals : Bar(b, k)

Spec == Init /\ [][Next]_vars

(***************************************************************************)
(* What the executor is told: TradeBook.                                   *)
(***************************************************************************)

Held == { s.trade : s \in ToSet(slots) }

Stops ==
    [t \in Trades |-> IF t \in Held
                      THEN CurrentStop(CHOOSE s \in ToSet(slots) : s.trade = t) ELSE 0]

Lives ==
    [t \in Trades |-> IF \E w \in ToSet(working) : w.trade = t
                      THEN (CHOOSE w \in ToSet(working) : w.trade = t).expiry - (n - 1)
                      ELSE 0]

TB == INSTANCE TradeBook WITH
        UsesStop      <- SlDist > 0,
        UsesTarget    <- TpDist > 0,
        Levels        <- Nat,
        SlotChoices   <- {MaxSlots},
        MayReplayAnew <- FALSE,
        maxSlots      <- MaxSlots,
        book          <- Held,
        stop          <- Stops,
        pending       <- ToSet(pending),
        working       <- { w.trade : w \in ToSet(working) },
        life          <- Lives,
        price         <- bar.close,
        bars          <- n

(* The limits the market traded at during the bar.                         *)
Touched == { w.trade : w \in { v \in ToSet(working) : FallsTo(v.trade, bar', v.limit) } }

(***************************************************************************)
(* Properties.                                                             *)
(***************************************************************************)

(* live_state is what the executor's model takes it for: every iteration   *)
(* of the loop is a step TradeBook allows.                                 *)
ImplementsTradeBook == TB!BookInit /\ [][TB!BarMoves(Touched)]_vars

(* A published stop means what it says: when the market reaches it during  *)
(* a bar -- so that the stop resting at the exchange has filled -- the     *)
(* replay has dropped the trade by the end of that bar.                    *)
ReachedStopsExit ==
    [][\A s \in ToSet(slots) :
         SlDist > 0 /\ ~ tpAtNextOpen /\ FallsTo(s.trade, bar', CurrentStop(s))
           => s.trade \notin Held']_vars

(* The trailing exits of a step, each with the position it closes.         *)
TrailExits ==
    { x \in ToSet(slots) \X closed' : x[1].trade = x[2].trade /\ x[2].reason = "TRAIL_STOP" }

(* The bar reached the stop published before it, and fills no better.      *)
Causal(s, c) ==
    FallsTo(s.trade, bar', CurrentStop(s)) /\ ~ Tighter(s.trade, c.price, CurrentStop(s))

Alone(s) == \A u \in ToSet(slots) : Key(u) = Key(s) => u = s

(* No look-ahead: a position that shares its ratchet with no other leaves  *)
(* by it only on a bar that reaches the stop it had before that bar, and   *)
(* at no better price (comment in dynamic_exit).                           *)
NoLookAhead == [][\A x \in TrailExits : Alone(x[1]) => Causal(x[1], x[2])]_vars

(***************************************************************************)
(* What the comments say and the code does not do.                         *)
(***************************************************************************)

(* dynamic_exit: "the breach is checked against the stop set on a prior    *)
(* bar"; its state is kept by a key that is "unique per position".         *)
EveryExitIsCausal == [][\A x \in TrailExits : Causal(x[1], x[2])]_vars
=============================================================================
