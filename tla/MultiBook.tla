----------------------------- MODULE MultiBook -----------------------------
(***************************************************************************)
(* The money of MultiSimulator.run: several positions at a time, the daily *)
(* swap that is debited from the curve while a position is held and booked *)
(* in its trade when it is left, and targets that are left at the next     *)
(* open under tp_at_next_open.  Which position leaves, why and at which    *)
(* price is up to the exit rules, of Replay and Simulator, here free.      *)
(*                                                                         *)
(* Prices, rates and fees are in hundredths, the size is one.              *)
(***************************************************************************)
EXTENDS Simulator, Sequences, SequencesExt, Functions, Lists

CONSTANTS
    BookBars,       \* the bars: [open, close], multiples of a hundred
    BookSignals,    \* what the strategy may signal on a bar: [market, limits],
                    \* the sides of each
    BookSlotCap,    \* max_slots
    SwapPct,        \* daily_swap_rate
    DateBars,       \* bars of a calendar day
    OrderBars,      \* limit_expiry_bars
    MaxBookBars     \* bound: bars

ASSUME MultiBookAssumption ==
    /\ \A b \in BookBars : {b.open, b.close} \subseteq Nat /\ b.open % 100 = 0 /\ b.close % 100 = 0
    /\ \A s \in BookSignals : {s.market, s.limits} \subseteq Seq({1, -1})
    /\ SwapPct \in Nat
    /\ {BookSlotCap, DateBars, OrderBars} \subseteq Nat \ {0} /\ MaxBookBars \in Nat

VARIABLES
    index,      \* bars so far
    nextOpen,   \* tp_at_next_open
    slots,      \* the open positions
    waiting,    \* the sides to fill at the next open
    working,    \* the resting limit orders
    realised, swapOpen,
    point,      \* the last point of equity_curve
    purse       \* ghost: what an account would hold that pays each charge
                \* when it falls due, open positions at their entry price

multiVars == <<index, nextOpen, slots, waiting, working, realised, swapOpen, point, purse>>

MultiInit ==
    /\ index = 0 /\ nextOpen \in BOOLEAN
    /\ slots = <<>> /\ waiting = <<>> /\ working = <<>>
    /\ realised = 0 /\ swapOpen = 0 /\ point = 0 /\ purse = 0

---------------------------------------------------------------------------
(* A position carried into a new day.                                      *)
NewDay(i) == i > 1 /\ (i - 1) % DateBars = 0

Swap(close) == (SwapPct * close) \div 100

Carried(close) == [k \in DOMAIN slots |-> [slots[k] EXCEPT !.swap = @ + Swap(close)]]

(* A touched target of the bar before leaves at the open, whatever the     *)
(* exit rules say; one of this bar is kept for the next.                   *)
Deferred(s, why) == ~s.deferred /\ nextOpen /\ why = "take profit"

Stays(s, why) == ~s.deferred /\ (why = None \/ Deferred(s, why))

ExitOf(s, why, open, level) ==
    IF s.deferred THEN Exits("take profit", open) ELSE Exits(why, level)

(* Trade.pnl of _close, and with the swap as part of the cost.             *)
GrossOf(s, exit) == s.side * (exit.price - s.entry) - Cost(s, exit)
NetOf(s, exit)   == GrossOf(s, exit) - s.swap

MutReleased(gone) ==
    SumFunction([k \in DOMAIN gone |-> IF gone[k].slot.deferred THEN 0 ELSE gone[k].slot.swap])

(* The swap of a position that was left is in its trade from here on.      *)
Released(gone) == SumFunction([k \in DOMAIN gone |-> gone[k].slot.swap])

NewSlot(side, price, i) ==
    [side |-> side, entry |-> price, entered |-> i, swap |-> 0, deferred |-> FALSE]

Free(book) == BookSlotCap - Len(book)

FirstOf(seq, n) == SubSeq(seq, 1, Min({n, Len(seq)}))

(* The positions with what the exit rules say of each, why.  Their level   *)
(* is taken to be the close, as that of a time stop is.                    *)
Marked(book, why, open, close) ==
    [k \in DOMAIN book |->
       [slot |-> [book[k] EXCEPT !.deferred = @ \/ Deferred(book[k], why[k])],
        stays |-> Stays(book[k], why[k]),
        exit |-> ExitOf(book[k], why[k], open, close)]]

(* What was waiting for the open takes the free slots first ...            *)
FillAtOpen(kept, open, i) ==
    [k \in DOMAIN kept |-> kept[k].slot]
      \o [k \in DOMAIN FirstOf(waiting, Free(kept)) |-> NewSlot(waiting[k], open, i)]

Alive(i) == AtPlaces(working, {k \in DOMAIN working : i <= working[k].expiry})

(* ... and the limit orders the bar touched take what is left, the first   *)
(* of them first; the others go on resting.                                *)
Reached(touched, i) == {k \in DOMAIN Alive(i) : Alive(i)[k].side \in touched}

Hits(filled, touched, i) == FirstOf(AtPlaces(Alive(i), Reached(touched, i)), Free(filled))

Unhit(filled, touched, i) ==
    LET reached == Reached(touched, i)
    IN  AtPlaces(Alive(i), {k \in DOMAIN Alive(i) :
            k \notin reached \/ Cardinality({j \in reached : j < k}) >= Free(filled)})

NewOrder(side, price, i) ==
    [side |-> side, price |-> price, expiry |-> i + OrderBars, placed |-> i]

(* Booked at the close: the positions that left, gone, the book with what  *)
(* was filled at the open, and the limit orders that were hit or not.      *)
BookBar(i, close, gone, filled, hits, unhit, market, limits) ==
    /\ slots' = filled \o [k \in DOMAIN hits |-> NewSlot(hits[k].side, hits[k].price, i)]
    /\ realised' = realised + SumFunction([k \in DOMAIN gone |-> NetOf(gone[k].slot, gone[k].exit)])
    /\ swapOpen' = swapOpen
          + (IF NewDay(i) THEN SumFunction([k \in DOMAIN slots |-> Swap(close)]) ELSE 0)
          - Released(gone)
    /\ waiting' = market
    /\ working' = unhit \o [k \in DOMAIN limits |-> NewOrder(limits[k], close, i)]
    /\ point' = realised' + SumFunction([k \in DOMAIN slots' |->
                                slots'[k].side * (close - slots'[k].entry)]) - swapOpen'
    /\ purse' = purse
         - SumFunction([k \in DOMAIN slots |->
             IF slots[k].entered < i /\ (i - 1) \div DateBars # (i - 2) \div DateBars
             THEN Swap(close) ELSE 0])
         + SumFunction([k \in DOMAIN gone |-> GrossOf(gone[k].slot, gone[k].exit)])
    /\ index' = i
    /\ UNCHANGED nextOpen

BookFilled(i, close, gone, filled, touched, market, limits) ==
    BookBar(i, close, gone, filled, Hits(filled, touched, i), Unhit(filled, touched, i),
            market, limits)

(* One iteration: open and close are the bar's, touched the sides whose    *)
(* limit orders the bar reached, market and limits the strategy's signals. *)
StepBar(open, close, why, touched, market, limits) ==
    LET i      == index + 1
        marked == Marked(IF NewDay(i) THEN Carried(close) ELSE slots, why, open, close)
        stay   == {k \in DOMAIN marked : marked[k].stays}
    IN BookFilled(i, close, Restrict(marked, DOMAIN marked \ stay),
                  FillAtOpen(AtPlaces(marked, stay), open, i), touched, market, limits)

Reasons == {None, "stop loss", "take profit"}

OneBar ==
    /\ index < MaxBookBars
    /\ \E b \in BookBars, why \in [DOMAIN slots -> Reasons],
          touched \in SUBSET { o.side : o \in Range(working) }, sig \in BookSignals :
            StepBar(b.open, b.close, why, touched, sig.market, sig.limits)

(* The bars end: whatever is held is closed at the last close.             *)
CloseBook ==
    /\ slots # <<>>
    /\ \E close \in { b.close : b \in BookBars } :
         LET exit == Exits("end of data", close)
         IN  /\ realised' = realised + SumFunction([k \in DOMAIN slots |-> NetOf(slots[k], exit)])
             /\ purse' = purse + SumFunction([k \in DOMAIN slots |-> GrossOf(slots[k], exit)])
    /\ point' = realised' /\ swapOpen' = 0
    /\ slots' = <<>> /\ waiting' = <<>> /\ working' = <<>>
    /\ index' = MaxBookBars
    /\ UNCHANGED nextOpen

MultiNext == OneBar \/ CloseBook

(* Back-tests of either simulator.                                         *)
BacktestSpec ==
    /\ SimInit /\ MultiInit
    /\ [][\/ SimNext /\ UNCHANGED multiVars
          \/ MultiNext /\ UNCHANGED simVars]_<<simVars, multiVars>>

---------------------------------------------------------------------------
(* Every swap is paid once: what the curve has been debited for positions  *)
(* still held is what they have accrued, and with the trades booked so far *)
(* it adds up to an account that pays each charge on its day -- whatever   *)
(* leaves at once, is deferred, or is closed at the end.                   *)
SwapIsPaidOnce ==
    /\ Len(slots) <= BookSlotCap
    /\ swapOpen = SumFunction([k \in DOMAIN slots |-> slots[k].swap])
    /\ realised - swapOpen = purse
    /\ slots = <<>> => point = purse

(* The trades and the curve of a back-test, with one position or several.  *)
BacktestsAddUp == TradesKeepTheRules /\ SwapIsPaidOnce
=============================================================================
