----------------------------- MODULE TradeBook -----------------------------
(***************************************************************************)
(* What the strategy wants, as the executor receives it once per hourly    *)
(* bar: MultiSimulator.live_state replays the strategy over the closed     *)
(* bars and returns the positions it would hold now with their protective  *)
(* stops, the market entries to fill at the next open and the resting      *)
(* limit entries.  One Bar step is one iteration of the replay loop seen   *)
(* from outside: which trades exit, fill, expire or are signalled is open, *)
(* what the loop allows them to do is not.                                 *)
(*                                                                         *)
(* A trade is a number: trades are numbered by entry time, and the number  *)
(* also stands for the trade's entry price, limit price and target.        *)
(***************************************************************************)
EXTENDS Integers, FiniteSets

CONSTANTS
    MaxTrade,      \* trades the strategy may signal
    LongTrades,    \* the trades that are long; the others are short
    LimitTrades,   \* the trades entered by a resting limit order
    UsesStop,      \* BOOLEAN: the exit configuration has a stop loss
    UsesTarget,    \* BOOLEAN: the exit configuration has a take profit
    Levels,        \* the stop levels
    Prices,        \* the closes of the last closed bar
    SlotChoices,   \* the slot counts an operator may configure
    MayReplayAnew, \* BOOLEAN: the replay may start over from other premises
    MaxSignals,    \* signals per bar
    LimitLife,     \* bars a limit entry stays eligible (limit_expiry_bars)
    MaxBar         \* bound: bars on which the strategy still moves

Trades == 1..MaxTrade

ASSUME TradeBookAssumption ==
    /\ MaxTrade \in Nat /\ MaxSignals \in Nat /\ MaxBar \in Nat
    /\ LimitLife \in Nat \ {0}
    /\ LongTrades \subseteq Trades /\ LimitTrades \subseteq Trades
    /\ UsesStop \in BOOLEAN /\ UsesTarget \in BOOLEAN
    /\ MayReplayAnew \in BOOLEAN
    /\ Levels \subseteq Nat /\ Levels # {}
    /\ Prices \subseteq Nat /\ Prices # {}
    /\ SlotChoices \subseteq Nat \ {0} /\ SlotChoices # {}

VARIABLES
    maxSlots,   \* the book's configured concurrency cap (LiveBookState.max_slots)
    book,       \* the trades the strategy holds
    stop,       \* stop[t]: current protective stop of trade t, 0 when not held
    pending,    \* market entries to fill at the next open
    working,    \* resting limit entries
    life,       \* life[t]: further bars on which limit entry t may still fill
    entered,    \* history: the trades the strategy has held
    price,      \* close of the last closed bar
    nextTrade,  \* the next trade number to be signalled
    bars        \* bars on which the strategy moved

bookVars == <<maxSlots, book, stop, pending, working, life, entered, price,
              nextTrade, bars>>

BookTypeOK ==
    /\ maxSlots \in SlotChoices
    /\ book \subseteq Trades
    /\ stop \in [Trades -> Nat]
    /\ pending \subseteq Trades
    /\ working \subseteq Trades
    /\ life \in [Trades -> 0..LimitLife]
    /\ entered \subseteq Trades
    /\ price \in Prices
    /\ nextTrade \in 1..(MaxTrade + 1)
    /\ bars \in 0..MaxBar

SameSide(t, u) == (t \in LongTrades) <=> (u \in LongTrades)

(* dynamic_exit: the ratchet recomputes the stop and never loosens it.     *)
Tightens(t, old, new) == IF t \in LongTrades THEN new >= old ELSE new <= old

BookInit ==
    /\ maxSlots \in SlotChoices
    /\ book = {} /\ pending = {} /\ working = {}
    /\ stop = [t \in Trades |-> 0]
    /\ life = [t \in Trades |-> 0]
    /\ entered = {}
    /\ price \in Prices
    /\ nextTrade = 1
    /\ bars = 0

(* The ratchet is kept by entry bar and side: a trade that shares both with *)
(* another also shares its stop, from their first bar on.                  *)
Adopts(t, s, next) ==
    \E u \in book \ {t} : SameSide(t, u) /\ (u \in next => s[u] = s[t])

(* Stops of the next book: held trades ratchet (or take over the stop of   *)
(* the trade they share it with), new ones get their initial stop, the     *)
(* others have none.                                                       *)
NextStops(next) ==
    { s \in [Trades -> Levels \cup {0}] :
        \A t \in Trades :
          IF t \notin next THEN s[t] = 0
          ELSE /\ s[t] \in Levels
               /\ t \in book => Tightens(t, stop[t], s[t]) \/ Adopts(t, s, next) }

(* Step 2 of the loop: pending market entries fill at the open, in order,  *)
(* while there is a free slot; the rest are dropped.                       *)
FilledAtOpen(kept) ==
    { t \in pending :
        Cardinality(kept) + Cardinality({u \in pending : u < t}) < maxSlots }

(* One replayed bar: exits, fills at the open, limit entries (dropped when *)
(* their life is over, filled when touched while a slot is free, kept      *)
(* otherwise), signals.  crossed are the limits the market has traded      *)
(* through during the bar: those the bar's range cannot miss.              *)
ReplayBar(exits, touched, n, crossed) ==
    LET kept     == book \ exits
        eligible == { t \in working : life[t] > 0 }
        next     == kept \cup FilledAtOpen(kept) \cup touched
        signals  == nextTrade..(nextTrade + n - 1)
        limits   == signals \cap LimitTrades
    IN /\ touched \subseteq eligible
       /\ touched # {} => Cardinality(next) <= maxSlots
       /\ crossed \cap eligible \subseteq touched \/ Cardinality(next) >= maxSlots
       /\ nextTrade + n <= MaxTrade + 1
       /\ book' = next
       /\ entered' = entered \cup next
       /\ stop' \in NextStops(next)
       /\ pending' = signals \ LimitTrades
       /\ working' = (eligible \ touched) \cup limits
       /\ life' = [t \in Trades |-> IF t \in limits THEN LimitLife
                                   ELSE IF t \in eligible \ touched THEN life[t] - 1
                                   ELSE 0]
       /\ nextTrade' = nextTrade + n

BarMoves(crossed) ==
    /\ bars < MaxBar
    /\ bars' = bars + 1
    /\ \E exits \in SUBSET book, touched \in SUBSET working, n \in 0..MaxSignals :
         ReplayBar(exits, touched, n, crossed)
    /\ price' \in Prices
    /\ UNCHANGED maxSlots

(* A bar after the bound: pending entries fill, limits that were crossed   *)
(* fill, nothing else happens.                                             *)
QuietBar(crossed) ==
    /\ bars = MaxBar
    /\ \E touched \in SUBSET (working \cap crossed) : ReplayBar({}, touched, 0, crossed)
    /\ \A t \in book : stop'[t] = stop[t]
    /\ UNCHANGED <<maxSlots, price, bars>>

(* The signals of the last bar are before any slot is consulted: whatever  *)
(* the slots, its market entries are pending and its limits rest.          *)
Fresh == { t \in working : life[t] = LimitLife }

(* How long the limits of W rest: what was resting keeps its expiry.       *)
LivesOf(W) ==
    { l \in [Trades -> 0..LimitLife] :
        \A t \in Trades :
          IF t \in W THEN IF t \in working THEN l[t] = life[t] ELSE l[t] < LimitLife
          ELSE l[t] = 0 }

StopsOf(B) ==
    { s \in [Trades -> Levels \cup {0}] :
        \A t \in Trades : IF t \in B THEN s[t] \in Levels ELSE s[t] = 0 }

(* An operator edits AUTO_BOOKS, or the replayed window slides past the    *)
(* entry of a trade: the replay starts over, perhaps with another slot     *)
(* count, and may now hold any of the trades signalled before.  A limit    *)
(* that had waited for a slot may have been filled, one that had been      *)
(* filled may still wait.                                                  *)
ReplayAnew ==
    /\ MayReplayAnew /\ bars < MaxBar
    /\ bars' = bars + 1
    /\ \E n \in SlotChoices,
          B \in SUBSET ((1..(nextTrade - 1)) \ (pending \cup Fresh)),
          W \in SUBSET (LimitTrades \cap (working \cup book)) :
         /\ Cardinality(B) <= n /\ B \cap W = {} /\ Fresh \subseteq W
         /\ maxSlots' = n
         /\ book' = B
         /\ entered' = entered \cup B
         /\ stop' \in StopsOf(B)
         /\ working' = W /\ life' \in LivesOf(W)
    /\ UNCHANGED <<pending, price, nextTrade>>
=============================================================================
