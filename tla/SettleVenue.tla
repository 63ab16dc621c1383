---------------------------- MODULE SettleVenue ----------------------------
(***************************************************************************)
(* The exchange's leverage book for one symbol, as the client and the      *)
(* executor rely on it: positions (tategyoku) with ids, resting orders     *)
(* with ids, and one rule that shapes the whole executor -- the first      *)
(* settle order of a position reserves all of it, so a second settle order *)
(* or a market close is refused (ERR-200) until the first is gone.         *)
(*                                                                         *)
(* The operators below say what a request does when the exchange accepts   *)
(* it; the executor's module says which requests are made.                 *)
(***************************************************************************)
EXTENDS Integers, FiniteSets

CONSTANTS
    MaxPos,    \* bound: position ids the exchange may issue
    MaxOrd,    \* bound: order ids the exchange may issue
    Span,      \* from the entry of one trade to that of the next, in the
               \* sum of hours and percent of price that pairing compares
    Drift      \* Drift[p]: from the entry of its trade to the fill of p, in
               \* the same sum; an id is issued once, so a function of the
               \* id stands for a choice made at every fill

Pids == 1..MaxPos
Oids == 1..MaxOrd

ASSUME SettleVenueAssumption ==
    /\ MaxPos \in Nat /\ MaxOrd \in Nat
    /\ Span \in Nat \ {0} /\ Drift \in [Pids -> Int]

VARIABLES
    held,       \* ids of the open positions
    tradeOf,    \* tradeOf[p]: the trade whose entry opened p (0: not issued)
    stubs,      \* open positions left below the minimum lot
    resting,    \* ids of the active orders
    order,      \* order[o]: what was ordered
    nPos,       \* position ids issued
    nOrd        \* order ids issued

venueVars == <<held, tradeOf, stubs, resting, order, nPos, nOrd>>

ExitKinds == {"STOP", "LIMIT"}

(* pid is the settle target of an exit (0 for an entry), trade the trade   *)
(* of an entry (0 for an exit), level the price it rests at.               *)
Orders == [kind : ExitKinds \cup {"ENTRY"}, pid : Nat, trade : Nat, level : Nat]

NoOrder == [kind |-> "ENTRY", pid |-> 0, trade |-> 0, level |-> 0]

VenueTypeOK ==
    /\ nPos \in 0..MaxPos /\ nOrd \in 0..MaxOrd
    /\ held \subseteq 1..nPos
    /\ stubs \subseteq held
    /\ tradeOf \in [Pids -> Nat]
    /\ resting \subseteq 1..nOrd
    /\ order \in [Oids -> Orders]

VenueInit ==
    /\ held = {} /\ stubs = {} /\ resting = {}
    /\ tradeOf = [p \in Pids |-> 0]
    /\ order = [o \in Oids |-> NoOrder]
    /\ nPos = 0 /\ nOrd = 0

(* Where p was filled, as its row reports it (timestamp and price).  The   *)
(* strategy enters trade t at the open of its bar, or at its limit.        *)
FilledAt(p) == Span * tradeOf[p] + Drift[p]
EntryOf(t)  == Span * t

ExitOrders  == { o \in resting : order[o].kind \in ExitKinds }
EntryOrders == { o \in resting : order[o].kind = "ENTRY" }

(* orderdSize > 0: a resting settle order has reserved the position.       *)
ReservedPids == { order[o].pid : o \in ExitOrders }

(* A settle order for p is accepted.                                       *)
Accepts(p) == p \in held /\ p \notin ReservedPids

(* Requests the exchange carries out.                                      *)
RestOrder(rec) ==
    /\ nOrd < MaxOrd
    /\ nOrd' = nOrd + 1
    /\ resting' = resting \cup {nOrd + 1}
    /\ order' = [order EXCEPT ![nOrd + 1] = rec]
    /\ UNCHANGED <<held, tradeOf, stubs, nPos>>

OpenPosition(t) ==
    /\ nPos < MaxPos
    /\ nPos' = nPos + 1
    /\ held' = held \cup {nPos + 1}
    /\ tradeOf' = [tradeOf EXCEPT ![nPos + 1] = t]

RemoveOrders(S) ==
    /\ resting' = resting \ S
    /\ UNCHANGED <<held, tradeOf, stubs, order, nPos, nOrd>>

ClosePosition(p) ==
    /\ held' = held \ {p}
    /\ stubs' = stubs \ {p}
    /\ UNCHANGED <<tradeOf, resting, order, nPos, nOrd>>

(* What the exchange does on its own, at any moment: a resting exit fills  *)
(* intrabar and closes its position, a resting entry fills and opens one.  *)
ExitFills(o) ==
    /\ o \in ExitOrders
    /\ resting' = resting \ {o}
    /\ held' = held \ {order[o].pid}
    /\ stubs' = stubs \ {order[o].pid}
    /\ UNCHANGED <<tradeOf, order, nPos, nOrd>>

EntryFills(o) ==
    /\ o \in EntryOrders
    /\ resting' = resting \ {o}
    /\ OpenPosition(order[o].trade)
    /\ UNCHANGED <<stubs, order, nOrd>>

(* A partial fill or a manual part-close leaves less than a minimum lot.   *)
LeaveStub(p) ==
    /\ p \in held \ stubs
    /\ stubs' = stubs \cup {p}
    /\ UNCHANGED <<held, tradeOf, resting, order, nPos, nOrd>>
=============================================================================
