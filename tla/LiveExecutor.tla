--------------------------- MODULE LiveExecutor ---------------------------
(***************************************************************************)
(* The multi-slot live executor: an hourly run reads the open positions,   *)
(* then the active orders, computes from these two snapshots, the desired  *)
(* book and the order log what to do, and sends the requests one by one    *)
(* while the exchange keeps filling orders.  Nothing survives a run except *)
(* the exchange's own state and the order log.                             *)
(***************************************************************************)
EXTENDS TradeBook, SettleVenue, BestFirst, Sequences

CONSTANTS
    HardSlotCeiling,  \* _HARD_SLOT_CEILING
    Scale,            \* resolution of relative price distances
    ReservedReported, \* BOOLEAN: position rows carry orderdSize
    DrainOk,          \* BOOLEAN: LIVE_DRAIN_OK
    IgnorePhantoms,   \* BOOLEAN: LIVE_IGNORE_PHANTOM_SLOTS
    MayKill,          \* BOOLEAN: the operator may raise the kill switch
    MayStub,          \* BOOLEAN: a position may be left as a stub
    MayLoseLog,       \* BOOLEAN: the order log may be lost
    MayMeddle,        \* BOOLEAN: someone trades the account by hand
    MayRunAgain,      \* BOOLEAN: a bar may have more than one run
    MaxFault          \* bound: failed calls, crashes, lost logs, second runs,
                      \* manual trades

ASSUME LiveExecutorAssumption ==
    /\ HardSlotCeiling \in Nat \ {0}
    /\ Scale \in Nat \ {0}
    /\ {ReservedReported, DrainOk, IgnorePhantoms, MayKill, MayStub,
      MayLoseLog, MayMeddle, MayRunAgain}
         \subseteq BOOLEAN
    /\ MaxFault \in Nat

VARIABLES
    owner,         \* order log: owner[o] is the position order o was recorded
                   \* for, 0 when there is no record
    pc,            \* "idle", "orders" (positions read) or "act"
    seen,          \* the positions of the snapshot
    seenReserved,  \* those of them whose orderdSize was not zero
    matched,       \* the pairing: <<cost, trade, position>>
    todo,          \* requests still to be sent
    ran,           \* this bar has had its run, until one more is started
    crossed,       \* trades whose resting entry filled since the last bar closed
    kill,          \* the kill switch
    faults,        \* faults so far
    raced,         \* an entry filled during the run, or a stale one outlived
                   \* its cancel: slots the run counted free were not
    disturbed      \* the run met a fault, a fill, a manual trade or an exit
                   \* the log does not name

runVars  == <<owner, pc, seen, seenReserved, matched, todo, ran>>
ghosts   == <<raced, disturbed>>
vars     == <<bookVars, venueVars, runVars, kill, faults, crossed, ghosts>>

Abs(x)    == IF x < 0 THEN -x ELSE x
AtMost(a, b) == IF a < b THEN a ELSE b

EffectiveSlots == AtMost(maxSlots, HardSlotCeiling)

Ops == {"bulk", "cancelExits", "cancelOrphans", "cancelStale", "close", "stop",
        "limit", "ratchet", "enter"}

(* Requests.  at orders them as the code does; an unused field is 0 or {}. *)
Request(op, at, pid, oids, trade, level) ==
    [op |-> op, at |-> at, pid |-> pid, oids |-> oids,
     trade |-> trade, level |-> level]

When(test, requests) == IF test THEN requests ELSE {}

Before(a, b) ==
    \E i \in DOMAIN a : a[i] < b[i] /\ \A j \in 1..(i - 1) : a[j] = b[j]

SideRank(t) == IF t \in LongTrades THEN 0 ELSE 1

(***************************************************************************)
(* Pairing the desired book with the live one.                             *)
(***************************************************************************)

(* Mutant: zip both sides in opening order.                                *)
MutPairEdges(B, S) ==
    { <<0, x[1], x[2]>> :
        x \in { y \in B \X S : SameSide(y[1], tradeOf[y[2]]) } }

(* How far the live fill lies from the entry the strategy has for t.  The  *)
(* fill of a market entry comes after the open of its bar and that of a    *)
(* limit anywhere in it, so the position of a trade may be nearer another. *)
PairCost(t, p) == Abs(FilledAt(p) - EntryOf(t))

(* Same-side pairs, by the distance of their entries; live positions are   *)
(* sorted by opening time, which is the order of their ids.                *)
PairEdges(B, S) ==
    { <<PairCost(x[1], x[2]), x[1], x[2]>> :
        x \in { y \in B \X S : SameSide(y[1], tradeOf[y[2]]) } }

(* Mutant: a pairing that looks bad is not made.                           *)
MutMatchPositions(B, S) == BestFirst({ e \in PairEdges(B, S) : 2 * e[1] < Span })

MatchPositions(B, S) == BestFirst(PairEdges(B, S))

LiveOnly(M, S)    == S \ { e[3] : e \in M }
DesiredOnly(M, B) == B \ { e[2] : e \in M }

(***************************************************************************)
(* Attributing resting exits to positions.                                 *)
(***************************************************************************)

(* Mutant: any position may be handed an order by price.                   *)
MutMayHoldSettleOrder(p) == TRUE

MayHoldSettleOrder(p) == ReservedReported => p \in seenReserved

Wanted(kind) == IF kind = "STOP" THEN UsesStop ELSE UsesTarget

KindRank(kind) == IF kind = "STOP" THEN 0 ELSE 1

(* Place of a pair in the list of matched pairs.                           *)
PairRank(M, e) == Cardinality({ f \in M : Prior(f, e) })

(* Exit slots: one per wanted kind for a matched position, both for one    *)
(* about to be closed (level 0: any price will do); ix is the list place.  *)
ExitSlots(M, S) ==
    { [pid |-> x[1][3], kind |-> x[2],
       level |-> IF x[2] = "STOP" THEN stop[x[1][2]] ELSE x[1][2],
       ix |-> 2 * PairRank(M, x[1]) + KindRank(x[2])] :
        x \in { y \in M \X ExitKinds :
                  Wanted(y[2]) /\ MayHoldSettleOrder(y[1][3]) } }
    \cup
    { [pid |-> x[1], kind |-> x[2], level |-> 0,
       ix |-> 2 * (MaxTrade + x[1]) + KindRank(x[2])] :
        x \in { y \in LiveOnly(M, S) \X ExitKinds : MayHoldSettleOrder(y[1]) } }

Infinite == 1000000 * Scale

(* Mutant: a recorded owner does not go ahead of price matches.            *)
MutSlotCost(o, s) ==
    IF s.level > 0 THEN (Abs(order[o].level - s.level) * Scale) \div s.level
    ELSE Infinite

(* Relative price distance; a wildcard comes after every priced slot and a *)
(* recorded owner before.                                                  *)
SlotCost(o, s) ==
    IF owner[o] # 0 THEN -1
    ELSE IF s.level > 0 THEN (Abs(order[o].level - s.level) * Scale) \div s.level
    ELSE Infinite

(* Mutant: the ownership record is not consulted.                          *)
MutSlotEdges(slots, closeOrders) ==
    { <<SlotCost(x[1], x[2]), x[1], x[2].ix, x[2].pid>> :
        x \in { y \in closeOrders \X slots :
                  /\ order[y[1]].kind = y[2].kind
                  /\ SameSide(tradeOf[order[y[1]].pid], tradeOf[y[2].pid]) } }

(* Candidate (order, slot) pairs, the slot's position in fourth place.     *)
SlotEdges(slots, closeOrders) ==
    { <<SlotCost(x[1], x[2]), x[1], x[2].ix, x[2].pid>> :
        x \in { y \in closeOrders \X slots :
                  /\ order[y[1]].kind = y[2].kind
                  /\ SameSide(tradeOf[order[y[1]].pid], tradeOf[y[2].pid])
                  /\ owner[y[1]] # 0 => owner[y[1]] = y[2].pid } }

(* The attributions, each a set of pairs <<order, position>>.              *)
AssignCloseOrders(M, S, closeOrders) ==
    { { <<e[2], e[4]>> : e \in A } :
        A \in BestFirst(SlotEdges(ExitSlots(M, S), closeOrders)) }

ExitsOf(att, p) == { x[1] : x \in { y \in att : y[2] = p } }

(***************************************************************************)
(* Maintaining the exits of one matched position (dp is trade t, lp is p,  *)
(* X its attributed exits).                                                *)
(***************************************************************************)

(* The stop is on the wrong side of the market.                            *)
Breached(t) ==
    /\ UsesStop /\ stop[t] > 0
    /\ IF t \in LongTrades THEN stop[t] >= price ELSE stop[t] <= price

(* More than 0.1% apart (_STOP_MOVE_FRAC, _ENTRY_MOVE_FRAC).               *)
Moved(cur, want) == Abs(cur - want) * 1000 > want

(* Mutant: the exits are not cancelled before the market close.            *)
MutCloseRequests(p, X, at) == { Request("close", at \o <<1>>, p, {}, 0, 0) }

CloseRequests(p, X, at) ==
    When(X # {}, { Request("cancelExits", at \o <<0>>, p, X, 0, 0) })
    \cup { Request("close", at \o <<1>>, p, {}, 0, 0) }

(* Mutant: the replacement is sent at the price of the cancelled order.    *)
MutStopRequests(t, p, X, at) ==
    LET stops == { o \in X : order[o].kind = "STOP" }
    IN IF ~ UsesStop \/ stop[t] = 0 THEN {}
       ELSE IF stops = {}
       THEN { Request("stop", at \o <<0>>, p, {}, 0, stop[t]) }
       ELSE { Request("ratchet", at \o <<0>>, p, {o}, 0, order[o].level) :
                o \in { s \in stops : Moved(order[s].level, stop[t]) } }

StopRequests(t, p, X, at) ==
    LET stops == { o \in X : order[o].kind = "STOP" }
    IN IF ~ UsesStop \/ stop[t] = 0 THEN {}
       ELSE IF stops = {}
       THEN { Request("stop", at \o <<0>>, p, {}, 0, stop[t]) }
       ELSE { Request("ratchet", at \o <<0>>, p, {o}, 0, stop[t]) :
                o \in { s \in stops : Moved(order[s].level, stop[t]) } }

(* Mutant: the test of the reserved quantity is the wrong way round.       *)
MutTargetRequests(t, p, X, at) ==
    IF /\ UsesTarget /\ ~ UsesStop
       /\ ~ \E o \in X : order[o].kind = "LIMIT"
       /\ ReservedReported /\ p \in seenReserved
    THEN { Request("limit", at \o <<1>>, p, {}, 0, t) }
    ELSE {}

(* A take-profit rests only when the strategy wants no stop at all.        *)
TargetRequests(t, p, X, at) ==
    IF /\ UsesTarget /\ ~ UsesStop
       /\ ~ \E o \in X : order[o].kind = "LIMIT"
       /\ ~ (ReservedReported /\ p \in seenReserved)
    THEN { Request("limit", at \o <<1>>, p, {}, 0, t) }
    ELSE {}

MaintainExits(e, X) ==
    LET t  == e[2]
        p  == e[3]
        at == <<1, SideRank(t), e[1], t>>
    IN IF Breached(t) THEN CloseRequests(p, X, at)
       ELSE IF ReservedReported /\ p \in seenReserved /\ X = {} THEN {}
       ELSE StopRequests(t, p, X, at) \cup TargetRequests(t, p, X, at)

(***************************************************************************)
(* Entries.                                                                *)
(***************************************************************************)

(* Resting entries still wanted: one per working signal, the first listed. *)
KeptEntries ==
    LET wanted(o) == { t \in working : /\ SameSide(t, order[o].trade)
                                       /\ ~ Moved(order[o].level, t) }
    IN { o \in EntryOrders :
           /\ wanted(o) # {}
           /\ ~ \E o2 \in EntryOrders : o2 < o /\ wanted(o2) = wanted(o) }

StaleEntries == EntryOrders \ KeptEntries

ToPlace ==
    pending \cup { t \in working : ~ \E o \in KeptEntries :
                      SameSide(t, order[o].trade) /\ ~ Moved(order[o].level, t) }

(* Market entries go first, as in the replay.                              *)
EntryAt(t) == <<5, IF t \in pending THEN 0 ELSE 1, t, 0, 0>>

FirstToPlace(n) ==
    { t \in ToPlace :
        Cardinality({ u \in ToPlace : Before(EntryAt(u), EntryAt(t)) }) < n }

HeldSlots(M) ==
    IF IgnorePhantoms /\ DesiredOnly(M, book) # {} THEN Cardinality(M)
    ELSE Cardinality(book)

(* Mutant: entries that keep resting are not counted as exposure.          *)
MutRoom(M) ==
    LET free == AtMost(EffectiveSlots - HeldSlots(M),
                       EffectiveSlots - Cardinality(seen))
    IN IF free > 0 THEN free ELSE 0

(* Free slots under both bounds: the strategy's book and live exposure.    *)
Room(M) ==
    LET free == AtMost(EffectiveSlots - HeldSlots(M),
                       EffectiveSlots - (Cardinality(seen) + Cardinality(KeptEntries)))
    IN IF free > 0 THEN free ELSE 0

(* The margin check lets through any number of entries up to the room.     *)
EntryBudget(room) == 0..room

(***************************************************************************)
(* Anomalies, in minimum lots (every position is one lot or a stub).       *)
(***************************************************************************)

(* Not downgradable: a stub, or an aggregate above 1.5 lots per slot.      *)
HardAnomaly ==
    seen \cap stubs # {} \/ 2 * Cardinality(seen) > 3 * EffectiveSlots

OverSlots == Cardinality(seen) > EffectiveSlots

Draining == ~ HardAnomaly /\ OverSlots /\ DrainOk

(* Mutant: the drain flag is not consulted.                                *)
MutHalts == HardAnomaly \/ OverSlots

Halts == HardAnomaly \/ (OverSlots /\ ~ DrainOk)

(***************************************************************************)
(* The plan of a run.                                                      *)
(***************************************************************************)

(* Mutant: orders are only cancelled once there is nothing to flatten.     *)
MutKillPlan ==
    When(resting # {} /\ seen = {},
         { Request("bulk", <<0, 0, 0, 0, 0>>, 0, resting, 0, 0) })
    \cup { Request("close", <<1, 0, p, 0, 0>>, p, {}, 0, 0) : p \in seen }

KillPlan ==
    When(resting # {}, { Request("bulk", <<0, 0, 0, 0, 0>>, 0, resting, 0, 0) })
    \cup { Request("close", <<1, 0, p, 0, 0>>, p, {}, 0, 0) : p \in seen }

CancelRequest(op, phase, S) ==
    When(S # {}, { Request(op, <<phase, 0, 0, 0, 0>>, 0, S, 0, 0) })

(* M is the pairing, att the attribution, n the number of entries allowed. *)
Maintained(M, att) == UNION { MaintainExits(e, ExitsOf(att, e[3])) : e \in M }

StrategyExits(M, att) ==
    UNION { CloseRequests(p, ExitsOf(att, p), <<2, SideRank(tradeOf[p]), p, 0>>) :
              p \in LiveOnly(M, seen) }

OrphanCancels(att) ==
    CancelRequest("cancelOrphans", 3, ExitOrders \ { x[1] : x \in att })

EntryPlacements(n) ==
    { Request("enter", EntryAt(t), 0, {}, t, 0) : t \in FirstToPlace(n) }

Plan(M, att, n) ==
    Maintained(M, att) \cup StrategyExits(M, att) \cup OrphanCancels(att)
    \cup CancelRequest("cancelStale", 4, StaleEntries) \cup EntryPlacements(n)

(***************************************************************************)
(* The run.                                                                *)
(***************************************************************************)

Init ==
    /\ BookInit /\ VenueInit
    /\ owner = [o \in Oids |-> 0]
    /\ pc = "idle" /\ seen = {} /\ seenReserved = {} /\ matched = {} /\ todo = {}
    /\ ran = FALSE /\ crossed = {} /\ kill = FALSE /\ faults = 0
    /\ raced = FALSE /\ disturbed = FALSE

(* get_open_positions                                                      *)
ReadPositions ==
    /\ pc = "idle" /\ ~ ran
    /\ pc' = "orders"
    /\ seen' = held
    /\ seenReserved' = held \cap ReservedPids
    /\ ran' = TRUE
    /\ UNCHANGED <<bookVars, venueVars, owner, matched, todo, kill, crossed, faults, ghosts>>

StartActing(requests, M) ==
    /\ pc' = "act" /\ todo' = requests /\ matched' = M
    /\ disturbed' = (disturbed \/ \E o \in ExitOrders : owner[o] = 0)
    /\ UNCHANGED <<bookVars, venueVars, owner, seen, seenReserved, ran, kill, crossed,
                   faults, raced>>

(* Mutant: the reserved flags of the last run survive it.                  *)
MutGoIdle ==
    /\ pc' = "idle" /\ todo' = {} /\ matched' = {}
    /\ seen' = {} /\ UNCHANGED seenReserved
    /\ raced' = FALSE /\ disturbed' = FALSE

GoIdle ==
    /\ pc' = "idle" /\ todo' = {} /\ matched' = {}
    /\ seen' = {} /\ seenReserved' = {}
    /\ raced' = FALSE /\ disturbed' = FALSE

(* get_active_orders, then the whole plan: what is read after this point   *)
(* (the margin) only rations entries.                                      *)
PlanKill == pc = "orders" /\ kill /\ StartActing(KillPlan, {})

PlanHalt ==
    /\ pc = "orders" /\ ~ kill /\ Halts
    /\ GoIdle
    /\ UNCHANGED <<bookVars, venueVars, owner, ran, kill, crossed, faults>>

PlanRun ==
    /\ pc = "orders" /\ ~ kill /\ ~ Halts
    /\ \E M \in MatchPositions(book, seen) :
         \E att \in AssignCloseOrders(M, seen, ExitOrders),
            n \in IF Draining THEN {0} ELSE EntryBudget(Room(M)) :
           StartActing(Plan(M, att, n), M)

(* The request do() is at.                                                 *)
IsNext(r) == r \in todo /\ \A q \in todo \ {r} : Before(r.at, q.at)

Done(r) ==
    /\ pc = "act" /\ IsNext(r)
    /\ todo' = todo \ {r}
    /\ UNCHANGED <<bookVars, pc, seen, seenReserved, matched, ran, kill, crossed>>

Fault == faults < MaxFault /\ faults' = faults + 1 /\ disturbed' = (pc # "idle")

IsCancel(r) == r.op \in {"cancelExits", "cancelOrphans", "cancelStale", "bulk"}

DoCancel(r) ==
    /\ IsCancel(r) /\ Done(r)
    /\ RemoveOrders(IF r.op = "bulk" THEN resting ELSE r.oids)
    /\ UNCHANGED <<owner, faults, ghosts>>

(* The batch was refused and some of the cancels one by one as well: the   *)
(* client swallows that, so do() records a success.                        *)
CancelsPartly(r) ==
    /\ r.op \in {"cancelExits", "cancelOrphans", "cancelStale"} /\ Done(r)
    /\ Fault
    /\ \E gone \in (SUBSET r.oids) \ {r.oids} : RemoveOrders(gone)
    /\ raced' = (raced \/ r.op = "cancelStale")
    /\ UNCHANGED owner

(* Market close; refused when a settle order reserves the position.        *)
DoClose(r) ==
    /\ r.op = "close" /\ Done(r)
    /\ IF Accepts(r.pid) THEN ClosePosition(r.pid) ELSE UNCHANGED venueVars
    /\ UNCHANGED <<owner, faults, ghosts>>

RestExit(kind, r) ==
    RestOrder([kind |-> kind, pid |-> r.pid, trade |-> 0, level |-> r.level])

(* Mutant: a refused placement is recorded as well.                        *)
MutDoPlaceExit(r) ==
    /\ r.op \in {"stop", "limit"} /\ Done(r)
    /\ owner' = [owner EXCEPT ![nOrd + 1] = r.pid]
    /\ IF Accepts(r.pid)
       THEN RestExit(IF r.op = "stop" THEN "STOP" ELSE "LIMIT", r)
       ELSE UNCHANGED venueVars
    /\ UNCHANGED <<faults, ghosts>>

(* close_position with a price: the order id goes to the order log.        *)
DoPlaceExit(r) ==
    /\ r.op \in {"stop", "limit"} /\ Done(r)
    /\ IF Accepts(r.pid)
       THEN /\ RestExit(IF r.op = "stop" THEN "STOP" ELSE "LIMIT", r)
            /\ owner' = [owner EXCEPT ![nOrd + 1] = r.pid]
       ELSE UNCHANGED <<venueVars, owner>>
    /\ UNCHANGED <<faults, ghosts>>

(* _replace: cancel first; a cancel that raises leaves the stop alone.     *)
DoRatchetCancel(r) ==
    /\ r.op = "ratchet"
    /\ pc = "act" /\ IsNext(r)
    /\ IF r.oids \subseteq resting
       THEN /\ RemoveOrders(r.oids)
            /\ todo' = (todo \ {r})
                   \cup {Request("stop", r.at, r.pid, {}, 0, r.level)}
       ELSE /\ todo' = todo \ {r}
            /\ UNCHANGED venueVars
    /\ UNCHANGED <<bookVars, owner, pc, seen, seenReserved, matched, ran, kill, crossed,
                   faults, ghosts>>

DoEnter(r) ==
    /\ r.op = "enter" /\ Done(r)
    /\ IF r.trade \in LimitTrades
       THEN RestOrder([kind |-> "ENTRY", pid |-> 0, trade |-> r.trade,
                       level |-> r.trade])
       ELSE OpenPosition(r.trade) /\ UNCHANGED <<stubs, resting, order, nOrd>>
    /\ UNCHANGED <<owner, faults, ghosts>>

(* A call that raises without effect: do() contains it and goes on.        *)
CallFails(r) ==
    /\ Done(r)
    /\ Fault
    /\ raced' = (raced \/ r.op = "cancelStale")
    /\ UNCHANGED <<venueVars, owner>>

(* The exchange carried the request out but the answer was lost, or the    *)
(* log line was: an order rests that no record names.                      *)
AnswerLost(r) ==
    /\ Done(r)
    /\ Fault
    /\ \/ r.op = "ratchet" /\ RemoveOrders(r.oids)
       \/ /\ r.op \in {"stop", "limit"} /\ Accepts(r.pid)
          /\ RestExit(IF r.op = "stop" THEN "STOP" ELSE "LIMIT", r)
    /\ UNCHANGED <<owner, raced>>

Finish ==
    /\ pc = "act" /\ todo = {}
    /\ GoIdle
    /\ UNCHANGED <<bookVars, venueVars, owner, ran, kill, crossed, faults>>

(* The process dies, or a read raises out of the run.                      *)
Crash ==
    /\ pc # "idle" /\ faults < MaxFault /\ faults' = faults + 1
    /\ GoIdle
    /\ UNCHANGED <<bookVars, venueVars, owner, ran, kill, crossed>>

(***************************************************************************)
(* The environment.                                                        *)
(***************************************************************************)

NewBar(move) ==
    /\ pc = "idle" /\ move
    /\ ran' = FALSE /\ crossed' = {}
    /\ UNCHANGED <<venueVars, owner, pc, seen, seenReserved, matched, todo, kill,
                   faults, ghosts>>

Bar      == NewBar(BarMoves(crossed))
BarQuiet == ran /\ NewBar(QuietBar(crossed))

(* Another run before the replay has a further bar: someone starts one, or *)
(* the timer's next hour finds the new bar not yet published, as late as   *)
(* _bar_age tolerates.  It reads the same desired book.                    *)
RunAgain ==
    /\ MayRunAgain /\ pc = "idle" /\ ran /\ Fault
    /\ ran' = FALSE
    /\ UNCHANGED <<bookVars, venueVars, owner, pc, seen, seenReserved, matched, todo,
                   kill, crossed, raced>>

Replayed ==
    /\ pc = "idle" /\ ReplayAnew
    /\ UNCHANGED <<venueVars, runVars, kill, faults, crossed, ghosts>>

Filled(move) ==
    /\ move
    /\ disturbed' = (pc # "idle")
    /\ UNCHANGED <<bookVars, runVars, kill, faults>>

ExitFilled ==
    \E o \in ExitOrders : Filled(ExitFills(o)) /\ UNCHANGED <<raced, crossed>>

EntryFilled ==
    \E o \in EntryOrders :
      /\ Filled(EntryFills(o))
      /\ crossed' = crossed \cup {order[o].trade}
      /\ raced' = (pc # "idle")

StubLeft ==
    MayStub /\ \E p \in held : Filled(LeaveStub(p)) /\ UNCHANGED <<raced, crossed>>

(* Someone cancels an order, closes a position or rests a settle order in  *)
(* the exchange's own application.                                         *)
ByHand(move) ==
    MayMeddle /\ Fault /\ move /\ UNCHANGED <<bookVars, runVars, kill, crossed, raced>>

ManualCancel == \E o \in resting : ByHand(RemoveOrders({o}))

ManualClose  == \E p \in held : Accepts(p) /\ ByHand(ClosePosition(p))

ManualExit   ==
    \E p \in held, kind \in ExitKinds, l \in Levels :
      /\ Accepts(p)
      /\ ByHand(RestOrder([kind |-> kind, pid |-> p, trade |-> 0, level |-> l]))

KillRaised ==
    /\ MayKill /\ ~ kill /\ kill' = TRUE
    /\ UNCHANGED <<bookVars, venueVars, runVars, crossed, faults, ghosts>>

LogLost ==
    /\ MayLoseLog /\ Fault
    /\ owner # [o \in Oids |-> 0] /\ owner' = [o \in Oids |-> 0]
    /\ UNCHANGED <<bookVars, venueVars, pc, seen, seenReserved, matched, todo, ran,
                   kill, crossed, raced>>

DoNext ==
    \E r \in todo :
      \/ DoCancel(r) \/ CancelsPartly(r) \/ DoClose(r) \/ DoPlaceExit(r)
      \/ DoRatchetCancel(r) \/ DoEnter(r) \/ CallFails(r) \/ AnswerLost(r)

Next ==
    \/ ReadPositions \/ PlanKill \/ PlanHalt \/ PlanRun \/ DoNext \/ Finish
    \/ Crash \/ Bar \/ BarQuiet \/ RunAgain \/ Replayed
    \/ ExitFilled \/ EntryFilled \/ StubLeft
    \/ ManualCancel \/ ManualClose \/ ManualExit \/ KillRaised \/ LogLost

Spec == Init /\ [][Next]_vars

(***************************************************************************)
(* Fairness: the timer starts a run on every bar, a run is a sequential    *)
(* program that goes on until it is done, and bars keep closing.  Nothing  *)
(* is assumed of fills, of the operator or of faults.                      *)
(***************************************************************************)
RunSteps ==
    \/ ReadPositions \/ PlanKill \/ PlanHalt \/ PlanRun \/ Finish
    \/ \E r \in todo :
         DoCancel(r) \/ DoClose(r) \/ DoPlaceExit(r) \/ DoRatchetCancel(r) \/ DoEnter(r)

FairSpec == Spec /\ WF_vars(RunSteps) /\ WF_vars(Bar) /\ WF_vars(BarQuiet)

(***************************************************************************)
(* Properties.                                                             *)
(***************************************************************************)

RequestOK(r) ==
    /\ r.op \in Ops /\ r.pid \in 0..MaxPos /\ r.oids \subseteq Oids
    /\ r.trade \in 0..MaxTrade /\ r.level \in Nat

RunTypeOK ==
    /\ owner \in [Oids -> 0..MaxPos]
    /\ pc \in {"idle", "orders", "act"}
    /\ seen \subseteq Pids /\ seenReserved \subseteq seen
    /\ matched \subseteq Nat \X Trades \X Pids
    /\ \A r \in todo : RequestOK(r)
    /\ crossed \subseteq Nat
    /\ ran \in BOOLEAN /\ kill \in BOOLEAN
    /\ raced \in BOOLEAN /\ disturbed \in BOOLEAN
    /\ faults \in 0..MaxFault

TypeOK == BookTypeOK /\ VenueTypeOK /\ RunTypeOK

(* The order log never names the wrong position: whatever was lost, an     *)
(* order it does name settles exactly the position recorded for it         *)
(* (settle_order_owners).                                                  *)
RecordedOwnersAreTrue ==
    \A o \in Oids : owner[o] # 0 => order[o].kind \in ExitKinds /\ order[o].pid = owner[o]

(* Cancels are surgical: a request that works on one position's exits      *)
(* never names an exit recorded for another position.                      *)
CancelsAreSurgical ==
    \A r \in todo : r.op \in {"cancelExits", "ratchet"} =>
      \A o \in r.oids : owner[o] # 0 => order[o].pid = r.pid

(* A recorded exit is called an orphan only when its position is gone or   *)
(* is held by the strategy without an exit of that kind.                   *)
OrphansAreOrphans ==
    \A r \in todo : r.op = "cancelOrphans" =>
      \A o \in r.oids : owner[o] # 0 =>
        \/ order[o].pid \notin held
        \/ ~ Wanted(order[o].kind)

EntryExposure == Cardinality(held) + Cardinality(EntryOrders)

(* Entries never take positions plus resting entries past the slots of the *)
(* book, unless an entry filled while the run was under way or a stale one *)
(* outlived its cancel (sections 5 of reconcile and _entry_plan).          *)
EntriesRespectSlots ==
    [][EntryExposure' > EntryExposure /\ ~ raced => EntryExposure' <= EffectiveSlots]_vars

(* Someone fits as well as p and its trade fit each other: another held    *)
(* trade whose entry is as near the fill of p, or a position of another    *)
(* trade whose fill is as near the entry of the trade of p.                *)
Rivalled(p) ==
    LET t == tradeOf[p]
    IN  \/ \E u \in book \ {t} : SameSide(u, t) /\ PairCost(u, p) <= PairCost(t, p)
        \/ \E q \in seen : /\ tradeOf[q] # t /\ SameSide(tradeOf[q], t)
                           /\ PairCost(t, q) <= PairCost(t, p)

OwnTradePaired(p, M) == \E e \in M : e[2] = tradeOf[p] /\ tradeOf[e[3]] = tradeOf[p]

(* A live position is not given away: while the strategy holds its trade,  *)
(* that trade is paired with a position opened for it, however fills have  *)
(* drifted, unless a drifted rival is as near; a phantom that merely is    *)
(* older takes nothing (_match_positions and the 2026-08-08 incident its   *)
(* docstring tells).                                                       *)
HeldTradesArePaired ==
    [][PlanRun => \A p \in seen :
         tradeOf[p] \in book /\ ~ Rivalled(p) => OwnTradePaired(p, matched')]_vars

(* Even where drift mixes the pairs up, none is left out to avoid a bad    *)
(* one: a run closes a position as a strategy exit only when every trade   *)
(* the strategy holds on its side is paired with some other position       *)
(* ("the matcher must never leave one out", _match_positions).             *)
OnlySurplusIsClosed ==
    [][PlanRun => \A r \in todo' :
         r.op = "close" => \/ \E e \in matched' : e[3] = r.pid
                           \/ \A t \in book : SameSide(t, tradeOf[r.pid]) =>
                                \E e \in matched' : e[2] = t]_vars

(* Pairing neither gives a live position away nor leaves one out.          *)
PairingIsFair == HeldTradesArePaired /\ OnlySurplusIsClosed

(* Position p wears the exit the strategy wants for trade t: the stop at    *)
(* its current level or, when the strategy has none, the take-profit.      *)
ExitInPlace(p, t) ==
    IF UsesStop
    THEN stop[t] > 0 =>
           \E o \in resting : /\ order[o].kind = "STOP" /\ order[o].pid = p
                             /\ ~ Moved(order[o].level, stop[t])
    ELSE UsesTarget => \E o \in resting : order[o].kind = "LIMIT" /\ order[o].pid = p

(* One undisturbed run is enough: when it ends, every matched position is  *)
(* closed because the market is through its stop, or wears the exit        *)
(* desired for it (_maintain_exits).                                       *)
UndisturbedRunProtects ==
    pc = "act" /\ todo = {} /\ ~ disturbed =>
      \A e \in matched :
        IF Breached(e[2]) THEN e[3] \notin held ELSE ExitInPlace(e[3], e[2])

(* What the account looks like when there is nothing left to do.           *)
Settled ==
    \A M \in MatchPositions(book, held) :
      /\ LiveOnly(M, held) = {}
      /\ \A e \in M : ExitInPlace(e[3], e[2])

(* The states in which the executor refuses to act.                        *)
Frozen ==
    \/ held \cap stubs # {}
    \/ 2 * Cardinality(held) > 3 * EffectiveSlots
    \/ Cardinality(held) > EffectiveSlots /\ ~ DrainOk

(* Whatever was missed, lost, misattributed or done by hand, the account   *)
(* ends up as the strategy wants it, unless the run halts or is killed:    *)
(* the promise of the module's "stateless" docstring.                      *)
Converges == <>[](Settled \/ Frozen \/ kill)

(* The kill switch ends with no position and no order.                     *)
KillFlattens == kill ~> (held = {} /\ resting = {})

(* With LIVE_DRAIN_OK a book that holds a little more than its slots is    *)
(* wound down to them.                                                     *)
DrainWindsDown ==
    (DrainOk /\ ~ Frozen /\ Cardinality(held) > EffectiveSlots)
      ~> (Frozen \/ Cardinality(held) <= EffectiveSlots)

(***************************************************************************)
(* What the documentation says and the code does not do.                   *)
(***************************************************************************)

(* Module docstring: "exposure stays capped at slots".                     *)
ExposureCapped == EntryExposure <= EffectiveSlots

(* Pairing.live_only: "strategy exited -> close"; a position is closed as  *)
(* a strategy exit only if the strategy has held its trade.                *)
OnlyExitedTradesAreClosed ==
    \A r \in todo : r.op = "close" /\ ~ kill /\ r.pid \notin { e[3] : e \in matched } =>
      tradeOf[r.pid] \in entered

(* Signal.limit_expiry_bars: "bars a resting limit order stays working     *)
(* before cancellation"; an undisturbed run leaves no entry resting for a  *)
(* bar on which the strategy will not fill it.                             *)
ExpiredEntriesAreCancelled ==
    pc = "act" /\ todo = {} /\ ~ disturbed /\ ~ kill =>
      \A o \in EntryOrders : life[order[o].trade] > 0

(* docs/deploy.md: LIVE_DRAIN_OK downgrades the over-slots halt.           *)
DrainNeverFreezes ==
    pc = "orders" /\ DrainOk /\ ~ kill /\ seen \cap stubs = {} => ~ Halts
=============================================================================
