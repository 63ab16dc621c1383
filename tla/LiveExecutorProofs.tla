------------------------ MODULE LiveExecutorProofs ------------------------
(***************************************************************************)
(* Theorems about LiveExecutor, for every value of its constants: the log  *)
(* and its pairing with the positions, then a run under way: what it       *)
(* cancels as an orphan, what it leaves its positions with, and how much   *)
(* it enters.                                                              *)
(***************************************************************************)
EXTENDS LiveExecutor, Arithmetic, SequenceTheorems

(***************************************************************************)
(* The pairing.                                                            *)
(***************************************************************************)

(* A best-first assignment leaves out a candidate pair only when one of    *)
(* its ends is taken.                                                      *)
LEMMA LeftOutIsTaken ==
    ASSUME NEW E, NEW M \in BestFirst(E), NEW e \in E, e \notin M
    PROVE  \E f \in M : Prior(f, e) /\ Clash(f, e)
  BY DEF BestFirst, IsBestFirst

(* Introduction and elimination of a candidate pair.                       *)
LEMMA PairEdgeIntro ==
    ASSUME NEW B, NEW S, NEW t \in B, NEW p \in S, SameSide(t, tradeOf[p])
    PROVE  <<PairCost(t, p), t, p>> \in PairEdges(B, S)
<1> DEFINE y == <<t, p>>
<1>1. y \in { z \in B \X S : SameSide(z[1], tradeOf[z[2]]) }
  OBVIOUS
<1>2. <<PairCost(y[1], y[2]), y[1], y[2]>> \in PairEdges(B, S)
  BY <1>1 DEF PairEdges
<1> QED
  BY <1>2

(* What a candidate pair is made of.                                       *)
LEMMA PairEdgeElim ==
    ASSUME NEW B, NEW S, NEW e \in PairEdges(B, S)
    PROVE  /\ e[2] \in B /\ e[3] \in S
           /\ SameSide(e[2], tradeOf[e[3]])
           /\ e = <<PairCost(e[2], e[3]), e[2], e[3]>>
  BY DEF PairEdges

(* _match_positions never leaves a live position out while a desired one   *)
(* of its side is unmatched: an unmatched live position would be closed as *)
(* a strategy exit.                                                        *)
THEOREM NobodyLeftUnmatched ==
    ASSUME NEW B, NEW S, NEW M \in MatchPositions(B, S),
           NEW t \in DesiredOnly(M, B), NEW p \in LiveOnly(M, S)
    PROVE  ~ SameSide(t, tradeOf[p])
<1>1. SUFFICES ASSUME SameSide(t, tradeOf[p]) PROVE FALSE
  OBVIOUS
<1> DEFINE edge == <<PairCost(t, p), t, p>>
<1>2. edge \in PairEdges(B, S)
  BY <1>1, PairEdgeIntro DEF DesiredOnly, LiveOnly
<1>3. edge \notin M
  BY DEF DesiredOnly
<1>4. PICK f \in M : Clash(f, edge)
  BY <1>2, <1>3, LeftOutIsTaken DEF MatchPositions
<1>5. f[2] = t \/ f[3] = p
  BY <1>4 DEF Clash
<1> QED
  BY <1>5 DEF DesiredOnly, LiveOnly

(***************************************************************************)
(* Type correctness, one lemma per module that owns variables.             *)
(***************************************************************************)

(* One replayed bar keeps the types of the desired book.                   *)
LEMMA ReplayTyped ==
    ASSUME BookTypeOK, NEW exits, NEW touched, NEW n \in Nat, NEW crossedNow,
           ReplayBar(exits, touched, n, crossedNow)
    PROVE  /\ book' \subseteq Trades /\ entered' \subseteq Trades
           /\ stop' \in [Trades -> Nat]
           /\ pending' \subseteq Trades /\ working' \subseteq Trades
           /\ life' \in [Trades -> 0..LimitLife]
           /\ nextTrade' \in 1..(MaxTrade + 1)
<1> USE TradeBookAssumption DEF BookTypeOK, Trades
<1> DEFINE kept     == book \ exits
           eligible == { t \in working : life[t] > 0 }
           next     == kept \cup FilledAtOpen(kept) \cup touched
           signals  == nextTrade..(nextTrade + n - 1)
           limits   == signals \cap LimitTrades
<1>1. /\ touched \subseteq eligible
      /\ nextTrade + n <= MaxTrade + 1
      /\ book' = next
      /\ entered' = entered \cup next
      /\ stop' \in NextStops(next)
      /\ pending' = signals \ LimitTrades
      /\ working' = (eligible \ touched) \cup limits
      /\ life' = [t \in Trades |-> IF t \in limits THEN LimitLife
                                  ELSE IF t \in eligible \ touched THEN life[t] - 1
                                  ELSE 0]
      /\ nextTrade' = nextTrade + n
  BY DEF ReplayBar
<1>2. FilledAtOpen(kept) \subseteq pending
  BY DEF FilledAtOpen
<1>3. next \subseteq Trades
  BY <1>1, <1>2
<1>4. stop' \in [Trades -> Nat]
  <2>1. stop' \in [Trades -> Levels \cup {0}]
    BY <1>1 DEF NextStops
  <2>2. Levels \cup {0} \subseteq Nat
    OBVIOUS
  <2> QED
    BY <2>1, <2>2
<1>5. signals \subseteq Trades
  BY <1>1
<1>6. life' \in [Trades -> 0..LimitLife]
  BY <1>1
<1>7. nextTrade' \in 1..(MaxTrade + 1)
  <2>1. nextTrade \in Int /\ nextTrade >= 1
    OBVIOUS
  <2> QED
    BY <1>1, <2>1
<1>8. book' \subseteq Trades /\ entered' \subseteq Trades
  BY <1>1, <1>3
<1>9. pending' \subseteq Trades /\ working' \subseteq Trades
  BY <1>1, <1>5
<1> QED
  BY <1>4, <1>6, <1>7, <1>8, <1>9

(* So does every way the desired book may change.                          *)
LEMMA BookTyped ==
    ASSUME BookTypeOK, NEW crossedNow,
           BarMoves(crossedNow) \/ QuietBar(crossedNow) \/ ReplayAnew
    PROVE  BookTypeOK'
<1> USE TradeBookAssumption
<1>1. CASE BarMoves(crossedNow)
  <2>1. PICK exits \in SUBSET book, touched \in SUBSET working, n \in 0..MaxSignals :
          ReplayBar(exits, touched, n, crossedNow)
    BY <1>1 DEF BarMoves
  <2>2. bars' \in 0..MaxBar /\ price' \in Prices /\ maxSlots' = maxSlots
    BY <1>1 DEF BarMoves, BookTypeOK
  <2> QED
    BY <2>1, <2>2, ReplayTyped DEF BookTypeOK
<1>2. CASE QuietBar(crossedNow)
  <2>1. PICK touched : ReplayBar({}, touched, 0, crossedNow)
    BY <1>2 DEF QuietBar
  <2>2. UNCHANGED <<maxSlots, price, bars>>
    BY <1>2 DEF QuietBar
  <2> QED
    BY <2>1, <2>2, ReplayTyped DEF BookTypeOK
<1>3. CASE ReplayAnew
  <2>1. PICK n \in SlotChoices, B \in SUBSET (1..(nextTrade - 1)),
             W \in SUBSET (working \cup book) :
          /\ maxSlots' = n /\ book' = B /\ entered' = entered \cup B
          /\ stop' \in StopsOf(B)
          /\ working' = W /\ life' \in LivesOf(W)
    BY <1>3 DEF ReplayAnew
  <2>2. B \subseteq Trades /\ W \subseteq Trades
    BY DEF BookTypeOK, Trades
  <2>3. stop' \in [Trades -> Nat]
    <3>1. stop' \in [Trades -> Levels \cup {0}]
      BY <2>1 DEF StopsOf
    <3>2. Levels \cup {0} \subseteq Nat
      OBVIOUS
    <3> QED
      BY <3>1, <3>2
  <2>4. bars' \in 0..MaxBar
    BY <1>3 DEF ReplayAnew, BookTypeOK
  <2>5. UNCHANGED <<pending, price, nextTrade>>
    BY <1>3 DEF ReplayAnew
  <2>6. life' \in [Trades -> 0..LimitLife]
    BY <2>1 DEF LivesOf
  <2> QED
    BY <2>1, <2>2, <2>3, <2>4, <2>5, <2>6 DEF BookTypeOK
<1> QED
  BY <1>1, <1>2, <1>3

(* What the exchange does keeps its books well formed.                     *)
LEMMA RestOrderTyped ==
    ASSUME VenueTypeOK, NEW rec \in Orders, RestOrder(rec)
    PROVE  VenueTypeOK'
  BY SettleVenueAssumption DEF VenueTypeOK, RestOrder, Oids

(* A position that opens keeps the types of the account.                   *)
LEMMA OpenPositionTyped ==
    ASSUME VenueTypeOK, NEW t \in Nat, OpenPosition(t),
           stubs' = stubs, order' = order, nOrd' = nOrd, resting' \subseteq resting
    PROVE  VenueTypeOK'
  BY SettleVenueAssumption DEF VenueTypeOK, OpenPosition, Pids

(* So does every effect of a request and every fill.                       *)
LEMMA VenueTyped ==
    ASSUME VenueTypeOK, NEW x,
           \/ RemoveOrders(x) \/ ClosePosition(x) \/ ExitFills(x)
           \/ EntryFills(x) \/ LeaveStub(x)
    PROVE  VenueTypeOK'
<1> USE SettleVenueAssumption
<1>1. CASE RemoveOrders(x)
  BY <1>1 DEF VenueTypeOK, RemoveOrders
<1>2. CASE ClosePosition(x)
  BY <1>2 DEF VenueTypeOK, ClosePosition
<1>3. CASE ExitFills(x)
  BY <1>3 DEF VenueTypeOK, ExitFills
<1>4. CASE EntryFills(x)
  <2>1. order[x].trade \in Nat
    BY <1>4 DEF VenueTypeOK, EntryFills, EntryOrders, Orders, Oids
  <2> QED
    BY <1>4, <2>1, OpenPositionTyped DEF EntryFills
<1>5. CASE LeaveStub(x)
  BY <1>5 DEF VenueTypeOK, LeaveStub
<1> QED
  BY <1>1, <1>2, <1>3, <1>4, <1>5
(***************************************************************************)
(* The plan of a run.                                                      *)
(***************************************************************************)

(* A request built from typed fields is a typed request.                   *)
LEMMA RequestTyped ==
    ASSUME NEW op \in Ops, NEW at, NEW pid \in 0..MaxPos, NEW oids \in SUBSET Oids,
           NEW trade \in 0..MaxTrade, NEW level \in Nat
    PROVE  RequestOK(Request(op, at, pid, oids, trade, level))
  BY DEF RequestOK, Request

(* The cost of a pair is a number.                                         *)
LEMMA PairCostTyped ==
    ASSUME TypeOK, NEW t \in Nat, NEW p \in Pids
    PROVE  PairCost(t, p) \in Nat
<1>1. tradeOf[p] \in Nat /\ Span \in Nat /\ Drift[p] \in Int
  BY SettleVenueAssumption DEF TypeOK, VenueTypeOK
<1>2. Span * tradeOf[p] \in Int /\ Span * t \in Int
  BY <1>1
<1>3. FilledAt(p) \in Int /\ EntryOf(t) \in Int
  BY <1>1, <1>2 DEF FilledAt, EntryOf
<1> QED
  BY <1>3 DEF PairCost, Abs

(* A pairing pairs a desired trade with a position of the snapshot.        *)
LEMMA MatchTyped ==
    ASSUME TypeOK, NEW M \in MatchPositions(book, seen)
    PROVE  M \subseteq Nat \X book \X seen
<1>1. M \subseteq PairEdges(book, seen)
  BY DEF MatchPositions, BestFirst, IsBestFirst
<1>2. ASSUME NEW e \in PairEdges(book, seen) PROVE e \in Nat \X book \X seen
  <2>1. /\ e[2] \in book /\ e[3] \in seen
        /\ e = <<PairCost(e[2], e[3]), e[2], e[3]>>
    BY PairEdgeElim
  <2>2. e[2] \in Nat /\ e[3] \in Pids
    <3>1. e[2] \in Trades /\ e[3] \in Pids
      BY <2>1 DEF TypeOK, BookTypeOK, RunTypeOK
    <3> QED
      BY <3>1 DEF Trades
  <2>3. PairCost(e[2], e[3]) \in Nat
    BY <2>2, PairCostTyped
  <2> QED
    BY <2>1, <2>3
<1> QED
  BY <1>1, <1>2

(* An attribution hands out only the orders it was given, and an order the *)
(* log names only to the position recorded for it.                         *)
LEMMA AttributionHonoursTheLog ==
    ASSUME NEW M, NEW S, NEW C, NEW att \in AssignCloseOrders(M, S, C),
           NEW p, NEW o \in ExitsOf(att, p)
    PROVE  o \in C /\ (owner[o] # 0 => owner[o] = p)
<1> DEFINE slots == ExitSlots(M, S)
<1>1. PICK A \in BestFirst(SlotEdges(slots, C)) : att = { <<e[2], e[4]>> : e \in A }
  BY DEF AssignCloseOrders
<1>2. <<o, p>> \in att
  <2>1. PICK x \in att : x[2] = p /\ x[1] = o
    BY DEF ExitsOf
  <2>2. x = <<x[1], x[2]>>
    BY <1>1
  <2> QED
    BY <2>1, <2>2
<1>3. PICK e \in A : e[2] = o /\ e[4] = p
  BY <1>1, <1>2
<1>4. e \in SlotEdges(slots, C)
  BY DEF BestFirst, IsBestFirst
<1>5. PICK y \in C \X slots :
        /\ owner[y[1]] # 0 => owner[y[1]] = y[2].pid
        /\ e = <<SlotCost(y[1], y[2]), y[1], y[2].ix, y[2].pid>>
  BY <1>4 DEF SlotEdges
<1> QED
  BY <1>3, <1>5

(* What a run plans is well formed, and what it plans to cancel it has     *)
(* seen resting.                                                           *)
Planned(r) == RequestOK(r) /\ r.oids \subseteq resting

(* The requests that close one position.                                   *)
LEMMA CloseRequestsPlanned ==
    ASSUME TypeOK, NEW p \in seen, NEW X \in SUBSET resting, NEW at,
           NEW r \in CloseRequests(p, X, at)
    PROVE  Planned(r)
<1>1. p \in 0..MaxPos /\ resting \subseteq Oids
  BY SettleVenueAssumption DEF TypeOK, RunTypeOK, VenueTypeOK, Pids, Oids
<1>2. r \in { Request("cancelExits", at \o <<0>>, p, X, 0, 0),
              Request("close", at \o <<1>>, p, {}, 0, 0) }
  BY DEF CloseRequests, When
<1> QED
  BY <1>1, <1>2, TradeBookAssumption DEF Planned, RequestOK, Request, Ops

(* The requests of _maintain_exits.                                        *)
LEMMA MaintainExitsPlanned ==
    ASSUME TypeOK, NEW e \in Nat \X book \X seen, NEW X \in SUBSET resting,
           NEW r \in MaintainExits(e, X)
    PROVE  Planned(r)
<1> DEFINE t  == e[2]
           p  == e[3]
           at == <<1, SideRank(t), e[1], t>>
<1> USE TradeBookAssumption
<1>1. /\ t \in Trades /\ t \in Nat /\ p \in seen
      /\ p \in 0..MaxPos /\ resting \subseteq Oids
  <2>1. t \in book /\ p \in seen
    OBVIOUS
  <2>2. t \in Trades /\ p \in Pids
    BY <2>1 DEF TypeOK, BookTypeOK, RunTypeOK
  <2>3. resting \subseteq Oids
    BY SettleVenueAssumption DEF TypeOK, VenueTypeOK, Oids
  <2> QED
    BY <2>1, <2>2, <2>3, SettleVenueAssumption DEF Trades, Pids
<1>2. stop[t] \in Nat
  BY <1>1 DEF TypeOK, BookTypeOK
<1>3. CASE r \in CloseRequests(p, X, at)
  BY <1>1, <1>3, CloseRequestsPlanned
<1>4. CASE r \in StopRequests(t, p, X, at)
  <2>1. \/ r = Request("stop", at \o <<0>>, p, {}, 0, stop[t])
        \/ \E o \in X : r = Request("ratchet", at \o <<0>>, p, {o}, 0, stop[t])
    BY <1>4 DEF StopRequests
  <2> QED
    BY <1>1, <1>2, <2>1 DEF Planned, RequestOK, Request, Ops
<1>5. CASE r \in TargetRequests(t, p, X, at)
  <2>1. r = Request("limit", at \o <<1>>, p, {}, 0, t)
    BY <1>5 DEF TargetRequests
  <2> QED
    BY <1>1, <2>1 DEF Planned, RequestOK, Request, Ops
<1> QED
  BY <1>3, <1>4, <1>5 DEF MaintainExits

(* The batched cancels.                                                    *)
LEMMA CancelRequestPlanned ==
    ASSUME TypeOK, NEW op \in Ops, NEW phase, NEW C \in SUBSET resting,
           NEW r \in CancelRequest(op, phase, C)
    PROVE  Planned(r)
<1>1. r = Request(op, <<phase, 0, 0, 0, 0>>, 0, C, 0, 0)
  BY DEF CancelRequest, When
<1>2. resting \subseteq Oids
  BY SettleVenueAssumption DEF TypeOK, VenueTypeOK, Oids
<1> QED
  BY <1>1, <1>2, TradeBookAssumption, SettleVenueAssumption
     DEF Planned, RequestOK, Request

(* The requests of the kill switch.                                        *)
LEMMA KillPlanPlanned ==
    ASSUME TypeOK, NEW r \in KillPlan
    PROVE  Planned(r)
<1>1. resting \subseteq Oids /\ seen \subseteq 0..MaxPos
  BY SettleVenueAssumption DEF TypeOK, RunTypeOK, VenueTypeOK, Pids, Oids
<1>2. \/ r = Request("bulk", <<0, 0, 0, 0, 0>>, 0, resting, 0, 0)
      \/ \E p \in seen : r = Request("close", <<1, 0, p, 0, 0>>, p, {}, 0, 0)
  BY DEF KillPlan, When
<1> QED
  BY <1>1, <1>2, TradeBookAssumption, SettleVenueAssumption
     DEF Planned, RequestOK, Request, Ops

(* The whole plan of a run.                                                *)
LEMMA PlanPlanned ==
    ASSUME TypeOK, NEW M \in MatchPositions(book, seen),
           NEW att \in AssignCloseOrders(M, seen, ExitOrders), NEW n,
           NEW r \in Plan(M, att, n)
    PROVE  Planned(r)
<1>1. ASSUME NEW p PROVE ExitsOf(att, p) \subseteq resting
  BY AttributionHonoursTheLog DEF ExitOrders
<1>2. CASE r \in Maintained(M, att)
  <2>1. PICK e \in M : r \in MaintainExits(e, ExitsOf(att, e[3]))
    BY <1>2 DEF Maintained
  <2> QED
    BY <1>1, <2>1, MatchTyped, MaintainExitsPlanned
<1>3. CASE r \in StrategyExits(M, att)
  <2>1. PICK p \in LiveOnly(M, seen) :
          r \in CloseRequests(p, ExitsOf(att, p), <<2, SideRank(tradeOf[p]), p, 0>>)
    BY <1>3 DEF StrategyExits
  <2> QED
    BY <1>1, <2>1, CloseRequestsPlanned DEF LiveOnly
<1>4. CASE r \in OrphanCancels(att)
  BY <1>4, CancelRequestPlanned DEF OrphanCancels, ExitOrders, Ops
<1>5. CASE r \in CancelRequest("cancelStale", 4, StaleEntries)
  BY <1>5, CancelRequestPlanned DEF StaleEntries, EntryOrders, Ops
<1>6. CASE r \in EntryPlacements(n)
  <2>1. PICK t \in FirstToPlace(n) : r = Request("enter", EntryAt(t), 0, {}, t, 0)
    BY <1>6 DEF EntryPlacements
  <2>2. t \in 0..MaxTrade
    BY TradeBookAssumption
       DEF FirstToPlace, ToPlace, TypeOK, BookTypeOK, Trades
  <2> QED
    BY <2>1, <2>2, SettleVenueAssumption DEF Planned, RequestOK, Request, Ops
<1> QED
  BY <1>2, <1>3, <1>4, <1>5, <1>6 DEF Plan

(* The type invariant holds at the start ...                               *)
LEMMA TypeInit == Init => TypeOK
<1> SUFFICES ASSUME Init PROVE TypeOK
  OBVIOUS
<1> USE TradeBookAssumption, SettleVenueAssumption, LiveExecutorAssumption DEF Init
<1>1. BookTypeOK
  BY DEF BookInit, BookTypeOK
<1>2. VenueTypeOK
  BY DEF VenueInit, VenueTypeOK, NoOrder, Orders
<1>3. RunTypeOK
  <2>1. owner \in [Oids -> 0..MaxPos]
    OBVIOUS
  <2>2. /\ seen \subseteq Pids /\ seenReserved \subseteq seen
        /\ matched \subseteq Nat \X Trades \X Pids /\ crossed \subseteq Nat
        /\ \A r \in todo : RequestOK(r)
    OBVIOUS
  <2>3. faults \in 0..MaxFault
    OBVIOUS
  <2> QED
    BY <2>1, <2>2, <2>3 DEF RunTypeOK
<1> QED
  BY <1>1, <1>2, <1>3 DEF TypeOK

(* Type correctness of the executor, its order log, the exchange and the   *)
(* strategy's book: one case per action.                                   *)
LEMMA TypeNext == TypeOK /\ [Next]_vars => TypeOK'
<1> SUFFICES ASSUME TypeOK, [Next]_vars PROVE TypeOK'
  OBVIOUS
<1> USE TradeBookAssumption, SettleVenueAssumption, LiveExecutorAssumption
<1>a. ASSUME UNCHANGED bookVars PROVE BookTypeOK'
  BY <1>a DEF TypeOK, BookTypeOK, bookVars
<1>b. ASSUME UNCHANGED venueVars PROVE VenueTypeOK'
  BY <1>b DEF TypeOK, VenueTypeOK, venueVars
<1>c. held \subseteq Pids /\ resting \subseteq Oids
  BY DEF TypeOK, VenueTypeOK, Pids, Oids
<1>d. ASSUME NEW r \in todo, Done(r), owner' \in [Oids -> 0..MaxPos],
             raced' \in BOOLEAN, disturbed' \in BOOLEAN, faults' \in 0..MaxFault
      PROVE  BookTypeOK' /\ RunTypeOK'
  BY <1>a, <1>d DEF Done, TypeOK, RunTypeOK
<1>e. ASSUME Fault PROVE faults' \in 0..MaxFault /\ disturbed' \in BOOLEAN
  BY <1>e DEF Fault, TypeOK, RunTypeOK
<1>f. ASSUME NEW r \in todo, NEW kind \in ExitKinds, RestExit(kind, r)
      PROVE  VenueTypeOK' /\ nOrd + 1 \in Oids
  <2>1. RequestOK(r)
    BY DEF TypeOK, RunTypeOK
  <2>2. [kind |-> kind, pid |-> r.pid, trade |-> 0, level |-> r.level] \in Orders
    BY <2>1 DEF RequestOK, Orders
  <2> QED
    BY <1>f, <2>2, RestOrderTyped DEF RestExit, RestOrder, TypeOK, VenueTypeOK, Oids
<1>g. ASSUME GoIdle PROVE /\ pc' = "idle" /\ todo' = {} /\ matched' = {}
                          /\ seen' = {} /\ seenReserved' = {}
                          /\ raced' = FALSE /\ disturbed' = FALSE
  BY <1>g DEF GoIdle
<1>1. CASE ReadPositions
  BY <1>1, <1>a, <1>b, <1>c DEF ReadPositions, TypeOK, RunTypeOK, ghosts
<1>2. ASSUME NEW R, NEW M, StartActing(R, M), \A r \in R : RequestOK(r),
             M \subseteq Nat \X Trades \X Pids
      PROVE  TypeOK'
  BY <1>2, <1>a, <1>b DEF StartActing, TypeOK, RunTypeOK
<1>3. CASE PlanKill
  BY <1>2, <1>3, KillPlanPlanned DEF PlanKill, Planned
<1>4. CASE PlanHalt
  BY <1>4, <1>a, <1>b, <1>g DEF PlanHalt, TypeOK, RunTypeOK
<1>5. CASE PlanRun
  <2>1. PICK M \in MatchPositions(book, seen) :
          \E att \in AssignCloseOrders(M, seen, ExitOrders) : \E n :
            StartActing(Plan(M, att, n), M)
    BY <1>5 DEF PlanRun
  <2>a. PICK att \in AssignCloseOrders(M, seen, ExitOrders) :
          \E n : StartActing(Plan(M, att, n), M)
    BY <2>1
  <2>2. PICK n : StartActing(Plan(M, att, n), M)
    BY <2>a
  <2>3. \A r \in Plan(M, att, n) : RequestOK(r)
    BY PlanPlanned DEF Planned
  <2>4. M \subseteq Nat \X Trades \X Pids
    BY MatchTyped DEF TypeOK, BookTypeOK, RunTypeOK
  <2> QED
    BY <1>2, <2>2, <2>3, <2>4
<1>6. ASSUME NEW r \in todo, DoCancel(r) PROVE TypeOK'
  BY <1>6, <1>d, VenueTyped DEF DoCancel, TypeOK, RunTypeOK, ghosts
<1>7. ASSUME NEW r \in todo, CancelsPartly(r) PROVE TypeOK'
  BY <1>7, <1>d, <1>e, VenueTyped DEF CancelsPartly, TypeOK, RunTypeOK
<1>8. ASSUME NEW r \in todo, DoClose(r) PROVE TypeOK'
  BY <1>8, <1>b, <1>d, VenueTyped DEF DoClose, TypeOK, RunTypeOK, ghosts
<1>9. ASSUME NEW r \in todo, DoPlaceExit(r) PROVE TypeOK'
  <2>1. RequestOK(r)
    BY DEF TypeOK, RunTypeOK
  <2>2. owner' \in [Oids -> 0..MaxPos]
    BY <1>9, <2>1 DEF DoPlaceExit, TypeOK, RunTypeOK, RequestOK
  <2>3. VenueTypeOK'
    BY <1>9, <1>b, <1>f DEF DoPlaceExit, ExitKinds
  <2> QED
    BY <1>9, <1>d, <2>2, <2>3 DEF DoPlaceExit, TypeOK, RunTypeOK, ghosts
<1>10. ASSUME NEW r \in todo, DoRatchetCancel(r) PROVE TypeOK'
  <2>1. RequestOK(r)
    BY DEF TypeOK, RunTypeOK
  <2>2. RequestOK(Request("stop", r.at, r.pid, {}, 0, r.level))
    BY <2>1 DEF RequestOK, Request, Ops
  <2>3. \A q \in todo' : RequestOK(q)
    BY <1>10, <2>2 DEF DoRatchetCancel, TypeOK, RunTypeOK
  <2>4. VenueTypeOK'
    BY <1>10, <1>b, VenueTyped DEF DoRatchetCancel, TypeOK
  <2> QED
    BY <1>10, <1>a, <2>3, <2>4 DEF DoRatchetCancel, TypeOK, RunTypeOK, ghosts
<1>11. ASSUME NEW r \in todo, DoEnter(r) PROVE TypeOK'
  <2>1. r.trade \in Nat
    BY DEF TypeOK, RunTypeOK, RequestOK
  <2>2. VenueTypeOK'
    <3>1. CASE r.trade \in LimitTrades
      <4>1. [kind |-> "ENTRY", pid |-> 0, trade |-> r.trade, level |-> r.trade] \in Orders
        BY <2>1 DEF Orders
      <4> QED
        BY <1>11, <3>1, <4>1, RestOrderTyped DEF DoEnter, TypeOK
    <3>2. CASE r.trade \notin LimitTrades
      BY <1>11, <2>1, <3>2, OpenPositionTyped DEF DoEnter, TypeOK
    <3> QED
      BY <3>1, <3>2
  <2> QED
    BY <1>11, <1>d, <2>2 DEF DoEnter, TypeOK, RunTypeOK, ghosts
<1>12. ASSUME NEW r \in todo, CallFails(r) PROVE TypeOK'
  BY <1>12, <1>b, <1>d, <1>e DEF CallFails, TypeOK, RunTypeOK
<1>13. ASSUME NEW r \in todo, AnswerLost(r) PROVE TypeOK'
  <2>1. VenueTypeOK'
    BY <1>13, <1>f, VenueTyped DEF AnswerLost, ExitKinds, TypeOK
  <2> QED
    BY <1>13, <1>d, <1>e, <2>1 DEF AnswerLost, TypeOK, RunTypeOK
<1>14. CASE Finish
  BY <1>14, <1>a, <1>b, <1>g DEF Finish, TypeOK, RunTypeOK
<1>15. CASE Crash
  BY <1>15, <1>a, <1>b, <1>g DEF Crash, TypeOK, RunTypeOK
<1>16. CASE Bar \/ BarQuiet
  <2>1. BookTypeOK'
    BY <1>16, BookTyped DEF Bar, BarQuiet, NewBar, TypeOK
  <2> QED
    BY <1>16, <1>b, <2>1 DEF Bar, BarQuiet, NewBar, TypeOK, RunTypeOK, ghosts
<1>17. CASE Replayed
  <2>1. BookTypeOK'
    BY <1>17, BookTyped DEF Replayed, TypeOK
  <2> QED
    BY <1>17, <1>b, <2>1 DEF Replayed, TypeOK, RunTypeOK, runVars, ghosts
<1>18. ASSUME NEW move, Filled(move), VenueTypeOK', raced' \in BOOLEAN,
              crossed' \subseteq Nat
       PROVE  TypeOK'
  BY <1>18, <1>a DEF Filled, TypeOK, RunTypeOK, runVars
<1>19. CASE ExitFilled
  BY <1>18, <1>19, VenueTyped DEF ExitFilled, Filled, TypeOK, RunTypeOK
<1>20. CASE EntryFilled
  <2>1. PICK o \in EntryOrders : /\ Filled(EntryFills(o))
                                 /\ crossed' = crossed \cup {order[o].trade}
                                 /\ raced' = (pc # "idle")
    BY <1>20 DEF EntryFilled
  <2>2. order[o].trade \in Nat
    BY <1>c DEF TypeOK, VenueTypeOK, Orders, EntryOrders
  <2>3. VenueTypeOK'
    BY <2>1, VenueTyped DEF Filled, TypeOK
  <2> QED
    BY <1>18, <2>1, <2>2, <2>3 DEF TypeOK, RunTypeOK
<1>21. CASE StubLeft
  BY <1>18, <1>21, VenueTyped DEF StubLeft, Filled, TypeOK, RunTypeOK
<1>22. ASSUME NEW move, ByHand(move), VenueTypeOK' PROVE TypeOK'
  BY <1>22, <1>a, <1>e DEF ByHand, TypeOK, RunTypeOK, runVars
<1>23. CASE ManualCancel
  BY <1>22, <1>23, VenueTyped DEF ManualCancel, ByHand, TypeOK
<1>24. CASE ManualClose
  BY <1>22, <1>24, VenueTyped DEF ManualClose, ByHand, TypeOK
<1>25. CASE ManualExit
  <2>1. PICK p \in held, kind \in ExitKinds, l \in Levels :
          ByHand(RestOrder([kind |-> kind, pid |-> p, trade |-> 0, level |-> l]))
    BY <1>25 DEF ManualExit
  <2>2. [kind |-> kind, pid |-> p, trade |-> 0, level |-> l] \in Orders
    <3>1. p \in Nat
      BY <1>c, SettleVenueAssumption DEF Pids
    <3>2. l \in Nat
      BY TradeBookAssumption
    <3> QED
      BY <3>1, <3>2 DEF Orders
  <2>3. VenueTypeOK'
    BY <2>1, <2>2, RestOrderTyped DEF ByHand, TypeOK
  <2> QED
    BY <1>22, <2>1, <2>3
<1>26. CASE KillRaised
  BY <1>26, <1>a, <1>b DEF KillRaised, TypeOK, RunTypeOK, runVars, ghosts
<1>27. CASE LogLost
  BY <1>27, <1>a, <1>b, <1>e DEF LogLost, TypeOK, RunTypeOK
<1>28. CASE RunAgain
  BY <1>28, <1>a, <1>b, <1>e DEF RunAgain, TypeOK, RunTypeOK
<1>29. CASE UNCHANGED vars
  BY <1>29, <1>a, <1>b DEF vars, runVars, ghosts, TypeOK, RunTypeOK
<1> QED
  BY <1>1, <1>3, <1>4, <1>5, <1>6, <1>7, <1>8, <1>9, <1>10, <1>11, <1>12, <1>13,
     <1>14, <1>15, <1>16, <1>17, <1>19, <1>20, <1>21, <1>23, <1>24, <1>25, <1>26,
     <1>27, <1>28, <1>29 DEF Next, DoNext

(* Every state of the system is well typed.                                *)
THEOREM TypeCorrect == Spec => []TypeOK
  BY TypeInit, TypeNext, PTL DEF Spec

(***************************************************************************)
(* The order log.                                                          *)
(***************************************************************************)

(* What makes the two properties of the log inductive: no record and no    *)
(* planned cancel runs ahead of the ids the exchange has issued.           *)
Issued ==
    /\ \A o \in Oids : o > nOrd => owner[o] = 0
    /\ \A r \in todo : r.oids \subseteq 1..nOrd

LogInv == Issued /\ RecordedOwnersAreTrue /\ CancelsAreSurgical

LogUntouched == UNCHANGED <<owner, order, nOrd>>

LogForgotten == owner' = [o \in Oids |-> 0] /\ UNCHANGED <<order, nOrd, todo>>

SameTodo == \A r \in todo' : r \in todo \/ r.oids = {}

(* An order placed without a record.                                       *)
Unrecorded == owner' = owner /\ \E rec \in Orders : RestOrder(rec)

(* An exit placed with its record.                                         *)
RecordedExit ==
    \E kind \in ExitKinds, r \in todo :
       RestExit(kind, r) /\ owner' = [owner EXCEPT ![nOrd + 1] = r.pid]

(* A new run's plan over an unchanged log.                                 *)
NewPlan ==
    /\ LogUntouched
    /\ \A r \in todo' : /\ r.oids \subseteq resting
                        /\ r.op \in {"cancelExits", "ratchet"} =>
                             \A o \in r.oids : owner[o] # 0 => owner[o] = r.pid

(* Every step treats the log in one of these ways.                         *)
LogStep ==
    \/ NewPlan
    \/ LogForgotten
    \/ SameTodo /\ (LogUntouched \/ Unrecorded \/ RecordedExit)

(* Each of the three kinds of step keeps the invariant.                    *)
LEMMA LogStepKeepsLog == TypeOK /\ LogInv /\ LogStep => LogInv'
<1> SUFFICES ASSUME TypeOK, LogInv, LogStep PROVE LogInv'
  OBVIOUS
<1> USE SettleVenueAssumption
<1>a. /\ resting \subseteq 1..nOrd /\ nOrd \in 0..MaxOrd
      /\ owner \in [Oids -> 0..MaxPos] /\ order \in [Oids -> Orders]
  BY DEF TypeOK, VenueTypeOK, RunTypeOK
<1>1. CASE NewPlan
  <2>1. Issued' /\ RecordedOwnersAreTrue'
    BY <1>1, <1>a DEF LogInv, NewPlan, LogUntouched, Issued, RecordedOwnersAreTrue
  <2>2. ASSUME NEW r \in todo', r.op \in {"cancelExits", "ratchet"},
               NEW o \in r.oids, owner'[o] # 0
        PROVE  order'[o].pid = r.pid
    <3>1. r.oids \subseteq resting /\ (owner[o] # 0 => owner[o] = r.pid)
      BY <1>1, <2>2 DEF NewPlan
    <3>2. o \in Oids
      <4>1. o \in resting
        BY <2>2, <3>1
      <4>2. resting \subseteq Oids
        BY <1>a DEF Oids
      <4> QED
        BY <4>1, <4>2
    <3>3. owner[o] # 0
      BY <1>1, <2>2 DEF NewPlan, LogUntouched
    <3> QED
      BY <1>1, <3>1, <3>2, <3>3
         DEF LogInv, NewPlan, LogUntouched, RecordedOwnersAreTrue
  <2> QED
    BY <2>1, <2>2 DEF LogInv, CancelsAreSurgical
<1>2. CASE LogForgotten
  <2>1. \A o \in Oids : owner'[o] = 0
    BY <1>2 DEF LogForgotten
  <2>2. \A r \in todo' : r.oids \subseteq Oids
    BY <1>2, <1>a DEF LogForgotten, LogInv, Issued, Oids
  <2> QED
    BY <1>2, <2>1, <2>2
       DEF LogForgotten, LogInv, Issued, RecordedOwnersAreTrue, CancelsAreSurgical
<1>3. ASSUME nOrd' \in 0..MaxOrd, nOrd' >= nOrd, SameTodo,
             \A o \in Oids : o > nOrd' => owner'[o] = 0,
             \A o \in 1..nOrd : owner'[o] = owner[o] /\ order'[o] = order[o],
             \A o \in (nOrd + 1)..nOrd' : owner'[o] # 0 =>
                order'[o].kind \in ExitKinds /\ order'[o].pid = owner'[o]
      PROVE  LogInv'
  <2>1. Issued'
    BY <1>3, <1>a DEF SameTodo, LogInv, Issued
  <2>2. RecordedOwnersAreTrue'
    <3> SUFFICES ASSUME NEW o \in Oids, owner'[o] # 0
                 PROVE  order'[o].kind \in ExitKinds /\ order'[o].pid = owner'[o]
      BY DEF RecordedOwnersAreTrue
    <3>1. o \in 1..nOrd \/ o \in (nOrd + 1)..nOrd'
      BY <1>3, <1>a DEF Oids
    <3> QED
      BY <1>3, <3>1 DEF LogInv, RecordedOwnersAreTrue
  <2>3. CancelsAreSurgical'
    BY <1>3 DEF SameTodo, LogInv, Issued, CancelsAreSurgical
  <2> QED
    BY <2>1, <2>2, <2>3 DEF LogInv
<1>4. CASE SameTodo /\ LogUntouched
  BY <1>3, <1>4, <1>a DEF LogUntouched, LogInv, Issued
<1>5. CASE SameTodo /\ Unrecorded
  <2>1. PICK rec \in Orders : RestOrder(rec) /\ owner' = owner
    BY <1>5 DEF Unrecorded
  <2>2. nOrd + 1 \in Oids /\ nOrd' = nOrd + 1 /\ owner[nOrd + 1] = 0
    BY <1>a, <2>1 DEF RestOrder, LogInv, Issued, Oids
  <2>3. \A o \in 1..nOrd : order'[o] = order[o]
    BY <1>a, <2>1 DEF RestOrder, Oids
  <2>4. \A o \in Oids : o > nOrd' => owner'[o] = 0
    BY <1>a, <2>1, <2>2 DEF LogInv, Issued, Oids
  <2> QED
    BY <1>3, <1>5, <1>a, <2>1, <2>2, <2>3, <2>4 DEF Oids
<1>6. CASE SameTodo /\ RecordedExit
  <2>1. PICK kind \in ExitKinds, r \in todo :
          RestExit(kind, r) /\ owner' = [owner EXCEPT ![nOrd + 1] = r.pid]
    BY <1>6 DEF RecordedExit
  <2>2. nOrd + 1 \in Oids /\ nOrd' = nOrd + 1
    BY <1>a, <2>1 DEF RestExit, RestOrder, Oids
  <2>3. \A o \in 1..nOrd : owner'[o] = owner[o] /\ order'[o] = order[o]
    BY <1>a, <2>1 DEF RestExit, RestOrder, Oids
  <2>4. \A o \in Oids : o > nOrd' => owner'[o] = 0
    BY <1>a, <2>1, <2>2 DEF LogInv, Issued, Oids
  <2>5. order'[nOrd + 1].kind = kind /\ order'[nOrd + 1].pid = r.pid
        /\ owner'[nOrd + 1] = r.pid
    BY <1>a, <2>1, <2>2 DEF RestExit, RestOrder
  <2> QED
    BY <1>3, <1>6, <1>a, <2>1, <2>2, <2>3, <2>4, <2>5 DEF Oids
<1> QED
  BY <1>1, <1>2, <1>4, <1>5, <1>6 DEF LogStep

(* A plan takes orders off one position only where the log allows it.      *)
LEMMA PlanIsSurgical ==
    ASSUME TypeOK, NEW M, NEW att \in AssignCloseOrders(M, seen, ExitOrders), NEW n,
           NEW r \in Plan(M, att, n), r.op \in {"cancelExits", "ratchet"}
    PROVE  \A o \in r.oids : owner[o] # 0 => owner[o] = r.pid
<1> USE DEF Request
<1>1. ASSUME NEW p, NEW X, NEW at, r \in CloseRequests(p, X, at)
      PROVE  r.pid = p /\ r.oids \subseteq X
  BY <1>1 DEF CloseRequests, When
<1>2. ASSUME NEW t, NEW p, NEW X, NEW at, r \in StopRequests(t, p, X, at)
      PROVE  r.pid = p /\ r.oids \subseteq X
  <2>1. \/ r = Request("stop", at \o <<0>>, p, {}, 0, stop[t])
        \/ \E o \in X : r = Request("ratchet", at \o <<0>>, p, {o}, 0, stop[t])
    BY <1>2 DEF StopRequests
  <2> QED
    BY <2>1
<1>3. ASSUME NEW t, NEW p, NEW X, NEW at, r \in TargetRequests(t, p, X, at)
      PROVE  FALSE
  BY <1>3 DEF TargetRequests
<1>4. CASE r \in Maintained(M, att)
  <2>1. PICK e \in M : r \in MaintainExits(e, ExitsOf(att, e[3]))
    BY <1>4 DEF Maintained
  <2>2. r.pid = e[3] /\ r.oids \subseteq ExitsOf(att, e[3])
    BY <1>1, <1>2, <1>3, <2>1 DEF MaintainExits
  <2> QED
    BY <2>2, AttributionHonoursTheLog
<1>5. CASE r \in StrategyExits(M, att)
  <2>1. PICK p \in LiveOnly(M, seen) :
          r \in CloseRequests(p, ExitsOf(att, p), <<2, SideRank(tradeOf[p]), p, 0>>)
    BY <1>5 DEF StrategyExits
  <2>2. r.pid = p /\ r.oids \subseteq ExitsOf(att, p)
    BY <1>1, <2>1
  <2> QED
    BY <2>2, AttributionHonoursTheLog
<1>6. CASE r \in OrphanCancels(att)
  BY <1>6 DEF OrphanCancels, CancelRequest, When
<1>7. CASE r \in CancelRequest("cancelStale", 4, StaleEntries)
  BY <1>7 DEF CancelRequest, When
<1>8. CASE r \in EntryPlacements(n)
  BY <1>8 DEF EntryPlacements
<1> QED
  BY <1>4, <1>5, <1>6, <1>7, <1>8 DEF Plan

(* Every step of the system is of one of the three kinds.                  *)
LEMMA NextIsLogStep == TypeOK /\ [Next]_vars => LogStep
<1> SUFFICES ASSUME TypeOK, [Next]_vars PROVE LogStep
  OBVIOUS
<1> USE DEF LogStep
<1>a. ASSUME UNCHANGED venueVars PROVE UNCHANGED <<order, nOrd>>
  BY <1>a DEF venueVars
<1>b. ASSUME NEW r, Done(r) PROVE SameTodo
  BY <1>b DEF Done, SameTodo
<1>c. ASSUME GoIdle PROVE SameTodo
  BY <1>c DEF GoIdle, SameTodo
<1>d. ASSUME UNCHANGED runVars PROVE SameTodo /\ owner' = owner
  BY <1>d DEF runVars, SameTodo
<1>e. ASSUME NEW x, RemoveOrders(x) \/ ClosePosition(x) \/ ExitFills(x)
                    \/ EntryFills(x) \/ LeaveStub(x)
      PROVE  UNCHANGED <<order, nOrd>>
  BY <1>e DEF RemoveOrders, ClosePosition, ExitFills, EntryFills, LeaveStub
<1>1. CASE ReadPositions
  BY <1>1, <1>a DEF ReadPositions, LogUntouched, SameTodo
<1>2. CASE PlanKill
  <2>1. todo' = KillPlan /\ LogUntouched
    BY <1>2, <1>a DEF PlanKill, StartActing, LogUntouched
  <2>2. \A r \in KillPlan : r.oids \subseteq resting /\ r.op \in {"bulk", "close"}
    BY DEF KillPlan, When, Request
  <2> QED
    BY <2>1, <2>2 DEF NewPlan
<1>3. CASE PlanHalt
  BY <1>3, <1>a, <1>c DEF PlanHalt, LogUntouched
<1>4. CASE PlanRun
  <2>1. PICK M \in MatchPositions(book, seen) :
          \E att \in AssignCloseOrders(M, seen, ExitOrders) : \E n :
            StartActing(Plan(M, att, n), M)
    BY <1>4 DEF PlanRun
  <2>a. PICK att \in AssignCloseOrders(M, seen, ExitOrders) :
          \E n : StartActing(Plan(M, att, n), M)
    BY <2>1
  <2>2. PICK n : StartActing(Plan(M, att, n), M)
    BY <2>a
  <2>3. todo' = Plan(M, att, n) /\ LogUntouched
    BY <2>2, <1>a DEF StartActing, LogUntouched
  <2>4. \A r \in Plan(M, att, n) : r.oids \subseteq resting
    BY PlanPlanned DEF Planned
  <2> QED
    BY <2>3, <2>4, PlanIsSurgical DEF NewPlan
<1>5. ASSUME NEW r \in todo,
             DoCancel(r) \/ CancelsPartly(r) \/ DoClose(r) \/ CallFails(r)
      PROVE  LogStep
  BY <1>5, <1>a, <1>b, <1>e
     DEF DoCancel, CancelsPartly, DoClose, CallFails, LogUntouched
<1>6. ASSUME NEW r \in todo, DoPlaceExit(r) PROVE LogStep
  BY <1>6, <1>a, <1>b DEF DoPlaceExit, LogUntouched, RecordedExit, ExitKinds
<1>7. ASSUME NEW r \in todo, DoRatchetCancel(r) PROVE LogStep
  <2>1. SameTodo
    BY <1>7 DEF DoRatchetCancel, SameTodo, Request
  <2> QED
    BY <1>7, <1>a, <1>e, <2>1 DEF DoRatchetCancel, LogUntouched
<1>8. ASSUME NEW r \in todo, DoEnter(r) PROVE LogStep
  <2>1. r.trade \in Nat
    BY TradeBookAssumption DEF TypeOK, RunTypeOK, RequestOK
  <2>2. [kind |-> "ENTRY", pid |-> 0, trade |-> r.trade, level |-> r.trade] \in Orders
    BY <2>1 DEF Orders
  <2> QED
    BY <1>8, <1>b, <2>2 DEF DoEnter, LogUntouched, Unrecorded
<1>9. ASSUME NEW r \in todo, AnswerLost(r) PROVE LogStep
  <2>1. r.pid \in Nat /\ r.level \in Nat
    BY SettleVenueAssumption DEF TypeOK, RunTypeOK, RequestOK
  <2>2. \A kind \in ExitKinds :
          [kind |-> kind, pid |-> r.pid, trade |-> 0, level |-> r.level] \in Orders
    BY <2>1 DEF Orders
  <2> QED
    BY <1>9, <1>b, <1>e, <2>2
       DEF AnswerLost, LogUntouched, Unrecorded, RestExit, ExitKinds
<1>10. CASE Finish \/ Crash
  BY <1>10, <1>a, <1>c DEF Finish, Crash, LogUntouched
<1>11. CASE Bar \/ BarQuiet \/ RunAgain
  BY <1>11, <1>a DEF Bar, BarQuiet, NewBar, RunAgain, LogUntouched, SameTodo
<1>12. CASE Replayed
  BY <1>12, <1>a, <1>d DEF Replayed, LogUntouched
<1>13. CASE ExitFilled \/ EntryFilled \/ StubLeft
  BY <1>13, <1>d, <1>e
     DEF ExitFilled, EntryFilled, StubLeft, Filled, LogUntouched
<1>14. CASE ManualCancel \/ ManualClose
  BY <1>14, <1>d, <1>e DEF ManualCancel, ManualClose, ByHand, LogUntouched
<1>15. CASE ManualExit
  <2>1. PICK p \in held, kind \in ExitKinds, l \in Levels :
          ByHand(RestOrder([kind |-> kind, pid |-> p, trade |-> 0, level |-> l]))
    BY <1>15 DEF ManualExit
  <2>2. p \in Nat /\ l \in Nat
    BY TradeBookAssumption DEF TypeOK, VenueTypeOK
  <2>3. [kind |-> kind, pid |-> p, trade |-> 0, level |-> l] \in Orders
    BY <2>2 DEF Orders
  <2> QED
    BY <1>d, <2>1, <2>3 DEF ByHand, Unrecorded
<1>16. CASE KillRaised
  BY <1>16, <1>a, <1>d DEF KillRaised, LogUntouched
<1>17. CASE LogLost
  BY <1>17, <1>a DEF LogLost, LogForgotten
<1>18. CASE UNCHANGED vars
  BY <1>18, <1>a, <1>d DEF vars, LogUntouched
<1> QED
  BY <1>1, <1>2, <1>3, <1>4, <1>5, <1>6, <1>7, <1>8, <1>9, <1>10, <1>11, <1>12,
     <1>13, <1>14, <1>15, <1>16, <1>17, <1>18 DEF Next, DoNext

(* Hence the invariant holds in every reachable state.                     *)
LEMMA LogInvariant == Spec => []LogInv
<1>1. Init => LogInv
  BY DEF Init, LogInv, Issued, RecordedOwnersAreTrue, CancelsAreSurgical
<1>2. TypeOK /\ LogInv /\ [Next]_vars => LogInv'
  BY NextIsLogStep, LogStepKeepsLog
<1> QED
  BY <1>1, <1>2, TypeCorrect, PTL DEF Spec

(* The order log never names the wrong position, whatever was lost:        *)
(* order_log.settle_order_owners may be trusted ahead of any price.        *)
THEOREM RecordsAreTrue == Spec => []RecordedOwnersAreTrue
<1>1. LogInv => RecordedOwnersAreTrue
  BY DEF LogInv
<1> QED
  BY <1>1, LogInvariant, PTL

(* _maintain_exits and the strategy-exit loop never cancel or replace an   *)
(* exit that the log records for another position.                         *)
THEOREM CancelsStaySurgical == Spec => []CancelsAreSurgical
<1>1. LogInv => CancelsAreSurgical
  BY DEF LogInv
<1> QED
  BY <1>1, LogInvariant, PTL

(***************************************************************************)
(* What pairing does to a live position.                                   *)
(***************************************************************************)

(* While the strategy holds the trade of a live position, a best-first     *)
(* pairing gives neither of the two to a third unless that one fits as     *)
(* well.                                                                   *)
LEMMA PairingKeepsTrades ==
    ASSUME TypeOK, NEW M \in MatchPositions(book, seen),
           NEW p \in seen, tradeOf[p] \in book, ~ Rivalled(p)
    PROVE  OwnTradePaired(p, M)
<1> DEFINE t == tradeOf[p]
           edge == <<PairCost(t, p), t, p>>
<1>1. edge \in PairEdges(book, seen)
  BY PairEdgeIntro DEF SameSide
<1>2. CASE edge \in M
  BY <1>2 DEF OwnTradePaired
<1>3. CASE edge \notin M
  <2>1. PICK f \in M : Prior(f, edge) /\ Clash(f, edge)
    BY <1>1, <1>3, LeftOutIsTaken DEF MatchPositions
  <2>2. f \in PairEdges(book, seen)
    BY DEF MatchPositions, BestFirst, IsBestFirst
  <2>3. /\ f[2] \in book /\ f[3] \in seen /\ SameSide(f[2], tradeOf[f[3]])
        /\ f[1] = PairCost(f[2], f[3])
    BY <2>2, PairEdgeElim
  <2>4. PairCost(f[2], f[3]) <= PairCost(t, p)
    <3>1. f[2] \in Nat /\ t \in Nat /\ f[3] \in Pids /\ p \in Pids
      <4>1. f[2] \in Trades /\ t \in Trades /\ f[3] \in Pids /\ p \in Pids
        BY <2>3 DEF TypeOK, BookTypeOK, RunTypeOK
      <4> QED
        BY <4>1 DEF Trades
    <3>2. PairCost(f[2], f[3]) \in Nat /\ PairCost(t, p) \in Nat
      BY <3>1, PairCostTyped
    <3>3. f[1] <= edge[1]
      BY <2>1, <2>3, <3>2 DEF Prior
    <3> QED
      BY <2>3, <3>3
  <2>5. f[2] = t \/ f[3] = p
    BY <2>1 DEF Clash
  <2>6. CASE f[2] = t /\ tradeOf[f[3]] = t
    BY <2>6 DEF OwnTradePaired
  <2>7. CASE f[2] = t /\ tradeOf[f[3]] # t
    BY <2>3, <2>4, <2>7 DEF Rivalled, SameSide
  <2>8. CASE f[2] # t
    BY <2>3, <2>4, <2>5, <2>8 DEF Rivalled
  <2> QED
    BY <2>6, <2>7, <2>8
<1> QED
  BY <1>2, <1>3

(* _match_positions, in every run of every behaviour and for every drift   *)
(* of the fills: a held trade keeps a position of its own unless a rival   *)
(* is as near.                                                             *)
THEOREM LiveTradesArePaired == Spec => HeldTradesArePaired
<1>1. TypeOK /\ [Next]_vars =>
        [PlanRun => \A p \in seen :
           tradeOf[p] \in book /\ ~ Rivalled(p) => OwnTradePaired(p, matched')]_vars
  <2> SUFFICES ASSUME TypeOK, PlanRun, NEW p \in seen,
                      tradeOf[p] \in book, ~ Rivalled(p)
               PROVE  OwnTradePaired(p, matched')
    OBVIOUS
  <2>1. matched' \in MatchPositions(book, seen)
    BY DEF PlanRun, StartActing
  <2> QED
    BY <2>1, PairingKeepsTrades
<1> QED
  BY <1>1, TypeCorrect, PTL DEF Spec, HeldTradesArePaired

(* _pair_cost: "Either signal alone identifies the pair", "a genuine pair  *)
(* scores ~0 forever": the trade of a live position, while it is held, is  *)
(* paired with a position opened for it.  For fills that drift further     *)
(* than the following condition allows this is false.                      *)
GenuinePairsHold ==
    [][PlanRun => \A p \in seen :
         tradeOf[p] \in book => OwnTradePaired(p, matched')]_vars

(* Every fill lies less than half the way to the next entry from its own.  *)
DriftsAreSmall == \A p \in Pids : 2 * Abs(Drift[p]) < Span

(* Then nothing rivals a position.                                         *)
LEMMA SmallDriftsHaveNoRival ==
    ASSUME TypeOK, DriftsAreSmall, NEW p \in seen, tradeOf[p] \in book
    PROVE  ~ Rivalled(p)
<1>1. ASSUME NEW u \in Nat, NEW q \in Pids, u # tradeOf[q]
      PROVE  2 * PairCost(u, q) > Span
  <2>1. PICK s \in Nat \ {0} : s = Span
    BY SettleVenueAssumption
  <2>2. PICK d \in Int : d = Drift[q]
    BY SettleVenueAssumption
  <2>3. PICK k \in Nat : k = tradeOf[q]
    BY DEF TypeOK, VenueTypeOK
  <2>4. 2 * Abs(d) < s
    BY <2>1, <2>2 DEF DriftsAreSmall
  <2>5. PairCost(u, q) = Abs((s * k + d) - s * u)
    BY <2>1, <2>2, <2>3 DEF PairCost, FilledAt, EntryOf
  <2>6. PICK m \in Int : m = s * (k - u)
    BY <2>1
  <2>7. m >= s \/ m <= -s
    BY <1>1, <2>1, <2>3, <2>6
  <2>8. (s * k + d) - s * u = m + d
    BY <2>6
  <2> QED
    BY <2>1, <2>4, <2>5, <2>7, <2>8 DEF Abs
<1>2. /\ p \in Pids /\ tradeOf[p] \in Nat /\ seen \subseteq Pids
      /\ book \subseteq Nat
  BY TradeBookAssumption DEF TypeOK, BookTypeOK, VenueTypeOK, RunTypeOK, Trades
<1>3. 2 * PairCost(tradeOf[p], p) < Span
  <2>1. PICK s \in Nat \ {0} : s = Span
    BY SettleVenueAssumption
  <2>2. PICK d \in Int : d = Drift[p]
    BY <1>2, SettleVenueAssumption
  <2>3. PICK m \in Int : m = s * tradeOf[p]
    BY <1>2, <2>1
  <2>4. PairCost(tradeOf[p], p) = Abs((m + d) - m)
    BY <2>1, <2>2, <2>3 DEF PairCost, FilledAt, EntryOf
  <2>5. 2 * Abs(d) < s
    BY <1>2, <2>1, <2>2 DEF DriftsAreSmall
  <2> QED
    BY <2>1, <2>4, <2>5 DEF Abs
<1>4. Span \in Nat
  BY SettleVenueAssumption
<1>5. ASSUME NEW u \in book \ {tradeOf[p]}
      PROVE  ~ (PairCost(u, p) <= PairCost(tradeOf[p], p))
  BY <1>1, <1>2, <1>3, <1>4, PairCostTyped
<1>6. ASSUME NEW q \in seen, tradeOf[q] # tradeOf[p]
      PROVE  ~ (PairCost(tradeOf[p], q) <= PairCost(tradeOf[p], p))
  BY <1>1, <1>2, <1>3, <1>4, <1>6, PairCostTyped
<1> QED
  BY <1>5, <1>6 DEF Rivalled

(* What _pair_cost's comment promises of a genuine pair does hold while    *)
(* fills stay that near: the strategy's trade keeps a position of its own. *)
THEOREM NearFillsArePaired == ASSUME DriftsAreSmall PROVE Spec => GenuinePairsHold
<1>1. TypeOK /\ [Next]_vars =>
        [PlanRun => \A p \in seen :
           tradeOf[p] \in book => OwnTradePaired(p, matched')]_vars
  <2> SUFFICES ASSUME TypeOK, PlanRun, NEW p \in seen, tradeOf[p] \in book
               PROVE  OwnTradePaired(p, matched')
    OBVIOUS
  <2>1. matched' \in MatchPositions(book, seen)
    BY DEF PlanRun, StartActing
  <2>2. ~ Rivalled(p)
    BY SmallDriftsHaveNoRival
  <2> QED
    BY <2>1, <2>2, PairingKeepsTrades
<1> QED
  BY <1>1, TypeCorrect, PTL DEF Spec, GenuinePairsHold

(* A close that a run plans is of a paired position, or of one the pairing *)
(* left over.                                                              *)
LEMMA PlannedClose ==
    ASSUME NEW M, NEW att, NEW n, NEW r \in Plan(M, att, n), r.op = "close"
    PROVE  (\E e \in M : e[3] = r.pid) \/ r.pid \in LiveOnly(M, seen)
<1>1. ASSUME NEW p, NEW X, NEW at, r \in CloseRequests(p, X, at) PROVE r.pid = p
  BY <1>1 DEF CloseRequests, When, Request
<1>2. CASE r \in Maintained(M, att)
  <2>1. PICK e \in M : r \in MaintainExits(e, ExitsOf(att, e[3]))
    BY <1>2 DEF Maintained
  <2>2. ASSUME NEW t, NEW p, NEW X, NEW at PROVE r \notin StopRequests(t, p, X, at)
    BY DEF StopRequests, Request
  <2>3. ASSUME NEW t, NEW p, NEW X, NEW at PROVE r \notin TargetRequests(t, p, X, at)
    BY DEF TargetRequests, Request
  <2>4. PICK at : r \in CloseRequests(e[3], ExitsOf(att, e[3]), at)
    BY <2>1, <2>2, <2>3 DEF MaintainExits
  <2> QED
    BY <1>1, <2>4
<1>3. CASE r \in StrategyExits(M, att)
  <2>1. PICK p \in LiveOnly(M, seen) : \E at : r \in CloseRequests(p, ExitsOf(att, p), at)
    BY <1>3 DEF StrategyExits
  <2> QED
    BY <1>1, <2>1
<1>4. r \notin OrphanCancels(att) /\ r \notin CancelRequest("cancelStale", 4, StaleEntries)
  BY DEF OrphanCancels, CancelRequest, When, Request
<1>5. r \notin EntryPlacements(n)
  BY DEF EntryPlacements, Request
<1> QED
  BY <1>2, <1>3, <1>4, <1>5 DEF Plan

(* _match_positions leaves no live position out for looking like a bad     *)
(* fit, however fills drift: what a run closes as a strategy exit is left  *)
(* over after every trade held on its side has a position.                 *)
THEOREM StrategyExitsAreSurplus == Spec => OnlySurplusIsClosed
<1> DEFINE Surplus(r) ==
             r.op = "close" => \/ \E e \in matched' : e[3] = r.pid
                               \/ \A t \in book : SameSide(t, tradeOf[r.pid]) =>
                                    \E e \in matched' : e[2] = t
<1>1. [Next]_vars => [PlanRun => \A r \in todo' : Surplus(r)]_vars
  <2> SUFFICES ASSUME PlanRun, NEW r \in todo', r.op = "close",
                      ~ \E e \in matched' : e[3] = r.pid,
                      NEW t \in book, SameSide(t, tradeOf[r.pid])
               PROVE  \E e \in matched' : e[2] = t
    OBVIOUS
  <2>1. PICK M \in MatchPositions(book, seen) : \E att, n :
          todo' = Plan(M, att, n) /\ matched' = M
    BY DEF PlanRun, StartActing
  <2>2. r.pid \in LiveOnly(M, seen)
    BY <2>1, PlannedClose
  <2>3. t \notin DesiredOnly(M, book)
    BY <2>2, NobodyLeftUnmatched
  <2> QED
    BY <2>1, <2>3 DEF DesiredOnly
<1> QED
  BY <1>1, PTL DEF Spec, OnlySurplusIsClosed

(* _match_positions, both ways: no live position of a held trade is given  *)
(* to one that fits worse, and none is left out.                           *)
THEOREM PairingStaysFair == Spec => PairingIsFair
<1> QED
  BY LiveTradesArePaired, StrategyExitsAreSurplus DEF PairingIsFair

(***************************************************************************)
(* The snapshot and the log.  A run acts on what it read, and the log      *)
(* speaks of what was done before; the two fit because ids are never       *)
(* issued twice, a position has one resting settle order at most, and an   *)
(* exit is recorded only by a run that has the position in its snapshot.   *)
(***************************************************************************)
OneExitEach ==
    \A o1, o2 \in ExitOrders : order[o1].pid = order[o2].pid => o1 = o2

(* The exits this configuration places.                                    *)
OwnKind(kind) ==
    \/ kind = "STOP" /\ UsesStop
    \/ kind = "LIMIT" /\ UsesTarget /\ ~ UsesStop

(* Records and snapshot know only issued positions, and whatever position  *)
(* of the log is open while a run is under way was there when it began,    *)
(* its settle order included.                                              *)
LogIsOld ==
    /\ seen \subseteq 1..nPos
    /\ \A o \in Oids : owner[o] # 0 =>
         /\ owner[o] <= nPos /\ OwnKind(order[o].kind)
         /\ pc # "idle" /\ owner[o] \in held => owner[o] \in seen
         /\ pc = "orders" /\ o \in resting /\ owner[o] \in seen => owner[o] \in seenReserved

(* Exits are asked for positions of the snapshot only.                     *)
PlacesOwnKind ==
    /\ pc # "act" => todo = {}
    /\ \A r \in todo : r.op \in {"stop", "limit", "ratchet"} =>
         /\ r.pid \in seen
         /\ OwnKind(IF r.op = "limit" THEN "LIMIT" ELSE "STOP")

SnapshotInv == OneExitEach /\ LogIsOld /\ PlacesOwnKind /\ OrphansAreOrphans

(***************************************************************************)
(* What an undisturbed run still owes a matched position.                  *)
(***************************************************************************)
ExitsAt(p) == { o \in ExitOrders : order[o].pid = p }

RequestsFor(p) == { r \in todo : r.pid = p }

(* Its market close is to come, and before it the cancel of its exits.     *)
WillBeClosed(p) ==
    \E c \in todo :
        /\ c.op = "close" /\ c.pid = p
        /\ \A r \in RequestsFor(p) \ {c} : r.op = "cancelExits" /\ Before(r.at, c.at)
        /\ ExitsAt(p) # {} =>
             \E r \in RequestsFor(p) : r.op = "cancelExits" /\ ExitsAt(p) \subseteq r.oids

(* The one request for it will rest the exit the strategy wants.           *)
WillBeProtected(p, t) ==
    \E r \in todo :
        /\ RequestsFor(p) = {r}
        /\ \/ r.op = "stop" /\ UsesStop /\ r.level = stop[t] /\ ExitsAt(p) = {}
           \/ r.op = "limit" /\ ~ UsesStop /\ ExitsAt(p) = {}
           \/ r.op = "ratchet" /\ UsesStop /\ r.level = stop[t] /\ ExitsAt(p) = r.oids

Served(t, p) ==
    IF Breached(t)
    THEN p \notin held \/ WillBeClosed(p)
    ELSE /\ p \in held
         /\ \/ RequestsFor(p) = {} /\ ExitInPlace(p, t)
            \/ WillBeProtected(p, t)

(* Nothing else that is still to be sent touches the exits of a matched    *)
(* position.                                                               *)
LeavesAlone(r) ==
    \A o \in r.oids : o \in ExitOrders /\ order[o].pid # r.pid =>
        order[o].pid \notin { e[3] : e \in matched }

RunInv ==
    /\ pc = "orders" /\ ~ disturbed => seen = held /\ seenReserved = held \cap ReservedPids
    /\ pc = "act" => \A e \in matched : e[3] \in seen
    /\ pc = "act" /\ ~ disturbed =>
         /\ \A e \in matched : Served(e[2], e[3])
         /\ \A r \in todo : r.op = "bulk" \/ LeavesAlone(r)
         /\ matched # {} => \A r \in todo : r.op # "bulk"

(***************************************************************************)
(* What a run may still enter.                                             *)
(***************************************************************************)
Enters == { r \in todo : r.op = "enter" }

ToBeCancelled == UNION { r.oids : r \in { q \in todo : q.op = "cancelStale" } }

(* Requests are lists of five numbers apart, entries after stale cancels.  *)
InTheirPlace ==
    \A r \in todo :
        /\ r.at \in [1..5 -> Int]
        /\ r.op = "enter" => r.at[1] = 5
        /\ r.op = "cancelStale" => r.at[1] = 4

RoomLeft ==
    /\ pc = "orders" /\ ~ raced => held \subseteq seen
    /\ pc = "act" /\ ~ raced /\ Enters # {} =>
         Cardinality(held) + Cardinality(EntryOrders \ ToBeCancelled) + Cardinality(Enters)
           <= EffectiveSlots

EntryInv == IsFiniteSet(Enters) /\ RoomLeft

(* Ids in use are issued.                                                  *)
LEMMA IdsAreIssued ==
    ASSUME TypeOK
    PROVE  /\ nPos \in Nat /\ nOrd \in Nat /\ nPos <= MaxPos /\ nOrd <= MaxOrd
           /\ held \subseteq 1..nPos /\ held \subseteq Pids /\ resting \subseteq 1..nOrd
           /\ resting \subseteq Oids /\ ExitOrders \subseteq Oids /\ EntryOrders \subseteq Oids
           /\ 1..nOrd \subseteq Oids
<1>1. /\ nPos \in Nat /\ nOrd \in Nat /\ nPos <= MaxPos /\ nOrd <= MaxOrd
      /\ held \subseteq 1..nPos /\ resting \subseteq 1..nOrd
  BY SettleVenueAssumption DEF TypeOK, VenueTypeOK
<1>2. 1..nPos \subseteq Pids /\ 1..nOrd \subseteq Oids
  BY <1>1, SettleVenueAssumption DEF Oids, Pids
<1>3. ExitOrders \subseteq resting /\ EntryOrders \subseteq resting
  BY DEF ExitOrders, EntryOrders
<1> QED
  BY <1>1, <1>2, <1>3

(***************************************************************************)
(* The places of the slots.                                                *)
(***************************************************************************)

(* A pairing takes a trade and a position once.                            *)
LEMMA PairingIsOneToOne ==
    ASSUME TypeOK, NEW M \in MatchPositions(book, seen), NEW e \in M, NEW f \in M,
           Clash(f, e)
    PROVE  e = f
<1>1. /\ e \in Nat \X book \X seen /\ f \in Nat \X book \X seen
      /\ book \subseteq Nat /\ seen \subseteq Nat
  <2>1. book \subseteq Nat /\ seen \subseteq Nat
    BY TradeBookAssumption, SettleVenueAssumption
       DEF TypeOK, BookTypeOK, RunTypeOK, Trades, Pids
  <2> QED
    BY <2>1, MatchTyped
<1>2. ~ Prior(f, e) /\ ~ Prior(e, f)
  BY DEF MatchPositions, BestFirst, IsBestFirst, Clash
<1>3. /\ e[1] \in Int /\ e[2] \in Int /\ e[3] \in Int /\ e = <<e[1], e[2], e[3]>>
      /\ f[1] \in Int /\ f[2] \in Int /\ f[3] \in Int /\ f = <<f[1], f[2], f[3]>>
  <2>1. e \in Nat \X Nat \X Nat /\ f \in Nat \X Nat \X Nat
    BY <1>1
  <2> QED
    BY <2>1
<1>4. e[1] = f[1] /\ e[2] = f[2] /\ e[3] = f[3]
  BY <1>2, <1>3 DEF Prior
<1> QED
  BY <1>3, <1>4

LEMMA PairingIsFinite ==
    ASSUME TypeOK, NEW M \in MatchPositions(book, seen)
    PROVE  IsFiniteSet(M) /\ Cardinality(M) <= MaxTrade
<1> DEFINE f == [e \in M |-> e[2]]
<1>1. f \in [M -> Trades]
  BY MatchTyped DEF TypeOK, BookTypeOK
<1>2. ASSUME NEW a \in M, NEW b \in M, f[a] = f[b] PROVE a = b
  <2>1. Clash(b, a)
    BY <1>2 DEF Clash
  <2> QED
    BY <2>1, PairingIsOneToOne
<1>3. f \in Injection(M, Trades)
  BY <1>1, <1>2 DEF Injection, IsInjective
<1>4. IsFiniteSet(Trades) /\ Cardinality(Trades) = MaxTrade
  <2>1. MaxTrade \in Nat /\ 1 \in Int
    BY TradeBookAssumption
  <2>2. IsFiniteSet(1..MaxTrade) /\ Cardinality(1..MaxTrade) = IF 1 > MaxTrade THEN 0 ELSE MaxTrade - 1 + 1
    BY <2>1, FS_Interval
  <2> QED
    BY <2>1, <2>2 DEF Trades
<1> HIDE DEF f
<1> QED
  BY <1>3, <1>4, FS_Injection

(* Different pairs have different places, all before those of unpaired     *)
(* positions.                                                              *)
LEMMA RanksAreBounded ==
    ASSUME TypeOK, NEW M \in MatchPositions(book, seen), NEW e \in M
    PROVE  PairRank(M, e) \in 0..MaxTrade
<1>1. { f \in M : Prior(f, e) } \in SUBSET M
  OBVIOUS
<1> QED
  BY <1>1, PairingIsFinite, FS_Subset, FS_CardinalityType, TradeBookAssumption DEF PairRank

LEMMA RanksDiffer ==
    ASSUME TypeOK, NEW M \in MatchPositions(book, seen), NEW e \in M, NEW f \in M, e # f
    PROVE  PairRank(M, e) # PairRank(M, f)
<1>1. \A g \in M : g \in Nat \X Nat \X Nat
  <2>1. book \subseteq Nat /\ seen \subseteq Nat
    BY TradeBookAssumption, SettleVenueAssumption
       DEF TypeOK, BookTypeOK, RunTypeOK, Trades, Pids
  <2> QED
    BY <2>1, MatchTyped
<1>2. ASSUME NEW a \in M, NEW b \in M, Prior(a, b) PROVE PairRank(M, a) # PairRank(M, b)
  <2> DEFINE before == { g \in M : Prior(g, a) }
             upto   == { g \in M : Prior(g, b) }
  <2>1. ASSUME NEW g \in M, Prior(g, a) PROVE Prior(g, b)
    BY <1>1, <1>2, <2>1 DEF Prior
  <2>2. before \in SUBSET upto /\ a \in upto
    BY <1>2, <2>1
  <2>3. a \notin before
    BY <1>1 DEF Prior
  <2>4. IsFiniteSet(upto)
    <3>1. upto \in SUBSET M
      OBVIOUS
    <3> QED
      BY <3>1, PairingIsFinite, FS_Subset
  <2>5. Cardinality(before) # Cardinality(upto)
    <3> HIDE DEF before, upto
    <3> QED
      BY <2>2, <2>3, <2>4, FS_Subset
  <2> QED
    BY <2>5 DEF PairRank
<1>3. Prior(e, f) \/ Prior(f, e)
  <2>1. e \in Nat \X Nat \X Nat /\ f \in Nat \X Nat \X Nat
    BY <1>1
  <2>2. e[1] # f[1] \/ e[2] # f[2] \/ e[3] # f[3]
    BY <2>1
  <2> QED
    BY <2>1, <2>2 DEF Prior
<1> QED
  BY <1>2, <1>3

(* What an exit slot is: of a pair, or of a position about to be closed.   *)
SlotOfPair(s, M) ==
    \E e \in M : /\ s.pid = e[3] /\ Wanted(s.kind) /\ s.kind \in ExitKinds
                 /\ s.ix = 2 * PairRank(M, e) + KindRank(s.kind)

SlotOfClosed(s, M, S) ==
    \E p \in LiveOnly(M, S) : s.pid = p /\ s.kind \in ExitKinds
                              /\ s.ix = 2 * (MaxTrade + p) + KindRank(s.kind)

LEMMA SlotElim ==
    ASSUME NEW M, NEW S, NEW s \in ExitSlots(M, S)
    PROVE  SlotOfPair(s, M) \/ SlotOfClosed(s, M, S)
<1> DEFINE paired == { y \in M \X ExitKinds : Wanted(y[2]) /\ MayHoldSettleOrder(y[1][3]) }
           closed == { y \in LiveOnly(M, S) \X ExitKinds : MayHoldSettleOrder(y[1]) }
<1>1. CASE \E x \in paired :
             s = [pid |-> x[1][3], kind |-> x[2],
                  level |-> IF x[2] = "STOP" THEN stop[x[1][2]] ELSE x[1][2],
                  ix |-> 2 * PairRank(M, x[1]) + KindRank(x[2])]
  <2>1. PICK x \in paired : s.pid = x[1][3] /\ s.kind = x[2]
                            /\ s.ix = 2 * PairRank(M, x[1]) + KindRank(x[2])
    BY <1>1
  <2> QED
    BY <2>1 DEF SlotOfPair
<1>2. CASE \E x \in closed :
             s = [pid |-> x[1], kind |-> x[2], level |-> 0,
                  ix |-> 2 * (MaxTrade + x[1]) + KindRank(x[2])]
  <2>1. PICK x \in closed : s.pid = x[1] /\ s.kind = x[2]
                            /\ s.ix = 2 * (MaxTrade + x[1]) + KindRank(x[2])
    BY <1>2
  <2> QED
    BY <2>1 DEF SlotOfClosed
<1> QED
  BY <1>1, <1>2 DEF ExitSlots

(* Slots of one place are of one position.                                 *)
LEMMA PlaceGivesThePosition ==
    ASSUME TypeOK, NEW M \in MatchPositions(book, seen),
           NEW s1 \in ExitSlots(M, seen), NEW s2 \in ExitSlots(M, seen), s1.ix = s2.ix
    PROVE  s1.pid = s2.pid
<1>1. \A p \in LiveOnly(M, seen) : p \in Nat /\ p >= 1
  BY SettleVenueAssumption DEF LiveOnly, TypeOK, RunTypeOK, Pids
<1>2. \A kind : KindRank(kind) \in {0, 1}
  BY DEF KindRank
<1>3. \A e \in M : PairRank(M, e) \in Nat /\ PairRank(M, e) <= MaxTrade
  BY RanksAreBounded, TradeBookAssumption
<1>4. MaxTrade \in Nat
  BY TradeBookAssumption
<1>5. CASE SlotOfPair(s1, M) /\ SlotOfPair(s2, M)
  <2>1. PICK e1 \in M : s1.pid = e1[3] /\ s1.ix = 2 * PairRank(M, e1) + KindRank(s1.kind)
    BY <1>5 DEF SlotOfPair
  <2>2. PICK e2 \in M : s2.pid = e2[3] /\ s2.ix = 2 * PairRank(M, e2) + KindRank(s2.kind)
    BY <1>5 DEF SlotOfPair
  <2> DEFINE r1 == PairRank(M, e1)
             r2 == PairRank(M, e2)
             k1 == KindRank(s1.kind)
             k2 == KindRank(s2.kind)
  <2>3. 2 * r1 + k1 = 2 * r2 + k2 /\ r1 \in Nat /\ r2 \in Nat /\ k1 \in {0, 1} /\ k2 \in {0, 1}
    BY <1>2, <1>3, <2>1, <2>2
  <2> HIDE DEF r1, r2, k1, k2
  <2>4. r1 = r2
    BY <2>3
  <2>5. e1 = e2
    BY <2>4, RanksDiffer DEF r1, r2
  <2> QED
    BY <2>1, <2>2, <2>5
<1>6. CASE SlotOfClosed(s1, M, seen) /\ SlotOfClosed(s2, M, seen)
  <2>1. PICK p1 \in LiveOnly(M, seen) : s1.pid = p1 /\ s1.ix = 2 * (MaxTrade + p1) + KindRank(s1.kind)
    BY <1>6 DEF SlotOfClosed
  <2>2. PICK p2 \in LiveOnly(M, seen) : s2.pid = p2 /\ s2.ix = 2 * (MaxTrade + p2) + KindRank(s2.kind)
    BY <1>6 DEF SlotOfClosed
  <2> DEFINE k1 == KindRank(s1.kind)
             k2 == KindRank(s2.kind)
  <2>3. /\ 2 * (MaxTrade + p1) + k1 = 2 * (MaxTrade + p2) + k2
        /\ p1 \in Nat /\ p2 \in Nat /\ k1 \in {0, 1} /\ k2 \in {0, 1}
    BY <1>1, <1>2, <2>1, <2>2
  <2> HIDE DEF k1, k2
  <2>4. p1 = p2
    BY <1>4, <2>3
  <2> QED
    BY <2>1, <2>2, <2>4
<1>7. ASSUME NEW a \in ExitSlots(M, seen), NEW b \in ExitSlots(M, seen),
             SlotOfPair(a, M), SlotOfClosed(b, M, seen)
      PROVE  a.ix # b.ix
  <2>1. PICK e \in M : a.ix = 2 * PairRank(M, e) + KindRank(a.kind)
    BY <1>7 DEF SlotOfPair
  <2>2. PICK p \in LiveOnly(M, seen) : b.ix = 2 * (MaxTrade + p) + KindRank(b.kind)
    BY <1>7 DEF SlotOfClosed
  <2> DEFINE r == PairRank(M, e)
             ka == KindRank(a.kind)
             kb == KindRank(b.kind)
  <2>3. /\ a.ix = 2 * r + ka /\ b.ix = 2 * (MaxTrade + p) + kb
        /\ r \in Nat /\ r <= MaxTrade /\ ka \in {0, 1} /\ kb \in {0, 1} /\ p \in Nat /\ p >= 1
    BY <1>1, <1>2, <1>3, <2>1, <2>2
  <2> HIDE DEF r, ka, kb
  <2> QED
    BY <1>4, <2>3
<1> QED
  BY <1>5, <1>6, <1>7, SlotElim

(* An order without a record is no match below the recorded ones.          *)
LEMMA SlotLevels ==
    ASSUME TypeOK, NEW M \in MatchPositions(book, seen), NEW s \in ExitSlots(M, seen)
    PROVE  s.level \in Nat
<1> DEFINE paired == { y \in M \X ExitKinds : Wanted(y[2]) /\ MayHoldSettleOrder(y[1][3]) }
           closed == { y \in LiveOnly(M, seen) \X ExitKinds : MayHoldSettleOrder(y[1]) }
<1>1. \A e \in M : e[2] \in Nat /\ stop[e[2]] \in Nat
  <2>1. \A e \in M : e[2] \in Trades
    BY MatchTyped DEF TypeOK, BookTypeOK
  <2> QED
    BY <2>1, TradeBookAssumption DEF TypeOK, BookTypeOK, Trades
<1>2. CASE \E x \in paired :
             s = [pid |-> x[1][3], kind |-> x[2],
                  level |-> IF x[2] = "STOP" THEN stop[x[1][2]] ELSE x[1][2],
                  ix |-> 2 * PairRank(M, x[1]) + KindRank(x[2])]
  <2>1. PICK x \in paired : s.level = IF x[2] = "STOP" THEN stop[x[1][2]] ELSE x[1][2]
    BY <1>2
  <2> QED
    BY <1>1, <2>1
<1>3. CASE \E x \in closed :
             s = [pid |-> x[1], kind |-> x[2], level |-> 0,
                  ix |-> 2 * (MaxTrade + x[1]) + KindRank(x[2])]
  BY <1>3
<1> QED
  BY <1>2, <1>3 DEF ExitSlots

LEMMA UnrecordedCosts ==
    ASSUME TypeOK, NEW M \in MatchPositions(book, seen), NEW s \in ExitSlots(M, seen),
           NEW o \in ExitOrders, owner[o] = 0
    PROVE  SlotCost(o, s) \in Nat
<1>1. s.level \in Nat
  BY SlotLevels
<1>2. o \in Oids /\ order[o].level \in Nat
  <2>1. o \in Oids
    BY SettleVenueAssumption DEF ExitOrders, TypeOK, VenueTypeOK, Oids
  <2> QED
    BY <2>1 DEF TypeOK, VenueTypeOK, Orders
<1>3. Infinite \in Nat
  BY LiveExecutorAssumption DEF Infinite
<1>4. ASSUME s.level > 0
      PROVE  (Abs(order[o].level - s.level) * Scale) \div s.level \in Nat
  <2> DEFINE a == Abs(order[o].level - s.level)
             d == s.level
  <2>1. a \in Nat /\ Scale \in Nat /\ d \in Nat \ {0}
    BY <1>1, <1>2, <1>4, LiveExecutorAssumption DEF Abs
  <2> HIDE DEF a, d
  <2>2. a * Scale \in Nat
    BY <2>1
  <2>3. \A n \in Nat : n \div d \in Nat
    BY <2>1
  <2> QED
    BY <2>2, <2>3 DEF a, d
<1> QED
  BY <1>1, <1>3, <1>4 DEF SlotCost

(* A recorded exit gets its own position in every attribution, as long as  *)
(* that is one of the snapshot, may hold an order and wants this kind.     *)
LEMMA RecordsAreAttributed ==
    ASSUME TypeOK, RecordedOwnersAreTrue, OneExitEach,
           NEW M \in MatchPositions(book, seen),
           NEW att \in AssignCloseOrders(M, seen, ExitOrders),
           NEW o \in ExitOrders, owner[o] # 0, owner[o] \in seen,
           MayHoldSettleOrder(owner[o]),
           Wanted(order[o].kind) \/ owner[o] \in LiveOnly(M, seen)
    PROVE  o \in { x[1] : x \in att }
<1> DEFINE p    == owner[o]
           kind == order[o].kind
           slots == ExitSlots(M, seen)
<1>0. o \in Oids /\ kind \in ExitKinds /\ order[o].pid = p
  <2>1. o \in Oids
    BY IdsAreIssued
  <2> QED
    BY <2>1 DEF ExitOrders, RecordedOwnersAreTrue
<1>1. PICK s \in slots : s.pid = p /\ s.kind = kind
  <2>1. CASE p \in LiveOnly(M, seen)
    <3> DEFINE y == <<p, kind>>
    <3>1. y \in { z \in LiveOnly(M, seen) \X ExitKinds : MayHoldSettleOrder(z[1]) }
      BY <1>0, <2>1
    <3>2. [pid |-> y[1], kind |-> y[2], level |-> 0,
           ix |-> 2 * (MaxTrade + y[1]) + KindRank(y[2])] \in slots
      BY <3>1 DEF ExitSlots
    <3> QED
      BY <3>2
  <2>2. CASE p \notin LiveOnly(M, seen) /\ Wanted(kind)
    <3>1. PICK e \in M : e[3] = p
      BY <2>2 DEF LiveOnly
    <3> DEFINE y == <<e, kind>>
    <3>2. y \in { z \in M \X ExitKinds : Wanted(z[2]) /\ MayHoldSettleOrder(z[1][3]) }
      BY <1>0, <2>2, <3>1
    <3>3. [pid |-> y[1][3], kind |-> y[2],
           level |-> IF y[2] = "STOP" THEN stop[y[1][2]] ELSE y[1][2],
           ix |-> 2 * PairRank(M, y[1]) + KindRank(y[2])] \in slots
      BY <3>2 DEF ExitSlots
    <3> QED
      BY <3>1, <3>3
  <2> QED
    BY <2>1, <2>2
<1>2. PICK A \in BestFirst(SlotEdges(slots, ExitOrders)) : att = { <<e[2], e[4]>> : e \in A }
  BY DEF AssignCloseOrders
<1> DEFINE edge == <<SlotCost(o, s), o, s.ix, s.pid>>
<1>3. edge \in SlotEdges(slots, ExitOrders)
  <2> DEFINE y == <<o, s>>
  <2>1. y \in { z \in ExitOrders \X slots :
                  /\ order[z[1]].kind = z[2].kind
                  /\ SameSide(tradeOf[order[z[1]].pid], tradeOf[z[2].pid])
                  /\ owner[z[1]] # 0 => owner[z[1]] = z[2].pid }
    BY <1>0, <1>1 DEF SameSide
  <2>2. <<SlotCost(y[1], y[2]), y[1], y[2].ix, y[2].pid>> \in SlotEdges(slots, ExitOrders)
    BY <2>1 DEF SlotEdges
  <2> QED
    BY <2>2
<1>4. CASE \E e \in A : e[2] = o
  <2>1. PICK e \in A : e[2] = o
    BY <1>4
  <2>2. <<e[2], e[4]>> \in att
    BY <1>2
  <2>3. <<e[2], e[4]>>[1] = o
    BY <2>1
  <2> QED
    BY <2>2, <2>3
<1>5. CASE ~ \E e \in A : e[2] = o
  <2>1. edge \notin A
    BY <1>5
  <2>2. PICK f \in A : Prior(f, edge) /\ Clash(f, edge)
    BY <1>2, <1>3, <2>1, LeftOutIsTaken
  <2>3. f[3] = s.ix
    BY <1>5, <2>2 DEF Clash
  <2>4. PICK y \in ExitOrders \X slots :
          /\ owner[y[1]] # 0 => owner[y[1]] = y[2].pid
          /\ f = <<SlotCost(y[1], y[2]), y[1], y[2].ix, y[2].pid>>
    BY <1>2 DEF BestFirst, IsBestFirst, SlotEdges
  <2> DEFINE o2 == y[1]
  <2>5. o2 \in ExitOrders /\ o2 # o
    BY <1>5, <2>4
  <2>6. y[2].pid = p
    BY <1>1, <2>3, <2>4, PlaceGivesThePosition
  <2>7. owner[o2] # 0
    <3> SUFFICES ASSUME owner[o2] = 0 PROVE FALSE
      OBVIOUS
    <3>1. SlotCost(o2, y[2]) \in Nat
      BY <2>5, UnrecordedCosts
    <3>2. edge[1] = -1 /\ f[1] = SlotCost(o2, y[2])
      BY <2>4 DEF SlotCost
    <3> QED
      BY <2>2, <3>1, <3>2 DEF Prior
  <2>8. order[o2].pid = p
    <3>1. o2 \in Oids
      BY <2>5, IdsAreIssued
    <3>2. owner[o2] = p
      BY <2>4, <2>6, <2>7
    <3> QED
      BY <2>7, <3>1, <3>2 DEF RecordedOwnersAreTrue
  <2> QED
    BY <1>0, <2>5, <2>8 DEF OneExitEach
<1> QED
  BY <1>4, <1>5

(***************************************************************************)
(* The snapshot and the log, step by step.                                 *)
(***************************************************************************)

(* The requests left are those of before, or the placement a ratchet has   *)
(* made room for.                                                          *)
FewerRequests ==
    \A r \in todo' : r \in todo \/
        /\ r.op = "stop" /\ r.oids = {}
        /\ \E q \in todo : q.op = "ratchet" /\ q.pid = r.pid /\ q.at = r.at

(* Orders go, positions come and go, the log may be lost.                  *)
NothingRests ==
    /\ FewerRequests /\ (todo' = todo \/ pc = "act")
    /\ owner' = owner \/ owner' = [o \in Oids |-> 0]
    /\ resting' \subseteq resting
    /\ \/ held' \subseteq held /\ nPos' = nPos
       \/ held' = held \cup {nPos + 1} /\ nPos' = nPos + 1
    /\ UNCHANGED <<pc, seen, seenReserved, order, nOrd>>

(* An order comes to rest, an exit only where none does; when it is        *)
(* recorded, it is an exit of the configuration for a position seen.       *)
OneRests ==
    /\ todo' = todo \/ (pc = "act" /\ todo' \subseteq todo)
    /\ UNCHANGED <<pc, seen, seenReserved>>
    /\ \E rec \in Orders :
         /\ RestOrder(rec) /\ (rec.kind = "ENTRY" \/ Accepts(rec.pid))
         /\ \/ owner' = owner
            \/ /\ owner' = [owner EXCEPT ![nOrd + 1] = rec.pid]
               /\ pc = "act" /\ rec.pid \in seen /\ OwnKind(rec.kind)

EndOfRun == GoIdle /\ UNCHANGED <<venueVars, owner>>

LEMMA NothingRestsKeepsSnapshot ==
    TypeOK /\ LogInv /\ SnapshotInv /\ NothingRests => SnapshotInv'
<1> SUFFICES ASSUME TypeOK, LogInv, SnapshotInv, NothingRests PROVE SnapshotInv'
  OBVIOUS
<1>0. /\ FewerRequests /\ (todo' = todo \/ pc = "act")
      /\ \A o \in Oids : owner'[o] # 0 => owner'[o] = owner[o]
      /\ resting' \subseteq resting /\ nPos' >= nPos /\ nPos' \in Nat
      /\ \A p \in held' : p \in held \/ p > nPos
      /\ pc' = pc /\ seen' = seen /\ seenReserved' = seenReserved /\ order' = order /\ nOrd' = nOrd
  BY IdsAreIssued DEF NothingRests
<1>1. OneExitEach'
  BY <1>0 DEF SnapshotInv, OneExitEach, ExitOrders
<1>2. owner \in [Oids -> 0..MaxPos] /\ nPos \in Nat /\ MaxPos \in Nat
  BY IdsAreIssued, SettleVenueAssumption DEF TypeOK, RunTypeOK
<1>3. LogIsOld'
  <2>1. seen' \subseteq 1..nPos'
    BY <1>0, <1>2 DEF SnapshotInv, LogIsOld
  <2> SUFFICES ASSUME NEW o \in Oids, owner'[o] # 0
               PROVE  /\ owner'[o] <= nPos' /\ OwnKind(order'[o].kind)
                      /\ pc' # "idle" /\ owner'[o] \in held' => owner'[o] \in seen'
                      /\ pc' = "orders" /\ o \in resting' /\ owner'[o] \in seen' => owner'[o] \in seenReserved'
    BY <2>1 DEF LogIsOld, OwnKind
  <2>2. owner'[o] = owner[o] /\ owner[o] # 0 /\ owner[o] \in Nat
    BY <1>0, <1>2
  <2>3. /\ owner[o] <= nPos /\ OwnKind(order[o].kind)
        /\ pc # "idle" /\ owner[o] \in held => owner[o] \in seen
        /\ pc = "orders" /\ o \in resting /\ owner[o] \in seen => owner[o] \in seenReserved
    BY <2>2 DEF SnapshotInv, LogIsOld
  <2>4. owner[o] \in held' => owner[o] \in held
    BY <1>0, <1>2, <2>2, <2>3
  <2> QED
    BY <1>0, <1>2, <2>2, <2>3, <2>4
<1>4. PlacesOwnKind'
  <2>1. pc' # "act" => todo' = {}
    BY <1>0 DEF SnapshotInv, PlacesOwnKind
  <2>2. ASSUME NEW r \in todo', r.op \in {"stop", "limit", "ratchet"}
        PROVE  r.pid \in seen /\ OwnKind(IF r.op = "limit" THEN "LIMIT" ELSE "STOP")
    <3>1. CASE r \in todo
      BY <2>2, <3>1 DEF SnapshotInv, PlacesOwnKind
    <3>2. CASE r.op = "stop" /\ \E q \in todo : q.op = "ratchet" /\ q.pid = r.pid
      BY <3>2 DEF SnapshotInv, PlacesOwnKind
    <3> QED
      BY <1>0, <3>1, <3>2 DEF FewerRequests
  <2> QED
    BY <1>0, <2>1, <2>2 DEF PlacesOwnKind, OwnKind
<1>5. OrphansAreOrphans'
  <2> SUFFICES ASSUME NEW r \in todo', r.op = "cancelOrphans", NEW o \in r.oids, owner'[o] # 0
               PROVE  order[o].pid \notin held' \/ ~ Wanted(order[o].kind)
    BY <1>0 DEF OrphansAreOrphans, Wanted
  <2>1. r \in todo
    BY <1>0 DEF FewerRequests
  <2>2. o \in Oids
    BY <2>1, IdsAreIssued DEF LogInv, Issued
  <2>3. owner[o] # 0 /\ order[o].pid = owner[o] /\ owner[o] <= nPos /\ owner[o] \in Nat
    BY <1>0, <1>2, <2>2 DEF LogInv, RecordedOwnersAreTrue, SnapshotInv, LogIsOld
  <2>4. order[o].pid \notin held \/ ~ Wanted(order[o].kind)
    BY <2>1, <2>3 DEF SnapshotInv, OrphansAreOrphans
  <2> QED
    BY <1>0, <1>2, <2>3, <2>4
<1> QED
  BY <1>1, <1>3, <1>4, <1>5 DEF SnapshotInv

LEMMA OneRestsKeepsSnapshot ==
    TypeOK /\ LogInv /\ SnapshotInv /\ OneRests => SnapshotInv'
<1> SUFFICES ASSUME TypeOK, LogInv, SnapshotInv, OneRests PROVE SnapshotInv'
  OBVIOUS
<1>0. PICK rec \in Orders :
         /\ RestOrder(rec) /\ (rec.kind = "ENTRY" \/ Accepts(rec.pid))
         /\ \/ owner' = owner
            \/ /\ owner' = [owner EXCEPT ![nOrd + 1] = rec.pid]
               /\ pc = "act" /\ rec.pid \in seen /\ OwnKind(rec.kind)
  BY DEF OneRests
<1> DEFINE new == nOrd + 1
<1>1. /\ new \in Oids /\ new \notin resting /\ owner[new] = 0
      /\ \A o \in resting : o \in Oids /\ o # new
      /\ \A o \in 1..nOrd : o \in Oids /\ o # new
  <2>1. nOrd \in Nat /\ MaxOrd \in Nat /\ nOrd < MaxOrd /\ resting \subseteq 1..nOrd
    BY <1>0, IdsAreIssued, SettleVenueAssumption DEF RestOrder
  <2>2. new \in Oids /\ new > nOrd /\ \A o \in 1..nOrd : o \in Oids /\ o # new
    BY <2>1 DEF Oids
  <2> QED
    BY <2>1, <2>2 DEF LogInv, Issued
<1>2. /\ order'[new] = rec /\ \A o \in Oids : o # new => order'[o] = order[o]
      /\ resting' = resting \cup {new} /\ held' = held /\ nPos' = nPos
      /\ pc' = pc /\ seen' = seen /\ seenReserved' = seenReserved
      /\ todo' \subseteq todo /\ (todo' = todo \/ pc = "act")
  BY <1>0, <1>1 DEF OneRests, RestOrder, TypeOK, VenueTypeOK
<1>3. /\ \A o \in Oids : o # new => owner'[o] = owner[o]
      /\ owner'[new] # 0 => /\ owner'[new] = rec.pid /\ pc = "act"
                            /\ rec.pid \in seen /\ OwnKind(rec.kind)
  BY <1>0, <1>1 DEF TypeOK, RunTypeOK
<1> HIDE DEF new
<1>4. OneExitEach'
  <2>1. ASSUME NEW o \in ExitOrders', o # new PROVE o \in ExitOrders /\ order'[o] = order[o]
    BY <1>1, <1>2, <2>1 DEF ExitOrders
  <2>2. ASSUME new \in ExitOrders', NEW o \in ExitOrders', o # new PROVE order'[o].pid # rec.pid
    <3>1. rec.kind # "ENTRY"
      BY <1>2, <2>2 DEF ExitOrders, ExitKinds
    <3> QED
      BY <1>0, <2>1, <2>2, <3>1 DEF Accepts, ReservedPids
  <2> QED
    BY <1>2, <2>1, <2>2 DEF SnapshotInv, OneExitEach
<1>5. LogIsOld'
  <2> SUFFICES ASSUME NEW o \in Oids, owner'[o] # 0
               PROVE  /\ owner'[o] <= nPos' /\ OwnKind(order'[o].kind)
                      /\ pc' # "idle" /\ owner'[o] \in held' => owner'[o] \in seen'
                      /\ pc' = "orders" /\ o \in resting' /\ owner'[o] \in seen' => owner'[o] \in seenReserved'
    BY <1>2 DEF LogIsOld, OwnKind, SnapshotInv
  <2>1. CASE o = new
    <3>1. seen \subseteq 1..nPos /\ nPos \in Nat
      BY IdsAreIssued DEF SnapshotInv, LogIsOld
    <3>2. rec.pid \in 1..nPos
      BY <1>3, <2>1, <3>1
    <3> QED
      BY <1>2, <1>3, <2>1, <3>1, <3>2
  <2>2. CASE o # new
    BY <1>2, <1>3, <2>2 DEF SnapshotInv, LogIsOld
  <2> QED
    BY <2>1, <2>2
<1>6. PlacesOwnKind'
  BY <1>2 DEF SnapshotInv, PlacesOwnKind, OwnKind
<1>7. OrphansAreOrphans'
  <2> SUFFICES ASSUME NEW r \in todo', r.op = "cancelOrphans", NEW o \in r.oids, owner'[o] # 0
               PROVE  order'[o].pid \notin held' \/ ~ Wanted(order'[o].kind)
    BY DEF OrphansAreOrphans, Wanted
  <2>1. r \in todo /\ o \in 1..nOrd
    BY <1>2 DEF LogInv, Issued
  <2>2. o \in Oids /\ o # new
    BY <1>1, <2>1
  <2> QED
    BY <1>2, <1>3, <2>1, <2>2 DEF SnapshotInv, OrphansAreOrphans
<1> QED
  BY <1>4, <1>5, <1>6, <1>7 DEF SnapshotInv

(* A run begins.                                                           *)
LEMMA ReadingKeepsSnapshot ==
    TypeOK /\ LogInv /\ SnapshotInv /\ ReadPositions => SnapshotInv'
<1> SUFFICES ASSUME TypeOK, LogInv, SnapshotInv, ReadPositions PROVE SnapshotInv'
  OBVIOUS
<1>1. /\ pc = "idle" /\ pc' = "orders" /\ seen' = held /\ seenReserved' = held \cap ReservedPids
      /\ UNCHANGED <<held, resting, order, nPos, nOrd, owner, todo>>
  BY DEF ReadPositions, venueVars
<1>2. OneExitEach'
  BY <1>1 DEF SnapshotInv, OneExitEach, ExitOrders
<1>3. todo' = {}
  BY <1>1 DEF SnapshotInv, PlacesOwnKind
<1>4. \A o \in Oids : owner[o] # 0 /\ o \in resting /\ owner[o] \in held => owner[o] \in seenReserved'
  BY <1>1 DEF LogInv, RecordedOwnersAreTrue, ReservedPids, ExitOrders
<1>5. LogIsOld'
  BY <1>1, <1>4, IdsAreIssued DEF SnapshotInv, LogIsOld, OwnKind
<1> QED
  BY <1>2, <1>3, <1>5 DEF SnapshotInv, PlacesOwnKind, OrphansAreOrphans

(* A run ends.                                                             *)
LEMMA EndingKeepsSnapshot ==
    TypeOK /\ SnapshotInv /\ EndOfRun => SnapshotInv'
<1> SUFFICES ASSUME TypeOK, SnapshotInv, EndOfRun PROVE SnapshotInv'
  OBVIOUS
<1>1. /\ pc' = "idle" /\ seen' = {} /\ todo' = {}
      /\ UNCHANGED <<held, resting, order, nPos, nOrd, owner>>
  BY DEF EndOfRun, GoIdle, venueVars
<1>2. OneExitEach'
  BY <1>1 DEF SnapshotInv, OneExitEach, ExitOrders
<1>3. LogIsOld'
  BY <1>1 DEF SnapshotInv, LogIsOld, OwnKind
<1> QED
  BY <1>1, <1>2, <1>3 DEF SnapshotInv, PlacesOwnKind, OrphansAreOrphans

(* A plan places exits of the configuration for positions seen.            *)
LEMMA PlanPlacesOwnKind ==
    ASSUME TypeOK, NEW M \in MatchPositions(book, seen),
           NEW att \in AssignCloseOrders(M, seen, ExitOrders), NEW n,
           NEW r \in Plan(M, att, n), r.op \in {"stop", "limit", "ratchet"}
    PROVE  /\ r.pid \in seen
           /\ OwnKind(IF r.op = "limit" THEN "LIMIT" ELSE "STOP")
<1> USE DEF Request
<1>1. ASSUME NEW p, NEW X, NEW at, r \in CloseRequests(p, X, at)
      PROVE  FALSE
  BY <1>1 DEF CloseRequests, When
<1>2. r \in Maintained(M, att)
  <2>1. r \notin StrategyExits(M, att)
    BY <1>1 DEF StrategyExits
  <2>2. r \notin OrphanCancels(att)
    BY DEF OrphanCancels, CancelRequest, When
  <2>3. r \notin CancelRequest("cancelStale", 4, StaleEntries)
    BY DEF CancelRequest, When
  <2>4. r \notin EntryPlacements(n)
    BY DEF EntryPlacements
  <2> QED
    BY <2>1, <2>2, <2>3, <2>4 DEF Plan
<1>3. PICK e \in M : r \in MaintainExits(e, ExitsOf(att, e[3]))
  BY <1>2 DEF Maintained
<1>4. e[3] \in seen
  BY MatchTyped
<1> DEFINE at == <<1, SideRank(e[2]), e[1], e[2]>>
           X  == ExitsOf(att, e[3])
<1>5. CASE r \in StopRequests(e[2], e[3], X, at)
  <2>1. UsesStop
    BY <1>5 DEF StopRequests
  <2>2. \/ r = Request("stop", at \o <<0>>, e[3], {}, 0, stop[e[2]])
        \/ \E o \in X : r = Request("ratchet", at \o <<0>>, e[3], {o}, 0, stop[e[2]])
    BY <1>5 DEF StopRequests
  <2> QED
    BY <1>4, <2>1, <2>2 DEF OwnKind
<1>6. CASE r \in TargetRequests(e[2], e[3], X, at)
  <2>1. UsesTarget /\ ~ UsesStop
    BY <1>6 DEF TargetRequests
  <2>2. r = Request("limit", at \o <<1>>, e[3], {}, 0, e[2])
    BY <1>6 DEF TargetRequests
  <2> QED
    BY <1>4, <2>1, <2>2 DEF OwnKind
<1> QED
  BY <1>1, <1>3, <1>5, <1>6 DEF MaintainExits

(* A plan is laid.                                                         *)
LEMMA PlanningKeepsSnapshot ==
    TypeOK /\ LogInv /\ SnapshotInv /\ (PlanKill \/ PlanRun) => SnapshotInv'
<1> SUFFICES ASSUME TypeOK, LogInv, SnapshotInv, PlanKill \/ PlanRun PROVE SnapshotInv'
  OBVIOUS
<1>1. /\ pc = "orders" /\ pc' = "act"
      /\ UNCHANGED <<seen, seenReserved, held, resting, order, nPos, nOrd, owner>>
  BY DEF PlanKill, PlanRun, StartActing, venueVars
<1>2. OneExitEach'
  BY <1>1 DEF SnapshotInv, OneExitEach, ExitOrders
<1>3. LogIsOld'
  BY <1>1 DEF SnapshotInv, LogIsOld, OwnKind
<1>4. CASE PlanKill
  <2>1. todo' = KillPlan
    BY <1>4 DEF PlanKill, StartActing
  <2>2. \A r \in todo' : r.op \in {"bulk", "close"}
    BY <2>1 DEF KillPlan, When, Request
  <2>3. PlacesOwnKind' /\ OrphansAreOrphans'
    BY <1>1, <2>2 DEF PlacesOwnKind, OrphansAreOrphans
  <2> QED
    BY <1>2, <1>3, <2>3 DEF SnapshotInv
<1>5. CASE PlanRun
  <2>1. PICK M \in MatchPositions(book, seen) :
          \E att \in AssignCloseOrders(M, seen, ExitOrders) : \E n :
            StartActing(Plan(M, att, n), M)
    BY <1>5 DEF PlanRun
  <2>2. PICK att \in AssignCloseOrders(M, seen, ExitOrders) :
          \E n : StartActing(Plan(M, att, n), M)
    BY <2>1
  <2>3. PICK n : StartActing(Plan(M, att, n), M)
    BY <2>2
  <2>4. todo' = Plan(M, att, n)
    BY <2>3 DEF StartActing
  <2>5. PlacesOwnKind'
    BY <1>1, <2>4, PlanPlacesOwnKind DEF PlacesOwnKind, OwnKind
  <2>6. OrphansAreOrphans'
    <3> SUFFICES ASSUME NEW r \in Plan(M, att, n), r.op = "cancelOrphans", NEW o \in r.oids,
                        owner[o] # 0, order[o].pid \in held
                 PROVE  ~ Wanted(order[o].kind)
      BY <1>1, <2>4 DEF OrphansAreOrphans, Wanted
    <3>1. o \in ExitOrders \ { x[1] : x \in att }
      <4>1. \A p, X, at : r \notin CloseRequests(p, X, at)
        BY DEF CloseRequests, When, Request
      <4>2. \A t, p, X, at : r \notin StopRequests(t, p, X, at) /\ r \notin TargetRequests(t, p, X, at)
        BY DEF StopRequests, TargetRequests, Request
      <4>3. r \notin Maintained(M, att)
        <5>1. ASSUME NEW e, NEW X PROVE r \notin MaintainExits(e, X)
          BY <4>1, <4>2 DEF MaintainExits
        <5> QED
          BY <5>1 DEF Maintained
      <4>4. r \notin StrategyExits(M, att)
        BY <4>1 DEF StrategyExits
      <4>5. r \notin CancelRequest("cancelStale", 4, StaleEntries) /\ r \notin EntryPlacements(n)
        BY DEF CancelRequest, When, EntryPlacements, Request
      <4>6. r \in OrphanCancels(att)
        BY <4>3, <4>4, <4>5 DEF Plan
      <4> QED
        BY <4>6 DEF OrphanCancels, CancelRequest, When, Request
    <3>2. o \in Oids /\ o \in resting /\ order[o].pid = owner[o]
      BY <3>1, IdsAreIssued DEF ExitOrders, LogInv, RecordedOwnersAreTrue
    <3>3. owner[o] \in seen /\ owner[o] \in seenReserved
      BY <1>1, <3>2 DEF SnapshotInv, LogIsOld
    <3>4. MayHoldSettleOrder(owner[o])
      BY <3>3 DEF MayHoldSettleOrder
    <3> QED
      BY <3>1, <3>3, <3>4, RecordsAreAttributed DEF LogInv, SnapshotInv
  <2> QED
    BY <1>2, <1>3, <2>5, <2>6 DEF SnapshotInv
<1> QED
  BY <1>4, <1>5

(* Every step is one of these.                                             *)
LEMMA StepsOfTheSnapshot ==
    ASSUME TypeOK, SnapshotInv, [Next]_vars
    PROVE  NothingRests \/ OneRests \/ EndOfRun \/ ReadPositions \/ PlanKill \/ PlanRun
<1>a. ASSUME UNCHANGED venueVars
      PROVE  resting' \subseteq resting /\ held' \subseteq held /\ UNCHANGED <<nPos, order, nOrd>>
  BY <1>a DEF venueVars
<1>b. ASSUME NEW r, Done(r)
      PROVE  FewerRequests /\ pc = "act" /\ UNCHANGED <<pc, seen, seenReserved>> /\ todo' \subseteq todo
  BY <1>b DEF Done, FewerRequests
<1>c. ASSUME UNCHANGED runVars
      PROVE  FewerRequests /\ UNCHANGED <<todo, owner, pc, seen, seenReserved>>
  BY <1>c DEF runVars, FewerRequests
<1>d. ASSUME NEW x, RemoveOrders(x) \/ ClosePosition(x) \/ ExitFills(x) \/ LeaveStub(x)
      PROVE  resting' \subseteq resting /\ held' \subseteq held /\ UNCHANGED <<nPos, order, nOrd>>
  BY <1>d DEF RemoveOrders, ClosePosition, ExitFills, LeaveStub
<1>e. ASSUME todo' = todo PROVE FewerRequests
  BY <1>e DEF FewerRequests
<1>1. ASSUME NEW r \in todo, DoCancel(r) \/ CancelsPartly(r) \/ DoClose(r) \/ CallFails(r)
      PROVE  NothingRests
  <2>1. Done(r) /\ owner' = owner
    BY <1>1 DEF DoCancel, CancelsPartly, DoClose, CallFails
  <2>2. resting' \subseteq resting /\ held' \subseteq held /\ UNCHANGED <<nPos, order, nOrd>>
    BY <1>1, <1>a, <1>d DEF DoCancel, CancelsPartly, DoClose, CallFails
  <2> QED
    BY <1>b, <2>1, <2>2 DEF NothingRests
<1>2. ASSUME NEW r \in todo, DoPlaceExit(r) PROVE NothingRests \/ OneRests
  <2>1. CASE Accepts(r.pid)
    <3> DEFINE kind == IF r.op = "stop" THEN "STOP" ELSE "LIMIT"
               rec  == [kind |-> kind, pid |-> r.pid, trade |-> 0, level |-> r.level]
    <3>1. /\ r.op \in {"stop", "limit"} /\ Done(r) /\ RestOrder(rec)
          /\ owner' = [owner EXCEPT ![nOrd + 1] = r.pid]
      BY <1>2, <2>1 DEF DoPlaceExit, RestExit
    <3>2. rec \in Orders
      <4>1. r.pid \in Nat /\ r.level \in Nat
        BY SettleVenueAssumption DEF TypeOK, RunTypeOK, RequestOK
      <4> QED
        BY <4>1 DEF Orders, ExitKinds
    <3>3. r.pid \in seen /\ OwnKind(kind)
      BY <3>1 DEF SnapshotInv, PlacesOwnKind
    <3>4. /\ RestOrder(rec) /\ Accepts(rec.pid)
          /\ owner' = [owner EXCEPT ![nOrd + 1] = rec.pid]
          /\ pc = "act" /\ rec.pid \in seen /\ OwnKind(rec.kind)
      BY <1>b, <2>1, <3>1, <3>3
    <3> HIDE DEF rec
    <3>5. OneRests
      BY <1>b, <3>1, <3>2, <3>4 DEF OneRests
    <3> QED
      BY <3>5
  <2>2. CASE ~ Accepts(r.pid)
    BY <1>2, <1>a, <1>b, <2>2 DEF DoPlaceExit, NothingRests
  <2> QED
    BY <2>1, <2>2
<1>3. ASSUME NEW r \in todo, DoRatchetCancel(r) PROVE NothingRests
  <2>1. FewerRequests /\ pc = "act"
    BY <1>3 DEF DoRatchetCancel, FewerRequests, Request
  <2>2. resting' \subseteq resting /\ held' \subseteq held /\ UNCHANGED <<nPos, order, nOrd>>
    BY <1>3, <1>a, <1>d DEF DoRatchetCancel
  <2>3. UNCHANGED <<owner, pc, seen, seenReserved>>
    BY <1>3 DEF DoRatchetCancel
  <2> QED
    BY <2>1, <2>2, <2>3 DEF NothingRests
<1>4. ASSUME NEW r \in todo, DoEnter(r) PROVE NothingRests \/ OneRests
  <2>1. CASE r.trade \in LimitTrades
    <3> DEFINE rec == [kind |-> "ENTRY", pid |-> 0, trade |-> r.trade, level |-> r.trade]
    <3>1. Done(r) /\ RestOrder(rec) /\ owner' = owner /\ rec.kind = "ENTRY"
      BY <1>4, <2>1 DEF DoEnter
    <3>2. rec \in Orders
      BY TradeBookAssumption DEF TypeOK, RunTypeOK, RequestOK, Orders
    <3> HIDE DEF rec
    <3>3. OneRests
      BY <1>b, <3>1, <3>2 DEF OneRests
    <3> QED
      BY <3>3
  <2>2. CASE r.trade \notin LimitTrades
    BY <1>4, <1>b, <2>2 DEF DoEnter, OpenPosition, NothingRests
  <2> QED
    BY <2>1, <2>2
<1>5. ASSUME NEW r \in todo, AnswerLost(r) PROVE NothingRests \/ OneRests
  <2>1. CASE r.op = "ratchet" /\ RemoveOrders(r.oids)
    BY <1>5, <1>b, <1>d, <2>1 DEF AnswerLost, NothingRests
  <2>2. CASE Accepts(r.pid) /\ RestExit(IF r.op = "stop" THEN "STOP" ELSE "LIMIT", r)
    <3> DEFINE kind == IF r.op = "stop" THEN "STOP" ELSE "LIMIT"
               rec  == [kind |-> kind, pid |-> r.pid, trade |-> 0, level |-> r.level]
    <3>1. Done(r) /\ RestOrder(rec) /\ owner' = owner /\ Accepts(rec.pid)
      BY <1>5, <2>2 DEF AnswerLost, RestExit
    <3>2. rec \in Orders
      <4>1. r.pid \in Nat /\ r.level \in Nat
        BY SettleVenueAssumption DEF TypeOK, RunTypeOK, RequestOK
      <4> QED
        BY <4>1 DEF Orders, ExitKinds
    <3> HIDE DEF rec
    <3>3. OneRests
      BY <1>b, <3>1, <3>2 DEF OneRests
    <3> QED
      BY <3>3
  <2> QED
    BY <1>5, <2>1, <2>2 DEF AnswerLost
<1>6. CASE PlanHalt \/ Finish \/ Crash
  BY <1>6 DEF PlanHalt, Finish, Crash, EndOfRun
<1>7. CASE Bar \/ BarQuiet \/ RunAgain
  <2>1. UNCHANGED <<owner, pc, seen, seenReserved, todo>> /\ UNCHANGED venueVars
    BY <1>7 DEF Bar, BarQuiet, NewBar, RunAgain
  <2> QED
    BY <1>a, <1>e, <2>1 DEF NothingRests
<1>8. CASE Replayed \/ KillRaised \/ UNCHANGED vars
  <2>1. UNCHANGED venueVars /\ UNCHANGED runVars
    BY <1>8 DEF Replayed, KillRaised, vars
  <2> QED
    BY <1>a, <1>c, <2>1 DEF NothingRests
<1>9. CASE ExitFilled \/ StubLeft \/ ManualCancel \/ ManualClose
  <2>1. UNCHANGED runVars
    BY <1>9 DEF ExitFilled, StubLeft, Filled, ManualCancel, ManualClose, ByHand
  <2>2. resting' \subseteq resting /\ held' \subseteq held /\ UNCHANGED <<nPos, order, nOrd>>
    BY <1>9, <1>d DEF ExitFilled, StubLeft, Filled, ManualCancel, ManualClose, ByHand
  <2> QED
    BY <1>c, <2>1, <2>2 DEF NothingRests
<1>10. CASE EntryFilled
  <2>1. UNCHANGED runVars /\ \E o \in EntryOrders : EntryFills(o)
    BY <1>10 DEF EntryFilled, Filled
  <2> QED
    BY <1>c, <2>1 DEF NothingRests, EntryFills, OpenPosition
<1>11. CASE ManualExit
  <2>1. PICK p \in held, kind \in ExitKinds, l \in Levels :
          Accepts(p) /\ ByHand(RestOrder([kind |-> kind, pid |-> p, trade |-> 0, level |-> l]))
    BY <1>11 DEF ManualExit
  <2> DEFINE rec == [kind |-> kind, pid |-> p, trade |-> 0, level |-> l]
  <2>2. RestOrder(rec) /\ Accepts(rec.pid) /\ UNCHANGED runVars
    BY <2>1 DEF ByHand
  <2>3. rec \in Orders
    <3>1. p \in Nat /\ l \in Nat
      BY TradeBookAssumption DEF TypeOK, VenueTypeOK
    <3> QED
      BY <3>1 DEF Orders
  <2> HIDE DEF rec
  <2> QED
    BY <1>c, <2>2, <2>3 DEF OneRests
<1>12. CASE LogLost
  <2>1. UNCHANGED <<pc, seen, seenReserved, todo>> /\ UNCHANGED venueVars /\ owner' = [o \in Oids |-> 0]
    BY <1>12 DEF LogLost
  <2> QED
    BY <1>a, <1>e, <2>1 DEF NothingRests
<1> QED
  BY <1>1, <1>2, <1>3, <1>4, <1>5, <1>6, <1>7, <1>8, <1>9, <1>10, <1>11, <1>12 DEF Next, DoNext

LEMMA SnapshotInvariant == Spec => []SnapshotInv
<1>1. Init => SnapshotInv
  BY DEF Init, VenueInit, SnapshotInv, OneExitEach, ExitOrders, LogIsOld, PlacesOwnKind, OrphansAreOrphans
<1>2. TypeOK /\ LogInv /\ SnapshotInv /\ [Next]_vars => SnapshotInv'
  BY StepsOfTheSnapshot, NothingRestsKeepsSnapshot, OneRestsKeepsSnapshot, ReadingKeepsSnapshot,
     EndingKeepsSnapshot, PlanningKeepsSnapshot
<1> QED
  BY <1>1, <1>2, TypeCorrect, LogInvariant, PTL DEF Spec

(* A recorded exit is never cancelled as an orphan while its position is   *)
(* open and the strategy wants an exit of that kind, whatever else rests,  *)
(* was lost or was done by hand (_assign_close_orders, cancel_orphans).    *)
THEOREM OrphansHaveNobody == Spec => []OrphansAreOrphans
<1>1. SnapshotInv => OrphansAreOrphans
  BY DEF SnapshotInv
<1> QED
  BY <1>1, SnapshotInvariant, PTL

(***************************************************************************)
(* The order of the requests.                                              *)
(***************************************************************************)

LEMMA Places ==
    ASSUME NEW a \in Int, NEW b \in Int, NEW c \in Int, NEW d \in Int
    PROVE  /\ <<a, b, c, d>> \in Seq(Int) /\ Len(<<a, b, c, d>>) = 4
           /\ \A k \in Int : <<a, b, c, d, k>> \in [1..5 -> Int]
  OBVIOUS

LEMMA LongerPlaces ==
    ASSUME NEW at \in Seq(Int), Len(at) = 4, NEW k \in Int
    PROVE  /\ at \o <<k>> \in [1..5 -> Int]
           /\ \A i \in 1..4 : (at \o <<k>>)[i] = at[i]
           /\ (at \o <<k>>)[5] = k
<1> DEFINE s == <<k>>
           w == at \o s
<1>1. s \in Seq(Int) /\ Len(s) = 1 /\ s[1] = k
  OBVIOUS
<1> HIDE DEF s
<1>2. w \in Seq(Int)
  BY <1>1, ConcatProperties
<1>3. Len(w) = Len(at) + Len(s)
  BY <1>1, ConcatProperties
<1>4. \A i \in 1 .. Len(at) + Len(s) : w[i] = IF i <= Len(at) THEN at[i] ELSE s[i - Len(at)]
  BY <1>1, ConcatProperties
<1> HIDE DEF w
<1>5. w \in [1..Len(w) -> Int]
  BY <1>2, LenProperties
<1>6. w \in [1..5 -> Int]
  BY <1>1, <1>3, <1>5
<1>7. ASSUME NEW i \in 1..4 PROVE w[i] = at[i]
  <2>1. i \in 1 .. Len(at) + Len(s) /\ i <= Len(at)
    BY <1>1
  <2> QED
    BY <1>4, <2>1
<1>8. w[5] = k
  <2>1. 5 \in 1 .. Len(at) + Len(s) /\ ~ (5 <= Len(at)) /\ 5 - Len(at) = 1
    BY <1>1
  <2>2. w[5] = s[5 - Len(at)]
    BY <1>4, <2>1
  <2> QED
    BY <1>1, <2>1, <2>2
<1> QED
  BY <1>6, <1>7, <1>8 DEF w, s

LEMMA PlacesOfAPair ==
    ASSUME NEW at \in Seq(Int), Len(at) = 4
    PROVE  at \o <<0>> \in [1..5 -> Int] /\ at \o <<1>> \in [1..5 -> Int]
<1> DEFINE longer(k) == at \o <<k>> \in [1..5 -> Int]
<1>1. \A k \in Int : longer(k)
  BY LongerPlaces
<1>2. 0 \in Int /\ 1 \in Int
  OBVIOUS
<1> HIDE DEF longer
<1>3. longer(0) /\ longer(1)
  BY <1>1, <1>2
<1> QED
  BY <1>3 DEF longer

LEMMA BeforeIsAsymmetric ==
    ASSUME NEW a \in [1..5 -> Int], NEW b \in [1..5 -> Int], Before(a, b)
    PROVE  ~ Before(b, a)
<1> SUFFICES ASSUME Before(b, a) PROVE FALSE
  OBVIOUS
<1>1. PICK i \in 1..5 : a[i] < b[i] /\ \A j \in 1..(i - 1) : a[j] = b[j]
  BY DEF Before
<1>2. PICK k \in 1..5 : b[k] < a[k] /\ \A j \in 1..(k - 1) : b[j] = a[j]
  BY DEF Before
<1>3. i \in Int /\ k \in Int /\ 1 <= i /\ 1 <= k
  OBVIOUS
<1>4. CASE i < k
  <2>1. i \in 1..(k - 1)
    BY <1>3, <1>4
  <2>2. b[i] = a[i]
    BY <1>2, <2>1
  <2> QED
    BY <1>1, <2>2
<1>5. CASE k < i
  <2>1. k \in 1..(i - 1)
    BY <1>3, <1>5
  <2>2. b[k] = a[k]
    BY <1>1, <2>1
  <2> QED
    BY <1>2, <2>2
<1>6. CASE i = k
  BY <1>1, <1>2, <1>6
<1> QED
  BY <1>3, <1>4, <1>5, <1>6

(* A request of a plan has its place.                                      *)
HasItsPlace(r) ==
    /\ r.at \in [1..5 -> Int]
    /\ r.op = "enter" => r.at[1] = 5
    /\ r.op = "cancelStale" => r.at[1] = 4

LEMMA CloseRequestsHavePlaces ==
    ASSUME NEW p, NEW X, NEW at \in Seq(Int), Len(at) = 4,
           NEW r \in CloseRequests(p, X, at)
    PROVE  HasItsPlace(r)
<1>1. r.at \in { at \o <<0>>, at \o <<1>> } /\ r.op \in {"cancelExits", "close"}
  BY DEF CloseRequests, When, Request
<1> QED
  BY <1>1, PlacesOfAPair DEF HasItsPlace

LEMMA MaintainExitsHavePlaces ==
    ASSUME NEW e \in Nat \X Nat \X Nat, NEW X, NEW r \in MaintainExits(e, X)
    PROVE  HasItsPlace(r)
<1> DEFINE at == <<1, SideRank(e[2]), e[1], e[2]>>
<1>1. at \in Seq(Int) /\ Len(at) = 4
  <2> DEFINE s == SideRank(e[2])
             c == e[1]
             t == e[2]
  <2>1. s \in Int /\ c \in Int /\ t \in Int
    BY DEF SideRank
  <2> HIDE DEF s, c, t
  <2>2. <<1, s, c, t>> \in Seq(Int) /\ Len(<<1, s, c, t>>) = 4
    BY <2>1, Places
  <2> QED
    BY <2>2 DEF s, c, t
<1>2. CASE r \in CloseRequests(e[3], X, at)
  <2> HIDE DEF at
  <2> QED
    BY <1>1, <1>2, CloseRequestsHavePlaces
<1>3. CASE r \in StopRequests(e[2], e[3], X, at) \cup TargetRequests(e[2], e[3], X, at)
  <2> HIDE DEF at
  <2>1. r.at \in { at \o <<0>>, at \o <<1>> } /\ r.op \in {"stop", "ratchet", "limit"}
    BY <1>3 DEF StopRequests, TargetRequests, Request
  <2>2. at \o <<0>> \in [1..5 -> Int] /\ at \o <<1>> \in [1..5 -> Int]
    BY <1>1, PlacesOfAPair
  <2> QED
    BY <2>1, <2>2 DEF HasItsPlace
<1> QED
  BY <1>2, <1>3 DEF MaintainExits

LEMMA PlansHavePlaces ==
    ASSUME TypeOK, NEW M \in MatchPositions(book, seen), NEW att, NEW n,
           NEW r \in Plan(M, att, n)
    PROVE  HasItsPlace(r)
<1>1. book \subseteq Nat /\ seen \subseteq Nat /\ Trades \subseteq Nat
  BY TradeBookAssumption, SettleVenueAssumption
     DEF TypeOK, BookTypeOK, RunTypeOK, Trades, Pids
<1>2. CASE r \in Maintained(M, att)
  <2>1. PICK e \in M : r \in MaintainExits(e, ExitsOf(att, e[3]))
    BY <1>2 DEF Maintained
  <2>2. e \in Nat \X Nat \X Nat
    BY <1>1, MatchTyped
  <2> QED
    BY <2>1, <2>2, MaintainExitsHavePlaces
<1>3. CASE r \in StrategyExits(M, att)
  <2>1. PICK p \in LiveOnly(M, seen) :
          r \in CloseRequests(p, ExitsOf(att, p), <<2, SideRank(tradeOf[p]), p, 0>>)
    BY <1>3 DEF StrategyExits
  <2> DEFINE at == <<2, SideRank(tradeOf[p]), p, 0>>
  <2>2. at \in Seq(Int) /\ Len(at) = 4
    <3> DEFINE s == SideRank(tradeOf[p])
    <3>1. s \in Int /\ p \in Int
      BY <1>1 DEF SideRank, LiveOnly
    <3> HIDE DEF s
    <3>2. <<2, s, p, 0>> \in Seq(Int) /\ Len(<<2, s, p, 0>>) = 4
      BY <3>1, Places
    <3> QED
      BY <3>2 DEF s
  <2> HIDE DEF at
  <2> QED
    BY <2>1, <2>2, CloseRequestsHavePlaces DEF at
<1>4. CASE r \in OrphanCancels(att)
  <2>1. r.at = <<3, 0, 0, 0, 0>> /\ r.op = "cancelOrphans"
    BY <1>4 DEF OrphanCancels, CancelRequest, When, Request
  <2> QED
    BY <2>1, Places DEF HasItsPlace
<1>5. CASE r \in CancelRequest("cancelStale", 4, StaleEntries)
  <2>1. r.at = <<4, 0, 0, 0, 0>> /\ r.op = "cancelStale"
    BY <1>5 DEF CancelRequest, When, Request
  <2> QED
    BY <2>1, Places DEF HasItsPlace
<1>6. CASE r \in EntryPlacements(n)
  <2>1. PICK t \in FirstToPlace(n) : r = Request("enter", EntryAt(t), 0, {}, t, 0)
    BY <1>6 DEF EntryPlacements
  <2>2. t \in Int
    BY <1>1 DEF FirstToPlace, ToPlace, TypeOK, BookTypeOK
  <2>3. r.at = <<5, IF t \in pending THEN 0 ELSE 1, t, 0, 0>> /\ r.op = "enter"
    BY <2>1 DEF EntryAt, Request
  <2> QED
    BY <2>2, <2>3, Places DEF HasItsPlace
<1> QED
  BY <1>2, <1>3, <1>4, <1>5, <1>6 DEF Plan

LEMMA PlacesInvariant == Spec => []InTheirPlace
<1>1. Init => InTheirPlace
  BY DEF Init, InTheirPlace
<1>2. TypeOK /\ SnapshotInv /\ InTheirPlace /\ [Next]_vars => InTheirPlace'
  <2> SUFFICES ASSUME TypeOK, SnapshotInv, InTheirPlace, [Next]_vars, NEW r \in todo'
               PROVE  HasItsPlace(r)
    BY DEF InTheirPlace, HasItsPlace
  <2>1. ASSUME NEW q \in todo PROVE HasItsPlace(q)
    BY DEF InTheirPlace, HasItsPlace
  <2>2. CASE NothingRests
    BY <2>1, <2>2 DEF NothingRests, FewerRequests, HasItsPlace
  <2>3. CASE OneRests \/ EndOfRun \/ ReadPositions
    BY <2>1, <2>3 DEF OneRests, EndOfRun, GoIdle, ReadPositions
  <2>4. CASE PlanKill
    <3>1. r \in KillPlan
      BY <2>4 DEF PlanKill, StartActing
    <3>2. r = Request("bulk", <<0, 0, 0, 0, 0>>, 0, resting, 0, 0)
          \/ \E p \in seen : r = Request("close", <<1, 0, p, 0, 0>>, p, {}, 0, 0)
      BY <3>1 DEF KillPlan, When
    <3>3. /\ r.op \in {"bulk", "close"}
          /\ r.at = <<0, 0, 0, 0, 0>> \/ \E p \in seen : r.at = <<1, 0, p, 0, 0>>
      BY <3>2 DEF Request
    <3>4. seen \subseteq Int
      BY SettleVenueAssumption DEF TypeOK, RunTypeOK, Pids
    <3>5. <<0, 0, 0, 0, 0>> \in [1..5 -> Int] /\ \A p \in seen : <<1, 0, p, 0, 0>> \in [1..5 -> Int]
      BY <3>4, Places
    <3> QED
      BY <3>3, <3>5 DEF HasItsPlace
  <2>5. CASE PlanRun
    BY <2>5, PlansHavePlaces DEF PlanRun, StartActing
  <2> QED
    BY <2>2, <2>3, <2>4, <2>5, StepsOfTheSnapshot
<1> QED
  BY <1>1, <1>2, TypeCorrect, SnapshotInvariant, PTL DEF Spec

(***************************************************************************)
(* What the run owes, step by step.                                        *)
(***************************************************************************)

(* An exit is in place when one of the position's own exits is.            *)
LEMMA InPlaceAmongItsExits ==
    ASSUME NEW p, NEW t
    PROVE  ExitInPlace(p, t) <=>
             IF UsesStop
             THEN stop[t] > 0 =>
                    \E o \in ExitsAt(p) : order[o].kind = "STOP" /\ ~ Moved(order[o].level, stop[t])
             ELSE UsesTarget => \E o \in ExitsAt(p) : order[o].kind = "LIMIT"
  BY DEF ExitInPlace, ExitsAt, ExitOrders, ExitKinds

(* What touches neither a position, nor its exits, nor its requests leaves *)
(* it as well served as it was.                                            *)
LEMMA ServedFrame ==
    ASSUME NEW t, NEW p, Served(t, p), UNCHANGED bookVars,
           RequestsFor(p)' = RequestsFor(p), ExitsAt(p)' = ExitsAt(p),
           \A o \in ExitsAt(p) : order'[o] = order[o],
           p \in held' <=> p \in held
    PROVE  Served(t, p)'
<1>1. stop' = stop /\ price' = price
  BY DEF bookVars
<1>2. Breached(t)' <=> Breached(t)
  BY <1>1 DEF Breached
<1>3. WillBeClosed(p) => WillBeClosed(p)'
  <2> SUFFICES ASSUME WillBeClosed(p) PROVE WillBeClosed(p)'
    OBVIOUS
  <2>1. PICK c \in RequestsFor(p) :
          /\ c.op = "close" /\ c.pid = p
          /\ \A r \in RequestsFor(p) \ {c} : r.op = "cancelExits" /\ Before(r.at, c.at)
          /\ ExitsAt(p) # {} =>
               \E r \in RequestsFor(p) : r.op = "cancelExits" /\ ExitsAt(p) \subseteq r.oids
    BY DEF WillBeClosed, RequestsFor
  <2>2. c \in todo'
    BY DEF RequestsFor
  <2> QED
    BY <2>1, <2>2 DEF WillBeClosed, Before
<1>4. WillBeProtected(p, t) => WillBeProtected(p, t)'
  <2> SUFFICES ASSUME WillBeProtected(p, t) PROVE WillBeProtected(p, t)'
    OBVIOUS
  <2>1. PICK r \in RequestsFor(p) :
        /\ RequestsFor(p) = {r}
        /\ \/ r.op = "stop" /\ UsesStop /\ r.level = stop[t] /\ ExitsAt(p) = {}
           \/ r.op = "limit" /\ ~ UsesStop /\ ExitsAt(p) = {}
           \/ r.op = "ratchet" /\ UsesStop /\ r.level = stop[t] /\ ExitsAt(p) = r.oids
    BY DEF WillBeProtected, RequestsFor
  <2>2. r \in todo'
    BY DEF RequestsFor
  <2> QED
    BY <1>1, <2>1, <2>2 DEF WillBeProtected
<1>5. ExitInPlace(p, t) => ExitInPlace(p, t)'
  <2>1. ExitInPlace(p, t)' <=>
          IF UsesStop
          THEN stop'[t] > 0 =>
                 \E o \in ExitsAt(p)' : order'[o].kind = "STOP" /\ ~ Moved(order'[o].level, stop'[t])
          ELSE UsesTarget => \E o \in ExitsAt(p)' : order'[o].kind = "LIMIT"
    BY DEF ExitInPlace, ExitsAt, ExitOrders, ExitKinds, Moved, Abs
  <2> QED
    BY <1>1, <2>1, InPlaceAmongItsExits
<1> QED
  BY <1>2, <1>3, <1>4, <1>5 DEF Served


(* A request the exchange answers as the code expects it to.               *)
Does(r) == DoCancel(r) \/ DoClose(r) \/ DoPlaceExit(r) \/ DoRatchetCancel(r) \/ DoEnter(r)

(* A run goes on undisturbed only by its own requests.                     *)
LEMMA StepsOfTheRun ==
    ASSUME [Next]_vars
    PROVE  \/ pc' = "idle"
           \/ disturbed' /\ UNCHANGED <<pc, seen, matched>>
           \/ ReadPositions \/ PlanKill \/ PlanRun
           \/ \E r \in todo : Does(r)
           \/ UNCHANGED <<bookVars, venueVars, runVars, disturbed>>
<1>a. ASSUME UNCHANGED runVars PROVE UNCHANGED <<pc, seen, matched>>
  BY <1>a DEF runVars
<1>1. ASSUME NEW r \in todo, CancelsPartly(r) \/ CallFails(r) \/ AnswerLost(r)
      PROVE  disturbed' /\ UNCHANGED <<pc, seen, matched>>
  <2>1. Done(r) /\ Fault
    BY <1>1 DEF CancelsPartly, CallFails, AnswerLost
  <2> QED
    BY <2>1 DEF Done, Fault
<1>2. CASE PlanHalt \/ Finish \/ Crash
  BY <1>2 DEF PlanHalt, Finish, Crash, GoIdle
<1>3. CASE Bar \/ BarQuiet \/ RunAgain \/ Replayed
  BY <1>3 DEF Bar, BarQuiet, NewBar, RunAgain, Replayed, runVars
<1>4. CASE ExitFilled \/ EntryFilled \/ StubLeft
  <2>1. disturbed' = (pc # "idle") /\ UNCHANGED runVars
    BY <1>4 DEF ExitFilled, EntryFilled, StubLeft, Filled
  <2> QED
    BY <1>a, <2>1
<1>5. CASE ManualCancel \/ ManualClose \/ ManualExit
  <2>1. disturbed' = (pc # "idle") /\ UNCHANGED runVars
    BY <1>5 DEF ManualCancel, ManualClose, ManualExit, ByHand, Fault
  <2> QED
    BY <1>a, <2>1
<1>6. CASE KillRaised \/ UNCHANGED vars
  BY <1>6 DEF KillRaised, vars, ghosts
<1>7. CASE LogLost
  BY <1>7 DEF LogLost, Fault
<1> QED
  BY <1>1, <1>2, <1>3, <1>4, <1>5, <1>6, <1>7 DEF Next, DoNext, Does

(* The run's own requests change none of what it decided by.               *)
LEMMA DoesFrame ==
    ASSUME TypeOK, LogInv, NEW r \in todo, Does(r)
    PROVE  /\ UNCHANGED bookVars /\ UNCHANGED <<pc, seen, matched, disturbed>>
           /\ \A o \in resting : order'[o] = order[o]
           /\ \A q \in todo' \ {r} : q \in todo \/ (r.op = "ratchet" /\ q.op = "stop"
                                                     /\ q.pid = r.pid /\ q.oids = {})
           /\ todo \ {r} \subseteq todo'
           /\ \A o \in resting' : o \in resting \/ o = nOrd + 1
           /\ nOrd + 1 \notin resting
           /\ held' \subseteq held \cup {nPos + 1}
<1>1. /\ UNCHANGED bookVars /\ UNCHANGED <<pc, seen, matched, disturbed>>
  BY DEF Does, DoCancel, DoClose, DoPlaceExit, DoRatchetCancel, DoEnter, Done, ghosts
<1>2. /\ \A q \in todo' \ {r} : q \in todo \/ (r.op = "ratchet" /\ q.op = "stop"
                                               /\ q.pid = r.pid /\ q.oids = {})
      /\ todo \ {r} \subseteq todo'
  <2>1. CASE Done(r)
    BY <2>1 DEF Done
  <2>2. CASE DoRatchetCancel(r)
    BY <2>2 DEF DoRatchetCancel, Request
  <2> QED
    BY <2>1, <2>2 DEF Does, DoCancel, DoClose, DoPlaceExit, DoEnter
<1>3. resting \subseteq 1..nOrd /\ nOrd \in Nat /\ nOrd + 1 \notin resting
  BY IdsAreIssued
<1>4. /\ \A o \in resting : order'[o] = order[o]
      /\ \A o \in resting' : o \in resting \/ o = nOrd + 1
      /\ held' \subseteq held \cup {nPos + 1}
  <2>1. ASSUME NEW x, RemoveOrders(x)
        PROVE  order' = order /\ resting' \subseteq resting /\ held' = held
    BY <2>1 DEF RemoveOrders
  <2>2. ASSUME NEW x, RestOrder(x)
        PROVE  /\ \A o \in resting : order'[o] = order[o]
               /\ resting' = resting \cup {nOrd + 1} /\ held' = held
    BY <1>3, <2>2 DEF RestOrder, TypeOK, VenueTypeOK
  <2>3. ASSUME UNCHANGED venueVars
        PROVE  order' = order /\ resting' \subseteq resting /\ held' = held
    BY <2>3 DEF venueVars
  <2>4. CASE DoCancel(r)
    BY <2>1, <2>4 DEF DoCancel
  <2>5. CASE DoClose(r)
    BY <2>3, <2>5 DEF DoClose, ClosePosition
  <2>6. CASE DoPlaceExit(r)
    BY <2>2, <2>3, <2>6 DEF DoPlaceExit, RestExit
  <2>7. CASE DoRatchetCancel(r)
    BY <2>1, <2>3, <2>7 DEF DoRatchetCancel
  <2>8. CASE DoEnter(r)
    BY <2>2, <2>8 DEF DoEnter, OpenPosition
  <2> QED
    BY <2>4, <2>5, <2>6, <2>7, <2>8 DEF Does
<1> QED
  BY <1>1, <1>2, <1>3, <1>4

(* A request for somebody else leaves a matched position as it is.         *)
LEMMA OthersStayServed ==
    ASSUME TypeOK, LogInv, SnapshotInv, NEW r \in todo, Does(r), r.op # "bulk", LeavesAlone(r),
           NEW e \in matched, e[3] \in seen, e[3] # r.pid, Served(e[2], e[3])
    PROVE  Served(e[2], e[3])'
<1> DEFINE p == e[3]
<1>1. /\ UNCHANGED bookVars
      /\ \A o \in resting : order'[o] = order[o]
      /\ \A q \in todo' \ {r} : q \in todo \/ q.pid = r.pid
      /\ todo \ {r} \subseteq todo'
  BY DoesFrame
<1>2. RequestsFor(p)' = RequestsFor(p)
  BY <1>1 DEF RequestsFor
<1>3. ASSUME NEW x, RemoveOrders(x), x \subseteq r.oids
      PROVE  ExitsAt(p)' = ExitsAt(p)
  <2>1. ASSUME NEW o \in ExitsAt(p) PROVE o \notin x
    BY <1>3 DEF LeavesAlone, ExitsAt
  <2> QED
    BY <1>3, <2>1 DEF RemoveOrders, ExitsAt, ExitOrders
<1>4. ASSUME NEW rec, RestOrder(rec), rec.kind = "ENTRY" \/ rec.pid # p
      PROVE  ExitsAt(p)' = ExitsAt(p)
  <2>1. nOrd + 1 \in Oids /\ nOrd + 1 \notin resting
    <3>1. nOrd \in Nat /\ MaxOrd \in Nat /\ nOrd < MaxOrd /\ resting \subseteq 1..nOrd
      BY <1>4, IdsAreIssued, SettleVenueAssumption DEF RestOrder
    <3> QED
      BY <3>1 DEF Oids
  <2>2. /\ order'[nOrd + 1] = rec /\ \A o \in resting : order'[o] = order[o]
        /\ resting' = resting \cup {nOrd + 1}
    BY <1>1, <1>4, <2>1 DEF RestOrder, TypeOK, VenueTypeOK
  <2> QED
    BY <1>4, <2>1, <2>2 DEF ExitsAt, ExitOrders, ExitKinds
<1>5. ASSUME UNCHANGED <<resting, order>> PROVE ExitsAt(p)' = ExitsAt(p)
  BY <1>5 DEF ExitsAt, ExitOrders
<1>6. p \in 1..nPos /\ nPos \in Nat
  BY IdsAreIssued DEF SnapshotInv, LogIsOld
<1>7. CASE DoCancel(r)
  <2>1. RemoveOrders(r.oids)
    BY <1>7 DEF DoCancel
  <2>2. held' = held
    BY <2>1 DEF RemoveOrders
  <2> QED
    BY <1>1, <1>2, <1>3, <2>1, <2>2, ServedFrame DEF ExitsAt, ExitOrders
<1>8. CASE DoClose(r)
  <2>1. UNCHANGED <<resting, order>> /\ (p \in held' <=> p \in held)
    BY <1>8 DEF DoClose, ClosePosition, venueVars
  <2> QED
    BY <1>1, <1>2, <1>5, <2>1, ServedFrame DEF ExitsAt, ExitOrders
<1>9. CASE DoPlaceExit(r)
  <2>1. ExitsAt(p)' = ExitsAt(p)
    <3> DEFINE rec == [kind |-> IF r.op = "stop" THEN "STOP" ELSE "LIMIT",
                       pid |-> r.pid, trade |-> 0, level |-> r.level]
    <3>1. CASE Accepts(r.pid)
      <4>1. RestOrder(rec) /\ rec.pid # p
        BY <1>9, <3>1 DEF DoPlaceExit, RestExit
      <4> HIDE DEF rec
      <4> QED
        BY <1>4, <4>1
    <3>2. CASE ~ Accepts(r.pid)
      BY <1>5, <1>9, <3>2 DEF DoPlaceExit, venueVars
    <3> QED
      BY <3>1, <3>2
  <2>2. held' = held
    BY <1>9 DEF DoPlaceExit, RestExit, RestOrder, venueVars
  <2> QED
    BY <1>1, <1>2, <2>1, <2>2, ServedFrame DEF ExitsAt, ExitOrders
<1>10. CASE DoRatchetCancel(r)
  <2>1. RemoveOrders(r.oids) \/ UNCHANGED venueVars
    BY <1>10 DEF DoRatchetCancel
  <2>2. ExitsAt(p)' = ExitsAt(p) /\ held' = held
    BY <1>3, <1>5, <2>1 DEF RemoveOrders, venueVars
  <2> QED
    BY <1>1, <1>2, <2>2, ServedFrame DEF ExitsAt, ExitOrders
<1>11. CASE DoEnter(r)
  <2>1. CASE r.trade \in LimitTrades
    <3> DEFINE rec == [kind |-> "ENTRY", pid |-> 0, trade |-> r.trade, level |-> r.trade]
    <3>1. RestOrder(rec) /\ rec.kind = "ENTRY"
      BY <1>11, <2>1 DEF DoEnter
    <3> HIDE DEF rec
    <3>2. ExitsAt(p)' = ExitsAt(p) /\ held' = held
      BY <1>4, <3>1 DEF RestOrder
    <3> QED
      BY <1>1, <1>2, <3>2, ServedFrame DEF ExitsAt, ExitOrders
  <2>2. CASE r.trade \notin LimitTrades
    <3>1. UNCHANGED <<resting, order>> /\ held' = held \cup {nPos + 1}
      BY <1>11, <2>2 DEF DoEnter, OpenPosition
    <3>2. p \in held' <=> p \in held
      BY <1>6, <3>1
    <3> QED
      BY <1>1, <1>2, <1>5, <3>1, <3>2, ServedFrame DEF ExitsAt, ExitOrders
  <2> QED
    BY <2>1, <2>2
<1> QED
  BY <1>7, <1>8, <1>9, <1>10, <1>11 DEF Does

(* A market close is sent once nothing of its position rests.              *)
LEMMA ClosingServes ==
    ASSUME TypeOK, LogInv, SnapshotInv, InTheirPlace, NEW r \in todo, Does(r),
           NEW t, NEW p, r.pid = p, Breached(t), p \in held => WillBeClosed(p),
           p \in 1..nPos
    PROVE  p \notin held' \/ WillBeClosed(p)'
<1>1. /\ \A q \in todo' \ {r} : q \in todo \/ (r.op = "ratchet" /\ q.op = "stop"
                                                /\ q.pid = r.pid /\ q.oids = {})
      /\ todo \ {r} \subseteq todo' /\ held' \subseteq held \cup {nPos + 1}
  BY DoesFrame
<1>2. CASE p \notin held
  <2>1. p # nPos + 1
    BY IdsAreIssued
  <2> QED
    BY <1>1, <1>2, <2>1
<1>3. CASE p \in held
  <2>1. PICK c \in todo :
          /\ c.op = "close" /\ c.pid = p
          /\ \A q \in RequestsFor(p) \ {c} : q.op = "cancelExits" /\ Before(q.at, c.at)
          /\ ExitsAt(p) # {} =>
               \E q \in RequestsFor(p) : q.op = "cancelExits" /\ ExitsAt(p) \subseteq q.oids
    BY <1>3 DEF WillBeClosed
  <2>2. CASE r = c
    <3>1. DoClose(r) /\ IsNext(r)
      BY <2>1, <2>2 DEF Does, DoCancel, IsCancel, DoClose, DoPlaceExit, DoRatchetCancel, DoEnter, Done
    <3>2. ASSUME NEW q \in RequestsFor(p), q # c PROVE FALSE
      <4>1. Before(q.at, c.at) /\ Before(c.at, q.at) /\ q \in todo
        BY <2>1, <2>2, <3>1, <3>2 DEF IsNext, RequestsFor
      <4>2. q.at \in [1..5 -> Int] /\ c.at \in [1..5 -> Int]
        BY <4>1 DEF InTheirPlace
      <4> QED
        BY <4>1, <4>2, BeforeIsAsymmetric
    <3>3. ExitsAt(p) = {}
      BY <2>1, <3>2
    <3>4. Accepts(p)
      BY <1>3, <3>3 DEF Accepts, ReservedPids, ExitsAt
    <3> QED
      BY <3>1, <3>4 DEF DoClose, ClosePosition
  <2>3. CASE r # c
    <3>1. r.op = "cancelExits" /\ r \in RequestsFor(p)
      BY <2>1, <2>3 DEF RequestsFor
    <3>2. DoCancel(r) /\ RemoveOrders(r.oids) /\ todo' = todo \ {r}
      BY <3>1 DEF Does, DoCancel, DoClose, DoPlaceExit, DoRatchetCancel, DoEnter, Done
    <3>3. ExitsAt(p)' = ExitsAt(p) \ r.oids /\ RequestsFor(p)' = RequestsFor(p) \ {r}
      BY <3>2 DEF RemoveOrders, ExitsAt, ExitOrders, RequestsFor
    <3>4. c \in todo'
      BY <2>3, <3>2
    <3>5. \A q \in RequestsFor(p)' \ {c} : q.op = "cancelExits" /\ Before(q.at, c.at)
      BY <2>1, <3>3
    <3>6. ExitsAt(p)' # {} =>
            \E q \in RequestsFor(p)' : q.op = "cancelExits" /\ ExitsAt(p)' \subseteq q.oids
      BY <2>1, <3>3
    <3>7. WillBeClosed(p)'
      BY <2>1, <3>4, <3>5, <3>6 DEF WillBeClosed, Before
    <3> QED
      BY <3>7
  <2> QED
    BY <2>2, <2>3
<1> QED
  BY <1>2, <1>3

(* The one request for a position that is to be protected protects it, or  *)
(* makes room for the one that will.                                       *)
LEMMA ProtectingServes ==
    ASSUME TypeOK, LogInv, NEW r \in todo, Does(r), NEW t \in Trades, NEW p, r.pid = p,
           p \in held, WillBeProtected(p, t)
    PROVE  /\ p \in held'
           /\ (RequestsFor(p)' = {} /\ ExitInPlace(p, t)') \/ WillBeProtected(p, t)'
<1>1. /\ RequestsFor(p) = {r}
      /\ \/ r.op = "stop" /\ UsesStop /\ r.level = stop[t] /\ ExitsAt(p) = {}
         \/ r.op = "limit" /\ ~ UsesStop /\ ExitsAt(p) = {}
         \/ r.op = "ratchet" /\ UsesStop /\ r.level = stop[t] /\ ExitsAt(p) = r.oids
  <2>1. r \in RequestsFor(p)
    BY DEF RequestsFor
  <2> QED
    BY <2>1 DEF WillBeProtected
<1>2. stop' = stop /\ stop[t] \in Nat
  BY DoesFrame DEF bookVars, TypeOK, BookTypeOK
<1>3. CASE r.op \in {"stop", "limit"}
  <2> DEFINE kind == IF r.op = "stop" THEN "STOP" ELSE "LIMIT"
             rec  == [kind |-> kind, pid |-> p, trade |-> 0, level |-> r.level]
  <2>1. Accepts(p)
    BY <1>1, <1>3 DEF Accepts, ReservedPids, ExitsAt
  <2>2. DoPlaceExit(r) /\ RestOrder(rec) /\ todo' = todo \ {r}
    BY <1>3, <2>1 DEF Does, DoCancel, IsCancel, DoClose, DoPlaceExit, DoRatchetCancel, DoEnter, Done, RestExit
  <2>3. rec.kind = kind /\ rec.pid = p /\ rec.level = r.level
    OBVIOUS
  <2> HIDE DEF rec
  <2>4. nOrd + 1 \in Oids
    <3>1. nOrd \in Nat /\ MaxOrd \in Nat /\ nOrd < MaxOrd
      BY <2>2, IdsAreIssued, SettleVenueAssumption DEF RestOrder
    <3> QED
      BY <3>1 DEF Oids
  <2>5. order'[nOrd + 1] = rec /\ nOrd + 1 \in resting' /\ held' = held
    BY <2>2, <2>4 DEF RestOrder, TypeOK, VenueTypeOK
  <2>6. RequestsFor(p)' = {}
    BY <1>1, <2>2 DEF RequestsFor
  <2>7. ExitInPlace(p, t)'
    <3>1. CASE r.op = "stop"
      <4>1. ~ Moved(stop[t], stop[t])
        BY <1>2 DEF Moved, Abs
      <4> QED
        BY <1>1, <1>2, <2>3, <2>5, <3>1, <4>1 DEF ExitInPlace, Moved, Abs
    <3>2. CASE r.op = "limit"
      BY <1>1, <2>3, <2>5, <3>2 DEF ExitInPlace
    <3> QED
      BY <1>3, <3>1, <3>2
  <2> QED
    BY <2>5, <2>6, <2>7
<1>4. CASE r.op = "ratchet"
  <2>1. DoRatchetCancel(r) /\ r.oids \subseteq resting
    BY <1>1, <1>4 DEF Does, DoCancel, IsCancel, DoClose, DoPlaceExit, DoRatchetCancel, DoEnter, ExitsAt, ExitOrders
  <2> DEFINE new == Request("stop", r.at, r.pid, {}, 0, r.level)
  <2>2. RemoveOrders(r.oids) /\ todo' = (todo \ {r}) \cup {new}
    BY <2>1 DEF DoRatchetCancel
  <2>3. new.op = "stop" /\ new.pid = p /\ new.level = r.level
    BY DEF Request
  <2> HIDE DEF new
  <2>4. RequestsFor(p)' = {new} /\ new \in todo'
    BY <1>1, <2>2, <2>3 DEF RequestsFor
  <2>5. ExitsAt(p)' = {} /\ held' = held
    BY <1>1, <1>4, <2>2 DEF RemoveOrders, ExitsAt, ExitOrders
  <2>6. WillBeProtected(p, t)'
    BY <1>1, <1>2, <1>4, <2>3, <2>4, <2>5 DEF WillBeProtected
  <2> QED
    BY <2>5, <2>6
<1> QED
  BY <1>1, <1>3, <1>4

(* So the run's own requests keep what it owes.                            *)
LEMMA DoingKeepsRun ==
    ASSUME TypeOK, LogInv, SnapshotInv, InTheirPlace, RunInv, NEW r \in todo, Does(r)
    PROVE  RunInv'
<1>1. /\ UNCHANGED bookVars /\ UNCHANGED <<pc, seen, matched, disturbed>>
      /\ \A o \in resting : order'[o] = order[o]
      /\ \A q \in todo' \ {r} : q \in todo \/ (r.op = "ratchet" /\ q.op = "stop"
                                                /\ q.pid = r.pid /\ q.oids = {})
      /\ todo \ {r} \subseteq todo'
      /\ \A o \in resting' : o \in resting \/ o = nOrd + 1
      /\ nOrd + 1 \notin resting
  BY DoesFrame
<1>2. pc = "act"
  BY DEF Does, DoCancel, DoClose, DoPlaceExit, DoRatchetCancel, DoEnter, Done
<1>3. \A e \in matched : e[3] \in seen
  BY <1>2 DEF RunInv
<1>4. ASSUME ~ disturbed, NEW e \in matched PROVE Served(e[2], e[3])'
  <2>1. Served(e[2], e[3]) /\ r.op # "bulk" /\ LeavesAlone(r)
    BY <1>2, <1>4 DEF RunInv
  <2>2. CASE r.pid # e[3]
    BY <1>3, <2>1, <2>2, OthersStayServed
  <2>3. CASE r.pid = e[3]
    <3> DEFINE t == e[2]
               p == e[3]
    <3>1. p \in 1..nPos /\ t \in Trades
      BY <1>3 DEF SnapshotInv, LogIsOld, TypeOK, RunTypeOK
    <3>2. Breached(t)' <=> Breached(t)
      BY <1>1 DEF Breached, bookVars
    <3>3. CASE Breached(t)
      <4>1. p \in held => WillBeClosed(p)
        BY <2>1, <3>3 DEF Served
      <4>2. p \notin held' \/ WillBeClosed(p)'
        BY <2>3, <3>1, <3>3, <4>1, ClosingServes
      <4> QED
        BY <3>2, <3>3, <4>2 DEF Served
    <3>4. CASE ~ Breached(t)
      <4>1. p \in held /\ WillBeProtected(p, t)
        BY <2>1, <2>3, <3>4 DEF Served, RequestsFor
      <4>2. /\ p \in held'
            /\ (RequestsFor(p)' = {} /\ ExitInPlace(p, t)') \/ WillBeProtected(p, t)'
        BY <2>3, <3>1, <4>1, ProtectingServes
      <4> QED
        BY <3>2, <3>4, <4>2 DEF Served
    <3> QED
      BY <3>3, <3>4
  <2> QED
    BY <2>2, <2>3
<1>5. ASSUME ~ disturbed, NEW q \in todo' PROVE q.op = "bulk" \/ LeavesAlone(q)'
  <2>1. CASE q \in todo
    <3> SUFFICES ASSUME q.op # "bulk", NEW o \in q.oids, o \in ExitOrders', order'[o].pid # q.pid
                 PROVE  order'[o].pid \notin { e[3] : e \in matched' }
      BY DEF LeavesAlone
    <3>1. LeavesAlone(q)
      BY <1>2, <1>5, <2>1 DEF RunInv
    <3>2. o \in 1..nOrd /\ nOrd \in Nat
      BY <2>1, IdsAreIssued DEF LogInv, Issued
    <3>3. o \in resting /\ order'[o] = order[o]
      BY <1>1, <3>2 DEF ExitOrders
    <3>4. o \in ExitOrders /\ order[o].pid # q.pid
      BY <3>3 DEF ExitOrders
    <3> QED
      BY <1>1, <3>1, <3>3, <3>4 DEF LeavesAlone
  <2>2. CASE q \notin todo
    <3>1. q.oids = {}
      BY <1>1, <2>2
    <3> QED
      BY <3>1 DEF LeavesAlone
  <2> QED
    BY <2>1, <2>2
<1>6. ASSUME ~ disturbed, matched # {}, NEW q \in todo' PROVE q.op # "bulk"
  <2>1. \A x \in todo : x.op # "bulk"
    BY <1>2, <1>6 DEF RunInv
  <2> QED
    BY <1>1, <2>1
<1> QED
  BY <1>1, <1>2, <1>3, <1>4, <1>5, <1>6 DEF RunInv

(***************************************************************************)
(* What a plan owes.                                                       *)
(***************************************************************************)

(* When the log names every resting exit, the attribution is the truth: a  *)
(* paired position is attributed its own exits, all of them wanted.        *)
LEMMA AttributionIsTheTruth ==
    ASSUME TypeOK, LogInv, SnapshotInv, pc = "orders",
           \A o \in ExitOrders : owner[o] # 0, seenReserved = held \cap ReservedPids,
           NEW M \in MatchPositions(book, seen),
           NEW att \in AssignCloseOrders(M, seen, ExitOrders), NEW p \in seen
    PROVE  ExitsOf(att, p) = ExitsAt(p)
<1>1. ASSUME NEW q, NEW o \in ExitsOf(att, q) PROVE o \in ExitOrders /\ owner[o] = q
  BY AttributionHonoursTheLog
<1>2. ASSUME NEW o \in ExitOrders PROVE owner[o] # 0 /\ order[o].pid = owner[o] /\ o \in Oids
  BY IdsAreIssued DEF LogInv, RecordedOwnersAreTrue
<1>3. ASSUME NEW o \in ExitsOf(att, p) PROVE o \in ExitsAt(p)
  BY <1>1, <1>2 DEF ExitsAt
<1>4. ASSUME NEW o \in ExitsAt(p) PROVE o \in ExitsOf(att, p)
  <2>1. o \in ExitOrders /\ o \in resting /\ owner[o] = p
    BY <1>2 DEF ExitsAt, ExitOrders
  <2>2. p \in seenReserved /\ OwnKind(order[o].kind)
    BY <1>2, <2>1 DEF SnapshotInv, LogIsOld
  <2>3. Wanted(order[o].kind)
    BY <2>2 DEF OwnKind, Wanted
  <2>4. o \in { x[1] : x \in att }
    BY <1>2, <2>1, <2>2, <2>3, RecordsAreAttributed DEF MayHoldSettleOrder, LogInv, SnapshotInv
  <2>5. PICK x \in att : x[1] = o
    BY <2>4
  <2>6. o \in ExitsOf(att, x[2])
    BY <2>5 DEF ExitsOf
  <2>7. x[2] = p
    BY <1>1, <2>1, <2>6
  <2> QED
    BY <2>6, <2>7
<1> QED
  BY <1>3, <1>4

(* Who a request of a plan is for.                                         *)
LEMMA RequestsAreFor ==
    ASSUME NEW e, NEW X, NEW r \in MaintainExits(e, X)
    PROVE  r.pid = e[3]
  BY DEF MaintainExits, CloseRequests, When, StopRequests, TargetRequests, Request

LEMMA PlanFor ==
    ASSUME TypeOK, NEW M \in MatchPositions(book, seen), NEW att, NEW n, NEW e \in M
    PROVE  { r \in Plan(M, att, n) : r.pid = e[3] } = MaintainExits(e, ExitsOf(att, e[3]))
<1> DEFINE p == e[3]
           X == ExitsOf(att, p)
<1>1. p \in seen /\ p # 0
  BY MatchTyped, SettleVenueAssumption DEF TypeOK, RunTypeOK, Pids
<1>2. ASSUME NEW r \in MaintainExits(e, X) PROVE r \in Plan(M, att, n) /\ r.pid = p
  BY <1>2, RequestsAreFor DEF Plan, Maintained
<1>3. ASSUME NEW r \in Plan(M, att, n), r.pid = p PROVE r \in MaintainExits(e, X)
  <2>1. r \notin OrphanCancels(att)
    BY <1>1, <1>3 DEF OrphanCancels, CancelRequest, When, Request
  <2>2. r \notin CancelRequest("cancelStale", 4, StaleEntries)
    BY <1>1, <1>3 DEF CancelRequest, When, Request
  <2>3. r \notin EntryPlacements(n)
    BY <1>1, <1>3 DEF EntryPlacements, Request
  <2>4. r \notin StrategyExits(M, att)
    <3>1. ASSUME NEW q, NEW Y, NEW at, r \in CloseRequests(q, Y, at) PROVE r.pid = q
      BY <3>1 DEF CloseRequests, When, Request
    <3>2. p \notin LiveOnly(M, seen)
      BY DEF LiveOnly
    <3>3. ASSUME r \in StrategyExits(M, att) PROVE FALSE
      <4>1. PICK q \in LiveOnly(M, seen) :
              r \in CloseRequests(q, ExitsOf(att, q), <<2, SideRank(tradeOf[q]), q, 0>>)
        BY <3>3 DEF StrategyExits
      <4>2. r.pid = q
        BY <3>1, <4>1
      <4> QED
        BY <1>3, <3>2, <4>2
    <3> QED
      BY <3>3
  <2>5. PICK f \in M : r \in MaintainExits(f, ExitsOf(att, f[3]))
    BY <1>3, <2>1, <2>2, <2>3, <2>4 DEF Plan, Maintained
  <2>6. f[3] = e[3]
    BY <1>3, <2>5, RequestsAreFor
  <2>7. e = f
    BY <2>6, PairingIsOneToOne DEF Clash
  <2> QED
    BY <2>5, <2>7
<1> QED
  BY <1>2, <1>3

(* Requests for one position are ordered by their last place.              *)
LEMMA LaterPlaces ==
    ASSUME NEW at \in Seq(Int), Len(at) = 4, NEW k \in Int, NEW m \in Int, k < m
    PROVE  Before(at \o <<k>>, at \o <<m>>)
<1> DEFINE u == at \o <<k>>
           w == at \o <<m>>
<1>1. u \in [1..5 -> Int]
  BY LongerPlaces
<1>2. \A i \in 1..4 : u[i] = at[i]
  BY LongerPlaces
<1>3. u[5] = k
  BY LongerPlaces
<1>4. w \in [1..5 -> Int]
  BY LongerPlaces
<1>5. \A i \in 1..4 : w[i] = at[i]
  BY LongerPlaces
<1>6. w[5] = m
  BY LongerPlaces
<1> HIDE DEF u, w
<1>7. 5 \in DOMAIN u /\ u[5] < w[5] /\ \A j \in 1..(5 - 1) : u[j] = w[j]
  BY <1>1, <1>2, <1>3, <1>5, <1>6
<1>8. Before(u, w)
  BY <1>7 DEF Before
<1> QED
  BY <1>8 DEF u, w

(* Whatever the run decided for a paired position, it owes it that.        *)
LEMMA PlanServes ==
    ASSUME TypeOK, LogInv, SnapshotInv, pc = "orders", UNCHANGED <<bookVars, venueVars>>,
           \A o \in ExitOrders : owner[o] # 0,
           seen = held, seenReserved = held \cap ReservedPids,
           NEW M \in MatchPositions(book, seen),
           NEW att \in AssignCloseOrders(M, seen, ExitOrders), NEW n,
           todo' = Plan(M, att, n), NEW e \in M
    PROVE  Served(e[2], e[3])'
<1> DEFINE t  == e[2]
           p  == e[3]
           X  == ExitsAt(p)
           at == <<1, SideRank(t), e[1], t>>
<1>1. e[1] \in Nat /\ t \in Trades /\ t \in Nat /\ p \in seen /\ p \in held
  <2>1. M \subseteq Nat \X book \X seen
    BY MatchTyped
  <2>2. e \in Nat \X book \X seen
    BY <2>1
  <2>3. book \subseteq Trades
    BY DEF TypeOK, BookTypeOK
  <2>4. Trades \subseteq Nat
    BY TradeBookAssumption DEF Trades
  <2>5. e[1] \in Nat /\ e[2] \in book /\ e[3] \in seen
    BY <2>2
  <2> QED
    BY <2>3, <2>4, <2>5
<1>2. ExitsOf(att, p) = X
  BY <1>1, AttributionIsTheTruth
<1>3. RequestsFor(p)' = MaintainExits(e, X)
  BY <1>2, PlanFor DEF RequestsFor
<1>4. ExitsAt(p)' = X /\ stop' = stop /\ price' = price /\ order' = order /\ held' = held
  BY DEF ExitsAt, ExitOrders, venueVars, bookVars
<1>5. Breached(t)' <=> Breached(t)
  BY <1>4 DEF Breached
<1>6. at \in Seq(Int) /\ Len(at) = 4
  <2> DEFINE s == SideRank(t)
             c == e[1]
             u == t
  <2>1. s \in Int /\ c \in Int /\ u \in Int
    BY <1>1 DEF SideRank
  <2> HIDE DEF s, c, u
  <2>2. <<1, s, c, u>> \in Seq(Int) /\ Len(<<1, s, c, u>>) = 4
    BY <2>1, Places
  <2> QED
    BY <2>2 DEF s, c, u
<1>7. \A o \in X : OwnKind(order[o].kind) /\ order[o].pid = p /\ o \in ExitOrders
  <2> SUFFICES ASSUME NEW o \in X PROVE OwnKind(order[o].kind) /\ order[o].pid = p /\ o \in ExitOrders
    OBVIOUS
  <2>1. o \in ExitOrders /\ order[o].pid = p /\ o \in Oids /\ owner[o] # 0
    BY IdsAreIssued DEF ExitsAt
  <2> QED
    BY <2>1 DEF SnapshotInv, LogIsOld
<1>8. X = {} => p \notin seenReserved
  BY DEF ExitsAt, ReservedPids
<1>9. MaintainExits(e, X) = IF Breached(t) THEN CloseRequests(p, X, at)
                            ELSE IF ReservedReported /\ p \in seenReserved /\ X = {} THEN {}
                            ELSE StopRequests(t, p, X, at) \cup TargetRequests(t, p, X, at)
  BY DEF MaintainExits
<1> HIDE DEF at, X
<1>10. CASE Breached(t)
  <2> DEFINE c == Request("close", at \o <<1>>, p, {}, 0, 0)
             x == Request("cancelExits", at \o <<0>>, p, X, 0, 0)
  <2>1. RequestsFor(p)' = When(X # {}, {x}) \cup {c}
    BY <1>3, <1>9, <1>10 DEF CloseRequests
  <2>2. /\ c.op = "close" /\ c.pid = p /\ c.at = at \o <<1>>
        /\ x.op = "cancelExits" /\ x.oids = X /\ x.at = at \o <<0>>
    BY DEF Request
  <2>3. Before(x.at, c.at)
    <3>1. Before(at \o <<0>>, at \o <<1>>)
      <4>1. 0 \in Int /\ 1 \in Int /\ 0 < 1
        OBVIOUS
      <4> QED
        BY <1>6, <4>1, LaterPlaces
    <3> QED
      BY <2>2, <3>1
  <2> HIDE DEF c, x
  <2>4. c \in todo'
    BY <2>1 DEF RequestsFor, When
  <2>5. \A r \in RequestsFor(p)' \ {c} : r.op = "cancelExits" /\ Before(r.at, c.at)
    BY <2>1, <2>2, <2>3 DEF When
  <2>6. X # {} => \E r \in RequestsFor(p)' : r.op = "cancelExits" /\ X \subseteq r.oids
    BY <2>1, <2>2 DEF When
  <2>7. WillBeClosed(p)'
    BY <1>4, <2>2, <2>4, <2>5, <2>6 DEF WillBeClosed, Before
  <2> QED
    BY <1>5, <1>10, <2>7 DEF Served
<1>11. CASE ~ Breached(t)
  <2>1. RequestsFor(p)' = StopRequests(t, p, X, at) \cup TargetRequests(t, p, X, at)
    BY <1>3, <1>8, <1>9, <1>11
  <2>2. ASSUME NEW r, RequestsFor(p)' = {r}
        PROVE  r \in todo'
    BY <2>2 DEF RequestsFor
  <2>3. ExitInPlace(p, t)' <=>
          IF UsesStop
          THEN stop[t] > 0 =>
                 \E o \in X : order[o].kind = "STOP" /\ ~ Moved(order[o].level, stop[t])
          ELSE UsesTarget => \E o \in X : order[o].kind = "LIMIT"
    BY <1>4 DEF ExitInPlace, ExitsAt, ExitOrders, ExitKinds, Moved, Abs
  <2>4. stop[t] \in Nat
    BY <1>1 DEF TypeOK, BookTypeOK
  <2>5. CASE UsesStop
    <3>1. TargetRequests(t, p, X, at) = {}
      BY <2>5 DEF TargetRequests
    <3>2. { o \in X : order[o].kind = "STOP" } = X
      BY <1>7, <2>5 DEF OwnKind
    <3>3. CASE stop[t] = 0
      BY <1>1, <1>4, <1>5, <1>11, <2>1, <2>3, <2>5, <3>1, <3>3 DEF StopRequests, Served
    <3>4. CASE stop[t] # 0 /\ X = {}
      <4> DEFINE r == Request("stop", at \o <<0>>, p, {}, 0, stop[t])
      <4>1. RequestsFor(p)' = {r}
        BY <2>1, <2>5, <3>1, <3>2, <3>4 DEF StopRequests
      <4>2. r.op = "stop" /\ r.level = stop[t]
        BY DEF Request
      <4> HIDE DEF r
      <4>3. WillBeProtected(p, t)'
        BY <1>4, <2>2, <2>5, <3>4, <4>1, <4>2 DEF WillBeProtected
      <4> QED
        BY <1>1, <1>4, <1>5, <1>11, <4>3 DEF Served
    <3>5. CASE stop[t] # 0 /\ X # {}
      <4>1. PICK o : X = {o}
        BY <1>7, <3>5 DEF SnapshotInv, OneExitEach
      <4>2. StopRequests(t, p, X, at) =
              { Request("ratchet", at \o <<0>>, p, {s}, 0, stop[t]) :
                  s \in { s \in X : Moved(order[s].level, stop[t]) } }
        BY <2>5, <3>2, <3>5 DEF StopRequests
      <4>3. CASE Moved(order[o].level, stop[t])
        <5> DEFINE r == Request("ratchet", at \o <<0>>, p, {o}, 0, stop[t])
        <5>1. RequestsFor(p)' = {r}
          BY <2>1, <3>1, <4>1, <4>2, <4>3
        <5>2. r.op = "ratchet" /\ r.level = stop[t] /\ r.oids = {o}
          BY DEF Request
        <5> HIDE DEF r
        <5>3. WillBeProtected(p, t)'
          BY <1>4, <2>2, <2>5, <4>1, <5>1, <5>2 DEF WillBeProtected
        <5> QED
          BY <1>1, <1>4, <1>5, <1>11, <5>3 DEF Served
      <4>4. CASE ~ Moved(order[o].level, stop[t])
        <5>1. RequestsFor(p)' = {}
          BY <2>1, <3>1, <4>1, <4>2, <4>4
        <5>2. ExitInPlace(p, t)'
          BY <2>3, <2>5, <3>2, <4>1, <4>4
        <5> QED
          BY <1>1, <1>4, <1>5, <1>11, <5>1, <5>2 DEF Served
      <4> QED
        BY <4>3, <4>4
    <3> QED
      BY <3>3, <3>4, <3>5
  <2>6. CASE ~ UsesStop
    <3>1. StopRequests(t, p, X, at) = {}
      BY <2>6 DEF StopRequests
    <3>2. \A o \in X : order[o].kind = "LIMIT"
      BY <1>7, <2>6 DEF OwnKind
    <3>3. CASE ~ UsesTarget \/ X # {}
      <4>1. RequestsFor(p)' = {}
        BY <2>1, <3>1, <3>2, <3>3 DEF TargetRequests
      <4>2. ExitInPlace(p, t)'
        BY <2>3, <2>6, <3>2, <3>3
      <4> QED
        BY <1>1, <1>4, <1>5, <1>11, <4>1, <4>2 DEF Served
    <3>4. CASE UsesTarget /\ X = {}
      <4> DEFINE r == Request("limit", at \o <<1>>, p, {}, 0, t)
      <4>1. RequestsFor(p)' = {r}
        BY <1>8, <2>1, <2>6, <3>1, <3>4 DEF TargetRequests
      <4>2. r.op = "limit"
        BY DEF Request
      <4> HIDE DEF r
      <4>3. WillBeProtected(p, t)'
        BY <1>4, <2>2, <2>6, <3>4, <4>1, <4>2 DEF WillBeProtected
      <4> QED
        BY <1>1, <1>4, <1>5, <1>11, <4>3 DEF Served
    <3> QED
      BY <3>3, <3>4
  <2> QED
    BY <2>5, <2>6
<1> QED
  BY <1>10, <1>11

LEMMA PlanLeavesAlone ==
    ASSUME TypeOK, LogInv, SnapshotInv, pc = "orders", UNCHANGED venueVars,
           \A o \in ExitOrders : owner[o] # 0,
           seen = held, seenReserved = held \cap ReservedPids,
           NEW M \in MatchPositions(book, seen), matched' = M,
           NEW att \in AssignCloseOrders(M, seen, ExitOrders), NEW n,
           NEW r \in Plan(M, att, n)
    PROVE  LeavesAlone(r)'
<1> SUFFICES ASSUME NEW o \in r.oids, o \in ExitOrders, order[o].pid # r.pid,
                    NEW e \in M, order[o].pid = e[3]
             PROVE  FALSE
  BY DEF LeavesAlone, ExitOrders, venueVars
<1>1. owner[o] = order[o].pid
  BY IdsAreIssued DEF LogInv, RecordedOwnersAreTrue
<1>2. owner[o] # 0 /\ owner[o] # r.pid
  BY <1>1
<1>3. r.op \notin {"cancelExits", "ratchet"}
  BY <1>2, PlanIsSurgical
<1>4. r.oids # {}
  OBVIOUS
<1>5. ASSUME NEW p, NEW X, NEW at, r \in CloseRequests(p, X, at) PROVE FALSE
  BY <1>3, <1>4, <1>5 DEF CloseRequests, When, Request
<1>6. ASSUME NEW f, NEW X, r \in MaintainExits(f, X) PROVE FALSE
  <2>1. ASSUME NEW t, NEW p, NEW at, r \in StopRequests(t, p, X, at) PROVE FALSE
    BY <1>3, <1>4, <2>1 DEF StopRequests, Request
  <2>2. ASSUME NEW t, NEW p, NEW at, r \in TargetRequests(t, p, X, at) PROVE FALSE
    BY <1>4, <2>2 DEF TargetRequests, Request
  <2> QED
    BY <1>5, <1>6, <2>1, <2>2 DEF MaintainExits
<1>7. r \notin Maintained(M, att)
  BY <1>6 DEF Maintained
<1>8. ASSUME r \in StrategyExits(M, att) PROVE FALSE
  <2>1. PICK q \in LiveOnly(M, seen) :
          r \in CloseRequests(q, ExitsOf(att, q), <<2, SideRank(tradeOf[q]), q, 0>>)
    BY <1>8 DEF StrategyExits
  <2> QED
    BY <1>5, <2>1
<1>9. r \notin EntryPlacements(n)
  BY <1>4 DEF EntryPlacements, Request
<1>10. r \notin CancelRequest("cancelStale", 4, StaleEntries)
  BY DEF CancelRequest, When, Request, StaleEntries, EntryOrders, ExitOrders, ExitKinds
<1>11. r \in OrphanCancels(att)
  BY <1>7, <1>8, <1>9, <1>10 DEF Plan
<1>12. o \notin { x[1] : x \in att }
  BY <1>11 DEF OrphanCancels, CancelRequest, When, Request
<1>13. e[3] \in seen
  BY MatchTyped
<1>14. o \in ExitsOf(att, e[3])
  <2>1. o \in ExitsAt(e[3])
    BY DEF ExitsAt
  <2> QED
    BY <1>13, <2>1, AttributionIsTheTruth
<1> QED
  BY <1>12, <1>14 DEF ExitsOf

LEMMA NoBulkInAPlan ==
    ASSUME NEW M, NEW att, NEW n, NEW r \in Plan(M, att, n)
    PROVE  r.op # "bulk"
<1>1. ASSUME NEW p, NEW X, NEW at, r \in CloseRequests(p, X, at) PROVE r.op # "bulk"
  BY <1>1 DEF CloseRequests, When, Request
<1>2. ASSUME NEW e, NEW X, r \in MaintainExits(e, X) PROVE r.op # "bulk"
  BY <1>1, <1>2 DEF MaintainExits, StopRequests, TargetRequests, Request
<1>3. r \in Maintained(M, att) => r.op # "bulk"
  BY <1>2 DEF Maintained
<1>4. r \in StrategyExits(M, att) => r.op # "bulk"
  BY <1>1 DEF StrategyExits
<1>5. r \in OrphanCancels(att) \cup CancelRequest("cancelStale", 4, StaleEntries) => r.op # "bulk"
  BY DEF OrphanCancels, CancelRequest, When, Request
<1>6. r \in EntryPlacements(n) => r.op # "bulk"
  BY DEF EntryPlacements, Request
<1> QED
  BY <1>3, <1>4, <1>5, <1>6 DEF Plan

LEMMA PlanningKeepsRun ==
    ASSUME TypeOK, LogInv, SnapshotInv, RunInv, PlanKill \/ PlanRun
    PROVE  RunInv'
<1>1. CASE PlanKill
  <2>1. pc' = "act" /\ matched' = {}
    BY <1>1 DEF PlanKill, StartActing
  <2> QED
    BY <2>1 DEF RunInv, LeavesAlone
<1>2. CASE PlanRun
  <2>1. PICK M \in MatchPositions(book, seen) :
          \E att \in AssignCloseOrders(M, seen, ExitOrders) : \E n :
            StartActing(Plan(M, att, n), M)
    BY <1>2 DEF PlanRun
  <2>2. PICK att \in AssignCloseOrders(M, seen, ExitOrders) :
          \E n : StartActing(Plan(M, att, n), M)
    BY <2>1
  <2>3. PICK n : StartActing(Plan(M, att, n), M)
    BY <2>2
  <2>4. /\ pc = "orders" /\ pc' = "act" /\ todo' = Plan(M, att, n) /\ matched' = M
        /\ seen' = seen /\ UNCHANGED <<bookVars, venueVars>>
        /\ disturbed' = (disturbed \/ \E o \in ExitOrders : owner[o] = 0)
    BY <1>2, <2>3 DEF PlanRun, StartActing
  <2>5. \A e \in matched' : e[3] \in seen'
    BY <2>4, MatchTyped
  <2>6. ASSUME ~ disturbed'
        PROVE  /\ \A e \in M : Served(e[2], e[3])'
               /\ \A r \in Plan(M, att, n) : LeavesAlone(r)'
    <3>1. (\A o \in ExitOrders : owner[o] # 0) /\ seen = held /\ seenReserved = held \cap ReservedPids
      BY <2>4, <2>6 DEF RunInv
    <3>2. ASSUME NEW e \in M PROVE Served(e[2], e[3])'
      BY <2>4, <3>1, PlanServes
    <3>3. ASSUME NEW r \in Plan(M, att, n) PROVE LeavesAlone(r)'
      BY <2>4, <3>1, PlanLeavesAlone
    <3> QED
      BY <3>2, <3>3
  <2> QED
    BY <2>4, <2>5, <2>6, NoBulkInAPlan DEF RunInv
<1> QED
  BY <1>1, <1>2

LEMMA RunInvariant == Spec => []RunInv
<1>1. Init => RunInv
  BY DEF Init, RunInv
<1>2. TypeOK /\ LogInv /\ SnapshotInv /\ InTheirPlace /\ RunInv /\ [Next]_vars => RunInv'
  <2> SUFFICES ASSUME TypeOK, LogInv, SnapshotInv, InTheirPlace, RunInv, [Next]_vars
               PROVE  RunInv'
    OBVIOUS
  <2>1. CASE pc' = "idle"
    BY <2>1 DEF RunInv
  <2>2. CASE disturbed' /\ UNCHANGED <<pc, seen, matched>>
    BY <2>2 DEF RunInv
  <2>3. CASE ReadPositions
    BY <2>3 DEF ReadPositions, RunInv, venueVars, ReservedPids, ExitOrders
  <2>4. CASE \E r \in todo : Does(r)
    BY <2>4, DoingKeepsRun
  <2>5. CASE UNCHANGED <<bookVars, venueVars, runVars, disturbed>>
    <3>1. UNCHANGED <<pc, seen, seenReserved, matched, todo, held, resting, order, disturbed>>
          /\ UNCHANGED bookVars
      BY <2>5 DEF runVars, venueVars
    <3>2. pc = "act" /\ ~ disturbed => \A e \in matched : Served(e[2], e[3])'
      <4> SUFFICES ASSUME NEW e \in matched, Served(e[2], e[3]) PROVE Served(e[2], e[3])'
        BY DEF RunInv
      <4> QED
        BY <3>1, ServedFrame DEF RequestsFor, ExitsAt, ExitOrders
    <3>3. \A r : LeavesAlone(r)' <=> LeavesAlone(r)
      BY <3>1 DEF LeavesAlone, ExitOrders
    <3> QED
      BY <3>1, <3>2, <3>3 DEF RunInv, ReservedPids, ExitOrders
  <2> QED
    BY <2>1, <2>2, <2>3, <2>4, <2>5, PlanningKeepsRun, StepsOfTheRun
<1> QED
  BY <1>1, <1>2, TypeCorrect, LogInvariant, SnapshotInvariant, PlacesInvariant, PTL DEF Spec

(* When a run that met no fault, no fill and no exit the log does not name *)
(* has sent its last request, every position it paired is closed if its    *)
(* stop is breached and wears the wanted exit if it is not                 *)
(* (_maintain_exits).                                                      *)
THEOREM OneRunProtects == Spec => []UndisturbedRunProtects
<1>1. RunInv => UndisturbedRunProtects
  BY DEF RunInv, UndisturbedRunProtects, Served, WillBeClosed, WillBeProtected
<1> QED
  BY <1>1, RunInvariant, PTL

(***************************************************************************)
(* Entries and slots.                                                      *)
(***************************************************************************)

(* Nothing is opened and no entry comes to rest.                           *)
Sheds == held' \subseteq held /\ EntryOrders' \subseteq EntryOrders

(* The run goes on with no more entries to send, and what it meant to      *)
(* cancel is gone, still to be cancelled, or the slots are no longer       *)
(* vouched for.                                                            *)
Rations ==
    /\ Sheds /\ Enters' \subseteq Enters
    /\ UNCHANGED <<pc, seen, maxSlots>>
    /\ \/ raced'
       \/ raced' = raced /\ ToBeCancelled \cap EntryOrders' \subseteq ToBeCancelled'

LEMMA VenueSheds ==
    ASSUME TypeOK
    PROVE  /\ \A x : RemoveOrders(x) \/ ClosePosition(x) \/ ExitFills(x) \/ LeaveStub(x) => Sheds
           /\ \A rec : RestOrder(rec) /\ rec.kind # "ENTRY" => Sheds
           /\ UNCHANGED venueVars => Sheds
<1>1. ASSUME NEW x, RemoveOrders(x) \/ ClosePosition(x) \/ ExitFills(x) \/ LeaveStub(x)
      PROVE  Sheds
  BY <1>1 DEF RemoveOrders, ClosePosition, ExitFills, LeaveStub, Sheds, EntryOrders
<1>2. ASSUME NEW rec, RestOrder(rec), rec.kind # "ENTRY" PROVE Sheds
  <2>1. nOrd + 1 \in Oids /\ nOrd + 1 \notin resting
    <3>1. nOrd \in Nat /\ MaxOrd \in Nat /\ nOrd < MaxOrd /\ resting \subseteq 1..nOrd
      BY <1>2, IdsAreIssued, SettleVenueAssumption DEF RestOrder
    <3> QED
      BY <3>1 DEF Oids
  <2>2. /\ order'[nOrd + 1] = rec /\ \A o \in resting : order'[o] = order[o]
        /\ resting' = resting \cup {nOrd + 1} /\ held' = held
    BY <1>2, <2>1 DEF RestOrder, TypeOK, VenueTypeOK
  <2> QED
    BY <1>2, <2>2 DEF Sheds, EntryOrders
<1>3. UNCHANGED venueVars => Sheds
  BY DEF venueVars, Sheds, EntryOrders
<1> QED
  BY <1>1, <1>2, <1>3

(* Done with a request that is no stale cancel, or with a stale cancel     *)
(* whose orders are gone.                                                  *)
LEMMA DoneRations ==
    ASSUME NEW r \in todo, Done(r), Sheds,
           \/ raced'
           \/ raced' = raced /\ (r.op # "cancelStale" \/ r.oids \cap resting' = {})
    PROVE  Rations
<1>1. todo' = todo \ {r} /\ UNCHANGED <<pc, seen, maxSlots>>
  BY DEF Done, bookVars
<1>2. Enters' \subseteq Enters
  BY <1>1 DEF Enters
<1>3. r.op # "cancelStale" => ToBeCancelled \subseteq ToBeCancelled'
  BY <1>1 DEF ToBeCancelled
<1>4. ToBeCancelled \ r.oids \subseteq ToBeCancelled'
  BY <1>1 DEF ToBeCancelled
<1> QED
  BY <1>1, <1>2, <1>3, <1>4 DEF Rations, EntryOrders

(* Every step is of one of these kinds.                                    *)
LEMMA StepsOfTheSlots ==
    ASSUME TypeOK, SnapshotInv, [Next]_vars
    PROVE  \/ Sheds /\ (pc' = "idle" \/ Rations)
           \/ ReadPositions \/ PlanKill \/ PlanRun
           \/ EntryFilled
           \/ \E r \in todo : DoEnter(r)
<1>a. ASSUME UNCHANGED runVars, UNCHANGED bookVars, Sheds, raced' = raced PROVE Rations
  BY <1>a DEF runVars, bookVars, Rations, Enters, ToBeCancelled
<1>1. ASSUME NEW r \in todo, DoCancel(r) PROVE Rations
  <2>1. Done(r) /\ raced' = raced /\ RemoveOrders(IF r.op = "bulk" THEN resting ELSE r.oids)
    BY <1>1 DEF DoCancel, ghosts
  <2>2. Sheds
    BY <2>1, VenueSheds
  <2>3. r.op # "cancelStale" \/ r.oids \cap resting' = {}
    BY <2>1 DEF RemoveOrders
  <2> QED
    BY <2>1, <2>2, <2>3, DoneRations
<1>2. ASSUME NEW r \in todo, CancelsPartly(r) PROVE Rations
  <2>1. /\ Done(r) /\ raced' = (raced \/ r.op = "cancelStale") /\ \E x : RemoveOrders(x)
    BY <1>2 DEF CancelsPartly
  <2>2. Sheds
    BY <2>1, VenueSheds
  <2>3. raced' \/ (raced' = raced /\ r.op # "cancelStale")
    BY <2>1 DEF TypeOK, RunTypeOK
  <2> QED
    BY <2>1, <2>2, <2>3, DoneRations
<1>3. ASSUME NEW r \in todo, CallFails(r) PROVE Rations
  <2>1. Done(r) /\ raced' = (raced \/ r.op = "cancelStale") /\ UNCHANGED venueVars
    BY <1>3 DEF CallFails
  <2>2. Sheds
    BY <2>1, VenueSheds
  <2>3. raced' \/ (raced' = raced /\ r.op # "cancelStale")
    BY <2>1 DEF TypeOK, RunTypeOK
  <2> QED
    BY <2>1, <2>2, <2>3, DoneRations
<1>4. ASSUME NEW r \in todo, DoClose(r) PROVE Rations
  <2>1. Done(r) /\ raced' = raced /\ r.op # "cancelStale"
    BY <1>4 DEF DoClose, ghosts
  <2>2. Sheds
    BY <1>4, VenueSheds DEF DoClose
  <2> QED
    BY <2>1, <2>2, DoneRations
<1>5. ASSUME NEW r, RestExit(IF r.op = "stop" THEN "STOP" ELSE "LIMIT", r) PROVE Sheds
  <2> DEFINE kind == IF r.op = "stop" THEN "STOP" ELSE "LIMIT"
             new  == [kind |-> kind, pid |-> r.pid, trade |-> 0, level |-> r.level]
  <2>1. RestOrder(new) /\ new.kind # "ENTRY"
    BY <1>5 DEF RestExit
  <2> HIDE DEF new
  <2> QED
    BY <2>1, VenueSheds
<1>6. ASSUME NEW r \in todo, DoPlaceExit(r) PROVE Rations
  <2>1. Done(r) /\ raced' = raced /\ r.op # "cancelStale"
    BY <1>6 DEF DoPlaceExit, ghosts
  <2>2. Sheds
    BY <1>5, <1>6, VenueSheds DEF DoPlaceExit
  <2> QED
    BY <2>1, <2>2, DoneRations
<1>7. ASSUME NEW r \in todo, DoRatchetCancel(r) PROVE Rations
  <2>1. /\ UNCHANGED <<bookVars, pc, seen>> /\ raced' = raced /\ r.op = "ratchet"
        /\ \A q \in todo' : q \in todo \/ q.op = "stop"
        /\ todo \ {r} \subseteq todo'
    BY <1>7 DEF DoRatchetCancel, ghosts, Request
  <2>2. Sheds
    BY <1>7, VenueSheds DEF DoRatchetCancel
  <2>3. Enters' \subseteq Enters /\ ToBeCancelled \subseteq ToBeCancelled'
    BY <2>1 DEF Enters, ToBeCancelled
  <2> QED
    BY <2>1, <2>2, <2>3 DEF Rations, bookVars
<1>8. ASSUME NEW r \in todo, AnswerLost(r) PROVE Rations
  <2>1. Done(r) /\ raced' = raced /\ r.op # "cancelStale"
    BY <1>8 DEF AnswerLost
  <2>2. Sheds
    BY <1>5, <1>8, VenueSheds DEF AnswerLost
  <2> QED
    BY <2>1, <2>2, DoneRations
<1>9. CASE PlanHalt \/ Finish \/ Crash
  <2>1. pc' = "idle" /\ UNCHANGED venueVars
    BY <1>9 DEF PlanHalt, Finish, Crash, GoIdle
  <2> QED
    BY <2>1, VenueSheds
<1>10. CASE Bar \/ BarQuiet \/ RunAgain \/ Replayed
  <2>1. pc' = "idle" /\ UNCHANGED venueVars
    BY <1>10 DEF Bar, BarQuiet, NewBar, RunAgain, Replayed, runVars
  <2> QED
    BY <2>1, VenueSheds
<1>11. CASE ExitFilled \/ StubLeft \/ ManualCancel \/ ManualClose
  <2>1. UNCHANGED runVars /\ UNCHANGED bookVars /\ raced' = raced
    BY <1>11 DEF ExitFilled, StubLeft, Filled, ManualCancel, ManualClose, ByHand
  <2>2. Sheds
    BY <1>11, VenueSheds DEF ExitFilled, StubLeft, Filled, ManualCancel, ManualClose, ByHand
  <2> QED
    BY <1>a, <2>1, <2>2
<1>12. CASE ManualExit
  <2>1. PICK p \in held, kind \in ExitKinds, l \in Levels :
          Accepts(p) /\ ByHand(RestOrder([kind |-> kind, pid |-> p, trade |-> 0, level |-> l]))
    BY <1>12 DEF ManualExit
  <2> DEFINE rec == [kind |-> kind, pid |-> p, trade |-> 0, level |-> l]
  <2>2. RestOrder(rec) /\ rec.kind # "ENTRY" /\ UNCHANGED runVars /\ UNCHANGED bookVars /\ raced' = raced
    BY <2>1 DEF ByHand, ExitKinds
  <2> HIDE DEF rec
  <2>3. Sheds
    BY <2>2, VenueSheds
  <2> QED
    BY <1>a, <2>2, <2>3
<1>13. CASE KillRaised \/ UNCHANGED vars
  <2>1. UNCHANGED runVars /\ UNCHANGED bookVars /\ UNCHANGED venueVars /\ raced' = raced
    BY <1>13 DEF KillRaised, vars, ghosts
  <2> QED
    BY <1>a, <2>1, VenueSheds
<1>14. CASE LogLost
  <2>1. UNCHANGED <<bookVars, venueVars, pc, seen, todo, raced>>
    BY <1>14 DEF LogLost
  <2> QED
    BY <2>1, VenueSheds DEF Rations, Enters, ToBeCancelled, bookVars
<1>15. Rations => Sheds
  BY DEF Rations
<1> QED
  BY <1>1, <1>2, <1>3, <1>4, <1>6, <1>7, <1>8, <1>9, <1>10, <1>11, <1>12, <1>13, <1>14, <1>15
     DEF Next, DoNext

(* Two counts the proofs below keep needing.                               *)
LEMMA AtMostOneMore ==
    ASSUME NEW S, IsFiniteSet(S), NEW T, NEW x, T \subseteq S \cup {x}
    PROVE  IsFiniteSet(T) /\ Cardinality(T) \in Nat /\ Cardinality(T) <= Cardinality(S) + 1
<1> DEFINE U == S \cup {x}
<1>1. IsFiniteSet(U) /\ (Cardinality(U) = Cardinality(S) \/ Cardinality(U) = Cardinality(S) + 1)
  BY FS_AddElement
<1>2. T \in SUBSET U
  OBVIOUS
<1> HIDE DEF U
<1>3. IsFiniteSet(T) /\ Cardinality(T) <= Cardinality(U)
  BY <1>1, <1>2, FS_Subset
<1>4. Cardinality(S) \in Nat /\ Cardinality(T) \in Nat /\ Cardinality(U) \in Nat
  BY <1>1, <1>3, FS_CardinalityType
<1> QED
  BY <1>1, <1>3, <1>4

LEMMA FewerCount ==
    ASSUME NEW S, IsFiniteSet(S), NEW T, T \subseteq S
    PROVE  /\ IsFiniteSet(T) /\ Cardinality(T) \in Nat /\ Cardinality(S) \in Nat
           /\ Cardinality(T) <= Cardinality(S)
<1>1. IsFiniteSet(T) /\ Cardinality(T) <= Cardinality(S)
  BY FS_Subset
<1> QED
  BY <1>1, FS_CardinalityType

LEMMA AccountIsFinite ==
    ASSUME TypeOK
    PROVE  IsFiniteSet(held) /\ IsFiniteSet(resting) /\ IsFiniteSet(EntryOrders)
           /\ IsFiniteSet(seen) /\ IsFiniteSet(book) /\ IsFiniteSet(Trades)
<1>1. \A n \in Nat : IsFiniteSet(1..n)
  <2> SUFFICES ASSUME NEW n \in Nat PROVE IsFiniteSet(1..n)
    OBVIOUS
  <2>1. 1 \in Int /\ n \in Int
    OBVIOUS
  <2> QED
    BY <2>1, FS_Interval
<1>2. /\ IsFiniteSet(1..nPos) /\ IsFiniteSet(1..nOrd) /\ IsFiniteSet(Pids) /\ IsFiniteSet(Trades)
  BY <1>1, IdsAreIssued, TradeBookAssumption, SettleVenueAssumption DEF Pids, Trades
<1>3. /\ held \subseteq 1..nPos /\ resting \subseteq 1..nOrd /\ EntryOrders \subseteq 1..nOrd
      /\ seen \subseteq Pids /\ book \subseteq Trades
  BY IdsAreIssued DEF EntryOrders, TypeOK, RunTypeOK, BookTypeOK
<1> QED
  BY <1>2, <1>3, FewerCount

(* The queue of entries: market entries first, then by number.             *)
LEMMA EntryQueue ==
    ASSUME TypeOK, NEW u \in Trades, NEW t \in Trades
    PROVE  Before(EntryAt(u), EntryAt(t)) <=>
             \/ u \in pending /\ t \notin pending
             \/ (u \in pending <=> t \in pending) /\ u < t
<1>1. u \in Int /\ t \in Int
  BY TradeBookAssumption DEF Trades
<1> DEFINE a == EntryAt(u)
           b == EntryAt(t)
<1>2. /\ a[1] = 5 /\ a[2] = (IF u \in pending THEN 0 ELSE 1) /\ a[3] = u /\ a[4] = 0 /\ a[5] = 0
      /\ DOMAIN a = 1..5
  BY DEF EntryAt
<1>3. /\ b[1] = 5 /\ b[2] = (IF t \in pending THEN 0 ELSE 1) /\ b[3] = t /\ b[4] = 0 /\ b[5] = 0
  BY DEF EntryAt
<1> HIDE DEF a, b
<1>4. ASSUME Before(a, b)
      PROVE  \/ u \in pending /\ t \notin pending
             \/ (u \in pending <=> t \in pending) /\ u < t
  <2>1. PICK i \in 1..5 : a[i] < b[i] /\ \A j \in 1..(i - 1) : a[j] = b[j]
    BY <1>2, <1>4 DEF Before
  <2>2. i = 2 \/ i = 3
    <3>1. i = 1 \/ i = 2 \/ i = 3 \/ i = 4 \/ i = 5
      OBVIOUS
    <3> QED
      BY <1>2, <1>3, <2>1, <3>1
  <2>3. CASE i = 2
    BY <1>2, <1>3, <2>1, <2>3
  <2>4. CASE i = 3
    <3>1. a[2] = b[2]
      <4>1. 2 \in 1..(i - 1)
        BY <2>4
      <4> QED
        BY <2>1, <4>1
    <3> QED
      BY <1>2, <1>3, <2>1, <2>4, <3>1
  <2> QED
    BY <2>2, <2>3, <2>4
<1>5. ASSUME u \in pending /\ t \notin pending PROVE Before(a, b)
  <2>1. 2 \in DOMAIN a /\ a[2] < b[2] /\ \A j \in 1..(2 - 1) : a[j] = b[j]
    BY <1>2, <1>3, <1>5
  <2> QED
    BY <2>1 DEF Before
<1>6. ASSUME u \in pending <=> t \in pending, u < t PROVE Before(a, b)
  <2>1. 3 \in DOMAIN a /\ a[3] < b[3] /\ \A j \in 1..(3 - 1) : a[j] = b[j]
    BY <1>2, <1>3, <1>6
  <2> QED
    BY <2>1 DEF Before
<1> QED
  BY <1>4, <1>5, <1>6 DEF a, b

(* No more entries are sent than were budgeted.                            *)
LEMMA BudgetIsKept ==
    ASSUME TypeOK, NEW n \in Nat
    PROVE  IsFiniteSet(FirstToPlace(n)) /\ Cardinality(FirstToPlace(n)) <= n
<1> DEFINE ahead(t) == { u \in ToPlace : Before(EntryAt(u), EntryAt(t)) }
           rank == [t \in FirstToPlace(n) |-> Cardinality(ahead(t))]
<1>1. ToPlace \subseteq Trades /\ Trades \subseteq Int
  <2>1. pending \subseteq Trades /\ working \subseteq Trades
    BY DEF TypeOK, BookTypeOK
  <2>2. ToPlace \subseteq Trades
    BY <2>1 DEF ToPlace
  <2> QED
    BY <2>2, TradeBookAssumption DEF Trades
<1>2. ASSUME NEW t PROVE IsFiniteSet(ahead(t)) /\ Cardinality(ahead(t)) \in Nat
  <2>1. ahead(t) \subseteq Trades
    BY <1>1
  <2> QED
    BY <2>1, AccountIsFinite, FewerCount
<1>3. rank \in [FirstToPlace(n) -> 0..(n - 1)]
  <2>1. \A t \in FirstToPlace(n) : Cardinality(ahead(t)) < n
    BY DEF FirstToPlace
  <2>2. \A t \in FirstToPlace(n) : Cardinality(ahead(t)) \in 0..(n - 1)
    BY <1>2, <2>1
  <2> QED
    BY <2>2
<1>4. ASSUME NEW t \in ToPlace, NEW s \in ToPlace, Before(EntryAt(t), EntryAt(s))
      PROVE  Cardinality(ahead(t)) # Cardinality(ahead(s))
  <2>1. t \in Trades /\ s \in Trades
    BY <1>1
  <2>2. ASSUME NEW u \in ahead(t) PROVE u \in ahead(s)
    <3>1. u \in Trades /\ u \in ToPlace /\ Before(EntryAt(u), EntryAt(t))
      BY <1>1
    <3>2. Before(EntryAt(u), EntryAt(s))
      BY <1>1, <1>4, <2>1, <3>1, EntryQueue
    <3> QED
      BY <3>1, <3>2
  <2>3. t \in ahead(s)
    BY <1>4
  <2>4. t \notin ahead(t)
    BY <1>1, <2>1, EntryQueue
  <2>5. IsFiniteSet(ahead(s))
    BY <1>2
  <2> HIDE DEF ahead
  <2>6. ahead(t) \in SUBSET ahead(s) /\ ahead(t) # ahead(s)
    BY <2>2, <2>3, <2>4
  <2> QED
    BY <2>5, <2>6, FS_Subset
<1>5. ASSUME NEW t \in FirstToPlace(n), NEW s \in FirstToPlace(n), rank[t] = rank[s]
      PROVE  t = s
  <2>1. t \in ToPlace /\ s \in ToPlace /\ t \in Trades /\ s \in Trades
    BY <1>1 DEF FirstToPlace
  <2>2. Cardinality(ahead(t)) = Cardinality(ahead(s))
    BY <1>5
  <2>3. ~ Before(EntryAt(t), EntryAt(s)) /\ ~ Before(EntryAt(s), EntryAt(t))
    BY <1>4, <2>1, <2>2
  <2> QED
    BY <1>1, <2>1, <2>3, EntryQueue
<1> HIDE DEF rank
<1>6. rank \in Injection(FirstToPlace(n), 0..(n - 1))
  BY <1>3, <1>5 DEF Injection, IsInjective
<1>7. IsFiniteSet(0..(n - 1)) /\ Cardinality(0..(n - 1)) = n
  <2>1. 0 \in Int /\ n - 1 \in Int
    OBVIOUS
  <2>2. /\ IsFiniteSet(0..(n - 1))
        /\ Cardinality(0..(n - 1)) = IF 0 > n - 1 THEN 0 ELSE (n - 1) - 0 + 1
    BY <2>1, FS_Interval
  <2> QED
    BY <2>2
<1> QED
  BY <1>6, <1>7, FS_Injection

(* The room a run finds is within the slots that positions and kept        *)
(* entries leave.                                                          *)
LEMMA RoomIsRoom ==
    ASSUME TypeOK, NEW M \in MatchPositions(book, seen)
    PROVE  /\ Room(M) \in Nat
           /\ Room(M) > 0 =>
                Cardinality(seen) + Cardinality(KeptEntries) + Room(M) <= EffectiveSlots
<1> DEFINE h == HeldSlots(M)
           k == Cardinality(KeptEntries)
           s == Cardinality(seen)
           E == EffectiveSlots
<1>1. h \in Int
  BY PairingIsFinite, AccountIsFinite, FS_CardinalityType DEF HeldSlots
<1>2. k \in Int /\ s \in Int
  <2>1. KeptEntries \subseteq EntryOrders
    BY DEF KeptEntries
  <2> QED
    BY <2>1, AccountIsFinite, FewerCount
<1>3. E \in Int
  BY TradeBookAssumption, LiveExecutorAssumption
     DEF EffectiveSlots, AtMost, TypeOK, BookTypeOK
<1>4. Room(M) = LET free == AtMost(E - h, E - (s + k)) IN IF free > 0 THEN free ELSE 0
  BY DEF Room
<1> HIDE DEF h, k, s, E
<1>5. Room(M) \in Nat /\ (Room(M) > 0 => s + k + Room(M) <= E)
  BY <1>1, <1>2, <1>3, <1>4 DEF AtMost
<1> QED
  BY <1>5 DEF k, s, E

(* What a plan sends and cancels.                                          *)
LEMMA PlanSends ==
    ASSUME TypeOK, NEW M, NEW att, NEW n \in Nat, todo' = Plan(M, att, n)
    PROVE  /\ IsFiniteSet(Enters') /\ Cardinality(Enters') <= n
           /\ StaleEntries \subseteq ToBeCancelled'
<1>1. ASSUME NEW p, NEW X, NEW at, NEW r \in CloseRequests(p, X, at)
      PROVE  r.op \notin {"enter", "cancelStale"}
  BY DEF CloseRequests, When, Request
<1>2. ASSUME NEW e, NEW X, NEW r \in MaintainExits(e, X)
      PROVE  r.op \notin {"enter", "cancelStale"}
  BY <1>1 DEF MaintainExits, StopRequests, TargetRequests, Request
<1>3. \A r \in Maintained(M, att) : r.op \notin {"enter", "cancelStale"}
  BY <1>2 DEF Maintained
<1>4. \A r \in StrategyExits(M, att) : r.op \notin {"enter", "cancelStale"}
  <2> SUFFICES ASSUME NEW r \in StrategyExits(M, att) PROVE r.op \notin {"enter", "cancelStale"}
    OBVIOUS
  <2>1. PICK q \in LiveOnly(M, seen) :
          r \in CloseRequests(q, ExitsOf(att, q), <<2, SideRank(tradeOf[q]), q, 0>>)
    BY DEF StrategyExits
  <2> QED
    BY <1>1, <2>1
<1>5. \A r \in OrphanCancels(att) : r.op \notin {"enter", "cancelStale"}
  BY DEF OrphanCancels, CancelRequest, When, Request
<1>6. \A r \in CancelRequest("cancelStale", 4, StaleEntries) : r.op = "cancelStale" /\ r.oids = StaleEntries
  BY DEF CancelRequest, When, Request
<1>7. \A r \in EntryPlacements(n) : r.op = "enter"
  BY DEF EntryPlacements, Request
<1>8. Enters' = EntryPlacements(n)
  BY <1>3, <1>4, <1>5, <1>6, <1>7 DEF Enters, Plan
<1>9. StaleEntries \subseteq ToBeCancelled'
  <2>1. CASE StaleEntries # {}
    <3>1. PICK r \in CancelRequest("cancelStale", 4, StaleEntries) : TRUE
      BY <2>1 DEF CancelRequest, When
    <3>2. r \in todo'
      BY <3>1 DEF Plan
    <3> QED
      BY <1>6, <3>1, <3>2 DEF ToBeCancelled
  <2> QED
    BY <2>1
<1>10. IsFiniteSet(Enters') /\ Cardinality(Enters') <= n
  <2> DEFINE F == FirstToPlace(n)
             f == [t \in F |-> Request("enter", EntryAt(t), 0, {}, t, 0)]
  <2>1. f \in Surjection(F, EntryPlacements(n))
    <3>1. f \in [F -> EntryPlacements(n)]
      BY DEF EntryPlacements
    <3>2. \A r \in EntryPlacements(n) : \E t \in F : f[t] = r
      BY DEF EntryPlacements
    <3> HIDE DEF f
    <3> QED
      BY <3>1, <3>2 DEF Surjection
  <2>2. IsFiniteSet(F) /\ Cardinality(F) <= n
    BY BudgetIsKept
  <2> HIDE DEF f, F
  <2>3. IsFiniteSet(EntryPlacements(n)) /\ Cardinality(EntryPlacements(n)) <= Cardinality(F)
    BY <2>1, <2>2, FS_Surjection
  <2>4. Cardinality(EntryPlacements(n)) \in Nat /\ Cardinality(F) \in Nat
    BY <2>2, <2>3, FS_CardinalityType
  <2> QED
    BY <1>8, <2>2, <2>3, <2>4
<1> QED
  BY <1>9, <1>10

(* What is sent, kept and held after a plan fits into the slots.           *)
LEMMA PlanFits ==
    ASSUME TypeOK, NEW M \in MatchPositions(book, seen), NEW att, NEW n \in Nat,
           n <= Room(M), pc' = "act", todo' = Plan(M, att, n), held \subseteq seen,
           UNCHANGED venueVars, maxSlots' = maxSlots
    PROVE  Enters' # {} =>
                Cardinality(held') + Cardinality(EntryOrders' \ ToBeCancelled') + Cardinality(Enters')
                  <= EffectiveSlots'
<1>1. /\ IsFiniteSet(Enters') /\ Cardinality(Enters') <= n
      /\ StaleEntries \subseteq ToBeCancelled'
  BY PlanSends
<1>2. EntryOrders' = EntryOrders /\ held' = held
  BY DEF EntryOrders, venueVars
<1>3. EntryOrders' \ ToBeCancelled' \subseteq KeptEntries /\ KeptEntries \subseteq EntryOrders
  BY <1>1, <1>2 DEF StaleEntries, KeptEntries
<1>4. ASSUME Enters' # {}
       PROVE  Cardinality(held') + Cardinality(EntryOrders' \ ToBeCancelled') + Cardinality(Enters')
                <= EffectiveSlots'
  <2> DEFINE c1 == Cardinality(held')
             c2 == Cardinality(EntryOrders' \ ToBeCancelled')
             c3 == Cardinality(Enters')
             s  == Cardinality(seen)
             k  == Cardinality(KeptEntries)
             E  == EffectiveSlots
  <2>1. c3 \in Nat /\ c3 # 0
    BY <1>1, <1>4, FS_CardinalityType, FS_EmptySet
  <2>2. c1 \in Nat /\ s \in Nat /\ c1 <= s
    BY <1>2, AccountIsFinite, FewerCount
  <2>3. c2 \in Nat /\ k \in Nat /\ c2 <= k
    <3>1. IsFiniteSet(KeptEntries)
      BY <1>3, AccountIsFinite, FewerCount
    <3> QED
      BY <1>3, <3>1, FewerCount
  <2>4. c3 <= n
    BY <1>1
  <2>5. Room(M) \in Nat /\ (Room(M) > 0 => s + k + Room(M) <= E)
    BY RoomIsRoom
  <2>6. E \in Int
    BY TradeBookAssumption, LiveExecutorAssumption
       DEF EffectiveSlots, AtMost, TypeOK, BookTypeOK
  <2>7. EffectiveSlots' = E
    BY DEF EffectiveSlots, AtMost
  <2> HIDE DEF c1, c2, c3, s, k, E
  <2>8. c1 + c2 + c3 <= E
    BY <2>1, <2>2, <2>3, <2>4, <2>5, <2>6
  <2> QED
    BY <2>7, <2>8 DEF c1, c2, c3
<1> QED
  BY <1>4

(* An entry sent takes the slot that was kept for it.                      *)
LEMMA EnteringTakesItsSlot ==
    ASSUME TypeOK, NEW r \in todo, DoEnter(r)
    PROVE  /\ r \in Enters /\ Enters' = Enters \ {r} /\ ToBeCancelled' = ToBeCancelled
           /\ UNCHANGED <<pc, seen, raced, maxSlots>> /\ pc = "act" /\ IsNext(r)
           /\ \/ held' = held /\ EntryOrders' \subseteq EntryOrders \cup {nOrd + 1}
              \/ EntryOrders' = EntryOrders /\ held' \subseteq held \cup {nPos + 1}
<1>1. /\ r.op = "enter" /\ todo' = todo \ {r} /\ pc = "act" /\ IsNext(r)
      /\ UNCHANGED <<pc, seen, raced, maxSlots>>
  BY DEF DoEnter, Done, ghosts, bookVars
<1>2. r \in Enters /\ Enters' = Enters \ {r} /\ ToBeCancelled' = ToBeCancelled
  BY <1>1 DEF Enters, ToBeCancelled
<1>3. CASE r.trade \in LimitTrades
  <2> DEFINE rec == [kind |-> "ENTRY", pid |-> 0, trade |-> r.trade, level |-> r.trade]
  <2>1. RestOrder(rec)
    BY <1>3 DEF DoEnter
  <2> HIDE DEF rec
  <2>2. nOrd + 1 \in Oids /\ nOrd + 1 \notin resting
    <3>1. nOrd \in Nat /\ MaxOrd \in Nat /\ nOrd < MaxOrd /\ resting \subseteq 1..nOrd
      BY <2>1, IdsAreIssued, SettleVenueAssumption DEF RestOrder
    <3> QED
      BY <3>1 DEF Oids
  <2>3. /\ \A o \in resting : order'[o] = order[o]
        /\ resting' = resting \cup {nOrd + 1} /\ held' = held
    BY <2>1, <2>2 DEF RestOrder, TypeOK, VenueTypeOK
  <2> QED
    BY <1>1, <1>2, <2>3 DEF EntryOrders
<1>4. CASE r.trade \notin LimitTrades
  <2>1. UNCHANGED <<resting, order>> /\ held' = held \cup {nPos + 1}
    BY <1>4 DEF DoEnter, OpenPosition
  <2> QED
    BY <1>1, <1>2, <2>1 DEF EntryOrders
<1> QED
  BY <1>3, <1>4

LEMMA EntryInvariant == Spec => []EntryInv
<1>1. Init => EntryInv
  BY FS_EmptySet DEF Init, EntryInv, RoomLeft, Enters
<1>2. TypeOK /\ SnapshotInv /\ SnapshotInv' /\ EntryInv /\ [Next]_vars => EntryInv'
  <2> SUFFICES ASSUME TypeOK, SnapshotInv, SnapshotInv', EntryInv, [Next]_vars
               PROVE  EntryInv'
    OBVIOUS
  <2>0. IsFiniteSet(Enters) /\ IsFiniteSet(held) /\ IsFiniteSet(EntryOrders \ ToBeCancelled)
        /\ EffectiveSlots \in Int
    <3>1. EffectiveSlots \in Int
      BY TradeBookAssumption, LiveExecutorAssumption
         DEF EffectiveSlots, AtMost, TypeOK, BookTypeOK
    <3> QED
      BY <3>1, AccountIsFinite, FewerCount DEF EntryInv
  <2>1. CASE pc' # "act" /\ (pc' = "orders" => ReadPositions \/ Rations)
    <3>1. Enters' = {}
      BY <2>1 DEF SnapshotInv, PlacesOwnKind, Enters
    <3>2. pc' = "orders" /\ ~ raced' => held' \subseteq seen'
      <4>1. CASE ReadPositions
        BY <4>1 DEF ReadPositions, venueVars
      <4>2. CASE Rations
        BY <4>2 DEF Rations, Sheds, EntryInv, RoomLeft
      <4> QED
        BY <2>1, <4>1, <4>2
    <3> QED
      BY <2>1, <3>1, <3>2, FS_EmptySet DEF EntryInv, RoomLeft
  <2>2. CASE Rations /\ pc' = "act"
    <3>1. IsFiniteSet(Enters') /\ Cardinality(Enters') \in Nat /\ Cardinality(Enters) \in Nat
          /\ Cardinality(Enters') <= Cardinality(Enters)
      BY <2>0, <2>2, FewerCount DEF Rations
    <3>2. ASSUME ~ raced', Enters' # {}
          PROVE  Cardinality(held') + Cardinality(EntryOrders' \ ToBeCancelled') + Cardinality(Enters')
                   <= EffectiveSlots'
      <4>1. /\ ~ raced /\ Enters # {} /\ pc = "act"
            /\ EntryOrders' \ ToBeCancelled' \subseteq EntryOrders \ ToBeCancelled
        BY <2>2, <3>2 DEF Rations, Sheds
      <4>2. Cardinality(held) + Cardinality(EntryOrders \ ToBeCancelled) + Cardinality(Enters)
              <= EffectiveSlots
        BY <4>1 DEF EntryInv, RoomLeft
      <4>3. Cardinality(held') \in Nat /\ Cardinality(held) \in Nat /\ Cardinality(held') <= Cardinality(held)
        BY <2>0, <2>2, FewerCount DEF Rations, Sheds
      <4> DEFINE new == Cardinality(EntryOrders' \ ToBeCancelled')
                 old == Cardinality(EntryOrders \ ToBeCancelled)
      <4>4. new \in Nat /\ old \in Nat /\ new <= old
        BY <2>0, <4>1, FewerCount
      <4>5. EffectiveSlots' = EffectiveSlots
        BY <2>2 DEF Rations, EffectiveSlots, AtMost
      <4> HIDE DEF new, old
      <4>6. Cardinality(held) + old + Cardinality(Enters) <= EffectiveSlots
        BY <4>2 DEF old
      <4>7. Cardinality(held') + new + Cardinality(Enters') <= EffectiveSlots'
        BY <2>0, <3>1, <4>3, <4>4, <4>5, <4>6
      <4> QED
        BY <4>7 DEF new
    <3> QED
      BY <2>2, <3>1, <3>2 DEF EntryInv, RoomLeft
  <2>3. CASE PlanKill
    <3>1. Enters' = {} /\ pc' = "act"
      BY <2>3 DEF PlanKill, StartActing, KillPlan, When, Request, Enters
    <3> QED
      BY <3>1, FS_EmptySet DEF EntryInv, RoomLeft
  <2>4. CASE PlanRun
    <3>1. PICK M \in MatchPositions(book, seen) :
            \E att \in AssignCloseOrders(M, seen, ExitOrders),
               n \in IF Draining THEN {0} ELSE EntryBudget(Room(M)) :
              StartActing(Plan(M, att, n), M)
      BY <2>4 DEF PlanRun
    <3>2. PICK att \in AssignCloseOrders(M, seen, ExitOrders),
               n \in IF Draining THEN {0} ELSE EntryBudget(Room(M)) :
            StartActing(Plan(M, att, n), M)
      BY <3>1
    <3>3. n \in Nat /\ n <= Room(M)
      BY <3>2, RoomIsRoom DEF EntryBudget
    <3>4. /\ pc = "orders" /\ pc' = "act" /\ todo' = Plan(M, att, n) /\ raced' = raced
          /\ UNCHANGED venueVars /\ maxSlots' = maxSlots
      BY <2>4, <3>2 DEF PlanRun, StartActing, bookVars
    <3>5. CASE raced
      <4>1. IsFiniteSet(Enters')
        BY <3>3, <3>4, PlanSends
      <4> QED
        BY <3>4, <3>5, <4>1 DEF EntryInv, RoomLeft
    <3>6. CASE ~ raced
      <4>1. held \subseteq seen
        BY <3>4, <3>6 DEF EntryInv, RoomLeft
      <4> QED
        BY <3>3, <3>4, <4>1, PlanFits, PlanSends DEF EntryInv, RoomLeft
    <3> QED
      BY <3>5, <3>6
  <2>5. CASE EntryFilled /\ pc' # "idle"
    <3>1. UNCHANGED <<pc, todo>> /\ raced'
      BY <2>5 DEF EntryFilled, Filled, runVars
    <3> QED
      BY <3>1 DEF EntryInv, RoomLeft, Enters
  <2>6. ASSUME NEW r \in todo, DoEnter(r) PROVE EntryInv'
    <3>1. /\ r \in Enters /\ Enters' = Enters \ {r} /\ ToBeCancelled' = ToBeCancelled
          /\ UNCHANGED <<pc, seen, raced, maxSlots>> /\ pc = "act"
          /\ \/ held' = held /\ EntryOrders' \subseteq EntryOrders \cup {nOrd + 1}
             \/ EntryOrders' = EntryOrders /\ held' \subseteq held \cup {nPos + 1}
      BY <2>6, EnteringTakesItsSlot
    <3> DEFINE h  == Cardinality(held)
               h1 == Cardinality(held')
               k  == Cardinality(EntryOrders \ ToBeCancelled)
               k1 == Cardinality(EntryOrders' \ ToBeCancelled')
               c  == Cardinality(Enters)
               c1 == Cardinality(Enters')
    <3>2. IsFiniteSet(Enters') /\ c \in Nat /\ c1 = c - 1
      <4>1. IsFiniteSet(Enters') /\ c1 = c - 1
        BY <2>0, <3>1, FS_RemoveElement
      <4> QED
        BY <2>0, <4>1, FS_CardinalityType
    <3>3. ~ raced' => h + k + c <= EffectiveSlots
      BY <3>1 DEF EntryInv, RoomLeft
    <3>4. h \in Nat /\ k \in Nat
      BY <2>0, FewerCount
    <3>5. h1 \in Nat /\ k1 \in Nat /\ h1 + k1 <= h + k + 1
      <4>1. CASE held' = held /\ EntryOrders' \subseteq EntryOrders \cup {nOrd + 1}
        <5>1. EntryOrders' \ ToBeCancelled' \subseteq (EntryOrders \ ToBeCancelled) \cup {nOrd + 1}
          BY <3>1, <4>1
        <5>2. k1 \in Nat /\ k1 <= k + 1
          BY <2>0, <5>1, AtMostOneMore
        <5>3. h1 = h
          BY <4>1
        <5> HIDE DEF h, h1, k, k1
        <5> QED
          BY <3>4, <5>2, <5>3
      <4>2. CASE EntryOrders' = EntryOrders /\ held' \subseteq held \cup {nPos + 1}
        <5>1. h1 \in Nat /\ h1 <= h + 1
          BY <2>0, <4>2, AtMostOneMore
        <5>2. k1 = k
          BY <3>1, <4>2
        <5> HIDE DEF h, h1, k, k1
        <5> QED
          BY <3>4, <5>1, <5>2
      <4> QED
        BY <3>1, <4>1, <4>2
    <3>6. EffectiveSlots' = EffectiveSlots
      BY <3>1 DEF EffectiveSlots, AtMost
    <3> HIDE DEF h, h1, k, k1, c, c1
    <3>7. ~ raced' => h1 + k1 + c1 <= EffectiveSlots'
      BY <2>0, <3>2, <3>3, <3>4, <3>5, <3>6
    <3> QED
      BY <3>1, <3>2, <3>7 DEF EntryInv, RoomLeft, h1, k1, c1
  <2>7. pc' \in {"idle", "orders", "act"}
    BY TypeNext DEF TypeOK, RunTypeOK
  <2>8. pc' = "orders" => ReadPositions \/ Rations \/ EntryFilled
    <3>1. PlanKill \/ PlanRun \/ (\E r \in todo : DoEnter(r)) => pc' = "act"
      BY EnteringTakesItsSlot DEF PlanKill, PlanRun, StartActing
    <3> QED
      BY <3>1, StepsOfTheSlots
  <2> QED
    BY <2>1, <2>2, <2>3, <2>4, <2>5, <2>6, <2>7, <2>8, StepsOfTheSlots DEF ReadPositions
<1> QED
  BY <1>1, <1>2, TypeCorrect, SnapshotInvariant, PTL DEF Spec

(* Entries never take positions plus resting entries past the slots, as    *)
(* long as nothing the run counted on has moved (section 5 of reconcile,   *)
(* _entry_plan).                                                           *)
THEOREM SlotsAreRespected == Spec => EntriesRespectSlots
<1>1. TypeOK /\ SnapshotInv /\ InTheirPlace /\ EntryInv /\ [Next]_vars =>
        [EntryExposure' > EntryExposure /\ ~ raced => EntryExposure' <= EffectiveSlots]_vars
  <2> SUFFICES ASSUME TypeOK, SnapshotInv, InTheirPlace, EntryInv, [Next]_vars,
                      EntryExposure' > EntryExposure, ~ raced
               PROVE  EntryExposure' <= EffectiveSlots
    OBVIOUS
  <2> DEFINE h  == Cardinality(held)
             h1 == Cardinality(held')
             k  == Cardinality(EntryOrders)
             k1 == Cardinality(EntryOrders')
  <2>1. IsFiniteSet(held) /\ IsFiniteSet(EntryOrders) /\ IsFiniteSet(Enters)
    BY AccountIsFinite DEF EntryInv
  <2>2. h \in Nat /\ k \in Nat /\ h1 + k1 > h + k /\ EntryExposure' = h1 + k1
    BY <2>1, FewerCount DEF EntryExposure
  <2>3. ASSUME Sheds PROVE FALSE
    <3>1. h1 \in Nat /\ h1 <= h /\ k1 \in Nat /\ k1 <= k
      BY <2>1, <2>3, FewerCount DEF Sheds
    <3> HIDE DEF h, h1, k, k1
    <3> QED
      BY <2>2, <3>1
  <2>4. ASSUME ReadPositions \/ PlanKill \/ PlanRun PROVE FALSE
    <3>1. UNCHANGED venueVars
      BY <2>4 DEF ReadPositions, PlanKill, PlanRun, StartActing
    <3> QED
      BY <2>3, <3>1, VenueSheds
  <2>5. ASSUME EntryFilled PROVE FALSE
    <3>1. PICK o \in EntryOrders : EntryFills(o)
      BY <2>5 DEF EntryFilled, Filled
    <3>2. held' = held \cup {nPos + 1} /\ EntryOrders' = EntryOrders \ {o}
      BY <3>1 DEF EntryFills, OpenPosition, EntryOrders
    <3>3. h1 \in Nat /\ h1 <= h + 1
      BY <2>1, <3>2, AtMostOneMore
    <3>4. k1 = k - 1
      BY <2>1, <3>2, FS_RemoveElement
    <3> HIDE DEF h, h1, k, k1
    <3> QED
      BY <2>2, <3>3, <3>4
  <2>6. ASSUME NEW r \in todo, DoEnter(r) PROVE h1 + k1 <= EffectiveSlots
    <3>1. /\ r \in Enters /\ pc = "act" /\ IsNext(r)
          /\ \/ held' = held /\ EntryOrders' \subseteq EntryOrders \cup {nOrd + 1}
             \/ EntryOrders' = EntryOrders /\ held' \subseteq held \cup {nPos + 1}
      BY <2>6, EnteringTakesItsSlot
    <3>2. ToBeCancelled = {}
      <4> SUFFICES ASSUME NEW q \in todo, q.op = "cancelStale" PROVE FALSE
        BY DEF ToBeCancelled
      <4>1. r.op = "enter" /\ Before(r.at, q.at)
        BY <3>1 DEF IsNext, Enters
      <4>2. /\ r.at \in [1..5 -> Int] /\ r.at[1] = 5
            /\ q.at \in [1..5 -> Int] /\ q.at[1] = 4
        BY <4>1 DEF InTheirPlace
      <4>3. PICK i \in 1..5 : r.at[i] < q.at[i] /\ \A j \in 1..(i - 1) : r.at[j] = q.at[j]
        BY <4>1, <4>2 DEF Before
      <4>4. i # 1
        BY <4>2, <4>3
      <4>5. 1 \in 1..(i - 1)
        BY <4>4
      <4> QED
        BY <4>2, <4>3, <4>5
    <3> DEFINE c == Cardinality(Enters)
    <3>3. c \in Nat /\ c # 0
      BY <2>1, <3>1, FS_CardinalityType, FS_EmptySet
    <3>4. h + k + c <= EffectiveSlots
      <4>1. EntryOrders \ ToBeCancelled = EntryOrders
        BY <3>2
      <4> QED
        BY <3>1, <4>1 DEF EntryInv, RoomLeft
    <3>5. EffectiveSlots \in Int
      BY TradeBookAssumption, LiveExecutorAssumption
         DEF EffectiveSlots, AtMost, TypeOK, BookTypeOK
    <3>6. h1 \in Nat /\ k1 \in Nat /\ h1 + k1 <= h + k + 1
      <4>1. CASE held' = held /\ EntryOrders' \subseteq EntryOrders \cup {nOrd + 1}
        <5>1. k1 \in Nat /\ k1 <= k + 1 /\ h1 = h
          BY <2>1, <4>1, AtMostOneMore
        <5> HIDE DEF h, h1, k, k1
        <5> QED
          BY <2>2, <5>1
      <4>2. CASE EntryOrders' = EntryOrders /\ held' \subseteq held \cup {nPos + 1}
        <5>1. h1 \in Nat /\ h1 <= h + 1 /\ k1 = k
          BY <2>1, <4>2, AtMostOneMore
        <5> HIDE DEF h, h1, k, k1
        <5> QED
          BY <2>2, <5>1
      <4> QED
        BY <3>1, <4>1, <4>2
    <3> HIDE DEF h, h1, k, k1, c
    <3> QED
      BY <2>2, <3>3, <3>4, <3>5, <3>6
  <2>7. Rations => Sheds
    BY DEF Rations
  <2> QED
    BY <2>2, <2>3, <2>4, <2>5, <2>6, <2>7, StepsOfTheSlots
<1> QED
  BY <1>1, TypeCorrect, SnapshotInvariant, PlacesInvariant, EntryInvariant, PTL
     DEF Spec, EntriesRespectSlots

=============================================================================
