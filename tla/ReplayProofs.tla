---------------------------- MODULE ReplayProofs ----------------------------
(***************************************************************************)
(* Theorems about Replay: the invariant of the loop, that a reached stop    *)
(* exits, that no exit looks ahead, and that the loop implements TradeBook. *)
(* The folds of a bar (exits, resting orders, signals) are unrolled into    *)
(* the values they take after each element; what a fold comes to is then    *)
(* shown prefix by prefix.                                                  *)
(***************************************************************************)
EXTENDS Replay, Arithmetic, SequenceTheorems

(***************************************************************************)
(* Types.                                                                  *)
(***************************************************************************)
SlotType ==
    [trade : Trades, entry : Prices, idx : Nat, held : Nat, best : Prices, sl : Nat,
     deferred : BOOLEAN]

RatchetType == [stop : Nat, last : Nat]
KeyType     == Nat \X BOOLEAN
TrailType   == UNION { [K -> RatchetType] : K \in SUBSET KeyType }

Reasons   == {"none", "STOP_LOSS", "TAKE_PROFIT", "TIME_STOP", "TRAIL_STOP"}
ExitsLeft == [kept : Seq(SlotType), trail : TrailType,
              closed : SUBSET [trade : Trades, reason : Reasons, price : Int]]

(* A stop that protects at least as well.                                  *)
NoLooser(t, new, old) == IF Long(t) THEN new >= old ELSE new <= old

(* What the assumption says of the constants, one by one.                  *)
LEMMA PriceFacts ==
    /\ Prices \subseteq Nat /\ SlDist \in Nat /\ TpDist \in Nat /\ TimeStop \in Nat
    /\ InvalDist \in Nat /\ RecalcBars \in Nat \ {0} /\ LimitLife \in Nat \ {0}
    /\ MaxSlots \in Nat \ {0} /\ MaxTrade \in Nat /\ MaxBar \in Nat /\ MaxSignals \in Nat
    /\ \A p \in Prices : p \in Nat /\ p - SlDist \in Nat
  BY ReplayAssumption

(* A bar is well formed.                                                   *)
LEMMA BarFacts ==
    ASSUME NEW b \in Bars
    PROVE  /\ b.open \in Prices /\ b.high \in Prices /\ b.low \in Prices /\ b.close \in Prices
           /\ b.open \in Nat /\ b.high \in Nat /\ b.low \in Nat /\ b.close \in Nat
           /\ b.low <= b.open /\ b.low <= b.close /\ b.open <= b.high /\ b.close <= b.high
  BY PriceFacts DEF Bars

(* What a position is made of.                                             *)
LEMMA SlotFacts ==
    ASSUME NEW s \in SlotType
    PROVE  /\ s.trade \in Trades /\ s.entry \in Prices /\ s.entry \in Nat /\ s.idx \in Nat
           /\ s.held \in Nat /\ s.best \in Prices /\ s.best \in Nat /\ s.sl \in Nat
           /\ s.deferred \in BOOLEAN /\ Key(s) \in KeyType
<1>1. s.trade \in Trades /\ s.entry \in Prices /\ s.best \in Prices /\ s.idx \in Nat
  BY DEF SlotType
<1>2. s.held \in Nat /\ s.sl \in Nat /\ s.deferred \in BOOLEAN
  BY DEF SlotType
<1>3. s.entry \in Nat /\ s.best \in Nat
  BY <1>1, PriceFacts
<1>4. (s.trade \in LongTrades) \in BOOLEAN
  OBVIOUS
<1>5. Key(s) \in KeyType
  BY <1>1, <1>4 DEF Key, KeyType, Long
<1> QED
  BY <1>1, <1>2, <1>3, <1>5

(* Marking changes the best price only.                                    *)
LEMMA MarkedTyped ==
    ASSUME NEW s \in SlotType, NEW b \in Bars
    PROVE  /\ Marked(s, b) \in SlotType
           /\ Marked(s, b).trade = s.trade /\ Marked(s, b).entry = s.entry
           /\ Marked(s, b).idx = s.idx /\ Marked(s, b).sl = s.sl
           /\ Marked(s, b).deferred = s.deferred /\ Marked(s, b).held = s.held
           /\ Key(Marked(s, b)) = Key(s)
<1> DEFINE best == IF Long(s.trade) THEN AtLeast(s.best, b.high) ELSE AtMost(s.best, b.low)
<1>1. best \in Prices
  BY SlotFacts, BarFacts DEF AtLeast, AtMost
<1>2. Marked(s, b) = [s EXCEPT !.best = best]
  BY DEF Marked
<1> HIDE DEF best
<1> QED
  BY <1>1, <1>2 DEF SlotType, Key

(***************************************************************************)
(* The ratchet.                                                            *)
(***************************************************************************)
(* A trail gives every key it knows a ratchet.                             *)
LEMMA TrailFacts ==
    ASSUME NEW tr \in TrailType
    PROVE  /\ DOMAIN tr \subseteq KeyType /\ tr = [k \in DOMAIN tr |-> tr[k]]
           /\ \A k \in DOMAIN tr : tr[k] \in RatchetType
<1>1. PICK K \in SUBSET KeyType : tr \in [K -> RatchetType]
  BY DEF TrailType
<1> QED
  BY <1>1

(* Noting changes the ratchet of one key only.                             *)
LEMMA NotedTyped ==
    ASSUME NEW tr \in TrailType, NEW s \in SlotType, NEW r \in RatchetType
    PROVE  /\ Noted(s, r, tr) \in TrailType /\ DOMAIN Noted(s, r, tr) = DOMAIN tr \cup {Key(s)}
           /\ Noted(s, r, tr)[Key(s)] = r
           /\ \A k \in DOMAIN tr : k # Key(s) => Noted(s, r, tr)[k] = tr[k]
<1> DEFINE K == DOMAIN tr \cup {Key(s)}
<1>1. K \in SUBSET KeyType
  BY TrailFacts, SlotFacts
<1>2. Noted(s, r, tr) \in [K -> RatchetType]
  BY TrailFacts DEF Noted
<1> QED
  BY <1>1, <1>2 DEF Noted, TrailType

(* A position has a ratchet, noted or not.                                 *)
LEMMA RatchetTyped ==
    ASSUME NEW tr \in TrailType, NEW s \in SlotType, n \in Nat
    PROVE  Ratchet(s, tr) \in RatchetType
<1>1. CASE Key(s) \in DOMAIN tr
  BY <1>1, TrailFacts DEF Ratchet
<1>2. CASE Key(s) \notin DOMAIN tr
  BY <1>2, SlotFacts DEF Ratchet, RatchetType
<1> QED
  BY <1>1, <1>2

(* A recomputation never loosens.                                          *)
LEMMA RecomputedTyped ==
    ASSUME NEW s \in SlotType, NEW r \in RatchetType, n \in Nat
    PROVE  /\ Recomputed(s, r) \in RatchetType
           /\ NoLooser(s.trade, Recomputed(s, r).stop, r.stop)
<1> DEFINE new == Worse(s.trade, s.best, SlDist)
           stop == Recomputed(s, r).stop
           last == Recomputed(s, r).last
<1>1. new \in Nat
  BY PriceFacts, SlotFacts DEF Worse
<1>2. r.stop \in Nat /\ r.last \in Nat
  BY DEF RatchetType
<1>3. last \in {n, r.last} /\ (stop = r.stop \/ (stop = new /\ Tighter(s.trade, new, r.stop)))
  BY DEF Recomputed
<1>4. Recomputed(s, r) = [stop |-> stop, last |-> last]
  BY DEF Recomputed
<1> HIDE DEF new, stop, last
<1>5. stop \in Nat /\ last \in Nat
  BY <1>1, <1>2, <1>3
<1>6. NoLooser(s.trade, stop, r.stop)
  BY <1>1, <1>2, <1>3 DEF NoLooser, Tighter
<1> QED
  BY <1>4, <1>5, <1>6 DEF RatchetType, stop

(* What an exit may do to the ratchets: nothing, or note one for its       *)
(* position that is no looser.                                             *)
Ratcheted(s, tr, new) ==
    \/ new = tr
    \/ \E r \in RatchetType :
         new = Noted(s, r, tr) /\ NoLooser(s.trade, r.stop, Ratchet(s, tr).stop)

(* A trailing exit is one that the bar has reached, at no better a price.  *)
TrailedWell(s, b, tr, x) ==
    /\ FallsTo(s.trade, b, Ratchet(s, tr).stop)
    /\ ~ Tighter(s.trade, x.price, Ratchet(s, tr).stop)

(* evaluate_exit: a reached initial stop exits, no ratchet moves.          *)
LEMMA StaticFacts ==
    ASSUME NEW s \in SlotType, NEW b \in Bars, NEW tr, NEW x, x = StaticExit(s, b, tr)
    PROVE  /\ x.reason \in Reasons \ {"TRAIL_STOP"} /\ x.price \in Int /\ x.trail = tr
           /\ SlDist > 0 /\ FallsTo(s.trade, b, s.sl) => x.reason # "none"
<1>1. s.sl \in Int /\ b.close \in Int /\ Better(s.trade, s.entry, TpDist) \in Int
  BY PriceFacts, SlotFacts, BarFacts DEF Better, Worse
<1>2. x = Outcome(x.reason, x.price, tr) /\ x.trail = tr
      /\ << x.reason, x.price >> \in { << "STOP_LOSS", s.sl >>,
              << "TAKE_PROFIT", Better(s.trade, s.entry, TpDist) >>,
              << "TIME_STOP", b.close >>, << "none", 0 >> }
  BY DEF StaticExit, Outcome
<1>3. SlDist > 0 /\ FallsTo(s.trade, b, s.sl) => x.reason = "STOP_LOSS"
  BY DEF StaticExit, Outcome
<1> QED
  BY <1>1, <1>2, <1>3 DEF Reasons

(* dynamic_exit: a reached ratchet exits, at the stop or worse.            *)
LEMMA DynamicFacts ==
    ASSUME NEW s \in SlotType, NEW b \in Bars, NEW tr \in TrailType, n \in Nat,
           NEW x, x = DynamicExit(s, b, tr)
    PROVE  /\ x.reason \in Reasons /\ x.price \in Int /\ Ratcheted(s, tr, x.trail)
           /\ x.trail \in TrailType
           /\ SlDist > 0 /\ FallsTo(s.trade, b, Ratchet(s, tr).stop) => x.reason # "none"
           /\ x.reason = "TRAIL_STOP" => TrailedWell(s, b, tr, x)
<1>1. PICK r : r = Ratchet(s, tr)
  OBVIOUS
<1>2. r \in RatchetType /\ r.stop \in Nat
  BY <1>1, RatchetTyped DEF RatchetType
<1>3. PICK hit : hit = (SlDist > 0 /\ FallsTo(s.trade, b, r.stop))
  OBVIOUS
<1>4. PICK q : q = IF hit \/ SlDist = 0 THEN r ELSE Recomputed(s, r)
  OBVIOUS
<1>5. q \in RatchetType /\ NoLooser(s.trade, q.stop, r.stop)
  <2>1. CASE q = r
    BY <2>1, <1>2 DEF NoLooser
  <2>2. CASE q = Recomputed(s, r)
    BY <2>2, <1>2, RecomputedTyped
  <2> QED
    BY <1>4, <2>1, <2>2
<1>6. PICK next : next = Noted(s, q, tr)
  OBVIOUS
<1>7. next \in TrailType /\ Ratcheted(s, tr, next)
  <2>1. next \in TrailType
    BY <1>5, <1>6, NotedTyped
  <2>2. Ratcheted(s, tr, next)
    BY <1>1, <1>5, <1>6 DEF Ratcheted
  <2> QED
    BY <2>1, <2>2
<1>8. PICK lost :
        lost = (InvalDist > 0 /\ Tighter(s.trade, Worse(s.trade, s.entry, InvalDist), b.close))
  OBVIOUS
<1>9. PICK fill : fill = StopFill(s.trade, b, r.stop)
  OBVIOUS
<1>10. x = IF hit THEN Outcome("TRAIL_STOP", fill, next)
           ELSE IF lost THEN Outcome("STOP_LOSS", b.close, next)
           ELSE Outcome("none", 0, next)
  BY <1>1, <1>3, <1>4, <1>6, <1>8, <1>9, Zenon DEF DynamicExit
<1>11. fill \in Int /\ b.close \in Int /\ ~ Tighter(s.trade, fill, r.stop)
  <2>1. fill \in Int /\ ~ Tighter(s.trade, fill, r.stop)
    BY <1>2, <1>9, BarFacts DEF StopFill, AtMost, AtLeast, Tighter
  <2> QED
    BY <2>1, BarFacts
<1>12. x.trail = next
  BY <1>10 DEF Outcome
<1>13. x.reason \in Reasons /\ x.price \in Int /\ (hit => x.reason # "none")
  BY <1>10, <1>11 DEF Outcome, Reasons
<1>14. x.reason = "TRAIL_STOP" => hit /\ x.price = fill
  BY <1>10 DEF Outcome
<1>15. x.reason = "TRAIL_STOP" => TrailedWell(s, b, tr, x)
  <2>1. HAVE x.reason = "TRAIL_STOP"
  <2>2. FallsTo(s.trade, b, r.stop) /\ ~ Tighter(s.trade, x.price, r.stop)
    BY <2>1, <1>3, <1>11, <1>14
  <2> QED
    BY <2>2, <1>1 DEF TrailedWell
<1>16. SlDist > 0 /\ FallsTo(s.trade, b, Ratchet(s, tr).stop) => hit
  BY <1>1, <1>3
<1> QED
  BY <1>7, <1>12, <1>13, <1>15, <1>16

(* The bar leaves a position no choice.                                    *)
MustLeave(s, b, tr) ==
    /\ SlDist > 0 /\ ~ tpAtNextOpen
    /\ FallsTo(s.trade, b, s.sl) \/ FallsTo(s.trade, b, Ratchet(s, tr).stop)

(* Both together, for a position that may be leaving already.              *)
LEMMA ExitFacts ==
    ASSUME NEW s \in SlotType, NEW b \in Bars, NEW tr \in TrailType, n \in Nat,
           NEW x, x = ExitOf(s, b, tr)
    PROVE  /\ x.reason \in Reasons /\ x.price \in Int /\ Ratcheted(s, tr, x.trail)
           /\ x.trail \in TrailType
           /\ MustLeave(s, b, tr) => x.reason # "none"
           /\ x.reason = "TRAIL_STOP" => TrailedWell(s, b, tr, x)
<1>1. Ratcheted(s, tr, tr)
  BY DEF Ratcheted
<1>2. CASE s.deferred
  <2>1. x = Outcome("TAKE_PROFIT", b.open, tr) /\ b.open \in Int
    BY <1>2, BarFacts DEF ExitOf
  <2>2. x.reason = "TAKE_PROFIT" /\ x.price \in Int /\ x.trail = tr
    BY <2>1 DEF Outcome
  <2> QED
    BY <1>1, <2>2 DEF Reasons
<1>3. CASE ~ s.deferred
  <2>1. PICK y : y = StaticExit(s, b, tr)
    OBVIOUS
  <2>2. PICK z : z = DynamicExit(s, b, tr)
    OBVIOUS
  <2>3. x = IF y.reason # "none" THEN y ELSE z
    BY <1>3, <2>1, <2>2 DEF ExitOf
  <2>4. /\ y.reason \in Reasons \ {"TRAIL_STOP"} /\ y.price \in Int /\ y.trail = tr
        /\ SlDist > 0 /\ FallsTo(s.trade, b, s.sl) => y.reason # "none"
    BY <2>1, StaticFacts
  <2>5. /\ z.reason \in Reasons /\ z.price \in Int /\ Ratcheted(s, tr, z.trail)
        /\ z.trail \in TrailType
        /\ SlDist > 0 /\ FallsTo(s.trade, b, Ratchet(s, tr).stop) => z.reason # "none"
        /\ z.reason = "TRAIL_STOP" => TrailedWell(s, b, tr, z)
    BY <2>2, DynamicFacts
  <2>6. CASE y.reason # "none"
    BY <1>1, <2>3, <2>4, <2>6
  <2>7. CASE y.reason = "none"
    BY <2>3, <2>4, <2>5, <2>7 DEF MustLeave
  <2> QED
    BY <2>6, <2>7
<1> QED
  BY <1>2, <1>3, SlotFacts

(***************************************************************************)
(* One position's turn.                                                    *)
(***************************************************************************)
Continues(u, s) == u.trade = s.trade /\ u.idx = s.idx /\ u.sl = s.sl

Record(s, r, p) == [trade |-> s.trade, reason |-> r, price |-> p]

StaysOn(acc, s, new) ==
    \E u \in SlotType :
      Continues(u, s) /\ new.kept = Append(acc.kept, u) /\ new.closed = acc.closed

Leaves(acc, s, b, new) ==
    \E r \in Reasons, p \in Int :
      /\ new.kept = acc.kept /\ new.closed = acc.closed \cup {Record(s, r, p)}
      /\ r = "TRAIL_STOP" => /\ FallsTo(s.trade, b, Ratchet(s, acc.trail).stop)
                             /\ ~ Tighter(s.trade, p, Ratchet(s, acc.trail).stop)

Turn(acc, s, b, new) ==
    /\ Ratcheted(s, acc.trail, new.trail)
    /\ StaysOn(acc, s, new) \/ Leaves(acc, s, b, new)
    /\ MustLeave(s, b, acc.trail) => new.kept = acc.kept

Advanced(s, defer) == [s EXCEPT !.held = @ + 1, !.deferred = defer]

(* A position that stays is the same position, a bar older.                *)
LEMMA AdvancedTyped ==
    ASSUME NEW s \in SlotType, NEW defer \in BOOLEAN
    PROVE  Advanced(s, defer) \in SlotType /\ Continues(Advanced(s, defer), s)
<1>1. PICK h : h = s.held + 1
  OBVIOUS
<1>2. h \in Nat
  BY <1>1, SlotFacts
<1>3. PICK u : u = [s EXCEPT !.held = h, !.deferred = defer]
  OBVIOUS
<1>4. Advanced(s, defer) = u
  BY <1>1, <1>3 DEF Advanced
<1>5. u \in SlotType
  BY <1>2, <1>3 DEF SlotType
<1>6. Continues(u, s)
  BY <1>3 DEF SlotType, Continues
<1> QED
  BY <1>4, <1>5, <1>6

(* The ratchet does not depend on the best price.                          *)
LEMMA MarkedSame ==
    ASSUME NEW s \in SlotType, NEW b \in Bars, NEW m, m = Marked(s, b), NEW tr, NEW new
    PROVE  /\ Ratchet(m, tr) = Ratchet(s, tr) /\ m.trade = s.trade
           /\ Ratcheted(m, tr, new) <=> Ratcheted(s, tr, new)
           /\ MustLeave(m, b, tr) <=> MustLeave(s, b, tr)
<1>1. m.trade = s.trade /\ Key(m) = Key(s) /\ m.sl = s.sl
  BY MarkedTyped
<1>2. Ratchet(m, tr) = Ratchet(s, tr)
  BY <1>1 DEF Ratchet
<1>3. \A r : Noted(m, r, tr) = Noted(s, r, tr)
  BY <1>1 DEF Noted
<1>4. Ratcheted(m, tr, new) <=> Ratcheted(s, tr, new)
  BY <1>1, <1>2, <1>3, Zenon DEF Ratcheted
<1>5. MustLeave(m, b, tr) <=> MustLeave(s, b, tr)
  BY <1>1, <1>2, Zenon DEF MustLeave
<1> QED
  BY <1>1, <1>2, <1>4, <1>5

(* What the loop over the exits carries.                                   *)
LEMMA AppendExits ==
    ASSUME NEW acc \in ExitsLeft
    PROVE  /\ acc.kept \in Seq(SlotType) /\ acc.trail \in TrailType
           /\ acc.closed \in SUBSET [trade : Trades, reason : Reasons, price : Int]
  BY DEF ExitsLeft

(* The turn of one position, whatever the ones before it left.             *)
LEMMA ExitStepFacts ==
    ASSUME NEW acc \in ExitsLeft, NEW old \in SlotType, NEW b \in Bars, n \in Nat,
           tpAtNextOpen \in BOOLEAN
    PROVE  ExitStep(acc, old, b) \in ExitsLeft /\ Turn(acc, old, b, ExitStep(acc, old, b))
<1>1. PICK s : s = Marked(old, b)
  OBVIOUS
<1>2. s \in SlotType /\ s.trade = old.trade /\ s.deferred \in BOOLEAN /\ Continues(s, old)
  BY <1>1, MarkedTyped, SlotFacts DEF Continues
<1>3. PICK x : x = ExitOf(s, b, acc.trail)
  OBVIOUS
<1>4. /\ x.reason \in Reasons /\ x.price \in Int /\ Ratcheted(s, acc.trail, x.trail)
      /\ x.trail \in TrailType
      /\ MustLeave(s, b, acc.trail) => x.reason # "none"
      /\ x.reason = "TRAIL_STOP" => TrailedWell(s, b, acc.trail, x)
  BY <1>2, <1>3, ExitFacts, AppendExits
<1>5. PICK defer : defer = (tpAtNextOpen /\ x.reason = "TAKE_PROFIT" /\ ~ s.deferred)
  OBVIOUS
<1>6. defer \in BOOLEAN
  BY <1>5
<1>7. PICK u : u = Advanced(s, defer)
  OBVIOUS
<1>8. u \in SlotType /\ Continues(u, old)
  BY <1>2, <1>6, <1>7, AdvancedTyped DEF Continues
<1>9. PICK stays : stays = (x.reason = "none" \/ defer)
  OBVIOUS
<1>10. PICK new : new = ExitStep(acc, old, b)
  OBVIOUS
<1>11. new = [kept   |-> IF stays THEN Append(acc.kept, u) ELSE acc.kept,
              trail  |-> x.trail,
              closed |-> IF stays THEN acc.closed
                         ELSE acc.closed \cup {[trade |-> s.trade, reason |-> x.reason,
                                                price |-> x.price]}]
  BY <1>1, <1>3, <1>5, <1>7, <1>9, <1>10, Zenon DEF ExitStep, Advanced
<1>12. Ratcheted(old, acc.trail, new.trail) /\ new.trail = x.trail
  BY <1>1, <1>4, <1>11, MarkedSame
<1>13. CASE stays
  <2>1. new = [kept |-> Append(acc.kept, u), trail |-> x.trail, closed |-> acc.closed]
    BY <1>11, <1>13
  <2>2. StaysOn(acc, old, new)
    BY <1>8, <2>1 DEF StaysOn
  <2>3. new \in ExitsLeft
    BY <1>4, <1>8, <2>1, AppendExits DEF ExitsLeft
  <2>4. ~ MustLeave(old, b, acc.trail)
    <3>1. SUFFICES ASSUME MustLeave(old, b, acc.trail) PROVE FALSE
      OBVIOUS
    <3>2. MustLeave(s, b, acc.trail)
      BY <1>1, <3>1, MarkedSame
    <3>3. ~ tpAtNextOpen
      BY <3>1 DEF MustLeave
    <3> QED
      BY <1>4, <1>5, <1>9, <1>13, <3>2, <3>3
  <2> QED
    BY <1>10, <1>12, <2>2, <2>3, <2>4 DEF Turn
<1>14. CASE ~ stays
  <2>1. new = [kept |-> acc.kept, trail |-> x.trail,
               closed |-> acc.closed \cup {Record(old, x.reason, x.price)}]
    BY <1>2, <1>11, <1>14 DEF Record
  <2>2. x.reason = "TRAIL_STOP" =>
          /\ FallsTo(old.trade, b, Ratchet(old, acc.trail).stop)
          /\ ~ Tighter(old.trade, x.price, Ratchet(old, acc.trail).stop)
    <3>1. Ratchet(s, acc.trail) = Ratchet(old, acc.trail) /\ s.trade = old.trade
      BY <1>1, MarkedSame
    <3> QED
      BY <1>4, <3>1 DEF TrailedWell
  <2>3. new.kept = acc.kept /\ new.closed = acc.closed \cup {Record(old, x.reason, x.price)}
    BY <2>1
  <2>4. Leaves(acc, old, b, new)
    BY <1>4, <2>2, <2>3 DEF Leaves
  <2>5. Record(old, x.reason, x.price) \in [trade : Trades, reason : Reasons, price : Int]
    BY <1>4, SlotFacts DEF Record
  <2>6. new \in ExitsLeft
    BY <1>4, <2>1, <2>5, AppendExits DEF ExitsLeft
  <2> QED
    BY <1>10, <1>12, <2>3, <2>4, <2>6 DEF Turn
<1> QED
  BY <1>13, <1>14

(***************************************************************************)
(* The exits of a bar, one position after the other.                       *)
(***************************************************************************)
NoExits == [kept |-> <<>>, trail |-> trail, closed |-> {}]

ExitRun(b, a) ==
    /\ a \in [0..Len(slots) -> ExitsLeft] /\ a[0] = NoExits
    /\ \A i \in 1..Len(slots) : a[i] = ExitStep(a[i - 1], slots[i], b)

ExitFold(b, h) ==
    h = [s \in SUBSET DOMAIN slots |->
           IF s = {} THEN NoExits ELSE ExitStep(h[s \ {Max(s)}], slots[Max(s)], b)]

(* Exits(b) is the last of the values the loop goes through.               *)
LEMMA ExitsRun ==
    ASSUME NEW b \in Bars, n \in Nat, tpAtNextOpen \in BOOLEAN, slots \in Seq(SlotType),
           trail \in TrailType
    PROVE  \E a : ExitRun(b, a) /\ Exits(b) = a[Len(slots)]
<1>1. PICK seq \in Seq(SlotType) : seq = slots
  OBVIOUS
<1>2. PICK o : o = [v \in ExitsLeft \X SlotType |-> ExitStep(v[1], v[2], b)]
  OBVIOUS
<1>3. o \in [ExitsLeft \X SlotType -> ExitsLeft]
  <2>1. \A v \in ExitsLeft \X SlotType : ExitStep(v[1], v[2], b) \in ExitsLeft
    BY ExitStepFacts
  <2> QED
    BY <1>2, <2>1
<1>4. \A v \in ExitsLeft, s \in SlotType : o[v, s] = ExitStep(v, s, b)
  BY <1>2
<1>5. PICK base : base = NoExits
  OBVIOUS
<1>6. base \in ExitsLeft
  BY <1>5 DEF NoExits, ExitsLeft
<1>7. Len(seq) \in Nat /\ DOMAIN seq = 1..Len(seq) /\ DOMAIN slots = 1..Len(seq)
  BY <1>1
<1>8. PICK h \in [SUBSET (1..Len(seq)) -> ExitsLeft] : Folding(o, base, seq, h)
  BY <1>3, <1>6, FoldsExist
<1>9. /\ h[{}] = base
      /\ \A s \in SUBSET (1..Len(seq)) : s # {} =>
           /\ h[s] = o[h[s \ {Max(s)}], seq[Max(s)]]
           /\ h[s \ {Max(s)}] \in ExitsLeft /\ seq[Max(s)] \in SlotType
  BY <1>3, <1>6, <1>8, FoldingTyped
<1>10. \A s \in SUBSET (1..Len(seq)) : s # {} =>
         h[s] = ExitStep(h[s \ {Max(s)}], seq[Max(s)], b)
  BY <1>4, <1>9
<1>11. ExitFold(b, h)
  <2>1. h = [s \in SUBSET (1..Len(seq)) |-> h[s]]
    OBVIOUS
  <2> QED
    BY <1>1, <1>5, <1>7, <1>9, <1>10, <2>1 DEF ExitFold
<1>12. PICK g : g = CHOOSE f : ExitFold(b, f)
  OBVIOUS
<1>13. ExitFold(b, g)
  BY <1>11, <1>12
<1>14. Exits(b) = g[1..Len(seq)]
  BY <1>7, <1>12 DEF Exits, FoldLeft, MapThenFoldSet, ExitFold, NoExits
<1>15. \A s \in SUBSET (1..Len(seq)) :
         g[s] = IF s = {} THEN base ELSE ExitStep(g[s \ {Max(s)}], seq[Max(s)], b)
  BY <1>1, <1>5, <1>7, <1>13 DEF ExitFold
<1>16. Solves(ExitsLeft, o, base, seq, g)
  <2>1. g[{}] = base
    BY <1>15
  <2>2. \A s \in SUBSET (1..Len(seq)) : s # {} => seq[Max(s)] \in SlotType
    BY <1>9
  <2>3. \A s \in SUBSET (1..Len(seq)) :
         s # {} /\ g[s \ {Max(s)}] \in ExitsLeft => g[s] = o[g[s \ {Max(s)}], seq[Max(s)]]
    BY <1>4, <1>15, <2>2
  <2> QED
    BY <2>1, <2>3 DEF Solves
<1>17. PICK a : a = ValuesAlong(seq, g)
  OBVIOUS
<1>18. a \in [0..Len(seq) -> ExitsLeft] /\ Marching(o, base, seq, a)
  BY <1>3, <1>6, <1>16, <1>17, FoldsMarch
<1>19. \A i \in 1..Len(seq) : a[i] = ExitStep(a[i - 1], seq[i], b)
  <2>1. TAKE i \in 1..Len(seq)
  <2>2. i - 1 \in 0..Len(seq) /\ seq[i] \in SlotType
    BY <1>7
  <2>3. a[i - 1] \in ExitsLeft /\ a[i] = o[a[i - 1], seq[i]]
    <3>1. a[i - 1] \in ExitsLeft
      BY <1>18, <2>2
    <3>2. a[i] = o[a[i - 1], seq[i]]
      BY <1>18, Zenon DEF Marching
    <3> QED
      BY <3>1, <3>2
  <2> QED
    BY <1>4, <2>2, <2>3
<1>20. Exits(b) = a[Len(seq)]
  BY <1>7, <1>14, <1>17 DEF ValuesAlong
<1>21. ExitRun(b, a)
  BY <1>1, <1>5, <1>18, <1>19 DEF ExitRun, Marching
<1> QED
  BY <1>1, <1>20, <1>21

(***************************************************************************)
(* The resting orders of a bar, one after the other.                       *)
(***************************************************************************)
OrderType == [trade : Trades, limit : Prices, expiry : Nat]
Fills     == [book : Seq(SlotType), kept : Seq(OrderType)]

(* An opened position is a position, whatever its stop.                    *)
LEMMA OpenedTyped ==
    ASSUME NEW t \in Trades, NEW p \in Prices, n \in Nat
    PROVE  Opened(t, p) \in SlotType /\ Opened(t, p).trade = t
<1>1. PICK sl : sl = IF SlDist > 0 THEN Worse(t, p, SlDist) ELSE 0
  OBVIOUS
<1>2. sl \in Nat
  BY <1>1, PriceFacts DEF Worse
<1>3. Opened(t, p) = [trade |-> t, entry |-> p, idx |-> n, held |-> 0, best |-> p, sl |-> sl,
                      deferred |-> FALSE]
  BY <1>1 DEF Opened
<1> QED
  BY <1>2, <1>3 DEF SlotType

FillsNow(acc, w, b, new) ==
    /\ n <= w.expiry /\ FallsTo(w.trade, b, w.limit) /\ Len(acc.book) < MaxSlots
    /\ new.book = Append(acc.book, Opened(w.trade, w.limit)) /\ new.kept = acc.kept

RestsOn(acc, w, b, new) ==
    /\ n <= w.expiry /\ (FallsTo(w.trade, b, w.limit) => Len(acc.book) >= MaxSlots)
    /\ new.book = acc.book /\ new.kept = Append(acc.kept, w)

Treated(acc, w, b, new) ==
    \/ n > w.expiry /\ new = acc
    \/ FillsNow(acc, w, b, new)
    \/ RestsOn(acc, w, b, new)

(* The turn of one resting order.                                          *)
LEMMA LimitStepFacts ==
    ASSUME NEW acc \in Fills, NEW w \in OrderType, NEW b \in Bars, n \in Nat
    PROVE  LimitStep(acc, w, b) \in Fills /\ Treated(acc, w, b, LimitStep(acc, w, b))
<1>1. /\ acc.book \in Seq(SlotType) /\ acc.kept \in Seq(OrderType) /\ Len(acc.book) \in Nat
      /\ acc = [book |-> acc.book, kept |-> acc.kept]
  BY DEF Fills
<1>2. w.trade \in Trades /\ w.limit \in Prices /\ w.expiry \in Nat
  BY DEF OrderType
<1>3. PICK s : s = Opened(w.trade, w.limit)
  OBVIOUS
<1>4. s \in SlotType
  BY <1>2, <1>3, OpenedTyped
<1>5. PICK new : new = LimitStep(acc, w, b)
  OBVIOUS
<1>6. MaxSlots \in Nat
  BY PriceFacts
<1>7. CASE n > w.expiry
  <2>1. new = acc
    BY <1>5, <1>7 DEF LimitStep
  <2> QED
    BY <1>5, <1>7, <2>1 DEF Treated
<1>8. CASE n <= w.expiry /\ FallsTo(w.trade, b, w.limit) /\ Len(acc.book) < MaxSlots
  <2>1. new = [acc EXCEPT !.book = Append(acc.book, s)]
    BY <1>2, <1>3, <1>5, <1>8 DEF LimitStep
  <2>2. new = [book |-> Append(acc.book, s), kept |-> acc.kept]
    BY <1>1, <2>1
  <2>3. new \in Fills
    BY <1>1, <1>4, <2>2 DEF Fills
  <2>4. FillsNow(acc, w, b, new)
    BY <1>3, <1>8, <2>2 DEF FillsNow
  <2> QED
    BY <1>5, <2>3, <2>4 DEF Treated
<1>9. CASE n <= w.expiry /\ ~ (FallsTo(w.trade, b, w.limit) /\ Len(acc.book) < MaxSlots)
  <2>1. new = [acc EXCEPT !.kept = Append(acc.kept, w)]
    BY <1>2, <1>5, <1>9 DEF LimitStep
  <2>2. new = [book |-> acc.book, kept |-> Append(acc.kept, w)]
    BY <1>1, <2>1
  <2>3. new \in Fills
    BY <1>1, <2>2 DEF Fills
  <2>4. RestsOn(acc, w, b, new)
    BY <1>1, <1>6, <1>9, <2>2 DEF RestsOn
  <2> QED
    BY <1>5, <2>3, <2>4 DEF Treated
<1> QED
  BY <1>2, <1>7, <1>8, <1>9

NoFills(book) == [book |-> book, kept |-> <<>>]

LimitRun(book, b, a) ==
    /\ a \in [0..Len(working) -> Fills] /\ a[0] = NoFills(book)
    /\ \A i \in 1..Len(working) : a[i] = LimitStep(a[i - 1], working[i], b)

LimitFold(book, b, h) ==
    h = [s \in SUBSET DOMAIN working |->
           IF s = {} THEN NoFills(book)
           ELSE LimitStep(h[s \ {Max(s)}], working[Max(s)], b)]

(* Limits is the last of the values the loop goes through.                 *)
LEMMA LimitsRun ==
    ASSUME NEW b \in Bars, n \in Nat, working \in Seq(OrderType), NEW book \in Seq(SlotType)
    PROVE  \E a : LimitRun(book, b, a) /\ Limits(book, b) = a[Len(working)]
<1>1. PICK seq \in Seq(OrderType) : seq = working
  OBVIOUS
<1>2. PICK o : o = [v \in Fills \X OrderType |-> LimitStep(v[1], v[2], b)]
  OBVIOUS
<1>3. o \in [Fills \X OrderType -> Fills]
  <2>1. \A v \in Fills \X OrderType : LimitStep(v[1], v[2], b) \in Fills
    BY LimitStepFacts
  <2> QED
    BY <1>2, <2>1
<1>4. \A v \in Fills, s \in OrderType : o[v, s] = LimitStep(v, s, b)
  BY <1>2
<1>5. PICK base : base = NoFills(book)
  OBVIOUS
<1>6. base \in Fills
  BY <1>5 DEF NoFills, Fills
<1>7. Len(seq) \in Nat /\ DOMAIN seq = 1..Len(seq) /\ DOMAIN working = 1..Len(seq)
  BY <1>1
<1>8. PICK h \in [SUBSET (1..Len(seq)) -> Fills] : Folding(o, base, seq, h)
  BY <1>3, <1>6, FoldsExist
<1>9. /\ h[{}] = base
      /\ \A s \in SUBSET (1..Len(seq)) : s # {} =>
           /\ h[s] = o[h[s \ {Max(s)}], seq[Max(s)]]
           /\ h[s \ {Max(s)}] \in Fills /\ seq[Max(s)] \in OrderType
  BY <1>3, <1>6, <1>8, FoldingTyped
<1>10. \A s \in SUBSET (1..Len(seq)) : s # {} =>
         h[s] = LimitStep(h[s \ {Max(s)}], seq[Max(s)], b)
  BY <1>4, <1>9
<1>11. LimitFold(book, b, h)
  <2>1. h = [s \in SUBSET (1..Len(seq)) |-> h[s]]
    OBVIOUS
  <2> QED
    BY <1>1, <1>5, <1>7, <1>9, <1>10, <2>1 DEF LimitFold
<1>12. PICK g : g = CHOOSE f : LimitFold(book, b, f)
  OBVIOUS
<1>13. LimitFold(book, b, g)
  BY <1>11, <1>12
<1>14. Limits(book, b) = g[1..Len(seq)]
  BY <1>7, <1>12 DEF Limits, FoldLeft, MapThenFoldSet, LimitFold, NoFills
<1>15. \A s \in SUBSET (1..Len(seq)) :
         g[s] = IF s = {} THEN base ELSE LimitStep(g[s \ {Max(s)}], seq[Max(s)], b)
  BY <1>1, <1>5, <1>7, <1>13 DEF LimitFold
<1>16. Solves(Fills, o, base, seq, g)
  <2>1. g[{}] = base
    BY <1>15
  <2>2. \A s \in SUBSET (1..Len(seq)) : s # {} => seq[Max(s)] \in OrderType
    BY <1>9
  <2>3. \A s \in SUBSET (1..Len(seq)) :
         s # {} /\ g[s \ {Max(s)}] \in Fills => g[s] = o[g[s \ {Max(s)}], seq[Max(s)]]
    BY <1>4, <1>15, <2>2
  <2> QED
    BY <2>1, <2>3 DEF Solves
<1>17. PICK a : a = ValuesAlong(seq, g)
  OBVIOUS
<1>18. a \in [0..Len(seq) -> Fills] /\ Marching(o, base, seq, a)
  BY <1>3, <1>6, <1>16, <1>17, FoldsMarch
<1>19. \A i \in 1..Len(seq) : a[i] = LimitStep(a[i - 1], seq[i], b)
  <2>1. TAKE i \in 1..Len(seq)
  <2>2. i - 1 \in 0..Len(seq) /\ seq[i] \in OrderType
    BY <1>7
  <2>3. a[i - 1] \in Fills
    BY <1>18, <2>2
  <2>4. a[i] = o[a[i - 1], seq[i]]
    BY <1>18, Zenon DEF Marching
  <2> QED
    BY <1>4, <2>2, <2>3, <2>4
<1>20. Limits(book, b) = a[Len(seq)]
  BY <1>7, <1>14, <1>17 DEF ValuesAlong
<1>21. LimitRun(book, b, a)
  BY <1>1, <1>5, <1>18, <1>19 DEF LimitRun, Marching
<1> QED
  BY <1>1, <1>20, <1>21

(***************************************************************************)
(* The signals of a bar, one after the other.                              *)
(***************************************************************************)
Sorted   == [market : Seq(Trades), resting : Seq(Trades)]
Unsorted == [market |-> <<>>, resting |-> <<>>]

SignalRun(k, a) ==
    /\ a \in [0..k -> Sorted] /\ a[0] = Unsorted
    /\ \A i \in 1..k : a[i] = SortSignal(a[i - 1], nextTrade + i - 1)

SignalFold(k, h) ==
    h = [s \in SUBSET DOMAIN NewTrades(k) |->
           IF s = {} THEN Unsorted ELSE SortSignal(h[s \ {Max(s)}], NewTrades(k)[Max(s)])]

(* The turn of one signal.                                                 *)
LEMMA SortSignalFacts ==
    ASSUME NEW acc \in Sorted, NEW t \in Trades
    PROVE  /\ SortSignal(acc, t) \in Sorted
           /\ t \in LimitTrades => /\ SortSignal(acc, t).resting = Append(acc.resting, t)
                                   /\ SortSignal(acc, t).market = acc.market
           /\ t \notin LimitTrades => /\ SortSignal(acc, t).market = Append(acc.market, t)
                                      /\ SortSignal(acc, t).resting = acc.resting
<1>1. /\ acc.market \in Seq(Trades) /\ acc.resting \in Seq(Trades)
      /\ acc = [market |-> acc.market, resting |-> acc.resting]
  BY DEF Sorted
<1>2. CASE t \in LimitTrades
  <2>1. SortSignal(acc, t) = [market |-> acc.market, resting |-> Append(acc.resting, t)]
    BY <1>1, <1>2 DEF SortSignal
  <2> QED
    BY <1>1, <1>2, <2>1 DEF Sorted
<1>3. CASE t \notin LimitTrades
  <2>1. SortSignal(acc, t) = [market |-> Append(acc.market, t), resting |-> acc.resting]
    BY <1>1, <1>3 DEF SortSignal
  <2> QED
    BY <1>1, <1>3, <2>1 DEF Sorted
<1> QED
  BY <1>2, <1>3

(* Signals(k) is the last of the values the loop goes through.             *)
LEMMA SignalsRun ==
    ASSUME NEW k \in Nat, nextTrade \in Nat \ {0}, nextTrade + k <= MaxTrade + 1
    PROVE  \E a : SignalRun(k, a) /\ Signals(k) = a[k]
<1>1. /\ NewTrades(k) \in Seq(Trades) /\ Len(NewTrades(k)) = k
      /\ \A i \in 1..k : NewTrades(k)[i] = nextTrade + i - 1
  BY PriceFacts DEF NewTrades, Trades
<1>2. PICK seq \in Seq(Trades) : seq = NewTrades(k)
  BY <1>1
<1>3. PICK o : o = [v \in Sorted \X Trades |-> SortSignal(v[1], v[2])]
  OBVIOUS
<1>4. o \in [Sorted \X Trades -> Sorted]
  <2>1. \A v \in Sorted \X Trades : SortSignal(v[1], v[2]) \in Sorted
    BY SortSignalFacts
  <2> QED
    BY <1>3, <2>1
<1>5. \A v \in Sorted, s \in Trades : o[v, s] = SortSignal(v, s)
  BY <1>3
<1>6. PICK base : base = Unsorted
  OBVIOUS
<1>7. base \in Sorted
  BY <1>6 DEF Unsorted, Sorted
<1>8. Len(seq) = k /\ DOMAIN seq = 1..k
  BY <1>1, <1>2
<1>9. PICK h \in [SUBSET (1..Len(seq)) -> Sorted] : Folding(o, base, seq, h)
  BY <1>4, <1>7, FoldsExist
<1>10. /\ h[{}] = base
       /\ \A s \in SUBSET (1..Len(seq)) : s # {} =>
            /\ h[s] = o[h[s \ {Max(s)}], seq[Max(s)]]
            /\ h[s \ {Max(s)}] \in Sorted /\ seq[Max(s)] \in Trades
  BY <1>4, <1>7, <1>9, FoldingTyped
<1>11. \A s \in SUBSET (1..Len(seq)) : s # {} => h[s] = SortSignal(h[s \ {Max(s)}], seq[Max(s)])
  BY <1>5, <1>10
<1>12. SignalFold(k, h)
  <2>1. h = [s \in SUBSET (1..Len(seq)) |-> h[s]]
    OBVIOUS
  <2> QED
    BY <1>2, <1>6, <1>8, <1>10, <1>11, <2>1 DEF SignalFold
<1>13. PICK g : g = CHOOSE f : SignalFold(k, f)
  OBVIOUS
<1>14. SignalFold(k, g)
  BY <1>12, <1>13
<1>15. Signals(k) = g[1..Len(seq)]
  BY <1>2, <1>8, <1>13 DEF Signals, FoldLeft, MapThenFoldSet, SignalFold, Unsorted
<1>16. \A s \in SUBSET (1..Len(seq)) :
         g[s] = IF s = {} THEN base ELSE SortSignal(g[s \ {Max(s)}], seq[Max(s)])
  BY <1>2, <1>6, <1>8, <1>14 DEF SignalFold
<1>17. Solves(Sorted, o, base, seq, g)
  <2>1. g[{}] = base
    BY <1>16
  <2>2. \A s \in SUBSET (1..Len(seq)) : s # {} => seq[Max(s)] \in Trades
    BY <1>10
  <2>3. \A s \in SUBSET (1..Len(seq)) :
         s # {} /\ g[s \ {Max(s)}] \in Sorted => g[s] = o[g[s \ {Max(s)}], seq[Max(s)]]
    BY <1>5, <1>16, <2>2
  <2> QED
    BY <2>1, <2>3 DEF Solves
<1>18. PICK a : a = ValuesAlong(seq, g)
  OBVIOUS
<1>19. a \in [0..Len(seq) -> Sorted] /\ Marching(o, base, seq, a)
  BY <1>4, <1>7, <1>17, <1>18, FoldsMarch
<1>20. \A i \in 1..k : a[i] = SortSignal(a[i - 1], nextTrade + i - 1)
  <2>1. TAKE i \in 1..k
  <2>2. /\ i - 1 \in 0..Len(seq) /\ i \in 1..Len(seq)
        /\ seq[i] \in Trades /\ seq[i] = nextTrade + i - 1
    BY <1>1, <1>2, <1>8
  <2>3. a[i - 1] \in Sorted
    BY <1>19, <2>2
  <2>4. a[i] = o[a[i - 1], seq[i]]
    BY <1>19, <2>2, Zenon DEF Marching
  <2> QED
    BY <1>5, <2>2, <2>3, <2>4
<1>21. Signals(k) = a[k]
  BY <1>8, <1>15, <1>18 DEF ValuesAlong
<1>22. SignalRun(k, a)
  BY <1>6, <1>8, <1>19, <1>20 DEF SignalRun, Marching
<1> QED
  BY <1>21, <1>22

(***************************************************************************)
(* Sequences in which every trade occurs once.                             *)
(***************************************************************************)
Once(seq) == \A i, j \in DOMAIN seq : seq[i].trade = seq[j].trade => i = j

TradesOf(seq) == { x.trade : x \in ToSet(seq) }

(* Appending adds one element ...                                          *)
LEMMA AppendElems ==
    ASSUME NEW D, NEW seq \in Seq(D), NEW x \in D
    PROVE  ToSet(Append(seq, x)) = ToSet(seq) \cup {x}
<1>1. PICK N \in Nat : N = Len(seq) /\ DOMAIN seq = 1..N
  OBVIOUS
<1>2. PICK app : app = Append(seq, x)
  OBVIOUS
<1>3. DOMAIN app = 1..(N + 1) /\ (\A i \in 1..N : app[i] = seq[i]) /\ app[N + 1] = x
  BY <1>1, <1>2
<1>4. ToSet(app) = { app[i] : i \in 1..(N + 1) } /\ ToSet(seq) = { seq[i] : i \in 1..N }
  BY <1>1, <1>3 DEF ToSet
<1>5. 1..(N + 1) = 1..N \cup {N + 1}
  OBVIOUS
<1>6. ToSet(app) = ToSet(seq) \cup {x}
  BY <1>3, <1>4, <1>5
<1> QED
  BY <1>2, <1>6

(* ... and a new trade keeps every trade unique.                           *)
LEMMA AppendOnce ==
    ASSUME NEW D, NEW seq \in Seq(D), NEW x \in D, Once(seq), x.trade \notin TradesOf(seq)
    PROVE  Once(Append(seq, x))
<1>1. PICK N \in Nat : N = Len(seq) /\ DOMAIN seq = 1..N
  OBVIOUS
<1>2. PICK app : app = Append(seq, x)
  OBVIOUS
<1>3. DOMAIN app = 1..(N + 1) /\ (\A i \in 1..N : app[i] = seq[i]) /\ app[N + 1] = x
  BY <1>1, <1>2
<1>4. \A i \in 1..N : seq[i].trade # x.trade
  BY <1>1 DEF TradesOf, ToSet
<1>5. \A i, j \in 1..N : seq[i].trade = seq[j].trade => i = j
  BY <1>1 DEF Once
<1>6. ASSUME NEW i \in 1..(N + 1), NEW j \in 1..(N + 1), app[i].trade = app[j].trade
      PROVE  i = j
  <2>1. CASE i \in 1..N /\ j \in 1..N
    BY <1>3, <1>5, <1>6, <2>1
  <2>2. CASE i \in 1..N /\ j \notin 1..N
    <3>1. j = N + 1
      BY <2>2
    <3> QED
      BY <1>3, <1>4, <1>6, <2>2, <3>1
  <2>3. CASE i \notin 1..N /\ j \in 1..N
    <3>1. i = N + 1
      BY <2>3
    <3> QED
      BY <1>3, <1>4, <1>6, <2>3, <3>1
  <2>4. CASE i \notin 1..N /\ j \notin 1..N
    BY <2>4
  <2> QED
    BY <2>1, <2>2, <2>3, <2>4
<1>7. Once(app)
  BY <1>3, <1>6 DEF Once
<1> QED
  BY <1>2, <1>7

(* Sequences with different trades can be joined.                          *)
LEMMA ConcatOnce ==
    ASSUME NEW D, NEW seq \in Seq(D), NEW rest \in Seq(D), Once(seq), Once(rest),
           TradesOf(seq) \cap TradesOf(rest) = {}
    PROVE  /\ seq \o rest \in Seq(D) /\ Len(seq \o rest) = Len(seq) + Len(rest)
           /\ Once(seq \o rest) /\ ToSet(seq \o rest) = ToSet(seq) \cup ToSet(rest)
<1>1. PICK M \in Nat : M = Len(seq) /\ DOMAIN seq = 1..M
  OBVIOUS
<1>2. PICK m \in Nat : m = Len(rest) /\ DOMAIN rest = 1..m
  OBVIOUS
<1>3. PICK all : all = seq \o rest
  OBVIOUS
<1>4. all \in Seq(D) /\ Len(all) = M + m
      /\ \A i \in 1..(M + m) : all[i] = IF i <= M THEN seq[i] ELSE rest[i - M]
  BY <1>1, <1>2, <1>3, ConcatProperties
<1>5. DOMAIN all = 1..(M + m)
  BY <1>1, <1>2, <1>4
<1>6. \A i \in 1..(M + m) : (i \in 1..M /\ i <= M) \/ (i - M \in 1..m /\ ~ (i <= M))
  BY <1>1, <1>2
<1>7. \A i \in 1..M : i \in 1..(M + m) /\ i <= M
  BY <1>1, <1>2
<1>8. \A k \in 1..m : k + M \in 1..(M + m) /\ ~ (k + M <= M) /\ (k + M) - M = k
  BY <1>1, <1>2
<1>9. ToSet(all) = ToSet(seq) \cup ToSet(rest)
  <2>1. ASSUME NEW u \in ToSet(all) PROVE u \in ToSet(seq) \cup ToSet(rest)
    <3>1. PICK i \in 1..(M + m) : u = all[i]
      BY <1>5, <2>1 DEF ToSet
    <3> QED
      BY <1>1, <1>2, <1>4, <1>6, <3>1 DEF ToSet
  <2>2. ASSUME NEW u \in ToSet(seq) PROVE u \in ToSet(all)
    BY <1>1, <1>4, <1>5, <1>7, <2>2 DEF ToSet
  <2>3. ASSUME NEW u \in ToSet(rest) PROVE u \in ToSet(all)
    <3>1. PICK k \in 1..m : u = rest[k]
      BY <1>2, <2>3 DEF ToSet
    <3>2. all[k + M] = u /\ k + M \in DOMAIN all
      BY <1>4, <1>5, <1>8, <3>1
    <3> QED
      BY <3>2 DEF ToSet
  <2> QED
    BY <2>1, <2>2, <2>3
<1>10. (\A i \in 1..M : seq[i].trade \in TradesOf(seq))
       /\ \A i \in 1..m : rest[i].trade \in TradesOf(rest)
  BY <1>1, <1>2 DEF TradesOf, ToSet
<1>11. (\A i, j \in 1..M : seq[i].trade = seq[j].trade => i = j)
       /\ \A i, j \in 1..m : rest[i].trade = rest[j].trade => i = j
  BY <1>1, <1>2 DEF Once
<1>12. ASSUME NEW i \in 1..(M + m), NEW j \in 1..(M + m), all[i].trade = all[j].trade
       PROVE  i = j
  <2>1. CASE i <= M /\ j <= M
    BY <1>4, <1>6, <1>11, <1>12, <2>1
  <2>2. CASE i <= M /\ ~ (j <= M)
    BY <1>4, <1>6, <1>10, <1>12, <2>2
  <2>3. CASE ~ (i <= M) /\ j <= M
    BY <1>4, <1>6, <1>10, <1>12, <2>3
  <2>4. CASE ~ (i <= M) /\ ~ (j <= M)
    <3>1. i - M \in 1..m /\ j - M \in 1..m /\ rest[i - M].trade = rest[j - M].trade
      BY <1>4, <1>6, <1>12, <2>4
    <3>2. i - M = j - M
      BY <1>11, <3>1
    <3> QED
      BY <1>1, <3>2
  <2> QED
    BY <2>1, <2>2, <2>3, <2>4
<1>13. Once(all)
  BY <1>5, <1>12 DEF Once
<1> QED
  BY <1>1, <1>2, <1>3, <1>4, <1>9, <1>13

Ascending(seq) == \A i, j \in DOMAIN seq : i < j => seq[i] < seq[j]

(* Trades are numbered.                                                    *)
LEMMA TradesAreNumbers == \A t \in Trades : t \in Nat
  BY PriceFacts DEF Trades

(* Records for ascending trades hold every trade once.                     *)
LEMMA AscendingOnce ==
    ASSUME NEW D, NEW seq \in Seq(Trades), Ascending(seq), NEW recs \in Seq(D),
           Len(recs) <= Len(seq), \A k \in DOMAIN recs : recs[k].trade = seq[k]
    PROVE  Once(recs)
<1>1. SUFFICES ASSUME NEW i \in DOMAIN recs, NEW j \in DOMAIN recs, recs[i].trade = recs[j].trade
               PROVE  i = j
  BY DEF Once
<1>2. i \in DOMAIN seq /\ j \in DOMAIN seq /\ i \in Nat /\ j \in Nat
  OBVIOUS
<1>3. seq[i] = seq[j] /\ seq[i] \in Nat
  BY <1>1, <1>2, TradesAreNumbers
<1>4. ~ (i < j) /\ ~ (j < i)
  BY <1>2, <1>3 DEF Ascending
<1> QED
  BY <1>2, <1>4

(* A book with every trade once is as long as its trades are many.         *)
LEMMA OnceCounts ==
    ASSUME NEW D, NEW seq \in Seq(D), Once(seq)
    PROVE  IsFiniteSet(TradesOf(seq)) /\ Cardinality(TradesOf(seq)) = Len(seq)
<1>1. PICK N \in Nat : N = Len(seq) /\ DOMAIN seq = 1..N
  OBVIOUS
<1>2. PICK f : f = [i \in 1..N |-> seq[i].trade]
  OBVIOUS
<1>3. TradesOf(seq) = { f[i] : i \in 1..N }
  BY <1>1, <1>2 DEF TradesOf, ToSet
<1>4. f \in Bijection(1..N, TradesOf(seq))
  <2>1. f \in [1..N -> TradesOf(seq)]
    BY <1>2, <1>3
  <2>2. \A i, j \in 1..N : f[i] = f[j] => i = j
    BY <1>1, <1>2 DEF Once
  <2> QED
    BY <1>3, <2>1, <2>2 DEF Bijection, Injection, Surjection, IsInjective
<1>5. IsFiniteSet(1..N) /\ Cardinality(1..N) = N
  BY FS_Interval
<1>6. ExistsBijection(1..N, TradesOf(seq))
  BY <1>4 DEF ExistsBijection
<1> QED
  BY <1>1, <1>5, <1>6, FS_Bijection

(***************************************************************************)
(* What the exits leave.                                                   *)
(***************************************************************************)
Steady(s) == Key(s) \in DOMAIN trail \/ Alone(s)

(* What is known of the stops after some positions had their turn.         *)
StopsKept(b, a, i) ==
    /\ DOMAIN trail \subseteq DOMAIN a[i].trail
    /\ \A s \in ToSet(slots) :
         Steady(s) => NoLooser(s.trade, Ratchet(s, a[i].trail).stop, CurrentStop(s))
    /\ \A s \in ToSet(slots) :
         (\A j \in 1..i : Key(slots[j]) # Key(s)) => Ratchet(s, a[i].trail) = Ratchet(s, trail)

(* ... and of the positions that stay and the exits written down.          *)
LeftInOrder(b, a, i) ==
    /\ Once(a[i].kept) /\ Len(a[i].kept) <= i
    /\ \A u \in ToSet(a[i].kept) : \E j \in 1..i :
         Continues(u, slots[j]) /\ a[j].kept # a[j - 1].kept
    /\ \A c \in a[i].closed : \E j \in 1..i :
         /\ c.trade = slots[j].trade
         /\ c.reason = "TRAIL_STOP" =>
              /\ FallsTo(slots[j].trade, b, Ratchet(slots[j], a[j - 1].trail).stop)
              /\ ~ Tighter(slots[j].trade, c.price, Ratchet(slots[j], a[j - 1].trail).stop)

(* What Ratcheted means for the stop of any position.                      *)
LEMMA OthersUntouched ==
    ASSUME NEW s \in SlotType, NEW t \in SlotType, NEW tr \in TrailType, NEW new \in TrailType,
           Ratcheted(t, tr, new), Key(t) # Key(s)
    PROVE  Ratchet(s, new) = Ratchet(s, tr)
<1>1. CASE new = tr
  BY <1>1
<1>2. CASE \E r \in RatchetType : new = Noted(t, r, tr)
  <2>1. PICK r \in RatchetType : new = Noted(t, r, tr)
    BY <1>2
  <2>2. /\ DOMAIN new = DOMAIN tr \cup {Key(t)}
        /\ \A k \in DOMAIN tr : k # Key(t) => new[k] = tr[k]
    BY <2>1, NotedTyped
  <2> QED
    BY <2>2 DEF Ratchet
<1> QED
  BY <1>1, <1>2, Zenon DEF Ratcheted

(* A noted ratchet is no looser for the positions that share it.           *)
LEMMA OwnTightens ==
    ASSUME NEW s \in SlotType, NEW t \in SlotType, NEW tr \in TrailType, NEW new \in TrailType,
           Ratcheted(t, tr, new), Key(t) = Key(s), t = s \/ Key(s) \in DOMAIN tr, n \in Nat
    PROVE  NoLooser(s.trade, Ratchet(s, new).stop, Ratchet(s, tr).stop)
<1>0. Ratchet(s, tr).stop \in Nat
  BY RatchetTyped DEF RatchetType
<1>1. CASE new = tr
  BY <1>0, <1>1 DEF NoLooser
<1>2. CASE \E r \in RatchetType :
             new = Noted(t, r, tr) /\ NoLooser(t.trade, r.stop, Ratchet(t, tr).stop)
  <2>1. PICK r \in RatchetType :
             new = Noted(t, r, tr) /\ NoLooser(t.trade, r.stop, Ratchet(t, tr).stop)
    BY <1>2
  <2>2. DOMAIN new = DOMAIN tr \cup {Key(t)} /\ new[Key(t)] = r
    BY <2>1, NotedTyped
  <2>3. Ratchet(s, new) = r
    BY <2>2 DEF Ratchet
  <2>4. Ratchet(t, tr) = Ratchet(s, tr)
    BY DEF Ratchet
  <2>5. Long(t.trade) = Long(s.trade)
    BY DEF Key
  <2> QED
    BY <2>1, <2>3, <2>4, <2>5 DEF NoLooser
<1> QED
  BY <1>1, <1>2, Zenon DEF Ratcheted

(* No ratchet is forgotten while the exits are checked.                    *)
LEMMA DomainsGrow ==
    ASSUME NEW t \in SlotType, NEW tr \in TrailType, NEW new, Ratcheted(t, tr, new)
    PROVE  DOMAIN tr \subseteq DOMAIN new
<1>1. CASE new = tr
  BY <1>1
<1>2. CASE \E r \in RatchetType : new = Noted(t, r, tr)
  BY <1>2, NotedTyped
<1> QED
  BY <1>1, <1>2, Zenon DEF Ratcheted

(* Tightening twice is tightening.                                         *)
LEMMA NoLooserAdds ==
    ASSUME NEW t, NEW x \in Int, NEW y \in Int, NEW z \in Int,
           NoLooser(t, x, y), NoLooser(t, y, z)
    PROVE  NoLooser(t, x, z)
  BY DEF NoLooser

(* The facts a turn starts from.                                           *)
LEMMA TurnFacts ==
    ASSUME NEW b \in Bars, n \in Nat, tpAtNextOpen \in BOOLEAN, slots \in Seq(SlotType),
           trail \in TrailType, NEW a, ExitRun(b, a), NEW i \in 1..Len(slots)
    PROVE  /\ i - 1 \in 0..Len(slots) /\ a[i - 1] \in ExitsLeft /\ a[i] \in ExitsLeft
           /\ slots[i] \in SlotType /\ slots[i] \in ToSet(slots)
           /\ a[i - 1].trail \in TrailType /\ a[i].trail \in TrailType
           /\ Turn(a[i - 1], slots[i], b, a[i])
<1>1. i - 1 \in 0..Len(slots) /\ i \in 0..Len(slots) /\ slots[i] \in SlotType /\ i \in DOMAIN slots
  OBVIOUS
<1>2. a[i - 1] \in ExitsLeft /\ a[i] \in ExitsLeft
  BY <1>1 DEF ExitRun
<1>3. a[i] = ExitStep(a[i - 1], slots[i], b)
  BY DEF ExitRun
<1>4. Turn(a[i - 1], slots[i], b, a[i])
  BY <1>1, <1>2, <1>3, ExitStepFacts
<1>5. slots[i] \in ToSet(slots)
  BY <1>1 DEF ToSet
<1> QED
  BY <1>1, <1>2, <1>4, <1>5, AppendExits

(* An open position has a place in the book.                               *)
LEMMA SlotsTyped ==
    ASSUME slots \in Seq(SlotType), NEW s \in ToSet(slots)
    PROVE  s \in SlotType /\ \E i \in 1..Len(slots) : s = slots[i]
<1>1. PICK i \in DOMAIN slots : s = slots[i]
  BY DEF ToSet
<1> QED
  BY <1>1

(* Before the first position nothing has moved ...                         *)
LEMMA StopsKeptStarts ==
    ASSUME NEW b \in Bars, n \in Nat, slots \in Seq(SlotType), trail \in TrailType, NEW a,
           ExitRun(b, a)
    PROVE  StopsKept(b, a, 0)
<1>1. a[0].trail = trail
  BY DEF ExitRun, NoExits
<1>2. ASSUME NEW s \in ToSet(slots)
      PROVE  NoLooser(s.trade, Ratchet(s, a[0].trail).stop, CurrentStop(s))
  <2>1. CurrentStop(s) = Ratchet(s, a[0].trail).stop /\ CurrentStop(s) \in Nat
    BY <1>1, SlotsTyped, RatchetTyped DEF CurrentStop, RatchetType
  <2> QED
    BY <2>1 DEF NoLooser
<1> QED
  BY <1>1, <1>2 DEF StopsKept

(* ... and each turn keeps the stops of the others.                        *)
LEMMA StopsKeptOn ==
    ASSUME NEW b \in Bars, n \in Nat, tpAtNextOpen \in BOOLEAN, slots \in Seq(SlotType),
           trail \in TrailType, NEW a, ExitRun(b, a), NEW i \in 1..Len(slots),
           StopsKept(b, a, i - 1)
    PROVE  StopsKept(b, a, i)
<1>1. PICK t : t = slots[i]
  OBVIOUS
<1>2. PICK tr : tr = a[i - 1].trail
  OBVIOUS
<1>3. PICK new : new = a[i].trail
  OBVIOUS
<1>4. /\ t \in SlotType /\ t \in ToSet(slots) /\ tr \in TrailType /\ new \in TrailType
      /\ Ratcheted(t, tr, new)
  BY <1>1, <1>2, <1>3, TurnFacts DEF Turn
<1>5. DOMAIN trail \subseteq DOMAIN tr /\ DOMAIN trail \subseteq DOMAIN new
  <2>1. DOMAIN trail \subseteq DOMAIN tr
    BY <1>2 DEF StopsKept
  <2>2. DOMAIN tr \subseteq DOMAIN new
    BY <1>4, DomainsGrow
  <2> QED
    BY <2>1, <2>2
<1>6. ASSUME NEW s \in ToSet(slots), Steady(s)
      PROVE  NoLooser(s.trade, Ratchet(s, new).stop, CurrentStop(s))
  <2>1. s \in SlotType
    BY SlotsTyped
  <2>2. NoLooser(s.trade, Ratchet(s, tr).stop, CurrentStop(s))
    BY <1>2, <1>6 DEF StopsKept
  <2>3. CASE Key(t) # Key(s)
    <3>1. Ratchet(s, new) = Ratchet(s, tr)
      BY <1>4, <2>1, <2>3, OthersUntouched
    <3> QED
      BY <2>2, <3>1
  <2>4. CASE Key(t) = Key(s)
    <3>1. t = s \/ Key(s) \in DOMAIN tr
      BY <1>4, <1>5, <1>6, <2>4 DEF Steady, Alone
    <3>2. NoLooser(s.trade, Ratchet(s, new).stop, Ratchet(s, tr).stop)
      BY <1>4, <2>1, <2>4, <3>1, OwnTightens
    <3>3. Ratchet(s, new).stop \in Int /\ Ratchet(s, tr).stop \in Int
      <4>1. Ratchet(s, new) \in RatchetType
        BY <1>4, <2>1, RatchetTyped
      <4>2. Ratchet(s, tr) \in RatchetType
        BY <1>4, <2>1, RatchetTyped
      <4> QED
        BY <4>1, <4>2 DEF RatchetType
    <3>4. CurrentStop(s) \in Int
      BY <2>1, RatchetTyped DEF RatchetType, CurrentStop
    <3> QED
      BY <2>2, <3>2, <3>3, <3>4, NoLooserAdds
  <2> QED
    BY <2>3, <2>4
<1>7. ASSUME NEW s \in ToSet(slots), \A j \in 1..i : Key(slots[j]) # Key(s)
      PROVE  Ratchet(s, new) = Ratchet(s, trail)
  <2>1. s \in SlotType
    BY SlotsTyped
  <2>2. i \in 1..i /\ \A j \in 1..(i - 1) : j \in 1..i
    OBVIOUS
  <2>3. Key(t) # Key(s) /\ \A j \in 1..(i - 1) : Key(slots[j]) # Key(s)
    BY <1>1, <1>7, <2>2
  <2>4. Ratchet(s, tr) = Ratchet(s, trail)
    BY <1>2, <2>3 DEF StopsKept
  <2>5. Ratchet(s, new) = Ratchet(s, tr)
    BY <1>4, <2>1, <2>3, OthersUntouched
  <2> QED
    BY <2>4, <2>5
<1> QED
  BY <1>3, <1>5, <1>6, <1>7 DEF StopsKept

(* A stop reached by the bar is reached by a tighter one as well.          *)
LEMMA TighterIsReached ==
    ASSUME NEW b \in Bars, NEW t, NEW x \in Int, NEW y \in Int, NoLooser(t, x, y),
           FallsTo(t, b, y)
    PROVE  FallsTo(t, b, x)
  BY BarFacts DEF NoLooser, FallsTo

(* Every position whose published stop the bar reaches has to leave.       *)
LEMMA ReachedLeaves ==
    ASSUME NEW b \in Bars, n \in Nat, tpAtNextOpen \in BOOLEAN, slots \in Seq(SlotType),
           trail \in TrailType, NEW a, ExitRun(b, a), NEW i \in 1..Len(slots),
           StopsKept(b, a, i - 1), SlDist > 0, ~ tpAtNextOpen,
           FallsTo(slots[i].trade, b, CurrentStop(slots[i]))
    PROVE  a[i].kept = a[i - 1].kept
<1>1. PICK t : t = slots[i]
  OBVIOUS
<1>2. PICK tr : tr = a[i - 1].trail
  OBVIOUS
<1>3. t \in SlotType /\ t \in ToSet(slots) /\ tr \in TrailType /\ Turn(a[i - 1], t, b, a[i])
  BY <1>1, <1>2, TurnFacts
<1>4. FallsTo(t.trade, b, CurrentStop(t))
  BY <1>1
<1>5. FallsTo(t.trade, b, t.sl) \/ FallsTo(t.trade, b, Ratchet(t, tr).stop)
  <2>1. CASE Key(t) \in DOMAIN trail
    <3>1. NoLooser(t.trade, Ratchet(t, tr).stop, CurrentStop(t))
      BY <1>2, <1>3, <2>1 DEF StopsKept, Steady
    <3>2. Ratchet(t, tr).stop \in Int
      BY <1>3, RatchetTyped DEF RatchetType
    <3>3. CurrentStop(t) \in Int
      BY <1>3, RatchetTyped DEF RatchetType, CurrentStop
    <3> QED
      BY <1>4, <3>1, <3>2, <3>3, TighterIsReached
  <2>2. CASE Key(t) \notin DOMAIN trail
    <3>1. CurrentStop(t) = t.sl
      BY <2>2 DEF CurrentStop, Ratchet
    <3> QED
      BY <1>4, <3>1
  <2> QED
    BY <2>1, <2>2
<1>6. MustLeave(t, b, tr)
  BY <1>5 DEF MustLeave
<1> QED
  BY <1>2, <1>3, <1>6 DEF Turn

(* Before the first position nobody has left or stayed ...                 *)
LEMMA LeftInOrderStarts ==
    ASSUME NEW b, NEW a, ExitRun(b, a)
    PROVE  LeftInOrder(b, a, 0)
<1>1. a[0].kept = <<>> /\ a[0].closed = {}
  BY DEF ExitRun, NoExits
<1>2. ToSet(a[0].kept) = {} /\ Once(a[0].kept) /\ Len(a[0].kept) = 0
  BY <1>1 DEF ToSet, Once
<1> QED
  BY <1>1, <1>2 DEF LeftInOrder

(* ... and each turn sends one more position to one side.                  *)
LEMMA LeftInOrderOn ==
    ASSUME NEW b \in Bars, n \in Nat, tpAtNextOpen \in BOOLEAN, slots \in Seq(SlotType),
           trail \in TrailType, NEW a, ExitRun(b, a), NEW i \in 1..Len(slots), Once(slots),
           LeftInOrder(b, a, i - 1)
    PROVE  LeftInOrder(b, a, i)
<1>1. PICK t : t = slots[i]
  OBVIOUS
<1>2. PICK acc : acc = a[i - 1]
  OBVIOUS
<1>3. PICK new : new = a[i]
  OBVIOUS
<1>4. t \in SlotType /\ acc \in ExitsLeft /\ Turn(acc, t, b, new)
  BY <1>1, <1>2, <1>3, TurnFacts
<1>5. acc.kept \in Seq(SlotType)
  BY <1>4, AppendExits
<1>6. i \in 1..i /\ (\A j \in 1..(i - 1) : j \in 1..i /\ j # i) /\ i \in DOMAIN slots
      /\ \A j \in 1..i : j \in DOMAIN slots
  OBVIOUS
<1>7. /\ Once(acc.kept) /\ Len(acc.kept) <= i - 1
      /\ \A u \in ToSet(acc.kept) : \E j \in 1..(i - 1) :
           Continues(u, slots[j]) /\ a[j].kept # a[j - 1].kept
      /\ \A c \in acc.closed : \E j \in 1..(i - 1) :
           /\ c.trade = slots[j].trade
           /\ c.reason = "TRAIL_STOP" =>
                /\ FallsTo(slots[j].trade, b, Ratchet(slots[j], a[j - 1].trail).stop)
                /\ ~ Tighter(slots[j].trade, c.price, Ratchet(slots[j], a[j - 1].trail).stop)
  BY <1>2 DEF LeftInOrder
<1>8. \A u \in ToSet(acc.kept) : \E j \in 1..i :
         Continues(u, slots[j]) /\ a[j].kept # a[j - 1].kept
  BY <1>6, <1>7
<1>9. \A c \in acc.closed : \E j \in 1..i :
           /\ c.trade = slots[j].trade
           /\ c.reason = "TRAIL_STOP" =>
                /\ FallsTo(slots[j].trade, b, Ratchet(slots[j], a[j - 1].trail).stop)
                /\ ~ Tighter(slots[j].trade, c.price, Ratchet(slots[j], a[j - 1].trail).stop)
  BY <1>6, <1>7
<1>10. CASE StaysOn(acc, t, new)
  <2>1. PICK u \in SlotType :
          Continues(u, t) /\ new.kept = Append(acc.kept, u) /\ new.closed = acc.closed
    BY <1>10 DEF StaysOn
  <2>2. u.trade \notin TradesOf(acc.kept)
    <3>1. SUFFICES ASSUME NEW v \in ToSet(acc.kept), v.trade = u.trade PROVE FALSE
      BY DEF TradesOf
    <3>2. PICK j \in 1..(i - 1) : Continues(v, slots[j])
      BY <1>7
    <3>3. slots[j].trade = slots[i].trade
      BY <1>1, <2>1, <3>1, <3>2 DEF Continues
    <3> QED
      BY <1>6, <3>3 DEF Once
  <2>3. Once(new.kept)
    BY <1>5, <1>7, <2>1, <2>2, AppendOnce
  <2>4. ToSet(new.kept) = ToSet(acc.kept) \cup {u}
    BY <1>5, <2>1, AppendElems
  <2>5. Len(new.kept) <= i
    BY <1>5, <1>7, <2>1
  <2>6. new.kept # acc.kept
    <3>1. Len(new.kept) = Len(acc.kept) + 1 /\ Len(acc.kept) \in Nat
      BY <1>5, <2>1
    <3> QED
      BY <3>1
  <2>7. Continues(u, slots[i]) /\ a[i].kept # a[i - 1].kept
    BY <1>1, <1>2, <1>3, <2>1, <2>6
  <2>8. \A v \in ToSet(new.kept) : \E j \in 1..i :
         Continues(v, slots[j]) /\ a[j].kept # a[j - 1].kept
    BY <1>6, <1>8, <2>4, <2>7
  <2>9. new.closed = acc.closed
    BY <2>1
  <2> QED
    BY <1>3, <1>9, <2>3, <2>5, <2>8, <2>9 DEF LeftInOrder
<1>11. CASE Leaves(acc, t, b, new)
  <2>1. PICK r \in Reasons, p \in Int :
      /\ new.kept = acc.kept /\ new.closed = acc.closed \cup {Record(t, r, p)}
      /\ r = "TRAIL_STOP" => /\ FallsTo(t.trade, b, Ratchet(t, acc.trail).stop)
                             /\ ~ Tighter(t.trade, p, Ratchet(t, acc.trail).stop)
    BY <1>11 DEF Leaves
  <2>2. PICK d : d = Record(t, r, p)
    OBVIOUS
  <2>3. d.trade = t.trade /\ d.reason = r /\ d.price = p
    BY <2>2 DEF Record
  <2>4. /\ d.trade = slots[i].trade
        /\ d.reason = "TRAIL_STOP" =>
             /\ FallsTo(slots[i].trade, b, Ratchet(slots[i], a[i - 1].trail).stop)
             /\ ~ Tighter(slots[i].trade, d.price, Ratchet(slots[i], a[i - 1].trail).stop)
    BY <1>1, <1>2, <2>1, <2>3
  <2>5. \A c \in new.closed : \E j \in 1..i :
           /\ c.trade = slots[j].trade
           /\ c.reason = "TRAIL_STOP" =>
                /\ FallsTo(slots[j].trade, b, Ratchet(slots[j], a[j - 1].trail).stop)
                /\ ~ Tighter(slots[j].trade, c.price, Ratchet(slots[j], a[j - 1].trail).stop)
    <3>1. TAKE c \in new.closed
    <3>2. c \in acc.closed \/ c = d
      BY <2>1, <2>2
    <3> QED
      BY <1>6, <1>9, <2>4, <3>2
  <2>6. new.kept = acc.kept /\ Len(acc.kept) <= i
    BY <1>5, <1>7, <2>1
  <2> QED
    BY <1>3, <1>7, <1>8, <2>5, <2>6 DEF LeftInOrder
<1> QED
  BY <1>4, <1>10, <1>11 DEF Turn

(* What the loop is left with after the exits.                             *)
Reached(s, b) == SlDist > 0 /\ ~ tpAtNextOpen /\ FallsTo(s.trade, b, CurrentStop(s))

ExitsSound(b, ex) ==
    /\ ex \in ExitsLeft
    /\ Once(ex.kept) /\ Len(ex.kept) <= Len(slots)
    /\ \A u \in ToSet(ex.kept) : \E s \in ToSet(slots) : Continues(u, s) /\ ~ Reached(s, b)
    /\ \A c \in ex.closed : \E s \in ToSet(slots) :
         /\ c.trade = s.trade
         /\ c.reason = "TRAIL_STOP" /\ Alone(s) =>
              FallsTo(s.trade, b, CurrentStop(s)) /\ ~ Tighter(s.trade, c.price, CurrentStop(s))
    /\ \A s \in ToSet(slots) :
         Steady(s) => NoLooser(s.trade, Ratchet(s, ex.trail).stop, CurrentStop(s))

(* The exits of a bar, all together.                                       *)
LEMMA ExitsAreSound ==
    ASSUME NEW b \in Bars, n \in Nat, tpAtNextOpen \in BOOLEAN, slots \in Seq(SlotType),
           trail \in TrailType, Once(slots)
    PROVE  ExitsSound(b, Exits(b))
<1>1. PICK a : ExitRun(b, a) /\ Exits(b) = a[Len(slots)]
  BY ExitsRun
<1>2. PICK N \in Nat : N = Len(slots) /\ DOMAIN slots = 1..N
  OBVIOUS
<1>3. PICK T : T = { i \in 0..N : StopsKept(b, a, i) /\ LeftInOrder(b, a, i) }
  OBVIOUS
<1>4. 0 \in T
  BY <1>1, <1>2, <1>3, StopsKeptStarts, LeftInOrderStarts
<1>5. ASSUME NEW i \in 1..N, i - 1 \in T PROVE i \in T
  <2>1. StopsKept(b, a, i - 1) /\ LeftInOrder(b, a, i - 1) /\ i \in 1..Len(slots) /\ i \in 0..N
    BY <1>2, <1>3, <1>5
  <2>2. StopsKept(b, a, i)
    BY <1>1, <2>1, StopsKeptOn
  <2>3. LeftInOrder(b, a, i)
    BY <1>1, <2>1, LeftInOrderOn
  <2> QED
    BY <1>3, <2>1, <2>2, <2>3
<1>6. 0..N \subseteq T
  BY <1>4, <1>5, EveryPrefix
<1>7. \A i \in 0..N : StopsKept(b, a, i) /\ LeftInOrder(b, a, i)
  BY <1>3, <1>6
<1>8. PICK ex : ex = a[N]
  OBVIOUS
<1>9. ex \in ExitsLeft /\ N \in 0..N
  <2>1. N \in 0..N
    OBVIOUS
  <2> QED
    BY <1>1, <1>2, <1>8, <2>1 DEF ExitRun
<1>10. Once(ex.kept) /\ Len(ex.kept) <= N
  BY <1>7, <1>8, <1>9 DEF LeftInOrder
<1>11. ASSUME NEW j \in 1..N
       PROVE  slots[j] \in ToSet(slots) /\ j - 1 \in 0..N /\ j \in 1..Len(slots)
  BY <1>2 DEF ToSet
<1>12. ASSUME NEW u \in ToSet(ex.kept)
       PROVE  \E s \in ToSet(slots) : Continues(u, s) /\ ~ Reached(s, b)
  <2>1. PICK j \in 1..N : Continues(u, slots[j]) /\ a[j].kept # a[j - 1].kept
    BY <1>7, <1>8, <1>9, <1>12 DEF LeftInOrder
  <2>2. StopsKept(b, a, j - 1)
    BY <1>7, <1>11
  <2>3. ~ Reached(slots[j], b)
    BY <1>1, <1>11, <2>1, <2>2, ReachedLeaves DEF Reached
  <2> QED
    BY <1>11, <2>1, <2>3
<1>13. ASSUME NEW c \in ex.closed
       PROVE  \E s \in ToSet(slots) :
         /\ c.trade = s.trade
         /\ c.reason = "TRAIL_STOP" /\ Alone(s) =>
              FallsTo(s.trade, b, CurrentStop(s)) /\ ~ Tighter(s.trade, c.price, CurrentStop(s))
  <2>1. PICK j \in 1..N :
           /\ c.trade = slots[j].trade
           /\ c.reason = "TRAIL_STOP" =>
                /\ FallsTo(slots[j].trade, b, Ratchet(slots[j], a[j - 1].trail).stop)
                /\ ~ Tighter(slots[j].trade, c.price, Ratchet(slots[j], a[j - 1].trail).stop)
    BY <1>7, <1>8, <1>9, <1>13 DEF LeftInOrder
  <2>2. ASSUME Alone(slots[j])
        PROVE  Ratchet(slots[j], a[j - 1].trail).stop = CurrentStop(slots[j])
    <3>1. ASSUME NEW i \in 1..(j - 1) PROVE Key(slots[i]) # Key(slots[j])
      <4>1. i \in 1..N /\ i # j /\ i \in DOMAIN slots /\ j \in DOMAIN slots
        BY <1>2
      <4>2. slots[i] # slots[j]
        BY <4>1 DEF Once
      <4> QED
        BY <1>11, <2>2, <4>1, <4>2 DEF Alone
    <3>2. StopsKept(b, a, j - 1)
      BY <1>7, <1>11
    <3>3. Ratchet(slots[j], a[j - 1].trail) = Ratchet(slots[j], trail)
      BY <1>11, <3>1, <3>2 DEF StopsKept
    <3> QED
      BY <3>3 DEF CurrentStop
  <2>3. slots[j] \in ToSet(slots)
    BY <1>11
  <2> QED
    BY <2>1, <2>2, <2>3
<1>14. ASSUME NEW s \in ToSet(slots), Steady(s)
       PROVE  NoLooser(s.trade, Ratchet(s, ex.trail).stop, CurrentStop(s))
  BY <1>7, <1>8, <1>9, <1>14 DEF StopsKept
<1>15. ExitsSound(b, ex)
  BY <1>2, <1>9, <1>10, <1>12, <1>13, <1>14 DEF ExitsSound
<1> QED
  BY <1>1, <1>2, <1>8, <1>15

(***************************************************************************)
(* Market entries.                                                         *)
(***************************************************************************)
(* The k-th of ascending trades has k - 1 before it.                       *)
LEMMA RankOf ==
    ASSUME NEW seq \in Seq(Trades), Ascending(seq), NEW k \in 1..Len(seq)
    PROVE  Cardinality({ u \in ToSet(seq) : u < seq[k] }) = k - 1
<1>1. PICK N \in Nat : N = Len(seq) /\ DOMAIN seq = 1..N
  OBVIOUS
<1>2. \A i \in 1..N : seq[i] \in Nat
  BY <1>1, TradesAreNumbers
<1>3. PICK S : S = { u \in ToSet(seq) : u < seq[k] }
  OBVIOUS
<1>4. PICK m \in Nat : m = k - 1 /\ m + 1 = k /\ k \in 1..N /\ \A i \in 1..m : i \in 1..N /\ i < k
  BY <1>1
<1>5. ASSUME NEW i \in 1..N, seq[i] < seq[k] PROVE i \in 1..m
  <2>1. ~ (k < i) /\ i # k
    BY <1>1, <1>2, <1>4, <1>5 DEF Ascending
  <2> QED
    BY <1>4, <2>1
<1>6. S = { seq[i] : i \in 1..m }
  <2>1. ASSUME NEW i \in 1..m PROVE seq[i] \in S
    BY <1>1, <1>3, <1>4 DEF Ascending, ToSet
  <2>2. ASSUME NEW u \in S PROVE \E i \in 1..m : u = seq[i]
    BY <1>1, <1>3, <1>5 DEF ToSet
  <2> QED
    BY <2>1, <2>2
<1>7. PICK f : f = [i \in 1..m |-> seq[i]]
  OBVIOUS
<1>8. f \in Bijection(1..m, S)
  <2>1. f \in [1..m -> S] /\ \A s \in S : \E i \in 1..m : f[i] = s
    BY <1>6, <1>7
  <2>2. \A i, j \in 1..m : f[i] = f[j] => i = j
    <3>1. TAKE i, j \in 1..m
    <3>2. HAVE f[i] = f[j]
    <3>3. seq[i] = seq[j] /\ seq[i] \in Nat /\ i \in 1..N /\ j \in 1..N
      BY <1>2, <1>4, <1>7, <3>2
    <3>4. ~ (i < j) /\ ~ (j < i)
      BY <1>1, <3>3 DEF Ascending
    <3> QED
      BY <3>4
  <2> QED
    BY <2>1, <2>2 DEF Bijection, Injection, Surjection, IsInjective
<1>9. IsFiniteSet(1..m) /\ Cardinality(1..m) = m
  BY FS_Interval
<1>10. Cardinality(S) = m
  BY <1>8, <1>9, FS_Bijection DEF ExistsBijection
<1> QED
  BY <1>3, <1>4, <1>10

FilledTrades(book) ==
    { t \in ToSet(pending) :
        Len(book) + Cardinality({ u \in ToSet(pending) : u < t }) < MaxSlots }

FilledSound(book, filled) ==
    /\ filled \in Seq(SlotType) /\ Once(filled) /\ Len(filled) <= MaxSlots
    /\ ToSet(book) \subseteq ToSet(filled)
    /\ TradesOf(filled) = TradesOf(book) \cup FilledTrades(book)
    /\ \A u \in ToSet(filled) : u \in ToSet(book) \/ u.trade \in FilledTrades(book)

(* Step 2 fills the first pending trades there is room for, and no other.  *)
LEMMA FillsAreSound ==
    ASSUME NEW b \in Bars, n \in Nat, NEW book \in Seq(SlotType), Once(book),
           Len(book) <= MaxSlots, pending \in Seq(Trades), Ascending(pending),
           ToSet(pending) \cap TradesOf(book) = {}
    PROVE  FilledSound(book, FillPending(book, b))
<1>1. PICK M \in Nat : M = Len(book) /\ DOMAIN book = 1..M /\ M <= MaxSlots
  OBVIOUS
<1>2. PICK P \in Nat : P = Len(pending) /\ DOMAIN pending = 1..P
  OBVIOUS
<1>3. PICK m : m = AtMost(P, MaxSlots - M)
  OBVIOUS
<1>4. /\ m \in Nat /\ m <= P /\ M + m <= MaxSlots
      /\ \A k \in 1..P : k <= m <=> M + (k - 1) < MaxSlots
  BY <1>1, <1>2, <1>3, PriceFacts DEF AtMost
<1>5. PICK new : new = [k \in 1..m |-> Opened(pending[k], b.open)]
  OBVIOUS
<1>6. \A k \in 1..m : pending[k] \in Trades /\ k \in 1..P
  BY <1>2, <1>4
<1>7. \A k \in 1..m : new[k] \in SlotType /\ new[k].trade = pending[k]
  BY <1>5, <1>6, BarFacts, OpenedTyped
<1>8. new \in Seq(SlotType) /\ Len(new) = m
  <2>1. new \in [1..m -> SlotType]
    BY <1>5, <1>7
  <2> QED
    BY <1>4, <2>1
<1>9. PICK filled : filled = book \o new
  OBVIOUS
<1>10. FillPending(book, b) = filled
  BY <1>1, <1>2, <1>3, <1>5, <1>9 DEF FillPending
<1>14. \A k \in 1..P : (k <= m) <=> (pending[k] \in FilledTrades(book))
  <2>1. TAKE k \in 1..P
  <2>2. Cardinality({ u \in ToSet(pending) : u < pending[k] }) = k - 1
    BY <1>2, RankOf
  <2>3. pending[k] \in ToSet(pending)
    BY <1>2 DEF ToSet
  <2> QED
    BY <1>1, <1>4, <2>2, <2>3 DEF FilledTrades
<1>15. FilledTrades(book) = { pending[k] : k \in 1..m }
  <2>1. ASSUME NEW t \in FilledTrades(book) PROVE \E k \in 1..m : t = pending[k]
    <3>1. PICK k \in 1..P : t = pending[k]
      BY <1>2, <2>1 DEF FilledTrades, ToSet
    <3>2. k <= m
      BY <1>14, <2>1, <3>1
    <3> QED
      BY <1>4, <3>1, <3>2
  <2>2. ASSUME NEW k \in 1..m PROVE pending[k] \in FilledTrades(book)
    BY <1>4, <1>6, <1>14
  <2> QED
    BY <2>1, <2>2
<1>16. Once(new)
  BY <1>2, <1>4, <1>7, <1>8, AscendingOnce
<1>17. ToSet(new) = { new[k] : k \in 1..m } /\ TradesOf(new) = FilledTrades(book)
  <2>1. ToSet(new) = { new[k] : k \in 1..m }
    BY <1>8 DEF ToSet
  <2> QED
    BY <1>7, <1>15, <2>1 DEF TradesOf
<1>18. TradesOf(book) \cap TradesOf(new) = {}
  BY <1>17 DEF FilledTrades
<1>19. /\ filled \in Seq(SlotType) /\ Len(filled) = M + m /\ Once(filled)
       /\ ToSet(filled) = ToSet(book) \cup ToSet(new)
  <2>1. /\ book \o new \in Seq(SlotType) /\ Len(book \o new) = Len(book) + Len(new)
        /\ Once(book \o new) /\ ToSet(book \o new) = ToSet(book) \cup ToSet(new)
    BY <1>8, <1>16, <1>18, ConcatOnce
  <2> QED
    BY <1>1, <1>8, <1>9, <2>1
<1>20. TradesOf(filled) = TradesOf(book) \cup FilledTrades(book)
  BY <1>17, <1>19 DEF TradesOf
<1>21. \A u \in ToSet(filled) : u \in ToSet(book) \/ u.trade \in FilledTrades(book)
  BY <1>17, <1>19 DEF TradesOf
<1> QED
  BY <1>4, <1>10, <1>19, <1>20, <1>21 DEF FilledSound

(***************************************************************************)
(* What the resting orders come to: of the orders W treated so far, those  *)
(* in F have filled.                                                       *)
(***************************************************************************)
TradesIn(F) == { w.trade : w \in F }

FilledSoFar(book, b, acc, W, F) ==
    /\ F \subseteq W /\ \A w \in F : n <= w.expiry
    /\ Once(acc.book) /\ Len(acc.book) <= MaxSlots
    /\ ToSet(book) \subseteq ToSet(acc.book)
    /\ TradesOf(acc.book) = TradesOf(book) \cup TradesIn(F)
    /\ \A u \in ToSet(acc.book) : u \in ToSet(book) \/ u.trade \in TradesIn(F)

KeptSoFar(b, acc, W, F) ==
    /\ Once(acc.kept)
    /\ ToSet(acc.kept) = { w \in W \ F : n <= w.expiry }
    /\ \A w \in W : n <= w.expiry /\ FallsTo(w.trade, b, w.limit) =>
         w \in F \/ Len(acc.book) >= MaxSlots

(* Appending adds one trade.                                               *)
LEMMA TradesOfAppend ==
    ASSUME NEW D, NEW seq \in Seq(D), NEW x \in D
    PROVE  TradesOf(Append(seq, x)) = TradesOf(seq) \cup {x.trade}
<1>1. ToSet(Append(seq, x)) = ToSet(seq) \cup {x}
  BY AppendElems
<1> QED
  BY <1>1 DEF TradesOf

(* The induction step of the resting orders.                               *)
LEMMA OneMoreOrder ==
    ASSUME NEW book \in Seq(SlotType), NEW b \in Bars, n \in Nat, NEW acc \in Fills,
           NEW w \in OrderType, NEW new, NEW W \in SUBSET OrderType, NEW F,
           w.trade \notin TradesOf(book), w.trade \notin TradesIn(W),
           FilledSoFar(book, b, acc, W, F), KeptSoFar(b, acc, W, F), Treated(acc, w, b, new)
    PROVE  \E G : FilledSoFar(book, b, new, W \cup {w}, G) /\ KeptSoFar(b, new, W \cup {w}, G)
<1>1. w.expiry \in Nat /\ w.trade \in Trades /\ w.limit \in Prices
  BY DEF OrderType
<1>2. acc.book \in Seq(SlotType) /\ acc.kept \in Seq(OrderType) /\ Len(acc.book) \in Nat
  BY DEF Fills
<1>3. w \notin W
  BY DEF TradesIn
<1>4. F \subseteq W
  BY DEF FilledSoFar
<1>5. w.trade \notin TradesOf(acc.book)
  <2>1. TradesIn(F) \subseteq TradesIn(W)
    BY <1>4 DEF TradesIn
  <2> QED
    BY <2>1 DEF FilledSoFar
<1>6. MaxSlots \in Nat
  BY PriceFacts
<1>7. CASE n > w.expiry /\ new = acc
  <2>1. FilledSoFar(book, b, new, W \cup {w}, F)
    BY <1>7 DEF FilledSoFar
  <2>2. ~ (n <= w.expiry)
    BY <1>1, <1>7
  <2>3. KeptSoFar(b, new, W \cup {w}, F)
    BY <1>7, <2>2 DEF KeptSoFar
  <2> QED
    BY <2>1, <2>3
<1>8. CASE FillsNow(acc, w, b, new)
  <2>1. PICK u : u = Opened(w.trade, w.limit)
    OBVIOUS
  <2>2. u \in SlotType /\ u.trade = w.trade
    BY <1>1, <2>1, OpenedTyped
  <2>3. /\ n <= w.expiry /\ Len(acc.book) < MaxSlots
        /\ new.book = Append(acc.book, u) /\ new.kept = acc.kept
    BY <1>8, <2>1 DEF FillsNow
  <2>4. ToSet(new.book) = ToSet(acc.book) \cup {u}
    BY <1>2, <2>2, <2>3, AppendElems
  <2>5. TradesOf(new.book) = TradesOf(acc.book) \cup {w.trade}
    BY <1>2, <2>2, <2>3, TradesOfAppend
  <2>6. Once(new.book)
    <3>1. Once(acc.book)
      BY DEF FilledSoFar
    <3> QED
      BY <1>2, <1>5, <2>2, <2>3, <3>1, AppendOnce
  <2>7. Len(new.book) = Len(acc.book) + 1
    BY <1>2, <2>2, <2>3
  <2>8. TradesIn(F \cup {w}) = TradesIn(F) \cup {w.trade}
    BY DEF TradesIn
  <2>9. FilledSoFar(book, b, new, W \cup {w}, F \cup {w})
    <3>1. F \cup {w} \subseteq W \cup {w} /\ \A v \in F \cup {w} : n <= v.expiry
      BY <1>4, <2>3 DEF FilledSoFar
    <3>2. Len(new.book) <= MaxSlots
      BY <1>2, <1>6, <2>3, <2>7
    <3>3. ToSet(book) \subseteq ToSet(new.book)
      BY <2>4 DEF FilledSoFar
    <3>4. TradesOf(new.book) = TradesOf(book) \cup TradesIn(F \cup {w})
      BY <2>5, <2>8 DEF FilledSoFar
    <3>5. \A v \in ToSet(new.book) : v \in ToSet(book) \/ v.trade \in TradesIn(F \cup {w})
      BY <2>2, <2>4, <2>8 DEF FilledSoFar
    <3> QED
      BY <2>6, <3>1, <3>2, <3>3, <3>4, <3>5 DEF FilledSoFar
  <2>10. KeptSoFar(b, new, W \cup {w}, F \cup {w})
    <3>1. Once(new.kept)
      BY <2>3 DEF KeptSoFar
    <3>2. ToSet(new.kept) = { v \in (W \cup {w}) \ (F \cup {w}) : n <= v.expiry }
      BY <1>3, <2>3 DEF KeptSoFar
    <3>3. ASSUME NEW v \in W \cup {w}, n <= v.expiry, FallsTo(v.trade, b, v.limit)
          PROVE  v \in F \cup {w} \/ Len(new.book) >= MaxSlots
      <4>1. CASE v \in W
        <5>1. v \in F \/ Len(acc.book) >= MaxSlots
          BY <3>3, <4>1 DEF KeptSoFar
        <5> QED
          BY <1>2, <1>6, <2>7, <5>1
      <4> QED
        BY <4>1
    <3> QED
      BY <3>1, <3>2, <3>3 DEF KeptSoFar
  <2> QED
    BY <2>9, <2>10
<1>9. CASE RestsOn(acc, w, b, new)
  <2>1. /\ n <= w.expiry /\ (FallsTo(w.trade, b, w.limit) => Len(acc.book) >= MaxSlots)
        /\ new.book = acc.book /\ new.kept = Append(acc.kept, w)
    BY <1>9 DEF RestsOn
  <2>2. FilledSoFar(book, b, new, W \cup {w}, F)
    BY <2>1 DEF FilledSoFar
  <2>3. ToSet(new.kept) = ToSet(acc.kept) \cup {w}
    BY <1>2, <2>1, AppendElems
  <2>4. Once(new.kept)
    <3>1. Once(acc.kept) /\ ToSet(acc.kept) \subseteq W
      BY DEF KeptSoFar
    <3>2. w.trade \notin TradesOf(acc.kept)
      BY <3>1 DEF TradesOf, TradesIn
    <3> QED
      BY <1>2, <2>1, <3>1, <3>2, AppendOnce
  <2>5. ToSet(new.kept) = { v \in (W \cup {w}) \ F : n <= v.expiry }
    BY <1>3, <1>4, <2>1, <2>3 DEF KeptSoFar
  <2>6. ASSUME NEW v \in W \cup {w}, n <= v.expiry, FallsTo(v.trade, b, v.limit)
        PROVE  v \in F \/ Len(new.book) >= MaxSlots
    <3>1. CASE v \in W
      BY <2>1, <2>6, <3>1 DEF KeptSoFar
    <3>2. CASE v = w
      BY <2>1, <2>6, <3>2
    <3> QED
      BY <3>1, <3>2
  <2>7. KeptSoFar(b, new, W \cup {w}, F)
    BY <2>4, <2>5, <2>6 DEF KeptSoFar
  <2> QED
    BY <2>2, <2>7
<1> QED
  BY <1>7, <1>8, <1>9 DEF Treated

LimitsSound(book, b, li) ==
    /\ li \in Fills
    /\ \E F : /\ FilledSoFar(book, b, li, ToSet(working), F)
              /\ KeptSoFar(b, li, ToSet(working), F)

(* Step 3: whatever was touched has filled, or the book is full.           *)
LEMMA LimitsAreSound ==
    ASSUME NEW b \in Bars, n \in Nat, working \in Seq(OrderType), NEW book \in Seq(SlotType),
           Once(book), Len(book) <= MaxSlots, Once(working),
           TradesOf(working) \cap TradesOf(book) = {}
    PROVE  LimitsSound(book, b, Limits(book, b))
<1>1. PICK a : LimitRun(book, b, a) /\ Limits(book, b) = a[Len(working)]
  BY LimitsRun
<1>2. PICK N \in Nat : N = Len(working) /\ DOMAIN working = 1..N
  OBVIOUS
<1>3. PICK Met : Met = [i \in 0..N |-> { working[j] : j \in 1..i }]
  OBVIOUS
<1>4. \A i \in 1..N : working[i] \in OrderType /\ working[i].trade \in TradesOf(working)
  BY <1>2 DEF TradesOf, ToSet
<1>5. Met[0] = {} /\ Met[N] = ToSet(working)
  BY <1>2, <1>3 DEF ToSet
<1>6. ASSUME NEW i \in 1..N
      PROVE  /\ i - 1 \in 0..N /\ i \in 0..N /\ Met[i] = Met[i - 1] \cup {working[i]}
             /\ Met[i - 1] \in SUBSET OrderType /\ working[i].trade \notin TradesIn(Met[i - 1])
  <2>1. i - 1 \in 0..N /\ i \in 0..N /\ 1..i = 1..(i - 1) \cup {i}
        /\ \A j \in 1..(i - 1) : j \in 1..N /\ j # i
    BY <1>2
  <2>2. Met[i] = { working[j] : j \in 1..i } /\ Met[i - 1] = { working[j] : j \in 1..(i - 1) }
    BY <1>3, <2>1
  <2>3. Met[i] = Met[i - 1] \cup {working[i]}
    BY <2>1, <2>2
  <2>4. Met[i - 1] \in SUBSET OrderType
    BY <1>4, <2>1, <2>2
  <2>5. \A j \in 1..(i - 1) : working[j].trade # working[i].trade
    BY <1>2, <2>1 DEF Once
  <2>6. working[i].trade \notin TradesIn(Met[i - 1])
    BY <2>2, <2>5 DEF TradesIn
  <2> QED
    BY <2>1, <2>3, <2>4, <2>6
<1>7. PICK T : T = { i \in 0..N : \E F : /\ FilledSoFar(book, b, a[i], Met[i], F)
                                         /\ KeptSoFar(b, a[i], Met[i], F) }
  OBVIOUS
<1>8. 0 \in T
  <2>1. a[0].book = book /\ a[0].kept = <<>>
    BY <1>1 DEF LimitRun, NoFills
  <2>2. TradesIn({}) = {} /\ ToSet(a[0].kept) = {} /\ Once(a[0].kept)
    BY <2>1 DEF TradesIn, ToSet, Once
  <2>3. FilledSoFar(book, b, a[0], {}, {})
    BY <2>1, <2>2 DEF FilledSoFar
  <2>4. KeptSoFar(b, a[0], {}, {})
    BY <2>2 DEF KeptSoFar
  <2>5. FilledSoFar(book, b, a[0], Met[0], {}) /\ KeptSoFar(b, a[0], Met[0], {})
    BY <1>5, <2>3, <2>4
  <2>6. 0 \in 0..N
    OBVIOUS
  <2> QED
    BY <1>7, <2>5, <2>6
<1>9. ASSUME NEW i \in 1..N, i - 1 \in T PROVE i \in T
  <2>1. PICK F : /\ FilledSoFar(book, b, a[i - 1], Met[i - 1], F)
                 /\ KeptSoFar(b, a[i - 1], Met[i - 1], F)
    BY <1>7, <1>9
  <2>2. a[i - 1] \in Fills /\ a[i] = LimitStep(a[i - 1], working[i], b)
    BY <1>1, <1>2, <1>6 DEF LimitRun
  <2>3. Treated(a[i - 1], working[i], b, a[i])
    BY <1>4, <2>2, LimitStepFacts
  <2>4. working[i].trade \notin TradesOf(book)
    BY <1>4
  <2>5. \E G : /\ FilledSoFar(book, b, a[i], Met[i - 1] \cup {working[i]}, G)
               /\ KeptSoFar(b, a[i], Met[i - 1] \cup {working[i]}, G)
    BY <1>4, <1>6, <2>1, <2>2, <2>3, <2>4, OneMoreOrder
  <2> QED
    BY <1>6, <1>7, <2>5
<1>10. 0..N \subseteq T
  BY <1>8, <1>9, EveryPrefix
<1>11. N \in 0..N /\ a[N] \in Fills
  <2>1. N \in 0..N
    OBVIOUS
  <2> QED
    BY <1>1, <1>2, <2>1 DEF LimitRun
<1>12. \E F : FilledSoFar(book, b, a[N], Met[N], F) /\ KeptSoFar(b, a[N], Met[N], F)
  BY <1>7, <1>10, <1>11
<1> QED
  BY <1>1, <1>2, <1>5, <1>11, <1>12 DEF LimitsSound

(***************************************************************************)
(* What the signals come to.                                               *)
(***************************************************************************)
SignalsSound(k, sg) ==
    /\ sg \in Sorted /\ Ascending(sg.market) /\ Ascending(sg.resting)
    /\ ToSet(sg.market) = (nextTrade..(nextTrade + k - 1)) \ LimitTrades
    /\ ToSet(sg.resting) = (nextTrade..(nextTrade + k - 1)) \cap LimitTrades

(* A later trade goes to the end.                                          *)
LEMMA AppendAscending ==
    ASSUME NEW seq \in Seq(Trades), NEW x \in Trades, Ascending(seq), \A u \in ToSet(seq) : u < x
    PROVE  Ascending(Append(seq, x))
<1>1. PICK N \in Nat : N = Len(seq) /\ DOMAIN seq = 1..N
  OBVIOUS
<1>2. PICK app : app = Append(seq, x)
  OBVIOUS
<1>3. DOMAIN app = 1..(N + 1) /\ (\A i \in 1..N : app[i] = seq[i]) /\ app[N + 1] = x
  BY <1>1, <1>2
<1>4. ASSUME NEW i \in 1..(N + 1), NEW j \in 1..(N + 1), i < j PROVE app[i] < app[j]
  <2>1. i \in 1..N
    BY <1>4
  <2>2. CASE j \in 1..N
    BY <1>1, <1>3, <1>4, <2>1, <2>2 DEF Ascending
  <2>3. CASE j \notin 1..N
    <3>1. j = N + 1
      BY <2>3
    <3>2. seq[i] < x
      BY <1>1, <2>1 DEF ToSet
    <3> QED
      BY <1>3, <2>1, <3>1, <3>2
  <2> QED
    BY <2>2, <2>3
<1>5. Ascending(app)
  BY <1>3, <1>4 DEF Ascending
<1> QED
  BY <1>2, <1>5

(* Step 4 sorts the new trades, and loses none.                            *)
LEMMA SignalsAreSound ==
    ASSUME NEW k \in Nat, nextTrade \in Nat \ {0}, nextTrade + k <= MaxTrade + 1
    PROVE  SignalsSound(k, Signals(k))
<1>1. PICK a : SignalRun(k, a) /\ Signals(k) = a[k]
  BY SignalsRun
<1>2. PICK T : T = { i \in 0..k : SignalsSound(i, a[i]) }
  OBVIOUS
<1>3. 0 \in T
  <2>1. a[0] = Unsorted /\ a[0] \in Sorted /\ 0 \in 0..k
    BY <1>1 DEF SignalRun
  <2>2. a[0].market = <<>> /\ a[0].resting = <<>>
    BY <2>1 DEF Unsorted
  <2>3. Ascending(<<>>) /\ ToSet(<<>>) = {}
    BY DEF Ascending, ToSet
  <2>4. nextTrade..(nextTrade + 0 - 1) = {}
    OBVIOUS
  <2> QED
    BY <1>2, <2>1, <2>2, <2>3, <2>4 DEF SignalsSound
<1>4. ASSUME NEW i \in 1..k, i - 1 \in T PROVE i \in T
  <2>1. PICK t : t = nextTrade + i - 1
    OBVIOUS
  <2>2. t \in Trades /\ t \in Nat
    BY <2>1, PriceFacts DEF Trades
  <2>3. i - 1 \in 0..k /\ i \in 0..k
    OBVIOUS
  <2>4. PICK acc : acc = a[i - 1]
    OBVIOUS
  <2>5. acc \in Sorted /\ a[i] = SortSignal(acc, t) /\ SignalsSound(i - 1, acc)
    BY <1>1, <1>2, <1>4, <2>1, <2>3, <2>4 DEF SignalRun
  <2>6. PICK old : old = nextTrade..(nextTrade + (i - 1) - 1)
    OBVIOUS
  <2>7. nextTrade..(nextTrade + i - 1) = old \cup {t} /\ \A u \in old : u < t
    BY <2>1, <2>6
  <2>8. /\ acc.market \in Seq(Trades) /\ acc.resting \in Seq(Trades)
        /\ Ascending(acc.market) /\ Ascending(acc.resting)
        /\ ToSet(acc.market) = old \ LimitTrades /\ ToSet(acc.resting) = old \cap LimitTrades
    BY <2>5, <2>6 DEF SignalsSound, Sorted
  <2>9. a[i] \in Sorted
    BY <2>2, <2>5, SortSignalFacts
  <2>10. CASE t \in LimitTrades
    <3>1. a[i].resting = Append(acc.resting, t) /\ a[i].market = acc.market
      BY <2>2, <2>5, <2>10, SortSignalFacts
    <3>2. Ascending(a[i].resting)
      BY <2>2, <2>7, <2>8, <3>1, AppendAscending
    <3>3. ToSet(a[i].resting) = ToSet(acc.resting) \cup {t}
      BY <2>2, <2>8, <3>1, AppendElems
    <3>4. SignalsSound(i, a[i])
      BY <2>7, <2>8, <2>9, <2>10, <3>1, <3>2, <3>3 DEF SignalsSound
    <3> QED
      BY <1>2, <2>3, <3>4
  <2>11. CASE t \notin LimitTrades
    <3>1. a[i].market = Append(acc.market, t) /\ a[i].resting = acc.resting
      BY <2>2, <2>5, <2>11, SortSignalFacts
    <3>2. Ascending(a[i].market)
      BY <2>2, <2>7, <2>8, <3>1, AppendAscending
    <3>3. ToSet(a[i].market) = ToSet(acc.market) \cup {t}
      BY <2>2, <2>8, <3>1, AppendElems
    <3>4. SignalsSound(i, a[i])
      BY <2>7, <2>8, <2>9, <2>11, <3>1, <3>2, <3>3 DEF SignalsSound
    <3> QED
      BY <1>2, <2>3, <3>4
  <2> QED
    BY <2>10, <2>11
<1>5. 0..k \subseteq T
  BY <1>3, <1>4, EveryPrefix
<1>6. k \in 0..k
  OBVIOUS
<1> QED
  BY <1>1, <1>2, <1>5, <1>6

(***************************************************************************)
(* The invariant.                                                          *)
(***************************************************************************)
SeenType == [high : Prices, low : Prices, close : Prices]

ReplayTypeOK ==
    /\ tpAtNextOpen \in BOOLEAN /\ n \in 0..MaxBar
    /\ slots \in Seq(SlotType) /\ pending \in Seq(Trades) /\ working \in Seq(OrderType)
    /\ trail \in TrailType /\ nextTrade \in 1..(MaxTrade + 1) /\ bar \in SeenType

(* A trade waits, rests or is held, and in one place only.                 *)
TradedOnce ==
    /\ Once(slots) /\ Ascending(pending) /\ Once(working)
    /\ TradesOf(slots) \cap ToSet(pending) = {}
    /\ TradesOf(slots) \cap TradesOf(working) = {}
    /\ ToSet(pending) \cap TradesOf(working) = {}
    /\ \A t \in TradesOf(slots) \cup ToSet(pending) \cup TradesOf(working) : t < nextTrade

ReplayInv == ReplayTypeOK /\ TradedOnce /\ Len(slots) <= MaxSlots

(* The invariant holds at the start ...                                    *)
LEMMA ReplayInvInit == Init => ReplayInv
<1>1. SUFFICES ASSUME Init PROVE ReplayInv
  OBVIOUS
<1>2. ToSet(<<>>) = {} /\ TradesOf(<<>>) = {} /\ Once(<<>>) /\ Ascending(<<>>)
  BY DEF ToSet, TradesOf, Once, Ascending
<1>3. /\ slots = <<>> /\ pending = <<>> /\ working = <<>> /\ trail = <<>> /\ n = 0
      /\ nextTrade = 1 /\ tpAtNextOpen \in BOOLEAN
  BY <1>1 DEF Init
<1>4. bar \in SeenType
  <2>1. PICK b \in Bars : bar = SeenOf(b)
    BY <1>1 DEF Init
  <2>2. b.high \in Prices /\ b.low \in Prices /\ b.close \in Prices
    BY BarFacts
  <2> QED
    BY <2>1, <2>2 DEF SeenOf, SeenType
<1>5. trail \in TrailType
  <2>1. {} \in SUBSET KeyType /\ <<>> \in [{} -> RatchetType]
    OBVIOUS
  <2> QED
    BY <1>3, <2>1 DEF TrailType
<1>6. n \in 0..MaxBar /\ nextTrade \in 1..(MaxTrade + 1) /\ 0 <= MaxSlots
  BY <1>3, PriceFacts
<1>7. ReplayTypeOK
  BY <1>3, <1>4, <1>5, <1>6 DEF ReplayTypeOK
<1>8. TradedOnce
  BY <1>2, <1>3 DEF TradedOnce
<1> QED
  BY <1>3, <1>6, <1>7, <1>8 DEF ReplayInv

(***************************************************************************)
(* One bar.  ex is what the exits left, F the orders that filled, W the    *)
(* orders that came.                                                       *)
(***************************************************************************)
Signalled(k) == nextTrade..(nextTrade + k - 1)

Living == { w \in ToSet(working) : n <= w.expiry }

Booked(ex, F) ==
    /\ slots' \in Seq(SlotType) /\ Once(slots') /\ Len(slots') <= MaxSlots
    /\ ToSet(ex.kept) \subseteq ToSet(slots')
    /\ TradesOf(slots') = TradesOf(ex.kept) \cup FilledTrades(ex.kept) \cup TradesIn(F)
    /\ \A u \in ToSet(slots') :
         u \in ToSet(ex.kept) \/ u.trade \in FilledTrades(ex.kept) \cup TradesIn(F)

Rested(b, k, F, W) ==
    /\ F \subseteq Living
    /\ \A w \in Living : FallsTo(w.trade, b, w.limit) => w \in F \/ Len(slots') >= MaxSlots
    /\ working' \in Seq(OrderType) /\ Once(working')
    /\ ToSet(working') = (Living \ F) \cup W
    /\ W \subseteq OrderType /\ TradesIn(W) = Signalled(k) \cap LimitTrades
    /\ \A w \in W : w.expiry = n + LimitLife
    /\ pending' \in Seq(Trades) /\ Ascending(pending')
    /\ ToSet(pending') = Signalled(k) \ LimitTrades

Moved(b, k, ex) ==
    /\ n < MaxBar /\ n' = n + 1 /\ nextTrade + k <= MaxTrade + 1 /\ nextTrade' = nextTrade + k
    /\ tpAtNextOpen' = tpAtNextOpen /\ bar' = SeenOf(b) /\ closed' = ex.closed
    /\ trail' = Restrict(ex.trail, DOMAIN ex.trail \cap { Key(s) : s \in ToSet(slots') })
    /\ entered' = entered \cup TradesOf(slots')

(* Who stays was there before.                                             *)
LEMMA KeptTrades ==
    ASSUME NEW b, NEW ex, ExitsSound(b, ex)
    PROVE  TradesOf(ex.kept) \subseteq TradesOf(slots)
  BY DEF ExitsSound, TradesOf, Continues

(* A bar, taken apart into its four steps.                                 *)
LEMMA BarIsReplayed ==
    ASSUME ReplayInv, NEW b \in Bars, NEW k \in 0..MaxSignals, Bar(b, k)
    PROVE  \E ex, F, W : ExitsSound(b, ex) /\ Booked(ex, F) /\ Rested(b, k, F, W) /\ Moved(b, k, ex)
<1>1. /\ tpAtNextOpen \in BOOLEAN /\ n \in Nat /\ n \in 0..MaxBar
      /\ slots \in Seq(SlotType) /\ pending \in Seq(Trades) /\ working \in Seq(OrderType)
      /\ trail \in TrailType /\ nextTrade \in 1..(MaxTrade + 1) /\ nextTrade \in Nat \ {0}
      /\ k \in Nat
  BY DEF ReplayInv, ReplayTypeOK
<1>2. /\ Once(slots) /\ Ascending(pending) /\ Once(working) /\ Len(slots) <= MaxSlots
      /\ TradesOf(slots) \cap ToSet(pending) = {}
      /\ TradesOf(slots) \cap TradesOf(working) = {}
      /\ ToSet(pending) \cap TradesOf(working) = {}
      /\ \A t \in TradesOf(slots) \cup ToSet(pending) \cup TradesOf(working) : t < nextTrade
  BY DEF ReplayInv, TradedOnce
<1>3. PICK ex : ex = Exits(b)
  OBVIOUS
<1>4. PICK fb : fb = FillPending(ex.kept, b)
  OBVIOUS
<1>5. PICK li : li = Limits(fb, b)
  OBVIOUS
<1>6. PICK sg : sg = Signals(k)
  OBVIOUS
<1>7. /\ tpAtNextOpen' = tpAtNextOpen /\ n < MaxBar /\ n' = n + 1
      /\ nextTrade + k <= MaxTrade + 1 /\ nextTrade' = nextTrade + k
      /\ slots' = li.book /\ pending' = sg.market
      /\ \E level \in [DOMAIN sg.resting -> Prices] :
           working' = li.kept \o [j \in DOMAIN sg.resting |-> Rest(sg.resting[j], level[j])]
      /\ trail' = Restrict(ex.trail, DOMAIN ex.trail \cap { Key(s) : s \in ToSet(li.book) })
      /\ bar' = SeenOf(b) /\ closed' = ex.closed
      /\ entered' = entered \cup { s.trade : s \in ToSet(li.book) }
  BY <1>3, <1>4, <1>5, <1>6, Zenon DEF Bar
<1>8. ExitsSound(b, ex)
  BY <1>1, <1>2, <1>3, ExitsAreSound
<1>9. /\ ex.kept \in Seq(SlotType) /\ Once(ex.kept) /\ Len(ex.kept) <= MaxSlots
      /\ TradesOf(ex.kept) \subseteq TradesOf(slots)
  <2>1. ex \in ExitsLeft /\ Once(ex.kept) /\ Len(ex.kept) <= Len(slots)
    BY <1>8 DEF ExitsSound
  <2>2. ex.kept \in Seq(SlotType)
    BY <2>1, AppendExits
  <2>3. Len(ex.kept) \in Nat /\ Len(slots) \in Nat
    BY <1>1, <2>2
  <2> QED
    BY <1>2, <1>8, <2>1, <2>2, <2>3, PriceFacts, KeptTrades
<1>10. ToSet(pending) \cap TradesOf(ex.kept) = {}
  BY <1>2, <1>9
<1>11. FilledSound(ex.kept, fb)
  BY <1>1, <1>2, <1>4, <1>9, <1>10, FillsAreSound
<1>12. /\ fb \in Seq(SlotType) /\ Once(fb) /\ Len(fb) <= MaxSlots
       /\ ToSet(ex.kept) \subseteq ToSet(fb)
       /\ TradesOf(fb) = TradesOf(ex.kept) \cup FilledTrades(ex.kept)
       /\ \A u \in ToSet(fb) : u \in ToSet(ex.kept) \/ u.trade \in FilledTrades(ex.kept)
  BY <1>11 DEF FilledSound
<1>13. TradesOf(working) \cap TradesOf(fb) = {}
  BY <1>2, <1>9, <1>12 DEF FilledTrades
<1>14. LimitsSound(fb, b, li)
  BY <1>1, <1>2, <1>5, <1>12, <1>13, LimitsAreSound
<1>15. PICK F : FilledSoFar(fb, b, li, ToSet(working), F) /\ KeptSoFar(b, li, ToSet(working), F)
  BY <1>14 DEF LimitsSound
<1>16. li.book \in Seq(SlotType) /\ li.kept \in Seq(OrderType)
  BY <1>14 DEF LimitsSound, Fills
<1>17. SignalsSound(k, sg)
  BY <1>1, <1>6, <1>7, SignalsAreSound
<1>18. /\ sg.market \in Seq(Trades) /\ sg.resting \in Seq(Trades)
       /\ Ascending(sg.market) /\ Ascending(sg.resting)
       /\ ToSet(sg.market) = Signalled(k) \ LimitTrades
       /\ ToSet(sg.resting) = Signalled(k) \cap LimitTrades
  BY <1>17 DEF SignalsSound, Sorted, Signalled
<1>19. PICK level \in [DOMAIN sg.resting -> Prices] :
           working' = li.kept \o [j \in DOMAIN sg.resting |-> Rest(sg.resting[j], level[j])]
  BY <1>7
<1>20. PICK new : new = [j \in DOMAIN sg.resting |-> Rest(sg.resting[j], level[j])]
  OBVIOUS
<1>21. \A j \in DOMAIN sg.resting :
         new[j] \in OrderType /\ new[j].trade = sg.resting[j] /\ new[j].expiry = n + LimitLife
  <2>1. TAKE j \in DOMAIN sg.resting
  <2>2. sg.resting[j] \in Trades /\ level[j] \in Prices /\ n + LimitLife \in Nat
    BY <1>1, <1>18, PriceFacts
  <2>3. new[j] = [trade |-> sg.resting[j], limit |-> level[j], expiry |-> n + LimitLife]
    BY <1>20 DEF Rest
  <2> QED
    BY <2>2, <2>3 DEF OrderType
<1>22. new \in Seq(OrderType) /\ Len(new) = Len(sg.resting) /\ DOMAIN new = DOMAIN sg.resting
  <2>1. PICK R \in Nat : R = Len(sg.resting) /\ DOMAIN sg.resting = 1..R
    BY <1>18
  <2>2. new \in [1..R -> OrderType]
    BY <1>20, <1>21, <2>1
  <2> QED
    BY <2>1, <2>2
<1>23. PICK W : W = ToSet(new)
  OBVIOUS
<1>24. /\ W \subseteq OrderType /\ \A w \in W : w.expiry = n + LimitLife
       /\ TradesIn(W) = Signalled(k) \cap LimitTrades /\ TradesOf(new) = TradesIn(W)
  <2>1. W = { new[j] : j \in DOMAIN sg.resting }
    BY <1>22, <1>23 DEF ToSet
  <2>2. ToSet(sg.resting) = { sg.resting[j] : j \in DOMAIN sg.resting }
    BY DEF ToSet
  <2>3. TradesIn(W) = ToSet(sg.resting)
    BY <1>21, <2>1, <2>2 DEF TradesIn
  <2>4. TradesOf(new) = TradesIn(W)
    BY <1>23 DEF TradesOf, TradesIn
  <2> QED
    BY <1>18, <1>21, <2>1, <2>3, <2>4
<1>25. Once(new)
  <2>1. Len(new) <= Len(sg.resting)
    BY <1>18, <1>22
  <2>2. \A j \in DOMAIN new : new[j].trade = sg.resting[j]
    BY <1>21, <1>22
  <2> QED
    BY <1>18, <1>22, <2>1, <2>2, AscendingOnce
<1>26. /\ Once(li.kept) /\ ToSet(li.kept) = Living \ F
       /\ \A w \in Living : FallsTo(w.trade, b, w.limit) => w \in F \/ Len(li.book) >= MaxSlots
  BY <1>15 DEF KeptSoFar, Living
<1>27. TradesOf(li.kept) \cap TradesOf(new) = {}
  <2>1. TradesOf(li.kept) \subseteq TradesOf(working)
    BY <1>26 DEF TradesOf, Living
  <2>2. \A t \in TradesOf(new) : t >= nextTrade
    BY <1>1, <1>24 DEF Signalled
  <2>3. \A t \in TradesOf(li.kept) : t < nextTrade
    BY <1>2, <2>1
  <2>4. \A t \in TradesOf(new) : t \in Int
    BY <1>1, <1>24 DEF Signalled
  <2> QED
    BY <1>1, <2>2, <2>3, <2>4
<1>28. /\ working' \in Seq(OrderType) /\ Once(working')
       /\ ToSet(working') = ToSet(li.kept) \cup W
  <2>1. /\ li.kept \o new \in Seq(OrderType) /\ Once(li.kept \o new)
        /\ ToSet(li.kept \o new) = ToSet(li.kept) \cup ToSet(new)
    BY <1>16, <1>22, <1>25, <1>26, <1>27, ConcatOnce
  <2> QED
    BY <1>19, <1>20, <1>23, <2>1
<1>29. /\ F \subseteq Living /\ Once(li.book) /\ Len(li.book) <= MaxSlots
       /\ ToSet(fb) \subseteq ToSet(li.book)
       /\ TradesOf(li.book) = TradesOf(fb) \cup TradesIn(F)
       /\ \A u \in ToSet(li.book) : u \in ToSet(fb) \/ u.trade \in TradesIn(F)
  BY <1>15 DEF FilledSoFar, Living
<1>30. Booked(ex, F)
  <2>1. ToSet(ex.kept) \subseteq ToSet(li.book)
    BY <1>12, <1>29
  <2>2. TradesOf(li.book) = TradesOf(ex.kept) \cup FilledTrades(ex.kept) \cup TradesIn(F)
    BY <1>12, <1>29
  <2>3. \A u \in ToSet(li.book) :
          u \in ToSet(ex.kept) \/ u.trade \in FilledTrades(ex.kept) \cup TradesIn(F)
    BY <1>12, <1>29
  <2> QED
    BY <1>7, <1>16, <1>29, <2>1, <2>2, <2>3 DEF Booked
<1>31. Rested(b, k, F, W)
  BY <1>7, <1>18, <1>24, <1>26, <1>28, <1>29 DEF Rested
<1>32. Moved(b, k, ex)
  BY <1>7 DEF Moved, TradesOf
<1> QED
  BY <1>8, <1>30, <1>31, <1>32

(* ... and every bar keeps it.                                             *)
LEMMA ReplayInvBar ==
    ASSUME ReplayInv, NEW b \in Bars, NEW k \in 0..MaxSignals, Bar(b, k)
    PROVE  ReplayInv'
<1>1. PICK ex, F, W : ExitsSound(b, ex) /\ Booked(ex, F) /\ Rested(b, k, F, W) /\ Moved(b, k, ex)
  BY BarIsReplayed
<1>2. /\ tpAtNextOpen \in BOOLEAN /\ n \in 0..MaxBar /\ n \in Nat
      /\ nextTrade \in 1..(MaxTrade + 1) /\ k \in Nat
  BY DEF ReplayInv, ReplayTypeOK
<1>3. \A t \in TradesOf(slots) \cup ToSet(pending) \cup TradesOf(working) : t < nextTrade
  BY DEF ReplayInv, TradedOnce
<1>4. /\ TradesOf(slots) \cap ToSet(pending) = {}
      /\ TradesOf(slots) \cap TradesOf(working) = {}
      /\ ToSet(pending) \cap TradesOf(working) = {} /\ Once(working)
  BY DEF ReplayInv, TradedOnce
<1>5. trail' \in TrailType
  <2>1. PICK tr : tr = ex.trail
    OBVIOUS
  <2>2. tr \in TrailType
    BY <1>1, <2>1, AppendExits DEF ExitsSound
  <2>3. PICK K : K = DOMAIN tr \cap { Key(s) : s \in ToSet(slots') }
    OBVIOUS
  <2>4. K \subseteq DOMAIN tr /\ K \in SUBSET KeyType
    BY <2>2, <2>3, TrailFacts
  <2>5. trail' = [x \in K |-> tr[x]]
    BY <1>1, <2>1, <2>3 DEF Moved, Restrict
  <2>6. trail' \in [K -> RatchetType]
    BY <2>2, <2>4, <2>5, TrailFacts
  <2> QED
    BY <2>4, <2>6 DEF TrailType
<1>6. bar' \in SeenType
  <2>1. b.high \in Prices /\ b.low \in Prices /\ b.close \in Prices
    BY BarFacts
  <2> QED
    BY <1>1, <2>1 DEF Moved, SeenOf, SeenType
<1>7. n' \in 0..MaxBar /\ nextTrade' \in 1..(MaxTrade + 1) /\ tpAtNextOpen' \in BOOLEAN
  BY <1>1, <1>2, PriceFacts DEF Moved
<1>8. ReplayTypeOK'
  BY <1>1, <1>5, <1>6, <1>7 DEF ReplayTypeOK, Booked, Rested
<1>9. TradesOf(slots') \subseteq TradesOf(slots) \cup ToSet(pending) \cup TradesIn(F)
  <2>1. TradesOf(ex.kept) \subseteq TradesOf(slots)
    BY <1>1, KeptTrades
  <2>2. FilledTrades(ex.kept) \subseteq ToSet(pending)
    BY DEF FilledTrades
  <2> QED
    BY <1>1, <2>1, <2>2 DEF Booked
<1>10. F \subseteq ToSet(working) /\ TradesIn(F) \subseteq TradesOf(working)
  BY <1>1 DEF Rested, Living, TradesIn, TradesOf
<1>11. TradesOf(working') = TradesIn(Living \ F) \cup (Signalled(k) \cap LimitTrades)
  BY <1>1 DEF Rested, TradesOf, TradesIn
<1>12. TradesIn(Living \ F) \subseteq TradesOf(working)
  BY DEF TradesIn, TradesOf, Living
<1>13. TradesIn(Living \ F) \cap TradesIn(F) = {}
  <2>1. SUFFICES ASSUME NEW v \in Living \ F, NEW w \in F, v.trade = w.trade PROVE FALSE
    BY DEF TradesIn
  <2>2. v \in ToSet(working) /\ w \in ToSet(working)
    BY <1>10 DEF Living
  <2> QED
    BY <1>4, <2>1, <2>2 DEF Once, ToSet
<1>14. \A t \in Signalled(k) : t \in Int /\ t >= nextTrade /\ t < nextTrade'
  BY <1>1, <1>2 DEF Signalled, Moved
<1>15. \A t \in TradesOf(slots') : t < nextTrade
  BY <1>3, <1>9, <1>10
<1>16. \A t \in TradesOf(slots') : t \notin Signalled(k)
  BY <1>2, <1>14, <1>15
<1>17. ToSet(pending') = Signalled(k) \ LimitTrades
  BY <1>1 DEF Rested
<1>18. TradesOf(slots') \cap ToSet(pending') = {}
  BY <1>16, <1>17
<1>19. TradesOf(slots') \cap TradesIn(Living \ F) = {}
  BY <1>4, <1>9, <1>12, <1>13
<1>20. TradesOf(slots') \cap TradesOf(working') = {}
  BY <1>11, <1>16, <1>19
<1>21. ToSet(pending') \cap TradesOf(working') = {}
  <2>1. \A t \in TradesIn(Living \ F) : t < nextTrade
    BY <1>3, <1>12
  <2>2. \A t \in TradesIn(Living \ F) : t \notin Signalled(k)
    BY <1>2, <1>14, <2>1
  <2> QED
    BY <1>11, <1>17, <2>2
<1>22. \A t \in TradesOf(slots') \cup ToSet(pending') \cup TradesOf(working') : t < nextTrade'
  <2>1. ASSUME NEW t, t \in TradesOf(slots) \cup TradesOf(working) \cup TradesOf(slots')
        PROVE  t \in Nat /\ t < nextTrade
    <3>1. t < nextTrade
      BY <1>3, <1>15, <2>1
    <3>2. slots \in Seq(SlotType) /\ working \in Seq(OrderType) /\ slots' \in Seq(SlotType)
      BY <1>8 DEF ReplayInv, ReplayTypeOK
    <3>3. \A s \in SlotType : s.trade \in Trades
      BY DEF SlotType
    <3>4. \A w \in OrderType : w.trade \in Trades
      BY DEF OrderType
    <3>5. t \in Trades
      BY <2>1, <3>2, <3>3, <3>4 DEF TradesOf, ToSet
    <3> QED
      BY <3>1, <3>5, TradesAreNumbers
  <2>2. nextTrade <= nextTrade' /\ nextTrade' \in Int /\ nextTrade \in Int
    BY <1>1, <1>2 DEF Moved
  <2>3. \A t \in TradesOf(slots') : t < nextTrade'
    BY <2>1, <2>2
  <2>4. \A t \in TradesOf(working) : t < nextTrade'
    BY <2>1, <2>2
  <2> QED
    BY <1>11, <1>12, <1>14, <1>17, <2>3, <2>4
<1>23. TradedOnce'
  BY <1>1, <1>18, <1>20, <1>21, <1>22 DEF TradedOnce, Booked, Rested
<1>24. Len(slots') <= MaxSlots
  BY <1>1 DEF Booked
<1> QED
  BY <1>8, <1>23, <1>24 DEF ReplayInv

(* The invariant of _simulate: a trade waits for the open, rests as a      *)
(* limit or is held, in one place and once, trades come in the order of    *)
(* their signals, and the book never exceeds its slots.                    *)
THEOREM ReplayIsInOrder == Spec => []ReplayInv
<1>1. ReplayInv /\ [Next]_vars => ReplayInv'
  <2>1. SUFFICES ASSUME ReplayInv, [Next]_vars PROVE ReplayInv'
    OBVIOUS
  <2>2. CASE Next
    BY <2>1, <2>2, ReplayInvBar DEF Next
  <2>3. CASE UNCHANGED vars
    BY <2>1, <2>3 DEF vars, ReplayInv, ReplayTypeOK, TradedOnce, TradesOf
  <2> QED
    BY <2>1, <2>2, <2>3
<1> QED
  BY <1>1, ReplayInvInit, PTL DEF Spec

(* What a step is, from the invariant.                                     *)
LEMMA SeenAlike ==
    ASSUME NEW b, NEW t, NEW level
    PROVE  FallsTo(t, SeenOf(b), level) <=> FallsTo(t, b, level)
  BY DEF FallsTo, SeenOf

(* A trade has one position.                                               *)
LEMMA SameTradeSameSlot ==
    ASSUME Once(slots), NEW s \in ToSet(slots), NEW u \in ToSet(slots), s.trade = u.trade
    PROVE  s = u
  BY DEF Once, ToSet

(* A position of a reached stop is not among those kept, and nothing that  *)
(* is filled is held already.                                              *)
LEMMA ReachedIsGone ==
    ASSUME ReplayInv, NEW b \in Bars, NEW ex, NEW F, NEW k, NEW W, ExitsSound(b, ex),
           Booked(ex, F), Rested(b, k, F, W), NEW s \in ToSet(slots), Reached(s, b)
    PROVE  s.trade \notin TradesOf(slots')
<1>1. /\ Once(slots) /\ TradesOf(slots) \cap ToSet(pending) = {}
      /\ TradesOf(slots) \cap TradesOf(working) = {}
  BY DEF ReplayInv, TradedOnce
<1>2. s.trade \in TradesOf(slots)
  BY DEF TradesOf
<1>3. s.trade \notin TradesOf(ex.kept)
  <2>1. SUFFICES ASSUME NEW u \in ToSet(ex.kept), u.trade = s.trade PROVE FALSE
    BY DEF TradesOf
  <2>2. PICK v \in ToSet(slots) : Continues(u, v) /\ ~ Reached(v, b)
    BY DEF ExitsSound
  <2>3. v = s
    BY <1>1, <2>1, <2>2, SameTradeSameSlot DEF Continues
  <2> QED
    BY <2>2, <2>3
<1>4. s.trade \notin FilledTrades(ex.kept)
  BY <1>1, <1>2 DEF FilledTrades
<1>5. s.trade \notin TradesIn(F)
  <2>1. TradesIn(F) \subseteq TradesOf(working)
    BY DEF Rested, Living, TradesIn, TradesOf
  <2> QED
    BY <1>1, <1>2, <2>1
<1> QED
  BY <1>3, <1>4, <1>5 DEF Booked

ReachedStopExits ==
    \A s \in ToSet(slots) :
      SlDist > 0 /\ ~ tpAtNextOpen /\ FallsTo(s.trade, bar', CurrentStop(s))
        => s.trade \notin Held'

ExitsAreCausal == \A x \in TrailExits : Alone(x[1]) => Causal(x[1], x[2])

(* A bar that reaches a published stop drops its trade.                    *)
LEMMA BarReaches ==
    ASSUME ReplayInv, NEW b \in Bars, NEW k \in 0..MaxSignals, Bar(b, k)
    PROVE  ReachedStopExits
<1>1. PICK ex, F, W : ExitsSound(b, ex) /\ Booked(ex, F) /\ Rested(b, k, F, W) /\ Moved(b, k, ex)
  BY BarIsReplayed
<1>2. Held' = TradesOf(slots')
  BY DEF Held, TradesOf
<1>3. ASSUME NEW s \in ToSet(slots), SlDist > 0, ~ tpAtNextOpen,
             FallsTo(s.trade, bar', CurrentStop(s))
      PROVE  s.trade \notin Held'
  <2>1. bar' = SeenOf(b)
    BY <1>1 DEF Moved
  <2>2. FallsTo(s.trade, b, CurrentStop(s))
    BY <1>3, <2>1, SeenAlike
  <2>3. Reached(s, b)
    BY <1>3, <2>2 DEF Reached
  <2> QED
    BY <1>1, <1>2, <2>3, ReachedIsGone
<1> QED
  BY <1>3 DEF ReachedStopExits

(* A bar exits by a ratchet only if it reaches the one before it.          *)
LEMMA BarIsCausal ==
    ASSUME ReplayInv, NEW b \in Bars, NEW k \in 0..MaxSignals, Bar(b, k)
    PROVE  ExitsAreCausal
<1>1. PICK ex, F, W : ExitsSound(b, ex) /\ Booked(ex, F) /\ Rested(b, k, F, W) /\ Moved(b, k, ex)
  BY BarIsReplayed
<1>2. closed' = ex.closed /\ bar' = SeenOf(b)
  BY <1>1 DEF Moved
<1>3. Once(slots)
  BY DEF ReplayInv, TradedOnce
<1>4. ASSUME NEW x \in TrailExits, Alone(x[1]) PROVE Causal(x[1], x[2])
  <2>1. PICK s \in ToSet(slots) : s = x[1]
    BY DEF TrailExits
  <2>2. PICK c \in ex.closed : c = x[2] /\ c.trade = s.trade /\ c.reason = "TRAIL_STOP"
    BY <1>2, <2>1 DEF TrailExits
  <2>3. PICK v \in ToSet(slots) :
         /\ c.trade = v.trade
         /\ c.reason = "TRAIL_STOP" /\ Alone(v) =>
              FallsTo(v.trade, b, CurrentStop(v)) /\ ~ Tighter(v.trade, c.price, CurrentStop(v))
    BY <1>1 DEF ExitsSound
  <2>4. v = s
    BY <1>3, <2>2, <2>3, SameTradeSameSlot
  <2>5. FallsTo(s.trade, b, CurrentStop(s)) /\ ~ Tighter(s.trade, c.price, CurrentStop(s))
    BY <1>4, <2>1, <2>2, <2>3, <2>4
  <2>6. FallsTo(s.trade, bar', CurrentStop(s))
    BY <1>2, <2>5, SeenAlike
  <2> QED
    BY <2>1, <2>2, <2>5, <2>6 DEF Causal
<1> QED
  BY <1>4 DEF ExitsAreCausal

(* When the market reaches the stop that live_state has published for a    *)
(* trade, evaluate_exit or dynamic_exit drops the trade within that bar,   *)
(* whatever the exit rules, the prices and the other positions.            *)
THEOREM ReachedStopsLeave == Spec => ReachedStopsExit
<1>1. ReplayInv /\ [Next]_vars => [ReachedStopExits]_vars
  BY BarReaches DEF Next
<1>2. [][ReachedStopExits]_vars => ReachedStopsExit
  BY PTL DEF ReachedStopsExit, ReachedStopExits
<1> QED
  BY <1>1, <1>2, ReplayIsInOrder, PTL DEF Spec

(* dynamic_exit checks the stop it had before the bar: a position with a   *)
(* ratchet of its own leaves by it only on a bar that reaches that stop,   *)
(* and at no better price.                                                 *)
THEOREM ExitsDoNotLookAhead == Spec => NoLookAhead
<1>1. ReplayInv /\ [Next]_vars => [ExitsAreCausal]_vars
  BY BarIsCausal DEF Next
<1>2. [][ExitsAreCausal]_vars => NoLookAhead
  BY PTL DEF NoLookAhead, ExitsAreCausal
<1> QED
  BY <1>1, <1>2, ReplayIsInOrder, PTL DEF Spec

(***************************************************************************)
(* The loop implements TradeBook.                                          *)
(***************************************************************************)
(* Looking a trade up finds its position.                                  *)
LEMMA Lookup ==
    ASSUME NEW seq, Once(seq), NEW x \in ToSet(seq)
    PROVE  (CHOOSE y \in ToSet(seq) : y.trade = x.trade) = x
<1>1. \A y \in ToSet(seq) : y.trade = x.trade => y = x
  BY DEF Once, ToSet
<1> QED
  BY <1>1

(* A step of the loop, with what its parts come to.                        *)
Replayed(b, k, ex, F, W) ==
    /\ ReplayInv /\ ReplayInv' /\ b \in Bars /\ k \in 0..MaxSignals
    /\ ExitsSound(b, ex) /\ Booked(ex, F) /\ Rested(b, k, F, W) /\ Moved(b, k, ex)

(* The stop published for a position before the bar ...                    *)
LEMMA StopsBefore ==
    ASSUME ReplayInv, NEW s \in ToSet(slots)
    PROVE  Stops[s.trade] = CurrentStop(s) /\ CurrentStop(s) \in Nat /\ s.trade \in Held
           /\ s \in SlotType /\ s.trade \in Trades
<1>1. Once(slots) /\ slots \in Seq(SlotType) /\ trail \in TrailType /\ n \in Nat
  BY DEF ReplayInv, TradedOnce, ReplayTypeOK
<1>2. s \in SlotType /\ s.trade \in Trades
  BY <1>1, SlotsTyped, SlotFacts
<1>3. s.trade \in Held
  BY DEF Held
<1>4. (CHOOSE y \in ToSet(slots) : y.trade = s.trade) = s
  BY <1>1, Lookup
<1>5. Stops[s.trade] = CurrentStop(s)
  BY <1>2, <1>3, <1>4 DEF Stops
<1>6. Ratchet(s, trail) \in RatchetType
  BY <1>1, <1>2, RatchetTyped
<1> QED
  BY <1>2, <1>3, <1>5, <1>6 DEF CurrentStop, RatchetType

(* ... and after it.                                                       *)
LEMMA StopsAfter ==
    ASSUME NEW b, NEW k, NEW ex, NEW F, NEW W, Replayed(b, k, ex, F, W), NEW u \in ToSet(slots')
    PROVE  /\ Stops'[u.trade] = Ratchet(u, ex.trail).stop /\ Ratchet(u, ex.trail).stop \in Nat
           /\ u \in SlotType /\ u.trade \in Trades /\ u.trade \in Held'
<1>1. Once(slots') /\ slots' \in Seq(SlotType) /\ ex.trail \in TrailType /\ n \in Nat
  BY AppendExits DEF Replayed, Booked, ExitsSound, ReplayInv, ReplayTypeOK
<1>2. PICK i \in DOMAIN slots' : u = slots'[i]
  BY DEF ToSet
<1>3. u \in SlotType
  BY <1>1, <1>2
<1>4. u.trade \in Trades /\ u.sl \in Nat
  BY <1>3, SlotFacts
<1>5. u.trade \in Held'
  BY DEF Held
<1>6. (CHOOSE y \in ToSet(slots') : y.trade = u.trade) = u
  BY <1>1, Lookup
<1>7. Stops'[u.trade] = CurrentStop(CHOOSE s \in ToSet(slots) : s.trade = u.trade)'
  BY <1>4, <1>5 DEF Stops
<1>8. Stops'[u.trade] = (IF Key(u) \in DOMAIN trail' THEN trail'[Key(u)]
                         ELSE [stop |-> u.sl, last |-> n']).stop
  BY <1>6, <1>7 DEF CurrentStop, Ratchet, Key
<1>9. trail' = [x \in DOMAIN ex.trail \cap { Key(s) : s \in ToSet(slots') } |-> ex.trail[x]]
  BY DEF Replayed, Moved, Restrict
<1>10. Key(u) \in DOMAIN trail' <=> Key(u) \in DOMAIN ex.trail
  BY <1>9
<1>11. Stops'[u.trade] = Ratchet(u, ex.trail).stop
  <2>1. CASE Key(u) \in DOMAIN ex.trail
    <3>1. trail'[Key(u)] = ex.trail[Key(u)] /\ Key(u) \in DOMAIN trail'
      BY <1>9, <1>10, <2>1
    <3> QED
      BY <1>8, <2>1, <3>1 DEF Ratchet
  <2>2. CASE Key(u) \notin DOMAIN ex.trail
    BY <1>8, <1>10, <2>2 DEF Ratchet
  <2> QED
    BY <2>1, <2>2
<1>12. Ratchet(u, ex.trail) \in RatchetType
  BY <1>1, <1>3, RatchetTyped
<1> QED
  BY <1>3, <1>4, <1>5, <1>11, <1>12 DEF RatchetType

(* A trade that is held before and after the bar was kept.                 *)
LEMMA HeldOn ==
    ASSUME NEW b, NEW k, NEW ex, NEW F, NEW W, Replayed(b, k, ex, F, W), NEW v \in ToSet(slots),
           NEW u \in ToSet(slots'), u.trade = v.trade
    PROVE  Key(u) = Key(v) /\ u.sl = v.sl
<1>1. /\ Once(slots) /\ TradesOf(slots) \cap ToSet(pending) = {}
      /\ TradesOf(slots) \cap TradesOf(working) = {}
  BY DEF Replayed, ReplayInv, TradedOnce
<1>2. u.trade \in TradesOf(slots)
  BY DEF TradesOf
<1>3. FilledTrades(ex.kept) \subseteq ToSet(pending) /\ TradesIn(F) \subseteq TradesOf(working)
  BY DEF FilledTrades, Replayed, Rested, Living, TradesIn, TradesOf
<1>4. u \in ToSet(ex.kept)
  BY <1>1, <1>2, <1>3 DEF Replayed, Booked
<1>5. PICK z \in ToSet(slots) : Continues(u, z)
  BY <1>4 DEF Replayed, ExitsSound
<1>6. z = v
  BY <1>1, <1>5, SameTradeSameSlot DEF Continues
<1> QED
  BY <1>5, <1>6 DEF Continues, Key

(* Positions of one key share their stop once it is noted.                 *)
LEMMA SharedStops ==
    ASSUME NEW s, NEW t, NEW tr, Key(s) = Key(t), s.sl = t.sl \/ Key(s) \in DOMAIN tr
    PROVE  Ratchet(s, tr).stop = Ratchet(t, tr).stop
  BY DEF Ratchet

(* Every stop tightens, or is taken over from a trade that shares the key. *)
LEMMA StopsMoveWell ==
    ASSUME NEW b, NEW k, NEW ex, NEW F, NEW W, Replayed(b, k, ex, F, W)
    PROVE  Stops' \in TB!NextStops(TradesOf(slots'))
<1>1. PICK next : next = TradesOf(slots')
  OBVIOUS
<1>2. PICK S : S = Stops'
  OBVIOUS
<1>3. \A t \in next : \E u \in ToSet(slots') : u.trade = t
  BY <1>1 DEF TradesOf
<1>4. \A t \in next : S[t] \in Nat
  BY <1>2, <1>3, StopsAfter
<1>5. \A t \in Trades : t \notin next => S[t] = 0
  BY <1>1, <1>2 DEF Stops, Held, TradesOf
<1>6. S \in [Trades -> Nat \cup {0}]
  <2>1. S = [t \in Trades |-> S[t]]
    BY <1>2 DEF Stops
  <2> QED
    BY <1>4, <1>5, <2>1
<1>7. ASSUME NEW t \in next, t \in Held
      PROVE  TB!Tightens(t, Stops[t], S[t]) \/ TB!Adopts(t, S, next)
  <2>1. PICK u \in ToSet(slots') : u.trade = t
    BY <1>3
  <2>2. PICK v \in ToSet(slots) : v.trade = t
    BY <1>7 DEF Held
  <2>3. Key(u) = Key(v) /\ u.sl = v.sl
    BY <2>1, <2>2, HeldOn
  <2>4. S[t] = Ratchet(v, ex.trail).stop /\ S[t] \in Nat
    <3>1. S[t] = Ratchet(u, ex.trail).stop /\ S[t] \in Nat
      BY <1>2, <2>1, StopsAfter
    <3>2. Ratchet(u, ex.trail).stop = Ratchet(v, ex.trail).stop
      BY <2>3, SharedStops
    <3> QED
      BY <3>1, <3>2
  <2>5. ReplayInv /\ Once(slots)
    BY DEF Replayed, ReplayInv, TradedOnce
  <2>6. Stops[t] = CurrentStop(v) /\ Stops[t] \in Nat
    BY <2>2, <2>5, StopsBefore
  <2>7. CASE Steady(v)
    <3>1. NoLooser(t, S[t], Stops[t])
      BY <2>2, <2>4, <2>6, <2>7 DEF Replayed, ExitsSound
    <3> QED
      BY <3>1 DEF NoLooser, Long, TB!Tightens
  <2>8. CASE ~ Steady(v) /\ Key(v) \notin DOMAIN ex.trail
    <3>1. S[t] = Stops[t]
      BY <2>4, <2>6, <2>8 DEF Steady, CurrentStop, Ratchet
    <3> QED
      BY <2>4, <3>1 DEF TB!Tightens
  <2>9. CASE ~ Steady(v) /\ Key(v) \in DOMAIN ex.trail
    <3>1. PICK z \in ToSet(slots) : Key(z) = Key(v) /\ z # v
      BY <2>9 DEF Steady, Alone
    <3>2. z.trade # t
      BY <2>2, <2>5, <3>1, SameTradeSameSlot
    <3>3. z.trade \in Held
      BY DEF Held
    <3>4. TB!SameSide(t, z.trade)
      BY <2>2, <3>1 DEF Key, Long, TB!SameSide
    <3>5. ASSUME z.trade \in next PROVE S[z.trade] = S[t]
      <4>1. PICK y \in ToSet(slots') : y.trade = z.trade
        BY <1>3, <3>5
      <4>2. Key(y) = Key(z)
        BY <4>1, HeldOn
      <4>3. S[z.trade] = Ratchet(y, ex.trail).stop
        BY <1>2, <4>1, StopsAfter
      <4>4. Ratchet(y, ex.trail).stop = Ratchet(v, ex.trail).stop
        BY <2>9, <3>1, <4>2, SharedStops
      <4> QED
        BY <2>4, <4>3, <4>4
    <3> QED
      BY <3>2, <3>3, <3>4, <3>5 DEF TB!Adopts
  <2> QED
    BY <2>7, <2>8, <2>9
<1>8. \A t \in Trades : IF t \notin next THEN S[t] = 0
        ELSE /\ S[t] \in Nat
             /\ t \in Held => TB!Tightens(t, Stops[t], S[t]) \/ TB!Adopts(t, S, next)
  BY <1>4, <1>5, <1>7
<1>9. S \in TB!NextStops(next)
  BY <1>6, <1>8 DEF TB!NextStops, TB!Trades, Trades
<1> QED
  BY <1>1, <1>2, <1>9

(* The bars an order has left before the bar ...                           *)
LEMMA LivesBefore ==
    ASSUME ReplayInv
    PROVE  /\ \A w \in ToSet(working) : Lives[w.trade] = w.expiry - (n - 1) /\ w.expiry \in Nat
           /\ \A t \in Trades : t \notin TradesOf(working) => Lives[t] = 0
<1>1. Once(working) /\ working \in Seq(OrderType)
  BY DEF ReplayInv, TradedOnce, ReplayTypeOK
<1>2. ASSUME NEW w \in ToSet(working)
      PROVE  Lives[w.trade] = w.expiry - (n - 1) /\ w.expiry \in Nat
  <2>1. w \in OrderType
    BY <1>1 DEF ToSet
  <2>2. w.trade \in Trades /\ w.expiry \in Nat
    BY <2>1 DEF OrderType
  <2>3. (CHOOSE v \in ToSet(working) : v.trade = w.trade) = w
    BY <1>1, Lookup
  <2> QED
    BY <2>2, <2>3 DEF Lives
<1>3. \A t \in Trades : t \notin TradesOf(working) => Lives[t] = 0
  BY DEF Lives, TradesOf
<1> QED
  BY <1>2, <1>3

(* ... and after it.                                                       *)
LEMMA LivesAfter ==
    ASSUME NEW b, NEW k, NEW ex, NEW F, NEW W, Replayed(b, k, ex, F, W)
    PROVE  /\ \A w \in ToSet(working') : Lives'[w.trade] = w.expiry - n /\ w.expiry \in Nat
           /\ \A t \in Trades : t \notin TradesOf(working') => Lives'[t] = 0
<1>1. Once(working') /\ working' \in Seq(OrderType) /\ n' = n + 1 /\ n \in Nat
  BY DEF Replayed, Rested, Moved, ReplayInv, ReplayTypeOK
<1>2. ASSUME NEW w \in ToSet(working')
      PROVE  Lives'[w.trade] = w.expiry - n /\ w.expiry \in Nat
  <2>1. w \in OrderType
    BY <1>1 DEF ToSet
  <2>2. w.trade \in Trades /\ w.expiry \in Nat
    BY <2>1 DEF OrderType
  <2>3. (CHOOSE v \in ToSet(working') : v.trade = w.trade) = w
    BY <1>1, Lookup
  <2>4. Lives'[w.trade] = w.expiry - (n' - 1)
    BY <2>2, <2>3 DEF Lives
  <2> QED
    BY <1>1, <2>2, <2>4
<1>3. \A t \in Trades : t \notin TradesOf(working') => Lives'[t] = 0
  BY DEF Lives, TradesOf
<1> QED
  BY <1>2, <1>3

(* The orders that may still fill, as TradeBook knows them.                *)
LEMMA EligibleAreLiving ==
    ASSUME ReplayInv
    PROVE  { t \in TradesOf(working) : Lives[t] > 0 } = TradesIn(Living)
<1>1. n \in Nat
  BY DEF ReplayInv, ReplayTypeOK
<1>2. \A w \in ToSet(working) : Lives[w.trade] > 0 <=> n <= w.expiry
  BY <1>1, LivesBefore
<1> QED
  BY <1>2 DEF TradesOf, TradesIn, Living

(* An order fills or rests.                                                *)
LEMMA FilledAreNotKept ==
    ASSUME ReplayInv, NEW F \in SUBSET Living
    PROVE  TradesIn(Living \ F) = TradesIn(Living) \ TradesIn(F)
<1>1. ASSUME NEW v \in Living, NEW w \in Living, v.trade = w.trade PROVE v = w
  BY <1>1 DEF ReplayInv, TradedOnce, Once, ToSet, Living
<1> QED
  BY <1>1 DEF TradesIn

(* Each order that rests on has a bar less.                                *)
LEMMA LivesMoveWell ==
    ASSUME NEW b, NEW k, NEW ex, NEW F, NEW W, Replayed(b, k, ex, F, W)
    PROVE  Lives' = [t \in Trades |->
                       IF t \in Signalled(k) \cap LimitTrades THEN LimitLife
                       ELSE IF t \in TradesIn(Living) \ TradesIn(F) THEN Lives[t] - 1
                       ELSE 0]
<1>1. /\ ReplayInv /\ n \in Nat /\ F \in SUBSET Living
      /\ ToSet(working') = (Living \ F) \cup W /\ TradesIn(W) = Signalled(k) \cap LimitTrades
      /\ \A w \in W : w.expiry = n + LimitLife
  BY DEF Replayed, Rested, ReplayInv, ReplayTypeOK
<1>2. TradesIn(Living \ F) = TradesIn(Living) \ TradesIn(F)
  BY <1>1, FilledAreNotKept
<1>3. TradesOf(working') = TradesIn(Living \ F) \cup TradesIn(W)
  BY <1>1 DEF TradesOf, TradesIn
<1>4. LimitLife \in Nat
  BY PriceFacts
<1>5. ASSUME NEW t \in Trades
      PROVE  Lives'[t] = IF t \in Signalled(k) \cap LimitTrades THEN LimitLife
                         ELSE IF t \in TradesIn(Living) \ TradesIn(F) THEN Lives[t] - 1
                         ELSE 0
  <2>1. CASE t \in TradesIn(W)
    <3>1. PICK w \in W : w.trade = t
      BY <2>1 DEF TradesIn
    <3>2. Lives'[t] = w.expiry - n
      BY <1>1, <3>1, LivesAfter
    <3> QED
      BY <1>1, <1>4, <2>1, <3>1, <3>2
  <2>2. CASE t \notin TradesIn(W) /\ t \in TradesIn(Living \ F)
    <3>1. PICK w \in Living \ F : w.trade = t
      BY <2>2 DEF TradesIn
    <3>2. Lives'[t] = w.expiry - n
      BY <1>1, <3>1, LivesAfter
    <3>3. Lives[t] = w.expiry - (n - 1) /\ w.expiry \in Nat
      BY <1>1, <3>1, LivesBefore DEF Living
    <3>4. Lives'[t] = Lives[t] - 1
      BY <1>1, <3>2, <3>3
    <3> QED
      BY <1>1, <1>2, <2>2, <3>4
  <2>3. CASE t \notin TradesIn(W) /\ t \notin TradesIn(Living \ F)
    <3>1. Lives'[t] = 0
      BY <1>3, <2>3, LivesAfter
    <3> QED
      BY <1>1, <1>2, <2>3, <3>1
  <2> QED
    BY <2>1, <2>2, <2>3
<1>6. Lives' = [t \in Trades |-> Lives'[t]]
  BY DEF Lives
<1> QED
  BY <1>5, <1>6

(* TradeBook brings a copy of its own.                                     *)
LEMMA CardinalitiesAgree == \A S : TB!Cardinality(S) = Cardinality(S)
  BY DEF TB!Cardinality, Cardinality

(* Counting the trades kept is counting the positions kept.                *)
LEMMA OpenFillsAgree ==
    ASSUME ReplayInv, NEW b, NEW ex, ExitsSound(b, ex)
    PROVE  TB!FilledAtOpen(TradesOf(ex.kept)) = FilledTrades(ex.kept)
<1>1. ex.kept \in Seq(SlotType) /\ Once(ex.kept)
  BY AppendExits DEF ExitsSound
<1>2. Cardinality(TradesOf(ex.kept)) = Len(ex.kept)
  BY <1>1, OnceCounts
<1> QED
  BY <1>2, CardinalitiesAgree DEF TB!FilledAtOpen, FilledTrades

(* The bar seen from outside.                                              *)
LEMMA BarIsAllowed ==
    ASSUME NEW b, NEW k, NEW ex, NEW F, NEW W, Replayed(b, k, ex, F, W)
    PROVE  TB!ReplayBar(Held \ TradesOf(ex.kept), TradesIn(F), k, Touched)
<1>1. PICK kept : kept = TradesOf(ex.kept)
  OBVIOUS
<1>2. PICK next : next = TradesOf(slots')
  OBVIOUS
<1>3. PICK touched : touched = TradesIn(F)
  OBVIOUS
<1>4. PICK exits : exits = Held \ kept
  OBVIOUS
<1>5. PICK eligible : eligible = TradesIn(Living)
  OBVIOUS
<1>6. PICK limits : limits = Signalled(k) \cap LimitTrades
  OBVIOUS
<1>7. /\ ReplayInv /\ F \in SUBSET Living /\ ExitsSound(b, ex) /\ bar' = SeenOf(b)
      /\ nextTrade + k <= MaxTrade + 1 /\ nextTrade' = nextTrade + k
      /\ entered' = entered \cup next
  BY <1>2 DEF Replayed, Rested, Moved
<1>8. Held \ exits = kept
  <2>1. Held = TradesOf(slots)
    BY DEF Held, TradesOf
  <2> QED
    BY <1>1, <1>4, <1>7, <2>1, KeptTrades
<1>9. { t \in { w.trade : w \in ToSet(working) } : Lives[t] > 0 } = eligible
  BY <1>5, <1>7, EligibleAreLiving DEF TradesOf
<1>10. TB!FilledAtOpen(kept) = FilledTrades(ex.kept)
  BY <1>1, <1>7, OpenFillsAgree
<1>11. next = kept \cup TB!FilledAtOpen(kept) \cup touched
  BY <1>1, <1>2, <1>3, <1>10 DEF Replayed, Booked
<1>12. touched \subseteq eligible
  BY <1>3, <1>5, <1>7 DEF TradesIn
<1>13. Cardinality(next) = Len(slots') /\ Len(slots') <= MaxSlots /\ Len(slots') \in Nat
  <2>1. slots' \in Seq(SlotType) /\ Once(slots') /\ Len(slots') <= MaxSlots
    BY DEF Replayed, Booked
  <2>2. Cardinality(TradesOf(slots')) = Len(slots')
    BY <2>1, OnceCounts
  <2>3. Len(slots') \in Nat
    BY <2>1
  <2> QED
    BY <1>2, <2>1, <2>2, <2>3
<1>14. Touched \cap eligible \subseteq touched \/ Cardinality(next) >= MaxSlots
  <2>1. SUFFICES ASSUME NEW t \in Touched, t \in eligible, t \notin touched
                 PROVE  Cardinality(next) >= MaxSlots
    OBVIOUS
  <2>2. PICK v \in ToSet(working) : v.trade = t /\ FallsTo(v.trade, bar', v.limit)
    BY <2>1 DEF Touched
  <2>3. PICK w \in Living : w.trade = t
    BY <1>5, <2>1 DEF TradesIn
  <2>4. v = w
    BY <1>7, <2>2, <2>3 DEF ReplayInv, TradedOnce, Once, ToSet, Living
  <2>5. FallsTo(w.trade, b, w.limit)
    BY <1>7, <2>2, <2>4, SeenAlike
  <2>6. w \notin F
    BY <1>3, <2>1, <2>3 DEF TradesIn
  <2> QED
    BY <1>13, <2>3, <2>5, <2>6 DEF Replayed, Rested
<1>15. Held' = next
  BY <1>2 DEF Held, TradesOf
<1>16. Stops' \in TB!NextStops(next)
  BY <1>2, StopsMoveWell
<1>17. Signalled(k) = nextTrade..(nextTrade + k - 1)
  BY DEF Signalled
<1>18. ToSet(pending)' = Signalled(k) \ LimitTrades
  BY DEF Replayed, Rested
<1>19. { w.trade : w \in ToSet(working) }' = (eligible \ touched) \cup limits
  <2>1. { w.trade : w \in ToSet(working) }' = TradesIn(ToSet(working'))
    BY DEF TradesIn
  <2>2. ToSet(working') = (Living \ F) \cup W /\ TradesIn(W) = limits
    BY <1>6 DEF Replayed, Rested
  <2>3. TradesIn(ToSet(working')) = TradesIn(Living \ F) \cup TradesIn(W)
    BY <2>2 DEF TradesIn
  <2>4. TradesIn(Living \ F) = eligible \ touched
    BY <1>3, <1>5, <1>7, FilledAreNotKept
  <2> QED
    BY <2>1, <2>2, <2>3, <2>4
<1>20. Lives' = [t \in TB!Trades |-> IF t \in limits THEN LimitLife
                                    ELSE IF t \in eligible \ touched THEN Lives[t] - 1
                                    ELSE 0]
  BY <1>3, <1>5, <1>6, LivesMoveWell DEF TB!Trades, Trades
<1>21. TB!ReplayBar(exits, touched, k, Touched)
  <2> DEFINE el == { t \in { w.trade : w \in ToSet(working) } : Lives[t] > 0 }
             kp == Held \ exits
             nx == kp \cup TB!FilledAtOpen(kp) \cup touched
             sg == nextTrade..(nextTrade + k - 1)
             lm == sg \cap LimitTrades
  <2>1. el = eligible /\ kp = kept /\ nx = next /\ sg = Signalled(k) /\ lm = limits
    BY <1>6, <1>8, <1>9, <1>11, <1>17
  <2>2. touched \subseteq el /\ (touched # {} => TB!Cardinality(nx) <= MaxSlots)
    BY <1>12, <1>13, <2>1, CardinalitiesAgree
  <2>3. Touched \cap el \subseteq touched \/ TB!Cardinality(nx) >= MaxSlots
    BY <1>14, <2>1, CardinalitiesAgree
  <2>4. /\ nextTrade + k <= MaxTrade + 1 /\ Held' = nx /\ entered' = entered \cup nx
        /\ Stops' \in TB!NextStops(nx) /\ nextTrade' = nextTrade + k
    BY <1>7, <1>15, <1>16, <2>1
  <2>5. ToSet(pending)' = sg \ LimitTrades
    BY <1>18, <2>1
  <2>6. { w.trade : w \in ToSet(working) }' = (el \ touched) \cup lm
    BY <1>19, <2>1
  <2>7. Lives' = [t \in TB!Trades |-> IF t \in lm THEN LimitLife
                                     ELSE IF t \in el \ touched THEN Lives[t] - 1 ELSE 0]
    BY <1>20, <2>1
  <2> QED
    BY <2>2, <2>3, <2>4, <2>5, <2>6, <2>7, Zenon DEF TB!ReplayBar
<1> QED
  BY <1>1, <1>3, <1>4, <1>21

(* A bar of the loop is a bar of TradeBook ...                             *)
LEMMA BarImplements ==
    ASSUME ReplayInv, NEW b \in Bars, NEW k \in 0..MaxSignals, Bar(b, k)
    PROVE  TB!BarMoves(Touched)
<1>1. PICK ex, F, W : ExitsSound(b, ex) /\ Booked(ex, F) /\ Rested(b, k, F, W) /\ Moved(b, k, ex)
  BY BarIsReplayed
<1>2. Replayed(b, k, ex, F, W)
  BY <1>1, ReplayInvBar DEF Replayed
<1>3. TB!ReplayBar(Held \ TradesOf(ex.kept), TradesIn(F), k, Touched)
  BY <1>2, BarIsAllowed
<1>4. TradesIn(F) \in SUBSET { w.trade : w \in ToSet(working) }
  BY <1>1 DEF Rested, Living, TradesIn
<1>5. Held \ TradesOf(ex.kept) \in SUBSET Held
  OBVIOUS
<1>6. n < MaxBar /\ n' = n + 1
  BY <1>1 DEF Moved
<1>7. bar'.close \in Prices
  BY <1>1, BarFacts DEF Moved, SeenOf
<1> QED
  BY <1>3, <1>4, <1>5, <1>6, <1>7 DEF TB!BarMoves

(* ... and it starts where TradeBook starts.                               *)
LEMMA InitImplements ==
    ASSUME Init PROVE TB!BookInit
<1>1. ReplayInv
  BY ReplayInvInit
<1>2. slots = <<>> /\ pending = <<>> /\ working = <<>> /\ n = 0 /\ nextTrade = 1 /\ entered = {}
  BY DEF Init
<1>3. Held = {} /\ ToSet(pending) = {} /\ { w.trade : w \in ToSet(working) } = {}
  BY <1>2 DEF Held, ToSet
<1>4. Stops = [t \in TB!Trades |-> 0]
  BY <1>3 DEF Stops, TB!Trades, Trades
<1>5. Lives = [t \in TB!Trades |-> 0]
  <2>1. ToSet(working) = {}
    BY <1>2 DEF ToSet
  <2> QED
    BY <2>1 DEF Lives, TB!Trades, Trades
<1>6. bar.close \in Prices
  BY <1>1 DEF ReplayInv, ReplayTypeOK, SeenType
<1> QED
  BY <1>2, <1>3, <1>4, <1>5, <1>6 DEF TB!BookInit

(* What the executor is told implements what its model takes it for: the   *)
(* loop starts as TradeBook starts, and each of its bars is a bar of       *)
(* TradeBook, with the exits, fills, stops, lives and signals of the loop. *)
THEOREM LoopImplementsBook == Spec => ImplementsTradeBook
<1>1. ReplayInv /\ [Next]_vars => [TB!BarMoves(Touched)]_vars
  BY BarImplements DEF Next
<1>2. Init => TB!BookInit
  BY InitImplements
<1>3. TB!BookInit /\ [][TB!BarMoves(Touched)]_vars => ImplementsTradeBook
  BY PTL DEF ImplementsTradeBook
<1> QED
  BY <1>1, <1>2, <1>3, ReplayIsInOrder, PTL DEF Spec
=============================================================================
