---------------------------- MODULE StudyProofs ----------------------------
(***************************************************************************)
(* What Benchmark and Cycle promise, for every market, split and strategy. *)
(***************************************************************************)
EXTENDS Cycle, Arithmetic

(* A finite set of integers that is not empty has a greatest and a least.  *)
LEMMA GreatestOfFinite ==
    ASSUME NEW S \in SUBSET Int, IsFiniteSet(S), S # {}
    PROVE  /\ Max(S) \in S /\ \A x \in S : x <= Max(S)
           /\ Min(S) \in S /\ \A x \in S : Min(S) <= x
<1> DEFINE n == Cardinality(S)
<1>1. /\ n \in Nat /\ n # 0 /\ InOrder(S) \in [1..n -> S]
      /\ \A i, j \in 1..n : i < j => InOrder(S)[i] < InOrder(S)[j]
      /\ \A x \in S : \E i \in 1..n : InOrder(S)[i] = x
  BY InOrderFacts, FS_EmptySet
<1> HIDE DEF n
<1>2. 1 \in 1..n /\ n \in 1..n
  BY <1>1
<1>3. \A x \in S : x <= InOrder(S)[n] /\ InOrder(S)[1] <= x
  <2>1. TAKE x \in S
  <2>2. PICK i \in 1..n : InOrder(S)[i] = x
    BY <1>1
  <2>3. (i = n \/ i < n) /\ (i = 1 \/ 1 < i)
    BY <1>1
  <2>4. InOrder(S)[n] \in Int /\ InOrder(S)[1] \in Int /\ x \in Int
    BY <1>1, <1>2
  <2> QED
    BY <1>1, <1>2, <2>2, <2>3, <2>4
<1> DEFINE top == InOrder(S)[n]
           low == InOrder(S)[1]
<1>4. top \in S /\ low \in S /\ \A x \in S : x <= top /\ low <= x
  BY <1>1, <1>2, <1>3
<1> HIDE DEF top, low
<1>5. \A x \in S : top >= x
  BY <1>4
<1> QED
  BY <1>4, <1>5 DEF Max, Min

(***************************************************************************)
(* The store, the split and the studies.                                   *)
(***************************************************************************)

StoreInv ==
    /\ closes \in Markets /\ firstBar \in Nat \ {0} /\ lastBar \in Nat
    /\ firstBar <= lastBar /\ lastBar <= Len(closes)

SplitOf(from, last) == from - 1 + ((last - from + 1) * InSampleOf[1]) \div InSampleOf[2]

LEMMA Fractions ==
    /\ InSampleOf[1] \in Nat \ {0} /\ InSampleOf[2] \in Nat \ {0}
    /\ Threshold[1] \in Nat \ {0} /\ Threshold[2] \in Nat \ {0}
    /\ LookAhead \in Nat \ {0} /\ MonthBars \in Nat \ {0}
<1>1. Threshold \in (Nat \ {0}) \X (Nat \ {0}) /\ InSampleOf \in (Nat \ {0}) \X (Nat \ {0})
  BY BenchmarkAssumption
<1> QED
  BY <1>1, BenchmarkAssumption

LEMMA StoreFacts ==
    ASSUME StoreInv
    PROVE  /\ closes \in Seq(Nat \ {0}) /\ DOMAIN closes = 1..Len(closes) /\ Len(closes) \in Nat
           /\ Stored = firstBar..lastBar /\ IsFiniteSet(Stored)
           /\ LastInSample = SplitOf(firstBar, lastBar) /\ LastInSample \in Int
<1>1. closes \in Seq(Nat \ {0})
  BY BenchmarkAssumption DEF StoreInv
<1>2. Stored = firstBar..lastBar /\ IsFiniteSet(Stored)
      /\ Cardinality(Stored) = lastBar - firstBar + 1
  BY FS_Interval DEF Stored, StoreInv
<1>3. LastInSample = SplitOf(firstBar, lastBar)
  BY <1>2 DEF LastInSample, SplitOf
<1>4. SplitOf(firstBar, lastBar) \in Int
  <2> DEFINE m == (lastBar - firstBar + 1) * InSampleOf[1]
  <2>1. m \in Int
    BY Fractions DEF StoreInv
  <2> HIDE DEF m
  <2>2. m \div InSampleOf[2] \in Int
    BY <2>1, Fractions, DivisionFacts
  <2> QED
    BY <2>2 DEF SplitOf, m, StoreInv
<1> QED
  BY <1>1, <1>2, <1>3, <1>4

(* A rounded quotient grows with what is divided.                          *)
LEMMA QuotientsAreOrdered ==
    ASSUME NEW a \in Int, NEW b \in Int, NEW d \in Nat \ {0}, a <= b
    PROVE  a \div d <= b \div d
<1> DEFINE p == a \div d
           q == b \div d
<1>1. p \in Int /\ q \in Int /\ p * d <= a /\ b < q * d + d
  BY DivisionFacts
<1> HIDE DEF p, q
<1>2. CASE q + 1 <= p
  <2>1. (q + 1) * d <= p * d
    BY <1>1, <1>2, ProductsAreOrdered
  <2>2. (q + 1) * d = q * d + d
    BY <1>1
  <2> QED
    BY <1>1, <2>1, <2>2
<1> QED
  BY <1>1, <1>2 DEF p, q

(* The split moves forwards while the store grows forwards.                *)
LEMMA SplitsAreOrdered ==
    ASSUME NEW from \in Int, NEW last \in Int, NEW later \in Int, last <= later
    PROVE  SplitOf(from, last) <= SplitOf(from, later)
<1> DEFINE a == (last - from + 1) * InSampleOf[1]
           b == (later - from + 1) * InSampleOf[1]
<1>1. a \in Int /\ b \in Int /\ a <= b
  BY Fractions, ProductsAreOrdered
<1> HIDE DEF a, b
<1>2. a \div InSampleOf[2] <= b \div InSampleOf[2]
  BY <1>1, Fractions, QuotientsAreOrdered
<1>3. a \div InSampleOf[2] \in Int /\ b \div InSampleOf[2] \in Int
  BY <1>1, Fractions, DivisionFacts
<1> QED
  BY <1>2, <1>3 DEF SplitOf, a, b

(* No study began before the store does; a fitting one that began with it  *)
(* has read nothing beyond the split.                                      *)
StudyPhases == Phases \cup {"calibrate"}
StudyType == [phase : StudyPhases, from : Nat, bars : SUBSET Nat]

StudiesFit ==
    \A i \in DOMAIN studied :
        /\ studied[i].from >= firstBar
        /\ studied[i].phase # "backtest" /\ studied[i].from = firstBar
           => \A b \in studied[i].bars : b <= LastInSample

StudiesInv == studied \in Seq(StudyType) /\ StudiesFit /\ OosStaysUnseen

(* Studies of the store as it is keep that.                                *)
LEMMA StudiesJoin ==
    \A s, t \in Seq(StudyType) :
        /\ s \o t \in Seq(StudyType) /\ DOMAIN (s \o t) = 1..(Len(s) + Len(t))
        /\ \A i \in 1..Len(s) : (s \o t)[i] = s[i]
        /\ \A i \in DOMAIN (s \o t) : i \notin 1..Len(s) =>
             i - Len(s) \in 1..Len(t) /\ (s \o t)[i] = t[i - Len(s)]
  BY Concatenated

LEMMA StudiesAdded ==
    ASSUME StoreInv, StudiesInv, UNCHANGED storeVars, NEW n \in Nat,
           NEW phases \in [1..n -> StudyPhases],
           studied' = studied \o [k \in 1..n |-> Study(phases[k], BarsOf(phases[k]))]
    PROVE  StudiesInv'
<1> DEFINE new == [k \in 1..n |-> Study(phases[k], BarsOf(phases[k]))]
           m == Len(studied)
<1>1. \A phase \in StudyPhases : BarsOf(phase) \in SUBSET Nat /\ Study(phase, BarsOf(phase)) \in StudyType
  BY StoreFacts DEF Study, StudyType, BarsOf, StoreInv
<1>2. new \in Seq(StudyType) /\ Len(new) = n
  <2>1. new \in [1..n -> StudyType]
    BY <1>1
  <2> QED
    BY <2>1
<1>3. studied \in Seq(StudyType) /\ m \in Nat /\ DOMAIN studied = 1..m
  BY DEF StudiesInv
<1> HIDE DEF m
<1>4. /\ studied' \in Seq(StudyType) /\ DOMAIN studied' = 1..(m + n)
      /\ \A i \in 1..m : studied'[i] = studied[i]
      /\ \A i \in DOMAIN studied' : i \notin 1..m => i - m \in 1..n /\ studied'[i] = new[i - m]
  <2>1. PICK t \in Seq(StudyType) : t = new
    BY <1>2
  <2>2. studied' = studied \o t /\ Len(t) = n
    BY <1>2, <2>1
  <2>3. /\ studied \o t \in Seq(StudyType) /\ DOMAIN (studied \o t) = 1..(Len(studied) + Len(t))
        /\ \A i \in 1..Len(studied) : (studied \o t)[i] = studied[i]
        /\ \A i \in DOMAIN (studied \o t) : i \notin 1..Len(studied) =>
             i - Len(studied) \in 1..Len(t) /\ (studied \o t)[i] = t[i - Len(studied)]
    BY <1>3, StudiesJoin, Zenon
  <2>4. Len(studied) = m
    BY DEF m
  <2> QED
    BY <2>1, <2>2, <2>3, <2>4, Zenon
<1>5. \A i \in 1..m : studied'[i] = studied[i]
  BY <1>4
<1>6. \A i \in DOMAIN studied' : i \notin 1..m =>
         \E phase \in StudyPhases : studied'[i] = Study(phase, BarsOf(phase))
  <2>1. TAKE i \in DOMAIN studied'
  <2>2. HAVE i \notin 1..m
  <2>3. i - m \in 1..n /\ studied'[i] = new[i - m]
    BY <1>4, <2>2
  <2>5. studied'[i] = Study(phases[i - m], BarsOf(phases[i - m])) /\ phases[i - m] \in StudyPhases
    BY <2>3
  <2> QED
    BY <2>5
<1>7. firstBar' = firstBar /\ lastBar' = lastBar /\ LastInSample' = LastInSample
  BY DEF storeVars, LastInSample, Stored
<1>8. \A i \in DOMAIN studied' : i \notin 1..m =>
         /\ studied'[i].from = firstBar
         /\ \A b \in studied'[i].bars : IF studied'[i].phase = "backtest" THEN b > LastInSample
                                                                          ELSE b <= LastInSample
  <2>1. TAKE i \in DOMAIN studied'
  <2>2. HAVE i \notin 1..m
  <2>3. PICK phase \in StudyPhases : studied'[i] = Study(phase, BarsOf(phase))
    BY <1>6, <2>2
  <2>4. studied'[i].from = firstBar /\ studied'[i].phase = phase
        /\ studied'[i].bars = BarsOf(phase)
    BY <2>3 DEF Study
  <2> QED
    BY <2>4 DEF BarsOf
<1>10. firstBar \in Nat /\ LastInSample \in Int
  BY StoreFacts DEF StoreInv
<1>11. \A i \in 1..m : /\ studied[i].from \in Nat /\ studied[i].from >= firstBar
                       /\ studied[i].bars \in SUBSET Nat
                       /\ studied[i].phase # "backtest" /\ studied[i].from = firstBar
                          => \A b \in studied[i].bars : b <= LastInSample
  <2>1. \A i \in 1..m : studied[i] \in StudyType
    BY <1>3
  <2> QED
    BY <1>3, <2>1 DEF StudiesInv, StudiesFit, StudyType
<1>12. StudiesFit'
  <2>1. ASSUME NEW i \in DOMAIN studied'
        PROVE  /\ studied'[i].from >= firstBar
               /\ studied'[i].phase # "backtest" /\ studied'[i].from = firstBar
                  => \A b \in studied'[i].bars : b <= LastInSample
    <3>1. CASE i \in 1..m
      BY <1>5, <1>11, <3>1
    <3>2. CASE i \notin 1..m
      <4>1. firstBar >= firstBar
        BY <1>10
      <4>2. studied'[i].from = firstBar
        BY <1>8, <2>1, <3>2
      <4> QED
        BY <1>8, <2>1, <3>2, <4>1, <4>2
    <3> QED
      BY <3>1, <3>2
  <2> QED
    BY <1>7, <2>1 DEF StudiesFit
<1>13. OosStaysUnseen'
  <2>1. SUFFICES ASSUME NEW i \in DOMAIN studied', NEW j \in DOMAIN studied', i < j,
                        studied'[i].phase # "backtest", studied'[j].phase = "backtest",
                        studied'[i].from = studied'[j].from,
                        NEW b \in studied'[i].bars, b \in studied'[j].bars
                 PROVE  FALSE
    BY DEF OosStaysUnseen
  <2>2. CASE j \in 1..m
    <3>1. i \in 1..m
      BY <1>3, <1>4, <2>1, <2>2
    <3> QED
      BY <1>3, <1>5, <2>1, <2>2, <3>1 DEF StudiesInv, OosStaysUnseen
  <2>3. CASE j \notin 1..m
    <3>1. b > LastInSample /\ studied'[i].from = firstBar
      BY <1>8, <2>1, <2>3
    <3>2. b <= LastInSample
      BY <1>5, <1>8, <1>11, <2>1, <3>1
    <3>3. b \in Nat
      <4>1. studied'[j] \in StudyType
        BY <1>4, <2>1
      <4> QED
        BY <2>1, <4>1 DEF StudyType
    <3> QED
      BY <1>10, <3>1, <3>2, <3>3
  <2> QED
    BY <2>2, <2>3
<1> QED
  BY <1>4, <1>12, <1>13 DEF StudiesInv

(***************************************************************************)
(* What a fire came to.                                                    *)
(***************************************************************************)
Move(bar, b) == closes[b] - closes[bar]
Ahead(bar, last) == (bar + 1) .. Min({last, bar + LookAhead})
Up(bar, last)   == {b \in Ahead(bar, last) : Confirms(Move(bar, b), closes[bar])}
Down(bar, last) == {b \in Ahead(bar, last) : Confirms(-Move(bar, b), closes[bar])}
Crossed(bar, last) == Up(bar, last) \cup Down(bar, last) # {}
UpFirst(bar, last) ==
    Up(bar, last) # {} /\ (Down(bar, last) = {} \/ Min(Up(bar, last)) < Min(Down(bar, last)))

(* Only a move confirms a swing, and only one way.                         *)
LEMMA ConfirmsFacts ==
    ASSUME NEW move \in Int, NEW entry \in Nat \ {0}, Confirms(move, entry)
    PROVE  move > 0
<1> DEFINE d == Threshold[2]
           m == Threshold[1] * entry
<1>1. d \in Nat \ {0} /\ m \in Nat \ {0} /\ move * d >= m
  BY Fractions DEF Confirms
<1> HIDE DEF d, m
<1>2. CASE move <= 0
  <2>1. move * d <= 0 * d
    BY <1>1, <1>2, ProductsAreOrdered
  <2>2. 0 * d = 0 /\ move * d \in Int
    BY <1>1
  <2> QED
    BY <1>1, <2>1, <2>2
<1> QED
  BY <1>2

LEMMA AheadFacts ==
    ASSUME StoreInv, NEW bar \in 1..Len(closes), NEW last \in 1..Len(closes)
    PROVE  /\ Ahead(bar, last) \in SUBSET (1..Len(closes)) /\ IsFiniteSet(Ahead(bar, last))
           /\ closes[bar] \in Nat \ {0}
           /\ \A b \in 1..Len(closes) : Move(bar, b) \in Int
           /\ Up(bar, last) \cap Down(bar, last) = {}
           /\ \A b \in 1..Len(closes) :
                b \in Ahead(bar, last) <=> bar < b /\ b <= last /\ b <= bar + LookAhead
<1>1. closes \in Seq(Nat \ {0}) /\ Len(closes) \in Nat /\ LookAhead \in Nat
  BY StoreFacts, Fractions
<1>2. \A b \in 1..Len(closes) : closes[b] \in Nat \ {0} /\ Move(bar, b) \in Int
  BY <1>1 DEF Move
<1>3. Min({last, bar + LookAhead}) = IF last <= bar + LookAhead THEN last ELSE bar + LookAhead
  BY <1>1, MinOfTwo
<1>4. Ahead(bar, last) \in SUBSET (1..Len(closes))
  BY <1>1, <1>3 DEF Ahead
<1>5. IsFiniteSet(Ahead(bar, last))
  <2>1. Min({last, bar + LookAhead}) \in Int
    BY <1>1, <1>3
  <2> QED
    BY <1>1, <2>1, FS_Interval DEF Ahead
<1>6. Up(bar, last) \cap Down(bar, last) = {}
  <2>1. SUFFICES ASSUME NEW b \in Ahead(bar, last), Confirms(Move(bar, b), closes[bar]),
                        Confirms(-Move(bar, b), closes[bar])
                 PROVE  FALSE
    BY DEF Up, Down
  <2>2. Move(bar, b) \in Int /\ -Move(bar, b) \in Int /\ closes[bar] \in Nat \ {0}
    BY <1>2, <1>4
  <2>3. Move(bar, b) > 0 /\ -Move(bar, b) > 0
    BY <2>1, <2>2, ConfirmsFacts
  <2> QED
    BY <2>2, <2>3
<1>7. \A b \in 1..Len(closes) :
        b \in Ahead(bar, last) <=> bar < b /\ b <= last /\ b <= bar + LookAhead
  BY <1>1, <1>3 DEF Ahead
<1> QED
  BY <1>2, <1>4, <1>5, <1>6, <1>7

(* The least of what lies up to a bound.                                   *)
LEMMA LeastOfPart ==
    ASSUME NEW x \in SUBSET Nat, NEW last \in Nat, NEW u, u = {b \in x : b <= last}
    PROVE  /\ u # {} => x # {} /\ Min(x) = Min(u) /\ Min(u) <= last
           /\ u = {} /\ x # {} => Min(x) > last
           /\ x # {} => Min(x) \in Nat
<1>1. x # {} => Min(x) \in x /\ \A i \in x : Min(x) <= i
  BY MinIsLeast
<1>2. u # {} => Min(u) \in u /\ \A i \in u : Min(u) <= i
  BY MinIsLeast
<1> DEFINE p == Min(x)
           q == Min(u)
<1>3. (x # {} => p \in x /\ \A i \in x : p <= i) /\ (u # {} => q \in u /\ \A i \in u : q <= i)
  BY <1>1, <1>2
<1> HIDE DEF p, q
<1>4. u # {} => x # {} /\ p = q /\ q <= last
  <2>1. HAVE u # {}
  <2>2. q \in x /\ q <= last /\ q \in Nat /\ x # {} /\ q \in u
    BY <1>3, <2>1
  <2>3. p <= q /\ p \in x /\ p \in Nat
    BY <1>3, <2>2
  <2>4. p \in u
    BY <2>2, <2>3
  <2>5. q <= p
    BY <1>3, <2>1, <2>4
  <2> QED
    BY <2>2, <2>3, <2>5
<1>5. u = {} /\ x # {} => p > last
  <2>1. HAVE u = {} /\ x # {}
  <2>2. p \in x /\ p \notin u /\ p \in Nat
    BY <1>3, <2>1
  <2>3. ~ (p <= last)
    BY <2>2
  <2> QED
    BY <2>2, <2>3
<1>6. x # {} => p \in Nat
  BY <1>3
<1> QED
  BY <1>4, <1>5, <1>6 DEF p, q

(* What crosses first within some bars crosses first within more of them.  *)
LEMMA FirstCrossingIsFinal ==
    ASSUME StoreInv, NEW bar \in 1..Len(closes), NEW last \in 1..Len(closes),
           NEW later \in 1..Len(closes), last <= later, Crossed(bar, last)
    PROVE  Crossed(bar, later) /\ (UpFirst(bar, last) <=> UpFirst(bar, later))
<1> DEFINE u == Up(bar, last)
           d == Down(bar, last)
           x == Up(bar, later)
           y == Down(bar, later)
           N == 1..Len(closes)
<1>1. Len(closes) \in Nat /\ LookAhead \in Nat /\ last \in Nat /\ later \in Nat
  BY StoreFacts, Fractions
<1>2. u \in SUBSET N /\ d \in SUBSET N /\ x \in SUBSET N /\ y \in SUBSET N
  BY AheadFacts DEF Up, Down
<1>20. \A b \in N : b \in Ahead(bar, last) <=> b \in Ahead(bar, later) /\ b <= last
  <2>1. TAKE b \in N
  <2>2. b \in Ahead(bar, last) <=> bar < b /\ b <= last /\ b <= bar + LookAhead
    BY AheadFacts
  <2>3. b \in Ahead(bar, later) <=> bar < b /\ b <= later /\ b <= bar + LookAhead
    BY AheadFacts
  <2> QED
    BY <1>1, <2>2, <2>3
<1>3. \A b \in N : b \in u <=> b \in x /\ b <= last
  BY <1>20 DEF Up
<1>4. \A b \in N : b \in d <=> b \in y /\ b <= last
  BY <1>20 DEF Down
<1>5. u \cap d = {} /\ u \cup d # {}
  BY AheadFacts DEF Crossed
<1>6. UpFirst(bar, last) <=> u # {} /\ (d = {} \/ Min(u) < Min(d))
  BY DEF UpFirst
<1>7. UpFirst(bar, later) <=> x # {} /\ (y = {} \/ Min(x) < Min(y))
  BY DEF UpFirst
<1>8. Crossed(bar, later) <=> x \cup y # {}
  BY DEF Crossed
<1> HIDE DEF u, d, x, y
<1>9. u \in SUBSET Nat /\ d \in SUBSET Nat /\ x \in SUBSET Nat /\ y \in SUBSET Nat
  BY <1>2
<1>10. u = {b \in x : b <= last} /\ d = {b \in y : b <= last}
  BY <1>2, <1>3, <1>4
<1>11. /\ u # {} => x # {} /\ Min(x) = Min(u) /\ Min(u) <= last
       /\ u = {} /\ x # {} => Min(x) > last
       /\ x # {} => Min(x) \in Nat
  BY <1>1, <1>9, <1>10, LeastOfPart
<1>12. /\ d # {} => y # {} /\ Min(y) = Min(d) /\ Min(d) <= last
       /\ d = {} /\ y # {} => Min(y) > last
       /\ y # {} => Min(y) \in Nat
  BY <1>1, <1>9, <1>10, LeastOfPart
<1>17. CASE u # {} /\ d # {}
  BY <1>6, <1>7, <1>8, <1>11, <1>12, <1>17
<1>18. CASE u # {} /\ d = {}
  <2>1. y = {} \/ Min(x) < Min(y)
    BY <1>1, <1>11, <1>12, <1>18
  <2> QED
    BY <1>6, <1>7, <1>8, <1>11, <1>18, <2>1
<1>19. CASE u = {} /\ d # {}
  <2>1. ~ (x # {} /\ (y = {} \/ Min(x) < Min(y)))
    BY <1>1, <1>11, <1>12, <1>19
  <2> QED
    BY <1>6, <1>7, <1>8, <1>12, <1>19, <2>1
<1> QED
  BY <1>5, <1>17, <1>18, <1>19

(* The peak of a fire has a direction, that of the first crossing if its   *)
(* size confirms one.                                                      *)
LEMMA PeakFacts ==
    ASSUME StoreInv, NEW bar \in 1..Len(closes), NEW last \in 1..Len(closes)
    PROVE  /\ FirstZigzagPeak(bar, last) \in [dir : {-1, 0, 1}, size : Nat]
           /\ Confirms(FirstZigzagPeak(bar, last).size, closes[bar]) =>
                /\ Crossed(bar, last)
                /\ FirstZigzagPeak(bar, last).dir = IF UpFirst(bar, last) THEN 1 ELSE -1
<1> DEFINE u == Up(bar, last)
           d == Down(bar, last)
           read == UntilBothCrossed(Ahead(bar, last), u, d)
           highs == {Move(bar, b) : b \in read} \cup {0}
           lows  == {-Move(bar, b) : b \in read} \cup {0}
           high  == Max(highs)
           low   == Max(lows)
<1>1. FirstZigzagPeak(bar, last) = PeakOf(u, d, high, low)
  BY DEF FirstZigzagPeak, Ahead, Up, Down, Move
<1>2. read \in SUBSET Ahead(bar, last) /\ IsFiniteSet(read)
  <2>1. read \in SUBSET Ahead(bar, last)
    BY DEF UntilBothCrossed
  <2> HIDE DEF read
  <2> QED
    BY <2>1, AheadFacts, FS_Subset
<1>3. \A b \in read : Move(bar, b) \in Int /\ -Move(bar, b) \in Int
  BY <1>2, AheadFacts
<1> HIDE DEF read
<1>4. high \in highs /\ high \in Nat /\ low \in lows /\ low \in Nat
  <2>1. highs \in SUBSET Int /\ lows \in SUBSET Int
    BY <1>3
  <2>2. IsFiniteSet(highs) /\ IsFiniteSet(lows)
    <3>1. [b \in read |-> Move(bar, b)] \in Surjection(read, {Move(bar, b) : b \in read})
          /\ [b \in read |-> -Move(bar, b)] \in Surjection(read, {-Move(bar, b) : b \in read})
      BY DEF Surjection
    <3>2. IsFiniteSet({Move(bar, b) : b \in read}) /\ IsFiniteSet({-Move(bar, b) : b \in read})
      BY <1>2, <3>1, FS_Surjection
    <3> QED
      BY <3>2, FS_AddElement
  <2>3. 0 \in highs /\ 0 \in lows
    OBVIOUS
  <2> HIDE DEF highs, lows
  <2>4. high \in highs /\ 0 <= high /\ low \in lows /\ 0 <= low
    BY <2>1, <2>2, <2>3, GreatestOfFinite
  <2> HIDE DEF high, low
  <2> QED
    BY <2>1, <2>4
<1> HIDE DEF high, low
<1>5. PeakOf(u, d, high, low) \in [dir : {-1, 0, 1}, size : Nat]
  BY <1>4 DEF PeakOf
<1>6. ~ Confirms(0, closes[bar])
  BY AheadFacts, ConfirmsFacts
<1>7. Confirms(high, closes[bar]) => u # {}
  <2>1. HAVE Confirms(high, closes[bar])
  <2>2. PICK b \in read : high = Move(bar, b)
    BY <1>4, <1>6, <2>1
  <2> QED
    BY <1>2, <2>1, <2>2 DEF Up
<1>8. Confirms(low, closes[bar]) => d # {}
  <2>1. HAVE Confirms(low, closes[bar])
  <2>2. PICK b \in read : low = -Move(bar, b)
    BY <1>4, <1>6, <2>1
  <2> QED
    BY <1>2, <2>1, <2>2 DEF Down
<1> DEFINE p == PeakOf(u, d, high, low)
<1>9. Confirms(p.size, closes[bar]) => u \cup d # {} /\ p.dir = IF Rises(u, d, high, low) THEN 1 ELSE -1
  <2>1. HAVE Confirms(p.size, closes[bar])
  <2>2. ~ (high = 0 /\ low = 0)
    BY <1>6, <2>1 DEF PeakOf
  <2>3. p = IF Rises(u, d, high, low) THEN [dir |-> 1, size |-> high] ELSE [dir |-> -1, size |-> low]
    BY <2>2 DEF PeakOf
  <2> HIDE DEF p, u, d
  <2>4. CASE Rises(u, d, high, low)
    <3>1. p.dir = 1 /\ p.size = high
      BY <2>3, <2>4
    <3> QED
      BY <1>7, <2>1, <2>4, <3>1
  <2>5. CASE ~ Rises(u, d, high, low)
    <3>1. p.dir = -1 /\ p.size = low
      BY <2>3, <2>5
    <3> QED
      BY <1>8, <2>1, <2>5, <3>1
  <2> QED
    BY <2>4, <2>5
<1>10. u \cup d # {} => (Rises(u, d, high, low) <=> UpFirst(bar, last))
  BY DEF Rises, UpFirst
<1> HIDE DEF u, d
<1> QED
  BY <1>1, <1>5, <1>9, <1>10 DEF Crossed, u, d

(* The rows that measurements can come to.                                 *)
Rows == {Measured(bar, last) : bar \in 1..Len(closes), last \in 1..Len(closes)}

RowType == [at : Nat, size : Nat, dir : {-1, 0, 1}]

LEMMA RowFacts ==
    ASSUME StoreInv, NEW bar \in 1..Len(closes), NEW last \in 1..Len(closes)
    PROVE  /\ Measured(bar, last) \in RowType /\ Measured(bar, last).at = bar
           /\ Confirmed(Measured(bar, last)) =>
                /\ Crossed(bar, last)
                /\ Measured(bar, last).dir =
                     IF UpFirst(bar, last) <=> bar \notin Shorts THEN 1 ELSE -1
<1>1. PICK p \in [dir : {-1, 0, 1}, size : Nat] :
        /\ p = FirstZigzagPeak(bar, last)
        /\ Confirms(p.size, closes[bar]) =>
             Crossed(bar, last) /\ p.dir = IF UpFirst(bar, last) THEN 1 ELSE -1
  BY PeakFacts
<1>2. Measured(bar, last) = [at |-> bar, size |-> p.size,
                             dir |-> IF bar \in Shorts THEN -p.dir ELSE p.dir]
  BY <1>1 DEF Measured
<1>3. p.dir \in {-1, 0, 1} /\ -p.dir \in {-1, 0, 1} /\ bar \in Nat
  BY <1>1
<1>4. Measured(bar, last) \in RowType /\ Measured(bar, last).at = bar
  BY <1>2, <1>3 DEF RowType
<1>5. Confirmed(Measured(bar, last)) =>
        /\ Crossed(bar, last)
        /\ Measured(bar, last).dir =
             IF UpFirst(bar, last) <=> bar \notin Shorts THEN 1 ELSE -1
  BY <1>1, <1>2 DEF Confirmed
<1> QED
  BY <1>4, <1>5

(* Two confirmed measurements of a bar agree on the direction.             *)
LEMMA DirectionsAgree ==
    ASSUME StoreInv, NEW r \in Rows, NEW q \in Rows, r.at = q.at, Confirmed(r), Confirmed(q)
    PROVE  r.dir = q.dir
<1>1. ASSUME NEW bar \in 1..Len(closes), NEW last \in 1..Len(closes),
             NEW later \in 1..Len(closes), last <= later,
             Confirmed(Measured(bar, last)), Confirmed(Measured(bar, later))
      PROVE  Measured(bar, last).dir = Measured(bar, later).dir
  <2>1. UpFirst(bar, last) <=> UpFirst(bar, later)
    BY <1>1, RowFacts, FirstCrossingIsFinal
  <2> QED
    BY <1>1, <2>1, RowFacts
<1>2. PICK bar \in 1..Len(closes), last \in 1..Len(closes) : r = Measured(bar, last)
  BY DEF Rows
<1>3. PICK two \in 1..Len(closes), later \in 1..Len(closes) : q = Measured(two, later)
  BY DEF Rows
<1>4. two = bar
  BY <1>2, <1>3, RowFacts
<1>5. last <= later \/ later <= last
  BY StoreFacts
<1> QED
  BY <1>1, <1>2, <1>3, <1>4, <1>5

(* The fires of a phase are measured within the store.                     *)
LEMMA MeasuredRows ==
    ASSUME StoreInv, NEW bars \in SUBSET Stored
    PROVE  MeasureFires(bars) \in Seq(Rows)
<1> DEFINE S == bars \cap (Longs \cup Shorts)
           fired == InOrder(S)
<1>1. /\ Stored = firstBar..lastBar /\ IsFiniteSet(Stored) /\ Len(closes) \in Nat
      /\ bars \in SUBSET (1..Len(closes))
  BY StoreFacts DEF StoreInv
<1>2. S \in SUBSET Int /\ IsFiniteSet(S) /\ IsFiniteSet(bars)
  <2>1. S \in SUBSET bars
    OBVIOUS
  <2> HIDE DEF S
  <2>2. IsFiniteSet(bars)
    BY <1>1, FS_Subset
  <2>3. IsFiniteSet(S)
    BY <2>1, <2>2, FS_Subset
  <2>4. bars \in SUBSET Int
    BY <1>1
  <2> QED
    BY <2>1, <2>2, <2>3, <2>4
<1>3. Cardinality(S) \in Nat /\ fired \in [1..Cardinality(S) -> S]
  <2> HIDE DEF S
  <2> QED
    BY <1>2, InOrderFacts
<1> HIDE DEF fired
<1> DEFINE n == Cardinality(S)
<1>4. \A i \in 1..n : fired[i] \in bars
  BY <1>3
<1>5. bars # {} => Max(bars) \in 1..Len(closes)
  <2>1. HAVE bars # {}
  <2>2. Max(bars) \in bars
    BY <1>1, <1>2, <2>1, GreatestOfFinite DEF StoreInv
  <2> QED
    BY <1>1, <2>2
<1>6. \A i \in 1..n : Measured(fired[i], Max(bars)) \in Rows
  <2>1. TAKE i \in 1..n
  <2>2. fired[i] \in 1..Len(closes) /\ Max(bars) \in 1..Len(closes)
    BY <1>1, <1>4, <1>5
  <2> QED
    BY <2>2 DEF Rows
<1>7. MeasureFires(bars) = [i \in 1..n |-> Measured(fired[i], Max(bars))]
  <2>1. DOMAIN fired = 1..n
    BY <1>3
  <2> QED
    BY <2>1 DEF MeasureFires, fired
<1> HIDE DEF n
<1>8. MeasureFires(bars) \in [1..n -> Rows]
  BY <1>6, <1>7
<1>9. n \in Nat
  BY <1>3 DEF n
<1> QED
  BY <1>8, <1>9, ListOf

(* How many of them are events, of a part or of two lists together.        *)
EventPlaces(rows) == {i \in DOMAIN rows : rows[i].size # 0}

LEMMA EventsAreCounted ==
    ASSUME NEW rows, IsFiniteSet(DOMAIN rows)
    PROVE  IsFiniteSet(EventPlaces(rows)) /\ Events(rows) = Cardinality(EventPlaces(rows))
           /\ Events(rows) \in Nat
<1>1. EventPlaces(rows) \in SUBSET DOMAIN rows /\ Events(rows) = Cardinality(EventPlaces(rows))
  BY DEF EventPlaces, Events
<1> QED
  BY <1>1, FS_Subset, FS_CardinalityType

LEMMA EventsAddUp ==
    ASSUME NEW R, NEW s \in Seq(R), NEW t \in Seq(R)
    PROVE  /\ Events(s) \in Nat /\ Events(t) \in Nat
           /\ Events(s \o t) = Events(s) + Events(t)
<1> DEFINE m == Len(s)
           A == EventPlaces(s)
           B == EventPlaces(t)
           C == {m + i : i \in B}
<1>1. PICK u : u = s \o t
  OBVIOUS
<1>2. /\ u \in Seq(R) /\ m \in Nat /\ Len(t) \in Nat /\ DOMAIN u = 1..(m + Len(t))
      /\ \A i \in 1..m : u[i] = s[i]
      /\ \A i \in 1..Len(t) : u[m + i] = t[i]
      /\ \A i \in DOMAIN u : i \notin 1..m => i - m \in 1..Len(t) /\ u[i] = t[i - m]
  BY <1>1, Concatenated
<1>3. IsFiniteSet(DOMAIN s) /\ IsFiniteSet(DOMAIN t) /\ IsFiniteSet(DOMAIN u)
      /\ DOMAIN s = 1..m /\ DOMAIN t = 1..Len(t)
  <2>1. DOMAIN s = 1..m /\ DOMAIN t = 1..Len(t)
    OBVIOUS
  <2>2. 1 \in Int /\ m \in Int /\ Len(t) \in Int /\ m + Len(t) \in Int
    BY <1>2
  <2>3. IsFiniteSet(1..m) /\ IsFiniteSet(1..Len(t)) /\ IsFiniteSet(1..(m + Len(t)))
    BY <2>2, FS_Interval, Zenon
  <2> QED
    BY <1>2, <2>1, <2>3, Zenon
<1>4. IsFiniteSet(A) /\ IsFiniteSet(B) /\ Events(s) = Cardinality(A) /\ Events(t) = Cardinality(B)
      /\ Events(u) = Cardinality(EventPlaces(u)) /\ Events(s) \in Nat /\ Events(t) \in Nat
  BY <1>3, EventsAreCounted
<1>5. A \in SUBSET (1..m) /\ B \in SUBSET (1..Len(t))
  BY <1>3 DEF EventPlaces
<1>6. EventPlaces(u) = A \cup C
  <2>1. \A i \in 1..m : i \in EventPlaces(u) <=> i \in A
    BY <1>2, <1>3 DEF EventPlaces
  <2>2. \A i \in 1..Len(t) : m + i \in EventPlaces(u) <=> i \in B
    BY <1>2, <1>3 DEF EventPlaces
  <2>3. \A i \in EventPlaces(u) : i \in 1..m \/ i - m \in 1..Len(t)
    BY <1>2 DEF EventPlaces
  <2>4. \A i \in EventPlaces(u) : i \in Int
    BY <1>2 DEF EventPlaces
  <2> HIDE DEF A, B
  <2>5. \A i \in EventPlaces(u) : i \in A \cup C
    <3>1. TAKE i \in EventPlaces(u)
    <3>2. CASE i \in 1..m
      BY <2>1, <3>2
    <3>3. CASE i - m \in 1..Len(t)
      <4>1. m + (i - m) = i
        BY <1>2, <2>4
      <4>2. i - m \in B
        BY <2>2, <3>3, <4>1
      <4> QED
        BY <4>1, <4>2
    <3> QED
      BY <2>3, <3>2, <3>3
  <2>6. \A i \in A \cup C : i \in EventPlaces(u)
    BY <1>5, <2>1, <2>2
  <2> QED
    BY <2>5, <2>6
<1>7. IsFiniteSet(C) /\ Cardinality(C) = Cardinality(B)
  <2> DEFINE p == [i \in B |-> m + i]
  <2>1. p \in Bijection(B, C)
    <3>1. \A i, j \in B : m + i = m + j => i = j
      BY <1>2, <1>5
    <3> HIDE DEF B
    <3> QED
      BY <3>1 DEF Bijection, Injection, Surjection, IsInjective
  <2> HIDE DEF p
  <2>2. ExistsBijection(B, C)
    BY <2>1 DEF ExistsBijection
  <2> HIDE DEF B, C
  <2> QED
    BY <1>4, <2>2, FS_Bijection
<1>8. A \cap C = {}
  BY <1>2, <1>5
<1> HIDE DEF A, B, C
<1>9. Cardinality(A \cup C) = Cardinality(A) + Cardinality(C) - Cardinality(A \cap C)
  BY <1>4, <1>7, FS_Union
<1>10. Cardinality(A \cap C) = 0
  BY <1>8, FS_EmptySet
<1> QED
  BY <1>1, <1>4, <1>6, <1>7, <1>9, <1>10

(***************************************************************************)
(* The rows that are kept.                                                 *)
(***************************************************************************)
PoolRow  == [phase : StudyPhases, months : SUBSET Int, n : Nat]
MonthRow == {r \in PoolRow : r.months # {}}

Kept(p)  == {i \in DOMAIN p : p[i].months = {}}
Begun(p) == {i \in Kept(p) : Replaces(p[i].phase)} \cup {1}
Total(p) == SumFunctionOnSet([i \in DOMAIN p |-> p[i].n], {i \in Kept(p) : i >= Max(Begun(p))})

(* The monthly rows of a phase name a month.                               *)
LEMMA MonthRowsTyped ==
    ASSUME StoreInv, NEW phase \in StudyPhases, NEW rows \in Seq(Rows)
    PROVE  MonthRows(phase, rows) \in Seq(MonthRow)
<1> DEFINE S == {MonthOf(rows[i].at) : i \in DOMAIN rows}
           Of(month) == Restrict(rows, {i \in DOMAIN rows : MonthOf(rows[i].at) = month})
           months == InOrder(S)
           n == Cardinality(S)
<1>1. DOMAIN rows = 1..Len(rows) /\ Len(rows) \in Nat /\ IsFiniteSet(DOMAIN rows)
  BY FS_Interval
<1>2. \A i \in DOMAIN rows : MonthOf(rows[i].at) \in Int
  <2>1. TAKE i \in DOMAIN rows
  <2>2. rows[i] \in Rows
    BY <1>1
  <2>3. rows[i].at \in Nat
    BY <2>2, RowFacts DEF Rows, RowType
  <2> QED
    BY <2>3, Fractions, DivisionFacts DEF MonthOf
<1>3. S \in SUBSET Int /\ IsFiniteSet(S)
  <2>1. [i \in DOMAIN rows |-> MonthOf(rows[i].at)] \in Surjection(DOMAIN rows, S)
    BY DEF Surjection
  <2>2. S \in SUBSET Int
    BY <1>2
  <2> HIDE DEF S
  <2> QED
    BY <1>1, <2>1, <2>2, FS_Surjection
<1> HIDE DEF S
<1>4. n \in Nat /\ months \in [1..n -> S]
  BY <1>3, InOrderFacts
<1> HIDE DEF months, n
<1>5. \A month : Events(Of(month)) \in Nat
  <2>1. TAKE month
  <2>2. DOMAIN Of(month) \in SUBSET DOMAIN rows
    BY DEF Restrict
  <2> HIDE DEF Of
  <2>3. IsFiniteSet(DOMAIN Of(month))
    BY <1>1, <2>2, FS_Subset
  <2> QED
    BY <2>3, EventsAreCounted
<1>6. MonthRows(phase, rows) =
        [i \in 1..n |-> [phase |-> phase, months |-> {months[i]}, n |-> Events(Of(months[i]))]]
  <2>1. DOMAIN months = 1..n
    BY <1>4
  <2> QED
    BY <2>1 DEF MonthRows, months, S
<1> HIDE DEF Of
<1>7. \A i \in 1..n : [phase |-> phase, months |-> {months[i]}, n |-> Events(Of(months[i]))] \in MonthRow
  BY <1>3, <1>4, <1>5 DEF MonthRow, PoolRow
<1>8. MonthRows(phase, rows) \in [1..n -> MonthRow]
  BY <1>6, <1>7
<1> QED
  BY <1>4, <1>8, ListOf

(* Monthly rows leave the total as it was.                                 *)
LEMMA MonthsDoNotCount ==
    ASSUME NEW p \in Seq(PoolRow), NEW more \in Seq(MonthRow)
    PROVE  p \o more \in Seq(PoolRow) /\ Total(p \o more) = Total(p)
<1> DEFINE m == Len(p)
<1>1. PICK q : q = p \o more
  OBVIOUS
<1>2. more \in Seq(PoolRow)
  BY DEF MonthRow
<1>3. /\ q \in Seq(PoolRow) /\ m \in Nat /\ Len(more) \in Nat /\ DOMAIN q = 1..(m + Len(more))
      /\ DOMAIN p = 1..m
      /\ \A i \in 1..m : q[i] = p[i]
      /\ \A i \in DOMAIN q : i \notin 1..m => i - m \in 1..Len(more) /\ q[i] = more[i - m]
  BY <1>1, <1>2, Concatenated
<1>4. \A i \in DOMAIN q : i \notin 1..m => q[i].months # {}
  <2>1. TAKE i \in DOMAIN q
  <2>2. HAVE i \notin 1..m
  <2>3. more[i - m] \in MonthRow /\ q[i] = more[i - m]
    BY <1>3, <2>2
  <2> QED
    BY <2>3 DEF MonthRow
<1>5. 1..m \subseteq DOMAIN q
  BY <1>3
<1>6. Kept(q) = Kept(p)
  BY <1>3, <1>4, <1>5 DEF Kept
<1>7. Begun(q) = Begun(p)
  BY <1>3, <1>6 DEF Begun, Kept
<1> DEFINE S == {i \in Kept(p) : i >= Max(Begun(p))}
           f == [i \in DOMAIN p |-> p[i].n]
           g == [i \in DOMAIN q |-> q[i].n]
<1>8. S \in SUBSET (1..m) /\ \A i \in S : f[i] = g[i]
  BY <1>3, <1>5 DEF Kept
<1>9. Total(p) = SumFunctionOnSet(f, S) /\ Total(q) = SumFunctionOnSet(g, S)
  BY <1>6, <1>7 DEF Total
<1> HIDE DEF S, f, g
<1>10. IsFiniteSet(S)
  <2>1. 1 \in Int /\ m \in Int
    BY <1>3
  <2>2. IsFiniteSet(1..m)
    BY <2>1, FS_Interval, Zenon
  <2> QED
    BY <1>8, <2>2, FS_Subset, Zenon
<1>11. SumFunctionOnSet(f, S) = SumFunctionOnSet(g, S)
  BY <1>8, <1>10, SumOfTheSame
<1> QED
  BY <1>1, <1>3, <1>9, <1>11

(* A pooled row counts its fires, alone if it begins anew.                 *)
LEMMA PooledRowsCount ==
    ASSUME NEW p \in Seq(PoolRow), NEW r \in PoolRow, r.months = {}
    PROVE  /\ Append(p, r) \in Seq(PoolRow) /\ Total(p) \in Int
           /\ Total(Append(p, r)) = IF Replaces(r.phase) THEN r.n ELSE Total(p) + r.n
<1> DEFINE m == Len(p)
<1>1. PICK q : q = Append(p, r)
  OBVIOUS
<1>2. /\ q \in Seq(PoolRow) /\ m \in Nat /\ DOMAIN q = 1..(m + 1) /\ DOMAIN p = 1..m
      /\ \A i \in 1..m : q[i] = p[i]
      /\ q[m + 1] = r
  BY <1>1, Appended
<1>3. \A i \in DOMAIN q : i \in 1..m \/ i = m + 1
  BY <1>2
<1>4. 1..m \subseteq DOMAIN q /\ m + 1 \in DOMAIN q /\ m + 1 \notin 1..m
  BY <1>2
<1>5. Kept(q) = Kept(p) \cup {m + 1} /\ Kept(p) \in SUBSET (1..m)
  BY <1>2, <1>3, <1>4 DEF Kept
<1> DEFINE a == Max(Begun(p))
           b == Max(Begun(q))
           S == {i \in Kept(p) : i >= a}
           R == {i \in Kept(q) : i >= b}
           f == [i \in DOMAIN p |-> p[i].n]
           g == [i \in DOMAIN q |-> q[i].n]
<1>6. Begun(p) \in SUBSET (1..(m + 1)) /\ 1 \in Begun(p)
  BY <1>2, <1>5 DEF Begun
<1>7. a \in 1..(m + 1)
  <2>1. m + 1 \in Nat /\ Begun(p) # {}
    BY <1>2, <1>6
  <2>2. Max(Begun(p)) \in Begun(p)
    BY <1>6, <2>1, MaxIsGreatest
  <2> QED
    BY <1>6, <2>2
<1>8. Replaces(r.phase) => b = m + 1
  <2>1. HAVE Replaces(r.phase)
  <2>2. m + 1 \in Begun(q) /\ Begun(q) \in SUBSET (1..(m + 1))
    BY <1>2, <1>5, <2>1 DEF Begun
  <2>5. m + 1 \in Nat
    BY <1>2
  <2>3. Max(Begun(q)) \in Begun(q) /\ \A i \in Begun(q) : i <= Max(Begun(q))
    BY <2>2, <2>5, MaxIsGreatest
  <2> HIDE DEF b
  <2>4. b \in 1..(m + 1) /\ m + 1 <= b
    BY <2>2, <2>3 DEF b
  <2> QED
    BY <1>2, <2>4
<1>9. ~ Replaces(r.phase) => b = a
  <2>1. HAVE ~ Replaces(r.phase)
  <2>2. \A i \in Kept(q) : Replaces(q[i].phase) <=> i \in Kept(p) /\ Replaces(p[i].phase)
    BY <1>2, <1>4, <1>5, <2>1
  <2>3. Begun(q) = Begun(p)
    BY <1>2, <1>5, <2>2 DEF Begun
  <2> QED
    BY <2>3
<1>10. Total(p) = SumFunctionOnSet(f, S) /\ Total(q) = SumFunctionOnSet(g, R)
  BY DEF Total
<1>11. \A i \in DOMAIN q : g[i] = q[i].n /\ q[i].n \in Int
  <2>1. \A i \in DOMAIN q : q[i] \in PoolRow
    BY <1>2
  <2> QED
    BY <2>1 DEF PoolRow
<1>12. \A i \in 1..m : f[i] = g[i] /\ f[i] \in Int
  <2>1. \A i \in 1..m : f[i] = p[i].n /\ i \in DOMAIN q
    BY <1>2, <1>4
  <2> QED
    BY <1>2, <1>11, <2>1
<1>13. g[m + 1] = r.n /\ r.n \in Int
  BY <1>2, <1>4, <1>11
<1> HIDE DEF a, b, f, g
<1>14. S \in SUBSET (1..m) /\ IsFiniteSet(S)
  <2>1. S \in SUBSET (1..m)
    BY <1>5
  <2> HIDE DEF S
  <2>2. IsFiniteSet(1..m)
    BY <1>2, FS_Interval
  <2> QED
    BY <2>1, <2>2, FS_Subset
<1>15. Total(p) \in Int /\ SumFunctionOnSet(g, S) = Total(p)
  <2>1. SumFunctionOnSet(f, S) \in Int
    BY <1>12, <1>14, SumIsAnInteger
  <2>2. SumFunctionOnSet(f, S) = SumFunctionOnSet(g, S)
    BY <1>12, <1>14, SumOfTheSame
  <2> QED
    BY <1>10, <2>1, <2>2
<1>16. CASE Replaces(r.phase)
  <2>1. R = {m + 1}
    BY <1>2, <1>5, <1>8, <1>16
  <2>2. IsFiniteSet(R) /\ m + 1 \in R /\ R \ {m + 1} = {} /\ \A i \in R : g[i] \in Int
    BY <1>13, <2>1, FS_Singleton
  <2> HIDE DEF R
  <2>3. SumFunctionOnSet(g, R) = g[m + 1] + SumFunctionOnSet(g, R \ {m + 1})
    BY <2>2, SumOfOneMore
  <2>4. SumFunctionOnSet(g, R \ {m + 1}) = 0
    BY <2>2, SumOfNothing
  <2> QED
    <3>1. Total(q) = r.n
      BY <1>10, <1>13, <2>3, <2>4
    <3> QED
      BY <1>1, <1>2, <1>15, <1>16, <3>1, Zenon
<1>17. CASE ~ Replaces(r.phase)
  <2>1. R = S \cup {m + 1} /\ m + 1 \notin S
    BY <1>2, <1>5, <1>7, <1>9, <1>17
  <2>2. IsFiniteSet(R) /\ m + 1 \in R /\ R \ {m + 1} = S
    BY <1>14, <2>1, FS_AddElement
  <2>3. \A i \in R : g[i] \in Int
    BY <1>12, <1>13, <1>14, <2>1
  <2> HIDE DEF R, S
  <2>4. SumFunctionOnSet(g, R) = g[m + 1] + SumFunctionOnSet(g, R \ {m + 1})
    BY <2>2, <2>3, SumOfOneMore
  <2> QED
    <3>2. Total(q) = r.n + Total(p)
      BY <1>10, <1>13, <1>15, <2>2, <2>4, Zenon
    <3>3. r.n + Total(p) = Total(p) + r.n
      BY <1>13, <1>15
    <3>1. Total(q) = Total(p) + r.n
      BY <3>2, <3>3, Zenon
    <3> QED
      BY <1>1, <1>2, <1>15, <1>17, <3>1, Zenon
<1> QED
  BY <1>16, <1>17

(* The phases of a call add monthly rows, one phase after the other.       *)
PhaseFold(phases, h) ==
    h = [s \in SUBSET DOMAIN phases |->
           IF s = {} THEN pooled ELSE h[s \ {Max(s)}] \o PhaseRows(phases[Max(s)])]

Multiyear(phases) == FoldLeft(LAMBDA all, phase : all \o PhaseRows(phase), pooled, phases)

LEMMA RowsRegroup ==
    \A x, y, z \in Seq(PoolRow) : (x \o y) \o z = x \o (y \o z)
  BY ConcatenationAssociates

LEMMA MultiyearAddsMonths ==
    ASSUME StoreInv, pooled \in Seq(PoolRow), NEW phases \in Seq(StudyPhases)
    PROVE  \E more \in Seq(MonthRow) : Multiyear(phases) = pooled \o more
<1> DEFINE V == {pooled \o more : more \in Seq(MonthRow)}
<1>1. PICK seq \in Seq(StudyPhases) : seq = phases
  OBVIOUS
<1>2. \A phase \in StudyPhases : PhaseRows(phase) \in Seq(MonthRow)
  <2>1. TAKE phase \in StudyPhases
  <2>2. BarsOf(phase) \in SUBSET Stored
    BY DEF BarsOf
  <2>3. MonthRows(phase, MeasureFires(BarsOf(phase))) \in Seq(MonthRow)
    BY <2>2, MeasuredRows, MonthRowsTyped
  <2>4. <<>> \in Seq(MonthRow)
    OBVIOUS
  <2>5. PhaseRows(phase) \in {MonthRows(phase, MeasureFires(BarsOf(phase))), <<>>}
    BY DEF PhaseRows
  <2> QED
    BY <2>3, <2>4, <2>5
<1>23. MonthRow \subseteq PoolRow
  BY DEF MonthRow
<1>3. PICK o : o = [v \in V \X StudyPhases |-> v[1] \o PhaseRows(v[2])]
  OBVIOUS
<1>4. \A v \in V, phase \in StudyPhases : v \o PhaseRows(phase) \in V
  <2>1. TAKE v \in V, phase \in StudyPhases
  <2>2. PICK more \in Seq(MonthRow) : v = pooled \o more
    OBVIOUS
  <2>3. more \in Seq(PoolRow) /\ PhaseRows(phase) \in Seq(PoolRow)
    BY <1>2, <1>23, ListsOfPart
  <2>4. (pooled \o more) \o PhaseRows(phase) = pooled \o (more \o PhaseRows(phase))
    BY <2>3, RowsRegroup
  <2>5. more \o PhaseRows(phase) \in Seq(MonthRow)
    BY <1>2, ConcatenationAssociates
  <2> QED
    BY <2>2, <2>4, <2>5
<1>5. o \in [V \X StudyPhases -> V]
  <2>1. \A v \in V \X StudyPhases : v[1] \o PhaseRows(v[2]) \in V
    BY <1>4
  <2> HIDE DEF V
  <2> QED
    BY <1>3, <2>1
<1>6. \A v \in V, phase \in StudyPhases : o[v, phase] = v \o PhaseRows(phase)
  BY <1>3
<1>7. PICK base : base = pooled
  OBVIOUS
<1>8. base \in V
  <2>1. <<>> \in Seq(MonthRow) /\ pooled \o <<>> = pooled
    OBVIOUS
  <2> QED
    BY <1>7, <2>1
<1>9. Len(seq) \in Nat /\ DOMAIN seq = 1..Len(seq) /\ DOMAIN phases = 1..Len(seq)
  BY <1>1
<1> HIDE DEF V
<1>10. PICK h \in [SUBSET (1..Len(seq)) -> V] : Folding(o, base, seq, h)
  BY <1>5, <1>8, FoldsExist
<1>11. /\ h[{}] = base
       /\ \A s \in SUBSET (1..Len(seq)) : s # {} =>
            /\ h[s] = o[h[s \ {Max(s)}], seq[Max(s)]]
            /\ h[s \ {Max(s)}] \in V /\ seq[Max(s)] \in StudyPhases
  BY <1>5, <1>8, <1>10, FoldingTyped
<1>12. \A s \in SUBSET (1..Len(seq)) : s # {} =>
         h[s] = h[s \ {Max(s)}] \o PhaseRows(seq[Max(s)])
  BY <1>6, <1>11
<1>13. PhaseFold(phases, h)
  <2>1. h = [s \in SUBSET (1..Len(seq)) |-> h[s]]
    OBVIOUS
  <2> QED
    BY <1>1, <1>7, <1>9, <1>11, <1>12, <2>1 DEF PhaseFold
<1>14. PICK g : g = CHOOSE f : PhaseFold(phases, f)
  OBVIOUS
<1>15. PhaseFold(phases, g)
  BY <1>13, <1>14
<1>16. Multiyear(phases) = g[1..Len(seq)]
  BY <1>9, <1>14 DEF Multiyear, FoldLeft, MapThenFoldSet, PhaseFold
<1>17. \A s \in SUBSET (1..Len(seq)) :
         g[s] = IF s = {} THEN base ELSE g[s \ {Max(s)}] \o PhaseRows(seq[Max(s)])
  BY <1>1, <1>7, <1>9, <1>15 DEF PhaseFold
<1>18. Solves(V, o, base, seq, g)
  <2>1. g[{}] = base
    BY <1>17
  <2>2. \A s \in SUBSET (1..Len(seq)) : s # {} => seq[Max(s)] \in StudyPhases
    BY <1>11
  <2>3. \A s \in SUBSET (1..Len(seq)) :
         s # {} /\ g[s \ {Max(s)}] \in V => g[s] = o[g[s \ {Max(s)}], seq[Max(s)]]
    BY <1>6, <1>17, <2>2
  <2> QED
    BY <2>1, <2>3 DEF Solves
<1>19. PICK a : a = ValuesAlong(seq, g)
  OBVIOUS
<1>20. a \in [0..Len(seq) -> V]
  BY <1>5, <1>8, <1>18, <1>19, FoldsMarch
<1>21. Multiyear(phases) = a[Len(seq)]
  BY <1>9, <1>16, <1>19 DEF ValuesAlong
<1>22. Multiyear(phases) \in V
  BY <1>9, <1>20, <1>21
<1> QED
  BY <1>22 DEF V

(***************************************************************************)
(* The studies together.                                                   *)
(***************************************************************************)
FiresInv  == fires \in Seq(Rows)
PooledInv == pooled \in Seq(PoolRow) /\ Events(fires) = Total(pooled)

BenchmarkInv == StoreInv /\ StudiesInv /\ FiresInv /\ PooledInv

BenchmarkTypeOK ==
    /\ StoreInv
    /\ fires \in Seq(RowType) /\ pooled \in Seq(PoolRow) /\ studied \in Seq(StudyType)

LEMMA BenchmarkStarts ==
    ASSUME BenchmarkInit PROVE BenchmarkInv
<1>1. StoreInv
  <2>1. closes \in Seq(Nat \ {0}) /\ FirstCached \in DOMAIN closes
    BY BenchmarkAssumption DEF BenchmarkInit
  <2> QED
    BY <2>1 DEF BenchmarkInit, StoreInv
<1>2. StudiesInv
  BY DEF BenchmarkInit, StudiesInv, StudiesFit, OosStaysUnseen
<1>3. FiresInv
  BY DEF BenchmarkInit, FiresInv
<1>4. PooledInv
  <2> DEFINE p == <<>>
  <2>1. EventPlaces(p) = {} /\ IsFiniteSet(DOMAIN p) /\ Kept(p) = {}
    BY FS_EmptySet DEF EventPlaces, Kept
  <2>2. Events(p) = 0
    BY <2>1, EventsAreCounted, FS_EmptySet
  <2>3. {i \in Kept(p) : i >= Max(Begun(p))} = {}
    BY <2>1
  <2>4. Total(p) = 0
    BY <2>3, SumOfNothing DEF Total
  <2> QED
    BY <2>2, <2>4 DEF BenchmarkInit, PooledInv
<1> QED
  BY <1>1, <1>2, <1>3, <1>4 DEF BenchmarkInv

(* The closes are all that a measurement depends on.                       *)
LEMMA SameRows ==
    ASSUME closes' = closes PROVE Rows' = Rows
<1>1. ASSUME NEW bar, NEW last PROVE FirstZigzagPeak(bar, last)' = FirstZigzagPeak(bar, last)
  BY Zenon DEF FirstZigzagPeak
<1>2. ASSUME NEW bar, NEW last PROVE Measured(bar, last)' = Measured(bar, last)
  BY <1>1, Zenon DEF Measured
<1> QED
  BY <1>2 DEF Rows

(* The store grows at either end.                                          *)
LEMMA StoreGrows ==
    ASSUME BenchmarkInv, BarCloses \/ OlderBarFilled
    PROVE  /\ BenchmarkInv' /\ closes' = closes /\ UNCHANGED <<fires, pooled, studied>>
           /\ firstBar' <= firstBar /\ lastBar <= lastBar'
<1>1. /\ closes' = closes /\ UNCHANGED <<fires, pooled, studied>>
      /\ firstBar' \in Nat \ {0} /\ lastBar' \in Nat
      /\ firstBar' <= firstBar /\ lastBar <= lastBar' /\ lastBar' <= Len(closes)
      /\ firstBar' # firstBar => firstBar' < firstBar
  BY DEF BenchmarkInv, StoreInv, BarCloses, OlderBarFilled
<1>2. StoreInv'
  BY <1>1 DEF BenchmarkInv, StoreInv
<1>3. /\ LastInSample = SplitOf(firstBar, lastBar) /\ LastInSample \in Int
      /\ Len(closes) \in Nat
  BY StoreFacts DEF BenchmarkInv
<1>4. LastInSample' = SplitOf(firstBar', lastBar') /\ LastInSample' \in Int
  <2>1. Len(closes) \in Nat /\ closes \in Seq(Nat \ {0})
    BY StoreFacts DEF BenchmarkInv
  <2>2. Cardinality(firstBar'..lastBar') = lastBar' - firstBar' + 1
    BY <1>1, <1>2, FS_Interval DEF StoreInv
  <2>3. LastInSample' = SplitOf(firstBar', lastBar')
    BY <2>2 DEF LastInSample, Stored, SplitOf
  <2> DEFINE m == (lastBar' - firstBar' + 1) * InSampleOf[1]
  <2>4. m \in Int
    BY <1>1, Fractions
  <2>5. m \div InSampleOf[2] \in Int
    <3> HIDE DEF m
    <3> QED
      BY <2>4, Fractions, DivisionFacts
  <2> QED
    BY <1>1, <2>3, <2>5 DEF SplitOf
<1>5. firstBar' = firstBar => LastInSample <= LastInSample'
  <2>1. HAVE firstBar' = firstBar
  <2>2. firstBar \in Int /\ lastBar \in Int /\ lastBar' \in Int
    BY <1>1 DEF BenchmarkInv, StoreInv
  <2> QED
    BY <1>1, <1>3, <1>4, <2>1, <2>2, SplitsAreOrdered
<1>6. StudiesInv'
  <2>1. \A i \in DOMAIN studied :
          /\ studied[i].from \in Nat /\ studied[i].from >= firstBar /\ studied[i].bars \in SUBSET Nat
          /\ studied[i].phase # "backtest" /\ studied[i].from = firstBar
             => \A b \in studied[i].bars : b <= LastInSample
    <3>1. studied \in Seq(StudyType)
      BY DEF BenchmarkInv, StudiesInv
    <3>2. \A i \in DOMAIN studied : studied[i] \in StudyType
      BY <3>1
    <3> QED
      BY <3>2 DEF BenchmarkInv, StudiesInv, StudiesFit, StudyType
  <2>2. firstBar \in Nat
    BY DEF BenchmarkInv, StoreInv
  <2>3. ASSUME NEW i \in DOMAIN studied
        PROVE  /\ studied[i].from >= firstBar'
               /\ studied[i].phase # "backtest" /\ studied[i].from = firstBar'
                  => \A b \in studied[i].bars : b <= LastInSample'
    <3>1. studied[i].from >= firstBar'
      BY <1>1, <2>1, <2>2
    <3>2. CASE firstBar' = firstBar
      BY <1>3, <1>4, <1>5, <2>1, <3>1, <3>2
    <3>3. CASE firstBar' # firstBar
      BY <1>1, <2>1, <2>2, <3>1, <3>3
    <3> QED
      BY <3>2, <3>3
  <2>4. StudiesFit'
    BY <1>1, <2>3 DEF StudiesFit
  <2>5. OosStaysUnseen'
    BY <1>1 DEF BenchmarkInv, StudiesInv, OosStaysUnseen
  <2> QED
    BY <1>1, <2>4, <2>5 DEF BenchmarkInv, StudiesInv
<1>7. Rows' = Rows
  BY <1>1, SameRows
<1>8. FiresInv' /\ PooledInv'
  BY <1>1, <1>7 DEF BenchmarkInv, FiresInv, PooledInv, Events, Total, Kept, Begun, Replaces
<1> QED
  BY <1>1, <1>2, <1>6, <1>8 DEF BenchmarkInv

(* What a step does not touch keeps what is said of it.                    *)
LEMMA RestingStudies ==
    ASSUME UNCHANGED benchmarkVars PROVE BenchmarkInv <=> BenchmarkInv'
<1>1. UNCHANGED <<closes, firstBar, lastBar, fires, pooled, studied>>
  BY DEF benchmarkVars, storeVars
<1>2. Rows' = Rows /\ LastInSample' = LastInSample
  BY <1>1, SameRows DEF LastInSample, Stored
<1> QED
  BY <1>1, <1>2 DEF BenchmarkInv, StoreInv, StudiesInv, StudiesFit, OosStaysUnseen, FiresInv,
                    PooledInv, Events, Total, Kept, Begun, Replaces

LEMMA OneStudyAdded ==
    ASSUME StoreInv, StudiesInv, UNCHANGED storeVars, NEW phase \in StudyPhases,
           studied' = Append(studied, Study(phase, BarsOf(phase)))
    PROVE  StudiesInv'
<1> DEFINE phases == [k \in 1..1 |-> phase]
           new == [k \in 1..1 |-> Study(phases[k], BarsOf(phases[k]))]
<1>1. phases \in [1..1 -> StudyPhases] /\ 1 \in Nat
  OBVIOUS
<1>2. studied' = studied \o new
  <2>1. studied \in Seq(StudyType)
    BY DEF StudiesInv
  <2>2. new = [k \in 1..1 |-> Study(phase, BarsOf(phase))]
    OBVIOUS
  <2>3. Study(phase, BarsOf(phase)) \in StudyType
    BY StoreFacts DEF Study, StudyType, BarsOf, StoreInv
  <2> HIDE DEF new
  <2>4. Append(studied, Study(phase, BarsOf(phase))) = studied \o new
    BY <2>1, <2>2, <2>3, AppendedAsList
  <2> QED
    BY <2>4
<1> HIDE DEF phases
<1> QED
  BY <1>1, <1>2, StudiesAdded

LEMMA RunBenchmarkSound ==
    ASSUME BenchmarkInv, RunBenchmark PROVE BenchmarkInv' /\ closes' = closes
<1>1. PICK phase \in {"benchmark", "backtest"}, persist \in BOOLEAN :
        /\ studied' = Append(studied, Study(phase, BarsOf(phase)))
        /\ IF persist
           THEN /\ fires' = (IF Replaces(phase) THEN <<>> ELSE fires) \o MeasureFires(BarsOf(phase))
                /\ pooled' = Append(pooled, [phase |-> phase, months |-> {},
                                             n |-> Events(MeasureFires(BarsOf(phase)))])
           ELSE UNCHANGED <<fires, pooled>>
  BY DEF RunBenchmark
<1>2. UNCHANGED storeVars
  BY DEF RunBenchmark
<1>3. closes' = closes /\ StoreInv /\ StoreInv'
  BY <1>2 DEF storeVars, BenchmarkInv, StoreInv
<1>10. phase \in StudyPhases
  BY DEF StudyPhases, Phases
<1>4. StudiesInv'
  BY <1>1, <1>2, <1>3, <1>10, OneStudyAdded DEF BenchmarkInv
<1>5. Rows' = Rows
  BY <1>3, SameRows
<1>6. PICK rows \in Seq(Rows) : rows = MeasureFires(BarsOf(phase))
  <2>1. BarsOf(phase) \in SUBSET Stored
    BY DEF BarsOf
  <2> QED
    BY <1>3, <2>1, MeasuredRows
<1>7. fires \in Seq(Rows) /\ pooled \in Seq(PoolRow) /\ Events(fires) = Total(pooled)
  BY DEF BenchmarkInv, FiresInv, PooledInv
<1>8. CASE persist
  <2> DEFINE r == [phase |-> phase, months |-> {}, n |-> Events(rows)]
  <2>1. fires' = (IF Replaces(phase) THEN <<>> ELSE fires) \o rows /\ pooled' = Append(pooled, r)
    BY <1>1, <1>6, <1>8
  <2>2. Events(rows) \in Nat /\ Events(fires) \in Nat
        /\ Events(fires \o rows) = Events(fires) + Events(rows)
    BY <1>6, <1>7, EventsAddUp
  <2>3. r \in PoolRow /\ r.months = {} /\ r.phase = phase /\ r.n = Events(rows)
    BY <1>10, <2>2 DEF PoolRow
  <2> HIDE DEF r
  <2>4. /\ pooled' \in Seq(PoolRow)
        /\ Total(Append(pooled, r)) = IF Replaces(phase) THEN Events(rows)
                                      ELSE Total(pooled) + Events(rows)
    BY <1>7, <2>1, <2>3, PooledRowsCount
  <2>5. Total(pooled)' = Total(Append(pooled, r))
    BY <2>1 DEF Total, Kept, Begun, Replaces
  <2>6. Events(fires)' = Events(fires')
    BY DEF Events
  <2>7. CASE Replaces(phase)
    <3>1. fires' = rows
      BY <1>6, <2>1, <2>7
    <3> QED
      BY <1>5, <1>6, <2>4, <2>5, <2>6, <2>7, <3>1, <1>3, <1>4 DEF BenchmarkInv, FiresInv, PooledInv
  <2>8. CASE ~ Replaces(phase)
    <3>1. fires' = fires \o rows /\ fires' \in Seq(Rows)
      BY <1>6, <1>7, <2>1, <2>8
    <3> QED
      BY <1>5, <1>7, <2>2, <2>4, <2>5, <2>6, <2>8, <3>1, <1>3, <1>4 DEF BenchmarkInv, FiresInv, PooledInv
  <2> QED
    BY <1>3, <2>7, <2>8
<1>9. CASE ~ persist
  <2>1. UNCHANGED <<fires, pooled>>
    BY <1>1, <1>9
  <2>2. Events(fires)' = Events(fires) /\ Total(pooled)' = Total(pooled)
    BY <2>1 DEF Events, Total, Kept, Begun, Replaces
  <2> QED
    BY <1>3, <1>4, <1>5, <1>7, <2>1, <2>2 DEF BenchmarkInv, FiresInv, PooledInv
<1> QED
  BY <1>8, <1>9

LEMMA RunMultiyearSound ==
    ASSUME BenchmarkInv, RunMultiyear PROVE BenchmarkInv' /\ closes' = closes
<1>1. PICK phases \in PhaseLists :
        /\ studied' = studied \o [i \in DOMAIN phases |-> Study(phases[i], BarsOf(phases[i]))]
        /\ pooled' = Multiyear(phases)
  BY DEF RunMultiyear, Multiyear
<1>2. UNCHANGED storeVars /\ UNCHANGED fires
  BY DEF RunMultiyear
<1>3. closes' = closes /\ StoreInv /\ StoreInv'
  BY <1>2 DEF storeVars, BenchmarkInv, StoreInv
<1>4. phases \in Seq(StudyPhases)
  <2>1. phases \in Seq(Phases) /\ Phases \subseteq StudyPhases
    BY BenchmarkAssumption DEF StudyPhases
  <2> QED
    BY <2>1, ListsOfPart
<1>5. StudiesInv'
  <2> DEFINE n == Len(phases)
  <2>1. n \in Nat /\ phases \in [1..n -> StudyPhases] /\ DOMAIN phases = 1..n
    BY <1>4
  <2> HIDE DEF n
  <2>2. studied' = studied \o [i \in 1..n |-> Study(phases[i], BarsOf(phases[i]))]
    BY <1>1, <2>1
  <2> QED
    BY <1>2, <1>3, <2>1, <2>2, StudiesAdded DEF BenchmarkInv
<1>6. Rows' = Rows
  BY <1>3, SameRows
<1>7. fires \in Seq(Rows) /\ pooled \in Seq(PoolRow) /\ Events(fires) = Total(pooled)
  BY DEF BenchmarkInv, FiresInv, PooledInv
<1>8. PICK more \in Seq(MonthRow) : Multiyear(phases) = pooled \o more
  BY <1>3, <1>4, <1>7, MultiyearAddsMonths
<1>9. pooled' = pooled \o more
  BY <1>1, <1>8
<1>10. pooled \o more \in Seq(PoolRow) /\ Total(pooled \o more) = Total(pooled)
  BY <1>7, MonthsDoNotCount
<1>11. Total(pooled)' = Total(pooled \o more)
  BY <1>9 DEF Total, Kept, Begun, Replaces
<1>12. Events(fires)' = Events(fires)
  BY <1>2 DEF Events
<1> QED
  BY <1>2, <1>3, <1>5, <1>6, <1>7, <1>9, <1>10, <1>11, <1>12 DEF BenchmarkInv, FiresInv, PooledInv

LEMMA CalibrateSound ==
    ASSUME BenchmarkInv, Calibrate PROVE BenchmarkInv' /\ closes' = closes
<1>1. /\ studied' = Append(studied, Study("calibrate", BarsOf("calibrate")))
      /\ UNCHANGED storeVars /\ UNCHANGED <<fires, pooled>>
  BY DEF Calibrate
<1>2. closes' = closes /\ StoreInv /\ StoreInv'
  BY <1>1 DEF storeVars, BenchmarkInv, StoreInv
<1>3. StudiesInv'
  <2>1. "calibrate" \in StudyPhases
    BY DEF StudyPhases
  <2> QED
    BY <1>1, <1>2, <2>1, OneStudyAdded DEF BenchmarkInv
<1>4. Events(fires)' = Events(fires) /\ Total(pooled)' = Total(pooled) /\ Rows' = Rows
  BY <1>1, <1>2, SameRows DEF Events, Total, Kept, Begun, Replaces
<1> QED
  BY <1>1, <1>2, <1>3, <1>4 DEF BenchmarkInv, FiresInv, PooledInv

(* Every step keeps the invariant, and none rewrites a close.              *)
LEMMA StudiesStep ==
    ASSUME BenchmarkInv, [BenchmarkNext]_benchmarkVars
    PROVE  BenchmarkInv' /\ closes' = closes
<1>1. CASE BenchmarkNext
  BY <1>1, StoreGrows, RunBenchmarkSound, RunMultiyearSound, CalibrateSound DEF BenchmarkNext
<1>2. CASE UNCHANGED benchmarkVars
  BY <1>2, RestingStudies DEF benchmarkVars, storeVars
<1> QED
  BY <1>1, <1>2

LEMMA BenchmarkInvImplies ==
    ASSUME BenchmarkInv PROVE BenchmarkTypeOK /\ BenchmarksAreSound
<1>1. Rows \subseteq RowType
  <2>1. \A bar \in 1..Len(closes), last \in 1..Len(closes) : Measured(bar, last) \in RowType
    BY RowFacts DEF BenchmarkInv
  <2> QED
    BY <2>1 DEF Rows
<1>2. fires \in Seq(RowType)
  BY <1>1, ListsOfPart DEF BenchmarkInv, FiresInv
<1>3. FiresAreAccountedFor <=> Events(fires) = Total(pooled)
  BY DEF FiresAreAccountedFor, Total, Begun, Kept
<1> QED
  BY <1>2, <1>3 DEF BenchmarkInv, BenchmarkTypeOK, BenchmarksAreSound, StudiesInv, PooledInv

(* The rows, the studies and the store have their types: every row that is *)
(* kept is a measurement of a bar, a bar stored is a bar that has closed.  *)
THEOREM BenchmarkTypeCorrect == BenchmarkSpec => []BenchmarkTypeOK
<1>1. BenchmarkInit => BenchmarkInv
  BY BenchmarkStarts
<1>2. BenchmarkInv /\ [BenchmarkNext]_benchmarkVars => BenchmarkInv'
  BY StudiesStep
<1>3. BenchmarkInv => BenchmarkTypeOK
  BY BenchmarkInvImplies
<1> QED
  BY <1>1, <1>2, <1>3, PTL DEF BenchmarkSpec

(* No out-of-sample bar of a store that grew only forwards was read by an  *)
(* earlier fitting study, and the pooled rows count the fires that are     *)
(* stored: sign_benchmark.py's split and its persistence.                  *)
THEOREM StudiesAreSound == BenchmarkSpec => []BenchmarksAreSound
<1>1. BenchmarkInit => BenchmarkInv
  BY BenchmarkStarts
<1>2. BenchmarkInv /\ [BenchmarkNext]_benchmarkVars => BenchmarkInv'
  BY StudiesStep
<1>3. BenchmarkInv => BenchmarksAreSound
  BY BenchmarkInvImplies
<1> QED
  BY <1>1, <1>2, <1>3, PTL DEF BenchmarkSpec

(* Confirmed once, the direction of a fire is the same in every later      *)
(* measurement that is confirmed, whichever bars each of them read.        *)
THEOREM DirectionsNeverTurn == BenchmarkSpec => DirectionsAreFinal
<1>1. BenchmarkInit => BenchmarkInv
  BY BenchmarkStarts
<1>2. BenchmarkInv /\ [BenchmarkNext]_benchmarkVars => BenchmarkInv'
  BY StudiesStep
<1>3. BenchmarkInv /\ BenchmarkInv' /\ [BenchmarkNext]_benchmarkVars =>
        [\A i \in DOMAIN fires, j \in DOMAIN fires' :
          fires[i].at = fires'[j].at /\ Confirmed(fires[i]) /\ Confirmed(fires'[j])
          => fires'[j].dir = fires[i].dir]_benchmarkVars
  <2> SUFFICES ASSUME BenchmarkInv, BenchmarkInv', [BenchmarkNext]_benchmarkVars,
                      NEW i \in DOMAIN fires, NEW j \in DOMAIN fires',
                      fires[i].at = fires'[j].at, Confirmed(fires[i]), Confirmed(fires'[j])
               PROVE  fires'[j].dir = fires[i].dir
    OBVIOUS
  <2>1. Rows' = Rows
    BY StudiesStep, SameRows
  <2>2. fires \in Seq(Rows) /\ fires' \in Seq(Rows)
    BY <2>1 DEF BenchmarkInv, FiresInv
  <2>3. fires[i] \in Rows /\ fires'[j] \in Rows
    BY <2>2
  <2> QED
    BY <2>3, DirectionsAgree DEF BenchmarkInv
<1> QED
  BY <1>1, <1>2, <1>3, PTL DEF BenchmarkSpec, DirectionsAreFinal

(***************************************************************************)
(* A simulation over a run of bars.                                        *)
(***************************************************************************)
Due(bars) == {b \in bars : /\ b - 1 \in bars \cap (Longs \cup Shorts)
                           /\ b - 1 >= Min(bars) + SimWarm}

Trades(bars) == {TradeAt(b, bars) : b \in Due(bars)}

Taken(taken, b, bars, multi) ==
    IF multi \/ taken = <<>> \/ Last(taken).exit < b
    THEN Append(taken, TradeAt(b, bars)) ELSE taken

TakeFold(bars, multi, seq, h) ==
    h = [s \in SUBSET DOMAIN seq |->
           IF s = {} THEN <<>> ELSE Taken(h[s \ {Max(s)}], seq[Max(s)], bars, multi)]

SimRun(bars, multi, order, a) ==
    /\ a \in [0..Len(order) -> Seq(Trades(bars))] /\ a[0] = <<>>
    /\ \A i \in 1..Len(order) : a[i] = Taken(a[i - 1], order[i], bars, multi)

(* What is due comes in ascending order, each bar once.                    *)
LEMMA DueInOrder ==
    ASSUME StoreInv, NEW bars \in SUBSET Stored
    PROVE  /\ Due(bars) \in SUBSET bars /\ Due(bars) \in SUBSET Int
           /\ InOrder(Due(bars)) \in Seq(Due(bars))
           /\ \A b \in Due(bars) : \E i \in 1..Len(InOrder(Due(bars))) : InOrder(Due(bars))[i] = b
           /\ bars \in SUBSET (1..Len(closes)) /\ IsFiniteSet(bars)
<1>1. /\ Stored = firstBar..lastBar /\ IsFiniteSet(Stored) /\ Len(closes) \in Nat
      /\ bars \in SUBSET (1..Len(closes)) /\ IsFiniteSet(bars)
  <2>1. Stored = firstBar..lastBar /\ IsFiniteSet(Stored) /\ Len(closes) \in Nat
    BY StoreFacts
  <2>2. IsFiniteSet(bars)
    BY <2>1, FS_Subset
  <2> QED
    BY <2>1, <2>2 DEF StoreInv
<1>2. Due(bars) \in SUBSET bars
  BY DEF Due
<1>3. Due(bars) \in SUBSET Int /\ IsFiniteSet(Due(bars))
  <2>1. IsFiniteSet(Due(bars))
    BY <1>1, <1>2, FS_Subset
  <2>2. bars \in SUBSET Int
    BY <1>1
  <2> QED
    BY <1>2, <2>1, <2>2
<1> DEFINE n == Cardinality(Due(bars))
<1>4. /\ n \in Nat /\ InOrder(Due(bars)) \in [1..n -> Due(bars)]
      /\ \A x \in Due(bars) : \E i \in 1..n : InOrder(Due(bars))[i] = x
  BY <1>3, InOrderFacts
<1> HIDE DEF n
<1>5. InOrder(Due(bars)) \in Seq(Due(bars)) /\ Len(InOrder(Due(bars))) = n
  BY <1>4, ListOf
<1> QED
  BY <1>1, <1>2, <1>3, <1>4, <1>5

LEMMA SimulationRuns ==
    ASSUME StoreInv, NEW bars \in SUBSET Stored, NEW multi \in BOOLEAN
    PROVE  \E a : SimRun(bars, multi, InOrder(Due(bars)), a)
                  /\ Simulate(bars, multi) = a[Len(InOrder(Due(bars)))]
<1> DEFINE V == Seq(Trades(bars))
           D == Due(bars)
<1>1. PICK seq \in Seq(D) : seq = InOrder(Due(bars))
  BY DueInOrder
<1>2. PICK o : o = [v \in V \X D |-> Taken(v[1], v[2], bars, multi)]
  OBVIOUS
<1>3. \A v \in V, b \in D : Taken(v, b, bars, multi) \in V
  <2>1. TAKE v \in V, b \in D
  <2>2. TradeAt(b, bars) \in Trades(bars)
    BY DEF Trades
  <2>3. Append(v, TradeAt(b, bars)) \in V
    BY <2>2, Appended
  <2>4. Taken(v, b, bars, multi) \in {v, Append(v, TradeAt(b, bars))}
    BY DEF Taken
  <2> QED
    BY <2>3, <2>4
<1>4. <<>> \in V
  OBVIOUS
<1> HIDE DEF V, D
<1>5. o \in [V \X D -> V]
  <2>1. \A v \in V \X D : Taken(v[1], v[2], bars, multi) \in V
    BY <1>3
  <2> QED
    BY <1>2, <2>1
<1>6. \A v \in V, b \in D : o[v, b] = Taken(v, b, bars, multi)
  BY <1>2
<1>7. PICK base : base = <<>>
  OBVIOUS
<1>8. base \in V
  BY <1>4, <1>7
<1>9. Len(seq) \in Nat /\ DOMAIN seq = 1..Len(seq)
  OBVIOUS
<1>10. PICK h \in [SUBSET (1..Len(seq)) -> V] : Folding(o, base, seq, h)
  BY <1>5, <1>8, FoldsExist
<1>11. /\ h[{}] = base
       /\ \A s \in SUBSET (1..Len(seq)) : s # {} =>
            /\ h[s] = o[h[s \ {Max(s)}], seq[Max(s)]]
            /\ h[s \ {Max(s)}] \in V /\ seq[Max(s)] \in D
  BY <1>5, <1>8, <1>10, FoldingTyped
<1>12. \A s \in SUBSET (1..Len(seq)) : s # {} =>
         h[s] = Taken(h[s \ {Max(s)}], seq[Max(s)], bars, multi)
  BY <1>6, <1>11
<1>13. TakeFold(bars, multi, seq, h)
  <2>1. h = [s \in SUBSET (1..Len(seq)) |-> h[s]]
    OBVIOUS
  <2> QED
    BY <1>7, <1>9, <1>11, <1>12, <2>1 DEF TakeFold
<1>14. PICK g : g = CHOOSE f : TakeFold(bars, multi, seq, f)
  OBVIOUS
<1>15. TakeFold(bars, multi, seq, g)
  BY <1>13, <1>14
<1>16. Simulate(bars, multi) = g[1..Len(seq)]
  <2>1. Simulate(bars, multi) = FoldLeft(LAMBDA taken, b : Taken(taken, b, bars, multi), <<>>, seq)
    BY <1>1 DEF Simulate, Taken, Due, D, FoldLeft, MapThenFoldSet
  <2>2. FoldLeft(LAMBDA taken, b : Taken(taken, b, bars, multi), <<>>, seq) = g[1..Len(seq)]
    BY <1>9, <1>14 DEF FoldLeft, MapThenFoldSet, TakeFold
  <2> QED
    BY <2>1, <2>2
<1>17. \A s \in SUBSET (1..Len(seq)) :
         g[s] = IF s = {} THEN base ELSE Taken(g[s \ {Max(s)}], seq[Max(s)], bars, multi)
  BY <1>7, <1>9, <1>15 DEF TakeFold
<1>18. Solves(V, o, base, seq, g)
  <2>1. g[{}] = base
    BY <1>17
  <2>2. \A s \in SUBSET (1..Len(seq)) : s # {} => seq[Max(s)] \in D
    BY <1>11
  <2>3. \A s \in SUBSET (1..Len(seq)) :
         s # {} /\ g[s \ {Max(s)}] \in V => g[s] = o[g[s \ {Max(s)}], seq[Max(s)]]
    BY <1>6, <1>17, <2>2
  <2> QED
    BY <2>1, <2>3 DEF Solves
<1>19. PICK a : a = ValuesAlong(seq, g)
  OBVIOUS
<1>20. a \in [0..Len(seq) -> V] /\ Marching(o, base, seq, a)
  BY <1>5, <1>8, <1>18, <1>19, FoldsMarch
<1>21. \A i \in 1..Len(seq) : a[i] = Taken(a[i - 1], seq[i], bars, multi)
  <2>1. TAKE i \in 1..Len(seq)
  <2>2. i - 1 \in 0..Len(seq) /\ seq[i] \in D
    BY <1>9
  <2>3. a[i - 1] \in V
    BY <1>20, <2>2
  <2>4. a[i] = o[a[i - 1], seq[i]]
    BY <1>20, Zenon DEF Marching
  <2> QED
    BY <1>6, <2>2, <2>3, <2>4
<1>22. Simulate(bars, multi) = a[Len(seq)]
  BY <1>9, <1>16, <1>19 DEF ValuesAlong
<1>23. SimRun(bars, multi, seq, a)
  BY <1>7, <1>20, <1>21 DEF SimRun, Marching, V
<1> QED
  BY <1>1, <1>22, <1>23

(* Every trade is opened on a bar that is due, and closed by the last.     *)
LEMMA SimulationTyped ==
    ASSUME StoreInv, NEW bars \in SUBSET Stored, NEW multi \in BOOLEAN
    PROVE  Simulate(bars, multi) \in Seq(Trades(bars))
<1>1. PICK seq \in Seq(Due(bars)) : seq = InOrder(Due(bars))
  BY DueInOrder
<1>2. PICK a : SimRun(bars, multi, seq, a) /\ Simulate(bars, multi) = a[Len(seq)]
  BY <1>1, SimulationRuns
<1> QED
  BY <1>2 DEF SimRun

(* Without a limit on positions, every bar that is due opens one.          *)
LEMMA UnlimitedTakesAll ==
    ASSUME StoreInv, NEW bars \in SUBSET Stored
    PROVE  LET trades == Simulate(bars, TRUE)
           IN  {trades[i].entry : i \in DOMAIN trades} = Due(bars)
<1>1. PICK seq \in Seq(Due(bars)) : seq = InOrder(Due(bars))
  BY DueInOrder
<1>2. PICK a : SimRun(bars, TRUE, seq, a) /\ Simulate(bars, TRUE) = a[Len(seq)]
  BY <1>1, SimulationRuns
<1> DEFINE N == Len(seq)
           Entries(ts) == {ts[i].entry : i \in DOMAIN ts}
           Listed(i) == {seq[k] : k \in 1..i}
           T == {i \in 0..N : Entries(a[i]) = Listed(i)}
<1>3. N \in Nat /\ DOMAIN seq = 1..N
  OBVIOUS
<1>4. /\ a \in [0..N -> Seq(Trades(bars))] /\ a[0] = <<>>
      /\ \A i \in 1..N : a[i] = Append(a[i - 1], TradeAt(seq[i], bars))
  BY <1>2 DEF SimRun, Taken
<1>5. 0 \in T
  <2>1. Entries(a[0]) = {} /\ Listed(0) = {} /\ 0 \in 0..N
    BY <1>3, <1>4
  <2> HIDE DEF Entries, Listed
  <2> QED
    BY <2>1
<1>6. ASSUME NEW i \in 1..N, i - 1 \in T PROVE i \in T
  <2> DEFINE old == a[i - 1]
             new == a[i]
             t == TradeAt(seq[i], bars)
             m == Len(old)
  <2>1. i - 1 \in 0..N /\ i \in 0..N /\ seq[i] \in Due(bars)
    BY <1>3
  <2>2. old \in Seq(Trades(bars)) /\ t \in Trades(bars) /\ new = Append(old, t)
    BY <1>4, <2>1 DEF Trades
  <2>3. t.entry = seq[i]
    BY DEF TradeAt
  <2> HIDE DEF old, new, t
  <2>4. /\ m \in Nat /\ DOMAIN old = 1..m /\ DOMAIN new = 1..(m + 1)
        /\ \A k \in 1..m : new[k] = old[k]
        /\ new[m + 1] = t
    BY <2>2, Appended
  <2> HIDE DEF m
  <2>5. Entries(new) = Entries(old) \cup {seq[i]}
    <3>1. \A k \in DOMAIN new : k \in 1..m \/ k = m + 1
      BY <2>4
    <3>2. 1..m \subseteq DOMAIN new /\ m + 1 \in DOMAIN new
      BY <2>4
    <3>3. \A k \in DOMAIN new : new[k].entry \in Entries(old) \cup {seq[i]}
      BY <2>3, <2>4, <3>1
    <3>4. \A k \in DOMAIN old : old[k].entry \in Entries(new)
      BY <2>4, <3>2
    <3>5. seq[i] \in Entries(new)
      BY <2>3, <2>4, <3>2
    <3> QED
      BY <3>3, <3>4, <3>5
  <2>6. Listed(i) = Listed(i - 1) \cup {seq[i]}
    <3>1. \A k \in 1..i : k \in 1..(i - 1) \/ k = i
      BY <1>3
    <3>2. 1..(i - 1) \subseteq 1..i /\ i \in 1..i
      BY <1>3
    <3> QED
      BY <3>1, <3>2
  <2>7. Entries(old) = Listed(i - 1)
    BY <1>6 DEF old
  <2> HIDE DEF Entries, Listed
  <2> QED
    BY <2>1, <2>5, <2>6, <2>7 DEF new
<1>7. N \in T
  <2> HIDE DEF T
  <2>1. 0..N \subseteq T
    BY <1>3, <1>5, <1>6, EveryPrefix
  <2> QED
    BY <1>3, <2>1
<1>8. Listed(N) = Due(bars)
  <2>1. \A b \in Due(bars) : \E k \in 1..N : seq[k] = b
    BY <1>1, DueInOrder
  <2>2. \A k \in 1..N : seq[k] \in Due(bars)
    BY <1>3
  <2> QED
    BY <2>1, <2>2
<1> QED
  BY <1>2, <1>7, <1>8

(***************************************************************************)
(* The drawdown.                                                           *)
(***************************************************************************)
Fallen == [peak : Int, dd : Int]

FallFold(curve, h) ==
    h = [s \in SUBSET DOMAIN curve |->
           IF s = {} THEN [peak |-> curve[1], dd |-> 0]
           ELSE FallsTo(h[s \ {Max(s)}], curve[Max(s)])]

FallRun(curve, a) ==
    /\ a \in [0..Len(curve) -> Fallen] /\ a[0] = [peak |-> curve[1], dd |-> 0]
    /\ \A i \in 1..Len(curve) : a[i] = FallsTo(a[i - 1], curve[i])

LEMMA FallStep ==
    ASSUME NEW v \in Fallen, NEW x \in Int
    PROVE  /\ FallsTo(v, x) \in Fallen
           /\ FallsTo(v, x).peak = IF v.peak >= x THEN v.peak ELSE x
           /\ FallsTo(v, x).dd = IF v.dd >= FallsTo(v, x).peak - x THEN v.dd
                                 ELSE FallsTo(v, x).peak - x
<1>1. v.peak \in Int /\ v.dd \in Int
  BY DEF Fallen
<1> DEFINE peak == Max({v.peak, x})
           dd == Max({v.dd, peak - x})
<1>2. peak \in Int /\ peak = IF v.peak >= x THEN v.peak ELSE x
  BY <1>1, MaxOfTwo
<1> HIDE DEF peak
<1>3. dd \in Int /\ dd = IF v.dd >= peak - x THEN v.dd ELSE peak - x
  BY <1>1, <1>2, MaxOfTwo
<1> HIDE DEF dd
<1>4. FallsTo(v, x) = [peak |-> peak, dd |-> dd]
  BY DEF FallsTo, peak, dd
<1> QED
  BY <1>2, <1>3, <1>4 DEF Fallen

LEMMA DrawdownRuns ==
    ASSUME NEW curve \in Seq(Int), curve # <<>>
    PROVE  \E a : FallRun(curve, a) /\ MaxDrawdown(curve) = a[Len(curve)].dd
<1> DEFINE V == Fallen
<1>1. PICK seq \in Seq(Int) : seq = curve
  OBVIOUS
<1>2. PICK o : o = [v \in V \X Int |-> FallsTo(v[1], v[2])]
  OBVIOUS
<1>3. o \in [V \X Int -> V]
  <2>1. \A v \in V \X Int : FallsTo(v[1], v[2]) \in V
    BY FallStep
  <2> QED
    BY <1>2, <2>1
<1>4. \A v \in V, x \in Int : o[v, x] = FallsTo(v, x)
  BY <1>2
<1>5. PICK base : base = [peak |-> curve[1], dd |-> 0]
  OBVIOUS
<1>6. Len(seq) \in Nat /\ DOMAIN seq = 1..Len(seq) /\ DOMAIN curve = 1..Len(seq) /\ 1 \in 1..Len(seq)
  BY <1>1
<1>7. base \in V
  BY <1>1, <1>5, <1>6 DEF Fallen
<1> HIDE DEF V
<1>8. PICK h \in [SUBSET (1..Len(seq)) -> V] : Folding(o, base, seq, h)
  BY <1>3, <1>7, FoldsExist
<1>9. /\ h[{}] = base
      /\ \A s \in SUBSET (1..Len(seq)) : s # {} =>
           /\ h[s] = o[h[s \ {Max(s)}], seq[Max(s)]]
           /\ h[s \ {Max(s)}] \in V /\ seq[Max(s)] \in Int
  BY <1>3, <1>7, <1>8, FoldingTyped
<1>10. \A s \in SUBSET (1..Len(seq)) : s # {} =>
         h[s] = FallsTo(h[s \ {Max(s)}], seq[Max(s)])
  BY <1>4, <1>9
<1>11. FallFold(curve, h)
  <2>1. h = [s \in SUBSET (1..Len(seq)) |-> h[s]]
    OBVIOUS
  <2> QED
    BY <1>1, <1>5, <1>6, <1>9, <1>10, <2>1 DEF FallFold
<1>12. PICK g : g = CHOOSE f : FallFold(curve, f)
  OBVIOUS
<1>13. FallFold(curve, g)
  BY <1>11, <1>12
<1>14. MaxDrawdown(curve) = g[1..Len(seq)].dd
  BY <1>6, <1>12 DEF MaxDrawdown, FoldLeft, MapThenFoldSet, FallFold
<1>15. \A s \in SUBSET (1..Len(seq)) :
         g[s] = IF s = {} THEN base ELSE FallsTo(g[s \ {Max(s)}], seq[Max(s)])
  BY <1>1, <1>5, <1>6, <1>13 DEF FallFold
<1>16. Solves(V, o, base, seq, g)
  <2>1. g[{}] = base
    BY <1>15
  <2>2. \A s \in SUBSET (1..Len(seq)) : s # {} => seq[Max(s)] \in Int
    BY <1>9
  <2>3. \A s \in SUBSET (1..Len(seq)) :
         s # {} /\ g[s \ {Max(s)}] \in V => g[s] = o[g[s \ {Max(s)}], seq[Max(s)]]
    BY <1>4, <1>15, <2>2
  <2> QED
    BY <2>1, <2>3 DEF Solves
<1>17. PICK a : a = ValuesAlong(seq, g)
  OBVIOUS
<1>18. a \in [0..Len(seq) -> V] /\ Marching(o, base, seq, a)
  BY <1>3, <1>7, <1>16, <1>17, FoldsMarch
<1>19. \A i \in 1..Len(seq) : a[i] = FallsTo(a[i - 1], seq[i])
  <2>1. TAKE i \in 1..Len(seq)
  <2>2. i - 1 \in 0..Len(seq) /\ seq[i] \in Int
    BY <1>6
  <2>3. a[i - 1] \in V
    BY <1>18, <2>2
  <2>4. a[i] = o[a[i - 1], seq[i]]
    BY <1>18, Zenon DEF Marching
  <2> QED
    BY <1>4, <2>2, <2>3, <2>4
<1>20. MaxDrawdown(curve) = a[Len(seq)].dd
  BY <1>6, <1>14, <1>17 DEF ValuesAlong
<1>21. FallRun(curve, a)
  BY <1>1, <1>5, <1>18, <1>19 DEF FallRun, Marching, V
<1> QED
  BY <1>1, <1>20, <1>21

(* The drawdown is the deepest fall from any value to any later one.       *)
Falls(curve) ==
    {curve[p[1]] - curve[p[2]] : p \in {q \in (DOMAIN curve) \X (DOMAIN curve) : q[1] <= q[2]}}

LEMMA DrawdownIsDeepest ==
    ASSUME NEW curve \in Seq(Int)
    PROVE  MaxDrawdown(curve) = Max(Falls(curve) \cup {0}) /\ MaxDrawdown(curve) \in Int
<1> DEFINE dd == MaxDrawdown(curve)
<1>1. SUFFICES ASSUME TRUE
               PROVE  /\ dd \in Falls(curve) \cup {0} /\ dd \in Int
                      /\ \A x \in Falls(curve) \cup {0} : x \in Int /\ dd >= x
  <2> HIDE DEF dd
  <2> DEFINE S == Falls(curve) \cup {0}
  <2>1. S \in SUBSET Int /\ dd \in S /\ \A x \in S : dd >= x
    BY <1>1
  <2> HIDE DEF S
  <2>2. Max(S) = dd
    BY <2>1, GreatestIsMax
  <2> QED
    BY <1>1, <2>2 DEF S, dd
<1>2. CASE curve = <<>>
  <2>1. dd = 0
    BY <1>2 DEF MaxDrawdown
  <2>2. Falls(curve) = {}
    BY <1>2 DEF Falls
  <2> QED
    BY <2>1, <2>2
<1>3. CASE curve # <<>>
  <2>1. PICK a : FallRun(curve, a) /\ dd = a[Len(curve)].dd
    BY <1>3, DrawdownRuns
  <2> DEFINE N == Len(curve)
             Good(i) ==
               /\ \A k \in 1..i : curve[k] <= a[i].peak
               /\ \E m \in 1..N : (m <= i \/ i = 0) /\ (i = 0 => m = 1) /\ a[i].peak = curve[m]
               /\ a[i].dd >= 0
               /\ a[i].dd # 0 =>
                    \E j \in 1..N, k \in 1..N : j <= k /\ k <= i /\ a[i].dd = curve[j] - curve[k]
               /\ \A j \in 1..i, k \in 1..i : j <= k => curve[j] - curve[k] <= a[i].dd
             T == {i \in 0..N : Good(i)}
  <2>2. N \in Nat /\ 1 \in 1..N /\ \A k \in 1..N : curve[k] \in Int
    BY <1>3
  <2>3. /\ \A i \in 0..N : a[i].peak \in Int /\ a[i].dd \in Int
        /\ a[0] = [peak |-> curve[1], dd |-> 0]
        /\ \A i \in 1..N : a[i] = FallsTo(a[i - 1], curve[i]) /\ a[i - 1] \in Fallen
    <3>1. \A i \in 1..N : i - 1 \in 0..N
      BY <2>2
    <3> QED
      BY <2>1, <3>1 DEF FallRun, Fallen
  <2>4. 0 \in T
    <3>1. Good(0)
      BY <2>2, <2>3
    <3> HIDE DEF Good
    <3> QED
      BY <2>2, <3>1
  <2>5. ASSUME NEW i \in 1..N, i - 1 \in T PROVE i \in T
    <3> DEFINE v == curve[i]
               p == a[i - 1].peak
               d == a[i - 1].dd
               q == a[i].peak
               e == a[i].dd
    <3>1. i - 1 \in 0..N /\ i \in 0..N /\ Good(i - 1)
      BY <2>2, <2>5
    <3>2. v \in Int /\ p \in Int /\ d \in Int /\ q \in Int /\ e \in Int
      BY <2>2, <2>3, <3>1
    <3>3. q = (IF p >= v THEN p ELSE v) /\ e = IF d >= q - v THEN d ELSE q - v
      <4>1. a[i - 1] \in Fallen /\ curve[i] \in Int /\ a[i] = FallsTo(a[i - 1], curve[i])
        BY <2>2, <2>3
      <4>2. /\ a[i].peak = IF a[i - 1].peak >= curve[i] THEN a[i - 1].peak ELSE curve[i]
            /\ a[i].dd = IF a[i - 1].dd >= a[i].peak - curve[i] THEN a[i - 1].dd
                         ELSE a[i].peak - curve[i]
        <5>1. PICK old \in Fallen : old = a[i - 1]
          BY <4>1
        <5>2. PICK x \in Int : x = curve[i]
          BY <4>1
        <5>3. a[i] = FallsTo(old, x)
          BY <4>1, <5>1, <5>2
        <5>4. /\ FallsTo(old, x).peak = IF old.peak >= x THEN old.peak ELSE x
              /\ FallsTo(old, x).dd = IF old.dd >= FallsTo(old, x).peak - x THEN old.dd
                                      ELSE FallsTo(old, x).peak - x
          BY FallStep
        <5> QED
          BY <5>1, <5>2, <5>3, <5>4
      <4> QED
        BY <4>2
    <3>4. PICK m \in 1..N : (m <= i - 1 \/ i - 1 = 0) /\ (i - 1 = 0 => m = 1) /\ p = curve[m]
      BY <3>1
    <3>5. /\ \A k \in 1..(i - 1) : curve[k] <= p
          /\ d >= 0
          /\ d # 0 => \E j \in 1..N, k \in 1..N : j <= k /\ k <= i - 1 /\ d = curve[j] - curve[k]
          /\ \A j \in 1..(i - 1), k \in 1..(i - 1) : j <= k => curve[j] - curve[k] <= d
      BY <3>1
    <3> HIDE DEF v, p, d, q, e
    <3>6. m <= i
      BY <2>2, <3>4
    <3>7. \A k \in 1..i : k \in 1..(i - 1) \/ k = i
      BY <2>2
    <3>8. \A k \in 1..i : curve[k] <= q
      <4>1. TAKE k \in 1..i
      <4>2. curve[k] \in Int
        BY <2>2
      <4>3. CASE k \in 1..(i - 1)
        <5>1. curve[k] <= p
          BY <3>5, <4>3
        <5> QED
          BY <3>2, <3>3, <4>2, <5>1
      <4>4. CASE k = i
        BY <3>2, <3>3, <4>4 DEF v
      <4> QED
        BY <3>7, <4>3, <4>4
    <3>9. \E n \in 1..N : n <= i /\ q = curve[n]
      <4>1. CASE p >= v
        BY <3>3, <3>4, <3>6, <4>1
      <4>2. CASE ~ (p >= v)
        <5>1. q = curve[i] /\ i <= i
          BY <2>2, <3>3, <4>2 DEF v
        <5> QED
          BY <5>1
      <4> QED
        BY <4>1, <4>2
    <3>10. e >= 0
      BY <3>2, <3>3, <3>5
    <3>11. e # 0 => \E j \in 1..N, k \in 1..N : j <= k /\ k <= i /\ e = curve[j] - curve[k]
      <4>1. HAVE e # 0
      <4>2. CASE d >= q - v
        <5>1. e = d
          BY <3>3, <4>2
        <5>2. PICK j \in 1..N, k \in 1..N : j <= k /\ k <= i - 1 /\ d = curve[j] - curve[k]
          BY <3>5, <4>1, <5>1
        <5>3. k <= i
          BY <2>2, <5>2
        <5> QED
          BY <5>1, <5>2, <5>3
      <4>3. CASE ~ (d >= q - v)
        <5>1. e = q - v
          BY <3>3, <4>3
        <5>2. PICK n \in 1..N : n <= i /\ q = curve[n]
          BY <3>9
        <5>3. e = curve[n] - curve[i] /\ i <= i
          BY <2>2, <5>1, <5>2 DEF v
        <5> QED
          BY <5>2, <5>3
      <4> QED
        BY <4>2, <4>3
    <3>12. \A j \in 1..i, k \in 1..i : j <= k => curve[j] - curve[k] <= e
      <4>1. TAKE j \in 1..i, k \in 1..i
      <4>2. HAVE j <= k
      <4>3. curve[j] \in Int /\ curve[k] \in Int
        BY <2>2
      <4>4. CASE k = i
        <5>1. curve[j] <= q /\ curve[k] = v
          BY <3>8, <4>4 DEF v
        <5> QED
          BY <3>2, <3>3, <4>3, <5>1
      <4>5. CASE k \in 1..(i - 1)
        <5>1. j \in 1..(i - 1)
          BY <2>2, <4>2, <4>5
        <5>2. curve[j] - curve[k] <= d
          BY <3>5, <4>2, <4>5, <5>1
        <5> QED
          BY <3>2, <3>3, <4>3, <5>2
      <4> QED
        BY <3>7, <4>4, <4>5
    <3>13. Good(i)
      <4>1. i # 0
        BY <2>2
      <4> QED
        BY <3>8, <3>9, <3>10, <3>11, <3>12, <4>1 DEF q, e
    <3> HIDE DEF Good
    <3> QED
      BY <3>1, <3>13
  <2>6. Good(N)
    <3> HIDE DEF T
    <3>1. 0..N \subseteq T
      BY <2>2, <2>4, <2>5, EveryPrefix
    <3>2. N \in T
      BY <2>2, <3>1
    <3> QED
      BY <3>2 DEF T
  <2>7. dd \in Int /\ dd = a[N].dd
    BY <2>1, <2>2, <2>3
  <2>8. DOMAIN curve = 1..N
    OBVIOUS
  <2>9. \A j \in 1..N, k \in 1..N : j <= k => curve[j] - curve[k] \in Falls(curve)
    <3>1. TAKE j \in 1..N, k \in 1..N
    <3>2. HAVE j <= k
    <3>3. <<j, k>> \in {x \in (DOMAIN curve) \X (DOMAIN curve) : x[1] <= x[2]}
      BY <2>8, <3>2
    <3> QED
      BY <3>3 DEF Falls
  <2>10. \A x \in Falls(curve) : \E j \in 1..N, k \in 1..N : j <= k /\ x = curve[j] - curve[k]
    BY <2>8 DEF Falls
  <2> HIDE DEF dd
  <2>11. dd \in Falls(curve) \cup {0}
    BY <2>6, <2>7, <2>9
  <2>12. \A x \in Falls(curve) \cup {0} : x \in Int /\ dd >= x
    <3>1. TAKE x \in Falls(curve) \cup {0}
    <3>2. CASE x = 0
      BY <2>6, <2>7, <3>2
    <3>3. CASE x \in Falls(curve)
      <4>1. PICK j \in 1..N, k \in 1..N : j <= k /\ x = curve[j] - curve[k]
        BY <2>10, <3>3
      <4>2. curve[j] \in Int /\ curve[k] \in Int /\ x <= dd
        BY <2>2, <2>6, <2>7, <4>1
      <4> QED
        BY <2>7, <4>1, <4>2
    <3> QED
      BY <3>2, <3>3
  <2> QED
    BY <2>7, <2>11, <2>12
<1> QED
  BY <1>2, <1>3

(***************************************************************************)
(* The cycle and the forward record.                                       *)
(***************************************************************************)
Trade == [entry : 1..Len(closes), exit : 1..Len(closes)]

(* A position is opened on a bar of its run and closed on it or later.     *)
LEMMA TradesTyped ==
    ASSUME StoreInv, NEW bars \in SUBSET Stored
    PROVE  /\ Trades(bars) \in SUBSET Trade
           /\ \A t \in Trades(bars) : t.entry \in bars /\ \E b \in bars : t.exit <= b
<1>1. ASSUME NEW b \in Due(bars)
      PROVE  /\ TradeAt(b, bars) \in Trade /\ TradeAt(b, bars).entry \in bars
             /\ \E last \in bars : TradeAt(b, bars).exit <= last
  <2>1. b \in bars /\ bars \in SUBSET (1..Len(closes)) /\ IsFiniteSet(bars) /\ bars # {}
    BY <1>1, DueInOrder
  <2>2. Max(bars) \in bars /\ \A x \in bars : x <= Max(bars)
    BY <2>1, GreatestOfFinite
  <2>3. Len(closes) \in Nat /\ Hold \in Nat \ {0}
    BY StoreFacts, CycleAssumption
  <2> DEFINE last == Max(bars)
             e == Min({b + Hold, last})
  <2>4. last \in bars /\ last \in 1..Len(closes) /\ b \in 1..Len(closes) /\ b <= last
    BY <2>1, <2>2
  <2> HIDE DEF last
  <2>5. e = IF b + Hold <= last THEN b + Hold ELSE last
    BY <2>3, <2>4, MinOfTwo
  <2> HIDE DEF e
  <2>6. e \in 1..Len(closes) /\ e <= last
    BY <2>3, <2>4, <2>5
  <2>7. TradeAt(b, bars) = [entry |-> b, exit |-> e]
    BY DEF TradeAt, e, last
  <2> QED
    BY <2>4, <2>6, <2>7, <2>1 DEF Trade
<1> QED
  BY <1>1 DEF Trades

(* A trade has a return, the returns add up, and their curve is numbers.   *)
LEMMA CurveTyped ==
    ASSUME StoreInv, NEW trades \in Seq(Trade)
    PROVE  Cumulated(TradeReturns(trades)) \in Seq(Int)
<1>1. closes \in Seq(Nat \ {0}) /\ Scale \in Nat
  BY StoreFacts, CycleAssumption
<1>2. \A t \in Trade : ReturnPct(t) \in Int
  <2>1. TAKE t \in Trade
  <2>2. closes[t.exit] \in Nat \ {0} /\ closes[t.entry] \in Nat \ {0}
    BY <1>1 DEF Trade
  <2>3. Sign(t) \in {1, -1}
    BY DEF Sign
  <2> DEFINE m == Sign(t) * (closes[t.exit] - closes[t.entry]) * Scale
  <2>4. m \in Int
    BY <1>1, <2>2, <2>3
  <2> HIDE DEF m
  <2>5. m \div closes[t.entry] \in Int
    BY <2>2, <2>4, DivisionFacts
  <2> QED
    BY <2>5 DEF ReturnPct, m
<1> DEFINE n == Len(trades)
           returns == TradeReturns(trades)
<1>3. n \in Nat /\ DOMAIN trades = 1..n
  OBVIOUS
<1>4. returns \in [1..n -> Int]
  <2>1. \A i \in 1..n : trades[i] \in Trade
    BY <1>3
  <2> QED
    BY <1>2, <1>3, <2>1 DEF TradeReturns
<1> HIDE DEF n, returns
<1>5. \A i \in 1..n : SumOf(SubSeq(returns, 1, i)) \in Int
  <2>1. TAKE i \in 1..n
  <2>2. PICK part \in Seq(Int) : part = SubSeq(returns, 1, i)
    <3>1. returns \in Seq(Int) /\ Len(returns) = n
      BY <1>3, <1>4, ListOf
    <3>2. 1 \in 1..Len(returns) /\ i \in 1..Len(returns)
      BY <1>3, <3>1
    <3>3. SubSeq(returns, 1, i) \in Seq(Int)
      BY <3>1, <3>2
    <3> QED
      BY <3>3
  <2>3. DOMAIN part = 1..Len(part) /\ Len(part) \in Nat /\ \A k \in DOMAIN part : part[k] \in Int
    OBVIOUS
  <2>4. IsFiniteSet(DOMAIN part)
    BY <2>3, FS_Interval
  <2>5. SumFunctionOnSet(part, DOMAIN part) \in Int
    BY <2>3, <2>4, SumIsAnInteger
  <2> QED
    BY <2>2, <2>5 DEF SumOf, SumFunction
<1>6. Cumulated(returns) \in [1..n -> Int]
  BY <1>4, <1>5 DEF Cumulated
<1> QED
  BY <1>3, <1>6, ListOf DEF returns

(* The bars after the boundary, those on which a scored trade is opened,   *)
(* and whether they are enough for a verdict.                              *)
After(k, from, last)  == {b \in from..last : b > Boundary(k)}
Scored(k, from, last) == Due(from..last) \cap After(k, from, last)
Enough(k, from, last) == /\ Cardinality(Scored(k, from, last)) >= MinFwdTrades
                         /\ Cardinality(After(k, from, last)) >= MinFwdBars

Verdicts == {"ACCRUING", "CONFIRMED", "NOT CONFIRMED"}
RecordType == [from : Nat, entries : SUBSET Nat, verdict : Verdicts]

(* A record that has been scored is that of the bars from its beginning to *)
(* a bar the store has passed.                                             *)
IsRecordOf(k, f, oldest, newest) ==
    \/ f = NoForward
    \/ /\ f.from \in Nat \ {0} /\ f.from >= oldest
       /\ \E last \in Nat : /\ f.from <= last /\ last <= newest
                            /\ f.entries = Scored(k, f.from, last)
                            /\ f.verdict # "ACCRUING" => Enough(k, f.from, last)

CycleType == [in : Seq(Trade), oos : Seq(Trade), split : Int, dd : Int, ship : BOOLEAN]

CycleInv ==
    /\ BenchmarkInv
    /\ cycle \in CycleType /\ SplitsTradesApart /\ DrawdownIsWorstFall
    /\ forward \in [ForwardBooks -> RecordType]
    /\ \A k \in ForwardBooks : IsRecordOf(k, forward[k], firstBar, lastBar)

CycleTypeOK ==
    /\ StoreInv /\ cycle \in CycleType /\ forward \in [ForwardBooks -> RecordType]

(* More bars mean more trades to score.                                    *)
LEMMA ScoredGrows ==
    ASSUME NEW k, NEW from \in Nat \ {0}, NEW last \in Nat, NEW later \in Nat,
           from <= last, last <= later
    PROVE  /\ Scored(k, from, last) \subseteq Scored(k, from, later)
           /\ Enough(k, from, last) => Enough(k, from, later)
           /\ Scored(k, from, last) \in SUBSET Nat
<1>1. \A x \in Nat : from <= x => Min(from..x) = from
  <2>1. TAKE x \in Nat
  <2>2. HAVE from <= x
  <2>3. from..x \in SUBSET Nat /\ from \in from..x
    BY <2>2
  <2> DEFINE m == Min(from..x)
  <2>4. m \in from..x /\ m <= from
    BY <2>3, MinIsLeast
  <2> HIDE DEF m
  <2>5. m = from
    BY <2>4
  <2> QED
    BY <2>5 DEF m
<1>2. Min(from..last) = from /\ Min(from..later) = from
  BY <1>1
<1>3. \A b \in from..last : b \in from..later
  OBVIOUS
<1>4. Due(from..last) \subseteq Due(from..later)
  BY <1>2, <1>3 DEF Due
<1>5. After(k, from, last) \subseteq After(k, from, later)
  BY <1>3 DEF After
<1>6. Scored(k, from, last) \subseteq Scored(k, from, later)
  BY <1>4, <1>5 DEF Scored
<1>7. \A x \in Nat : /\ IsFiniteSet(After(k, from, x)) /\ IsFiniteSet(Scored(k, from, x))
                     /\ After(k, from, x) \in SUBSET Nat /\ Scored(k, from, x) \in SUBSET Nat
  <2>1. TAKE x \in Nat
  <2>2. After(k, from, x) \in SUBSET (from..x) /\ Scored(k, from, x) \in SUBSET (from..x)
    BY DEF After, Scored
  <2>3. IsFiniteSet(from..x) /\ from..x \in SUBSET Nat
    BY FS_Interval
  <2>4. IsFiniteSet(After(k, from, x)) /\ IsFiniteSet(Scored(k, from, x))
    BY <2>2, <2>3, FS_Subset
  <2> QED
    BY <2>2, <2>3, <2>4
<1>8. /\ Cardinality(After(k, from, last)) <= Cardinality(After(k, from, later))
      /\ Cardinality(Scored(k, from, last)) <= Cardinality(Scored(k, from, later))
  BY <1>5, <1>6, <1>7, FS_Subset
<1>9. /\ Cardinality(After(k, from, last)) \in Nat /\ Cardinality(After(k, from, later)) \in Nat
      /\ Cardinality(Scored(k, from, last)) \in Nat /\ Cardinality(Scored(k, from, later)) \in Nat
  BY <1>7, FS_CardinalityType
<1>10. Enough(k, from, last) => Enough(k, from, later)
  <2>1. MinFwdTrades \in Nat /\ MinFwdBars \in Nat
    BY CycleAssumption
  <2> QED
    BY <1>8, <1>9, <2>1 DEF Enough
<1> QED
  BY <1>6, <1>7, <1>10

(* A record stays one as the store grows, and a cycle what it found.       *)
LEMMA RecordsStay ==
    ASSUME NEW k, NEW f \in RecordType, NEW oldest \in Int, NEW newest \in Int,
           NEW older \in Int, NEW newer \in Int, older <= oldest, newest <= newer,
           IsRecordOf(k, f, oldest, newest)
    PROVE  IsRecordOf(k, f, older, newer)
<1>1. CASE f = NoForward
  BY <1>1 DEF IsRecordOf
<1>2. CASE f # NoForward
  <2>1. f.from \in Nat \ {0} /\ f.from >= oldest
    BY <1>2 DEF IsRecordOf
  <2>2. PICK last \in Nat : /\ f.from <= last /\ last <= newest
                            /\ f.entries = Scored(k, f.from, last)
                            /\ f.verdict # "ACCRUING" => Enough(k, f.from, last)
    BY <1>2 DEF IsRecordOf
  <2>3. f.from >= older /\ last <= newer
    BY <2>1, <2>2
  <2> QED
    BY <2>1, <2>2, <2>3 DEF IsRecordOf
<1> QED
  BY <1>1, <1>2

LEMMA CycleStays ==
    ASSUME cycle \in CycleType, SplitsTradesApart, DrawdownIsWorstFall, UNCHANGED <<closes, cycle>>
    PROVE  (cycle \in CycleType /\ SplitsTradesApart /\ DrawdownIsWorstFall)'
<1>1. (cycle \in CycleType)' /\ SplitsTradesApart'
  BY DEF CycleType, Trade, SplitsTradesApart
<1>2. Cumulated(TradeReturns(cycle.in))' = Cumulated(TradeReturns(cycle.in))
  BY DEF Cumulated, TradeReturns, ReturnPct, Sign
<1>3. DrawdownIsWorstFall'
  BY <1>2 DEF DrawdownIsWorstFall
<1> QED
  BY <1>1, <1>3

LEMMA EvaluateCycleSound ==
    ASSUME CycleInv, EvaluateCycle, UNCHANGED benchmarkVars
    PROVE  CycleInv'
<1>1. PICK multi \in BOOLEAN :
        cycle' = [in |-> CycleTrades("benchmark", multi), oos |-> CycleTrades("backtest", multi),
                  split |-> LastInSample,
                  dd |-> MaxDrawdown(Cumulated(TradeReturns(CycleTrades("benchmark", multi)))),
                  ship |-> Ships(CycleTrades("benchmark", multi), CycleTrades("backtest", multi), multi)]
  BY DEF EvaluateCycle
<1> DEFINE in == CycleTrades("benchmark", multi)
           oos == CycleTrades("backtest", multi)
           curve == Cumulated(TradeReturns(in))
<1>2. /\ BenchmarkInv /\ StoreInv /\ BenchmarkInv' /\ UNCHANGED <<closes, firstBar, lastBar, forward>>
  BY RestingStudies DEF CycleInv, BenchmarkInv, EvaluateCycle, benchmarkVars, storeVars
<1>3. \A phase : BarsOf(phase) \in SUBSET Stored
  BY DEF BarsOf
<1>4. /\ in \in Seq(Trades(BarsOf("benchmark"))) /\ oos \in Seq(Trades(BarsOf("backtest")))
      /\ in \in Seq(Trade) /\ oos \in Seq(Trade)
  BY <1>2, <1>3, SimulationTyped, TradesTyped, ListsOfPart DEF CycleTrades
<1>5. curve \in Seq(Int)
  BY <1>2, <1>4, CurveTyped
<1>6. MaxDrawdown(curve) = Max(Falls(curve) \cup {0}) /\ MaxDrawdown(curve) \in Int
  <2> HIDE DEF curve
  <2> QED
    BY <1>5, DrawdownIsDeepest
<1>7. /\ LastInSample \in Int /\ \A b \in Stored : b \in Int
  BY <1>2, StoreFacts DEF StoreInv
<1>8. \A i \in DOMAIN in : in[i].exit <= LastInSample
  <2>1. TAKE i \in DOMAIN in
  <2>2. in[i] \in Trades(BarsOf("benchmark")) /\ in[i] \in Trade
    BY <1>4
  <2>3. PICK b \in BarsOf("benchmark") : in[i].exit <= b
    BY <1>2, <1>3, <2>2, TradesTyped
  <2>4. b <= LastInSample /\ b \in Int
    BY <1>7 DEF BarsOf
  <2>5. in[i].exit \in Int
    BY <2>2 DEF Trade
  <2> QED
    BY <1>7, <2>3, <2>4, <2>5
<1>9. \A i \in DOMAIN oos : oos[i].entry > LastInSample
  <2>1. TAKE i \in DOMAIN oos
  <2>2. oos[i] \in Trades(BarsOf("backtest"))
    BY <1>4
  <2>3. oos[i].entry \in BarsOf("backtest")
    BY <1>2, <1>3, <2>2, TradesTyped
  <2> QED
    BY <2>3 DEF BarsOf
<1>10. Ships(in, oos, multi) \in BOOLEAN
  BY DEF Ships
<1> HIDE DEF in, oos
<1>11. /\ cycle'.in = in /\ cycle'.oos = oos /\ cycle'.split = LastInSample
       /\ cycle'.dd = MaxDrawdown(curve)
       /\ cycle' \in [in : Seq(Trade), oos : Seq(Trade), split : Int, dd : Int, ship : BOOLEAN]
  BY <1>1, <1>4, <1>6, <1>7, <1>10 DEF in, oos
<1>12. SplitsTradesApart'
  BY <1>8, <1>9, <1>11 DEF SplitsTradesApart
<1>13. DrawdownIsWorstFall'
  <2>1. Cumulated(TradeReturns(cycle.in))' = curve
    BY <1>2, <1>11 DEF Cumulated, TradeReturns, ReturnPct, Sign
  <2>2. cycle'.dd = Max(Falls(curve) \cup {0})
    BY <1>6, <1>11
  <2> HIDE DEF curve
  <2> QED
    BY <2>1, <2>2 DEF DrawdownIsWorstFall, Falls
<1>14. (cycle \in CycleType)'
  BY <1>2, <1>11 DEF CycleType, Trade
<1>15. UNCHANGED <<firstBar, lastBar, forward>>
  BY <1>2
<1> QED
  BY <1>2, <1>12, <1>13, <1>14, <1>15 DEF CycleInv

(* What a forward run writes is the score of the bars the store now holds. *)
LEMMA RunForwardWrites ==
    ASSUME CycleInv, NEW k \in ForwardBooks, RunForward(k)
    PROVE  /\ firstBar \in Nat \ {0} /\ lastBar \in Nat /\ firstBar <= lastBar
           /\ forward'[k] \in RecordType /\ forward'[k].from = firstBar
           /\ forward'[k].entries = Scored(k, firstBar, lastBar)
           /\ (forward'[k].verdict # "ACCRUING") <=> Enough(k, firstBar, lastBar)
           /\ forward' \in [ForwardBooks -> RecordType]
           /\ \A other \in ForwardBooks : other # k => forward'[other] = forward[other]
<1> DEFINE trades == Simulate(Stored, TRUE)
           after == {b \in Stored : b > Boundary(k)}
           scored == {trades[i].entry : i \in DOMAIN trades} \cap after
           enough == Cardinality(scored) >= MinFwdTrades /\ Cardinality(after) >= MinFwdBars
<1>1. /\ StoreInv /\ firstBar \in Nat \ {0} /\ lastBar \in Nat /\ firstBar <= lastBar
      /\ forward \in [ForwardBooks -> RecordType]
  BY DEF CycleInv, BenchmarkInv, StoreInv
<1>2. PICK better :
        forward' = [forward EXCEPT ![k] =
          [from |-> firstBar, entries |-> scored,
           verdict |-> IF ~enough THEN "ACCRUING"
                       ELSE IF better THEN "CONFIRMED" ELSE "NOT CONFIRMED"]]
  BY DEF RunForward
<1>3. {trades[i].entry : i \in DOMAIN trades} = Due(Stored)
  BY <1>1, UnlimitedTakesAll
<1>4. after = After(k, firstBar, lastBar)
  BY DEF After, Stored
<1>5. scored = Scored(k, firstBar, lastBar)
  BY <1>3, <1>4 DEF Scored, Stored
<1>6. enough <=> Enough(k, firstBar, lastBar)
  BY <1>4, <1>5 DEF Enough
<1>7. scored \in SUBSET Nat
  <2>1. lastBar <= lastBar
    BY <1>1
  <2>2. Scored(k, firstBar, lastBar) \in SUBSET Nat
    BY <1>1, <2>1, ScoredGrows
  <2> QED
    BY <1>5, <2>2
<1> HIDE DEF scored, enough
<1>8. forward'[k] = [from |-> firstBar, entries |-> scored,
                     verdict |-> IF ~enough THEN "ACCRUING"
                                 ELSE IF better THEN "CONFIRMED" ELSE "NOT CONFIRMED"]
  BY <1>1, <1>2
<1> DEFINE verdict == IF ~enough THEN "ACCRUING"
                      ELSE IF better THEN "CONFIRMED" ELSE "NOT CONFIRMED"
<1>13. verdict \in Verdicts /\ ((verdict # "ACCRUING") <=> enough)
  <2>1. CASE ~enough
    BY <2>1 DEF Verdicts
  <2>2. CASE enough /\ better
    BY <2>2 DEF Verdicts
  <2>3. CASE enough /\ ~better
    BY <2>3 DEF Verdicts
  <2> QED
    BY <2>1, <2>2, <2>3
<1> HIDE DEF verdict
<1>9. forward'[k] \in RecordType
  <2>1. forward'[k] = [from |-> firstBar, entries |-> scored, verdict |-> verdict]
    BY <1>8 DEF verdict
  <2> QED
    BY <1>1, <1>7, <1>13, <2>1 DEF RecordType
<1>10. forward' \in [ForwardBooks -> RecordType]
  BY <1>1, <1>2, <1>8, <1>9
<1>11. \A other \in ForwardBooks : other # k => forward'[other] = forward[other]
  BY <1>1, <1>2
<1>12. forward'[k] = [from |-> firstBar, entries |-> scored, verdict |-> verdict]
  BY <1>8 DEF verdict
<1>14. /\ forward'[k].from = firstBar /\ forward'[k].entries = scored
       /\ forward'[k].verdict = verdict
  BY <1>12
<1>15. (forward'[k].verdict # "ACCRUING") <=> Enough(k, firstBar, lastBar)
  BY <1>6, <1>13, <1>14
<1> QED
  BY <1>1, <1>5, <1>9, <1>10, <1>11, <1>14, <1>15

LEMMA RunForwardSound ==
    ASSUME CycleInv, NEW k \in ForwardBooks, RunForward(k), UNCHANGED benchmarkVars
    PROVE  CycleInv'
<1>1. /\ BenchmarkInv' /\ UNCHANGED <<closes, firstBar, lastBar, cycle>>
  BY RestingStudies DEF CycleInv, RunForward, benchmarkVars, storeVars
<1>2. \A other \in ForwardBooks : IsRecordOf(other, forward'[other], firstBar, lastBar)
  <2>1. TAKE other \in ForwardBooks
  <2>2. CASE other = k
    <3>1. firstBar >= firstBar /\ lastBar <= lastBar /\ firstBar <= lastBar
      BY RunForwardWrites
    <3> QED
      BY <2>2, <3>1, RunForwardWrites DEF IsRecordOf
  <2>3. CASE other # k
    BY <2>3, RunForwardWrites DEF CycleInv
  <2> QED
    BY <2>2, <2>3
<1>3. (\A other \in ForwardBooks : IsRecordOf(other, forward[other], firstBar, lastBar))'
  BY <1>1, <1>2
<1>4. (forward \in [ForwardBooks -> RecordType])'
  BY RunForwardWrites DEF RecordType, Verdicts
<1>5. (cycle \in CycleType /\ SplitsTradesApart /\ DrawdownIsWorstFall)'
  BY <1>1, CycleStays DEF CycleInv
<1> QED
  BY <1>1, <1>3, <1>4, <1>5 DEF CycleInv

LEMMA CycleStarts ==
    ASSUME BenchmarkInit, CycleInit PROVE CycleInv
<1>1. BenchmarkInv /\ StoreInv
  BY BenchmarkStarts DEF BenchmarkInv
<1>2. cycle = [in |-> <<>>, oos |-> <<>>, split |-> 0, dd |-> 0, ship |-> FALSE]
  BY DEF CycleInit, NoCycle
<1>3. cycle \in CycleType /\ SplitsTradesApart
  BY <1>2 DEF CycleType, SplitsTradesApart
<1>4. DrawdownIsWorstFall
  <2>1. Cumulated(TradeReturns(cycle.in)) = <<>>
    BY <1>2 DEF Cumulated, TradeReturns
  <2>2. PICK none \in Seq(Int) : none = <<>>
    <3>1. <<>> \in Seq(Int)
      OBVIOUS
    <3> QED
      BY <3>1
  <2>3. MaxDrawdown(none) = 0 /\ MaxDrawdown(none) = Max(Falls(none) \cup {0})
    BY <2>2, DrawdownIsDeepest DEF MaxDrawdown
  <2>4. cycle.dd = Max(Falls(none) \cup {0})
    BY <1>2, <2>3
  <2> QED
    BY <2>1, <2>2, <2>4 DEF DrawdownIsWorstFall, Falls
<1>5. forward \in [ForwardBooks -> RecordType]
  BY DEF CycleInit, NoForward, RecordType, Verdicts
<1>6. \A k \in ForwardBooks : IsRecordOf(k, forward[k], firstBar, lastBar)
  BY DEF CycleInit, IsRecordOf
<1> QED
  BY <1>1, <1>3, <1>4, <1>5, <1>6 DEF CycleInv

LEMMA CycleStep ==
    ASSUME CycleInv, [CycleNext]_<<benchmarkVars, cycleVars>>
    PROVE  /\ CycleInv'
           /\ [BenchmarkNext]_benchmarkVars
           /\ UNCHANGED cycleVars \/ (UNCHANGED benchmarkVars /\ UNCHANGED forward)
              \/ \E k \in ForwardBooks : RunForward(k) /\ UNCHANGED benchmarkVars
<1>1. CASE (BarCloses \/ OlderBarFilled) /\ UNCHANGED cycleVars
  <2>1. BenchmarkInv' /\ closes' = closes /\ firstBar' <= firstBar /\ lastBar <= lastBar'
    BY <1>1, StoreGrows DEF CycleInv
  <2>2. firstBar \in Int /\ lastBar \in Int /\ firstBar' \in Int /\ lastBar' \in Int
    BY <2>1 DEF CycleInv, BenchmarkInv, StoreInv
  <2>3. cycle' = cycle /\ forward' = forward
    BY <1>1 DEF cycleVars
  <2>4. (cycle \in CycleType /\ SplitsTradesApart /\ DrawdownIsWorstFall)'
    BY <2>1, <2>3, CycleStays DEF CycleInv
  <2>5. forward \in [ForwardBooks -> RecordType]
    BY DEF CycleInv
  <2>6. \A k \in ForwardBooks : IsRecordOf(k, forward[k], firstBar', lastBar')
    BY <2>1, <2>2, <2>5, RecordsStay DEF CycleInv
  <2>7. (\A k \in ForwardBooks : IsRecordOf(k, forward[k], firstBar, lastBar))'
    BY <2>3, <2>6
  <2>8. (forward \in [ForwardBooks -> RecordType])'
    BY <2>3, <2>5 DEF RecordType
  <2>9. CycleInv'
    BY <2>1, <2>4, <2>7, <2>8 DEF CycleInv
  <2> QED
    BY <1>1, <2>9 DEF BenchmarkNext
<1>2. CASE EvaluateCycle /\ UNCHANGED benchmarkVars
  BY <1>2, EvaluateCycleSound DEF EvaluateCycle
<1>3. CASE \E k \in ForwardBooks : RunForward(k) /\ UNCHANGED benchmarkVars
  BY <1>3, RunForwardSound
<1>4. CASE UNCHANGED <<benchmarkVars, cycleVars>>
  <2>1. BenchmarkInv' /\ UNCHANGED <<closes, firstBar, lastBar, cycle, forward>>
    BY <1>4, RestingStudies DEF CycleInv, benchmarkVars, storeVars, cycleVars
  <2>2. (cycle \in CycleType /\ SplitsTradesApart /\ DrawdownIsWorstFall)'
    BY <2>1, CycleStays DEF CycleInv
  <2>3. /\ (forward \in [ForwardBooks -> RecordType])'
        /\ (\A k \in ForwardBooks : IsRecordOf(k, forward[k], firstBar, lastBar))'
    BY <2>1 DEF CycleInv, RecordType
  <2>4. CycleInv'
    BY <2>1, <2>2, <2>3 DEF CycleInv
  <2> QED
    BY <1>4, <2>4
<1> QED
  BY <1>1, <1>2, <1>3, <1>4 DEF CycleNext

(***************************************************************************)
(* The theorems about the cycle.                                           *)
(***************************************************************************)

(* What a cycle reports are lists of trades over bars that exist, and what *)
(* a forward run of cycle's books keeps is a record (cycle.py,             *)
(* paper_forward.py).                                                      *)
THEOREM CycleTypeCorrect == CycleSpec => []CycleTypeOK
<1>1. BenchmarkInit /\ CycleInit => CycleInv
  BY CycleStarts
<1>2. CycleInv /\ [CycleNext]_<<benchmarkVars, cycleVars>> => CycleInv'
  BY CycleStep
<1>3. CycleInv => CycleTypeOK
  BY DEF CycleInv, CycleTypeOK, BenchmarkInv
<1> QED
  BY <1>1, <1>2, <1>3, PTL DEF CycleSpec

(* No trade of a cycle straddles the split, and the drawdown it reports is *)
(* the deepest fall between any two points of its cumulated returns        *)
(* (metrics.py reads the curve once and keeps a running peak).             *)
THEOREM CyclesStaySound == CycleSpec => []CyclesAreSound
<1>1. BenchmarkInit /\ CycleInit => CycleInv
  BY CycleStarts
<1>2. CycleInv /\ [CycleNext]_<<benchmarkVars, cycleVars>> => CycleInv'
  BY CycleStep
<1>3. CycleInv => CyclesAreSound
  BY DEF CycleInv, CyclesAreSound
<1> QED
  BY <1>1, <1>2, <1>3, PTL DEF CycleSpec

LEMMA ForwardOnlyGrows ==
    ASSUME CycleInv, NEW k \in ForwardBooks, NEW j \in ForwardBooks, RunForward(k),
           forward[j].from = forward'[j].from
    PROVE  /\ forward[j].entries \subseteq forward'[j].entries
           /\ forward[j].verdict # "ACCRUING" => forward'[j].verdict # "ACCRUING"
<1>1. CASE j # k
  BY <1>1, RunForwardWrites
<1>2. CASE j = k
  <2> DEFINE f == forward[k]
  <2>1. f.from = firstBar /\ firstBar \in Nat \ {0} /\ lastBar \in Nat
    BY <1>2, RunForwardWrites
  <2>2. f # NoForward
    BY <2>1 DEF NoForward
  <2>3. PICK last \in Nat : /\ f.from <= last /\ last <= lastBar
                            /\ f.entries = Scored(k, f.from, last)
                            /\ f.verdict # "ACCRUING" => Enough(k, f.from, last)
    BY <2>2 DEF CycleInv, IsRecordOf
  <2>4. /\ Scored(k, firstBar, last) \subseteq Scored(k, firstBar, lastBar)
        /\ Enough(k, firstBar, last) => Enough(k, firstBar, lastBar)
    BY <2>1, <2>3, ScoredGrows
  <2> QED
    BY <1>2, <2>1, <2>3, <2>4, RunForwardWrites
<1> QED
  BY <1>1, <1>2

(* Over more bars a study does not take back what it said: the direction   *)
(* of a confirmed fire, the trades a forward record has scored, and a      *)
(* verdict that was due.                                                   *)
THEOREM StudiesRepeat == CycleSpec => StudiesAreRepeatable
<1>1. BenchmarkInit /\ CycleInit => CycleInv
  BY CycleStarts
<1>2. CycleInv /\ [CycleNext]_<<benchmarkVars, cycleVars>> => CycleInv'
  BY CycleStep
<1>3. CycleInv /\ CycleInv' /\ [CycleNext]_<<benchmarkVars, cycleVars>> =>
        [\A i \in DOMAIN fires, j \in DOMAIN fires' :
          fires[i].at = fires'[j].at /\ Confirmed(fires[i]) /\ Confirmed(fires'[j])
          => fires'[j].dir = fires[i].dir]_benchmarkVars
  <2> SUFFICES ASSUME CycleInv, CycleInv', [CycleNext]_<<benchmarkVars, cycleVars>>,
                      NEW i \in DOMAIN fires, NEW j \in DOMAIN fires',
                      fires[i].at = fires'[j].at, Confirmed(fires[i]), Confirmed(fires'[j])
               PROVE  fires'[j].dir = fires[i].dir
    OBVIOUS
  <2>1. BenchmarkInv /\ BenchmarkInv' /\ [BenchmarkNext]_benchmarkVars
    BY CycleStep DEF CycleInv
  <2>2. Rows' = Rows
    BY <2>1, StudiesStep, SameRows
  <2>3. fires \in Seq(Rows) /\ fires' \in Seq(Rows)
    BY <2>1, <2>2 DEF BenchmarkInv, FiresInv
  <2>4. fires[i] \in Rows /\ fires'[j] \in Rows
    BY <2>3
  <2> QED
    BY <2>1, <2>4, DirectionsAgree DEF BenchmarkInv
<1>4. CycleInv /\ [CycleNext]_<<benchmarkVars, cycleVars>> =>
        [\A k \in ForwardBooks :
          forward[k].from = forward'[k].from =>
             /\ forward[k].entries \subseteq forward'[k].entries
             /\ forward[k].verdict # "ACCRUING"
                => forward'[k].verdict # "ACCRUING"]_cycleVars
  <2> SUFFICES ASSUME CycleInv, [CycleNext]_<<benchmarkVars, cycleVars>>, ~ UNCHANGED cycleVars,
                      NEW k \in ForwardBooks, forward[k].from = forward'[k].from
               PROVE  /\ forward[k].entries \subseteq forward'[k].entries
                      /\ forward[k].verdict # "ACCRUING" => forward'[k].verdict # "ACCRUING"
    OBVIOUS
  <2>1. UNCHANGED forward \/ \E j \in ForwardBooks : RunForward(j)
    BY CycleStep
  <2> QED
    BY <2>1, ForwardOnlyGrows
<1> QED
  BY <1>1, <1>2, <1>3, <1>4, PTL
     DEF CycleSpec, StudiesAreRepeatable, DirectionsAreFinal, ForwardRecordsOnlyGrow

=============================================================================
