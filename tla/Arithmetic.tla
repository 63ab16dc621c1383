----------------------------- MODULE Arithmetic -----------------------------
(***************************************************************************)
(* Facts about minima, maxima, products, divisions, sums, folds and lists  *)
(* that the proofs share.                                                  *)
(***************************************************************************)
EXTENDS Integers, Lists, FiniteSetsExt, Functions, SequencesExt, FiniteSetTheorems,
        WellFoundedInduction, TLAPS

(* The greater and the lesser of two numbers.                              *)
LEMMA MaxOfTwo ==
    ASSUME NEW a \in Int, NEW b \in Int
    PROVE  Max({a, b}) = IF a >= b THEN a ELSE b
<1> DEFINE m == IF a >= b THEN a ELSE b
<1>1. m \in {a, b} /\ \A y \in {a, b} : m >= y
  OBVIOUS
<1>2. ASSUME NEW x \in {a, b}, \A y \in {a, b} : x >= y PROVE x = m
  BY <1>2
<1> HIDE DEF m
<1>3. (CHOOSE x \in {a, b} : \A y \in {a, b} : x >= y) = m
  BY <1>1, <1>2
<1> QED
  BY <1>3 DEF Max, m

LEMMA MinOfTwo ==
    ASSUME NEW a \in Int, NEW b \in Int
    PROVE  Min({a, b}) = IF a <= b THEN a ELSE b
<1> DEFINE m == IF a <= b THEN a ELSE b
<1>1. m \in {a, b} /\ \A y \in {a, b} : m <= y
  OBVIOUS
<1>2. ASSUME NEW x \in {a, b}, \A y \in {a, b} : x <= y PROVE x = m
  BY <1>2
<1> HIDE DEF m
<1>3. (CHOOSE x \in {a, b} : \A y \in {a, b} : x <= y) = m
  BY <1>1, <1>2
<1> QED
  BY <1>3 DEF Min, m

(* A set of numbers that is not empty has a least one, and Min is it.      *)
LEMMA MinIsLeast ==
    ASSUME NEW S \in SUBSET Nat, S # {}
    PROVE  Min(S) \in S /\ \A i \in S : Min(S) <= i
<1>1. PICK x \in S : \A y \in S : <<y, x>> \notin OpToRel(<, Nat)
  BY NatLessThanWellFounded, WFMin
<1>2. \A y \in S : x <= y
  <2>1. TAKE y \in S
  <2>2. ~ (y < x)
    BY <1>1 DEF OpToRel
  <2> QED
    BY <2>2
<1> QED
  BY <1>2 DEF Min

(* A bounded one has a greatest element, and Max is it.                    *)
LEMMA MaxIsGreatest ==
    ASSUME NEW n \in Nat, NEW S \in SUBSET (1..n), S # {}
    PROVE  Max(S) \in S /\ \A i \in S : i <= Max(S)
<1> DEFINE mirrored == { n - i : i \in S }
<1>1. mirrored \in SUBSET Nat /\ mirrored # {}
  <2>1. \A i \in S : n - i \in Nat
    OBVIOUS
  <2> QED
    BY <2>1
<1> HIDE DEF mirrored
<1>2. PICK m \in mirrored : \A k \in mirrored : m <= k
  BY <1>1, MinIsLeast
<1>3. PICK x \in S : m = n - x
  BY <1>2 DEF mirrored
<1>4. \A i \in S : i <= x
  <2>1. TAKE i \in S
  <2>2. n - i \in mirrored
    BY DEF mirrored
  <2>3. n - x <= n - i
    BY <1>2, <1>3, <2>2
  <2> QED
    BY <2>3
<1>5. \A i \in S : x >= i
  BY <1>4
<1> QED
  BY <1>5 DEF Max

(* What a division rounded down leaves.                                    *)
LEMMA DivisionFacts ==
    ASSUME NEW a \in Int, NEW d \in Nat \ {0}
    PROVE  /\ a \div d \in Int
           /\ (a \div d) * d <= a /\ a < (a \div d) * d + d
  OBVIOUS

LEMMA ProductsAreOrdered ==
    ASSUME NEW a \in Int, NEW b \in Int, NEW d \in Nat, a <= b
    PROVE  a * d <= b * d
<1>1. (b - a) \in Nat
  OBVIOUS
<1>2. (b - a) * d >= 0
  BY <1>1
<1> QED
  BY <1>2

(* The quotient is the only number with what it leaves.                    *)
LEMMA QuotientIsUnique ==
    ASSUME NEW a \in Int, NEW d \in Nat \ {0}, NEW q \in Int, q * d <= a, a < q * d + d
    PROVE  a \div d = q
<1> DEFINE p == a \div d
<1>1. p \in Int /\ p * d <= a /\ a < p * d + d
  BY DivisionFacts
<1> HIDE DEF p
<1>2. CASE p + 1 <= q
  <2>1. (p + 1) * d <= q * d
    BY <1>1, <1>2, ProductsAreOrdered
  <2> QED
    BY <1>1, <2>1
<1>3. CASE q + 1 <= p
  <2>1. (q + 1) * d <= p * d
    BY <1>1, <1>3, ProductsAreOrdered
  <2> QED
    BY <1>1, <2>1
<1> QED
  BY <1>1, <1>2, <1>3 DEF p

(* A set of naturals that has 0 and with every number the next has all.    *)
LEMMA NatFromZero ==
    ASSUME NEW T, 0 \in T, \A n \in Nat : n \in T => n + 1 \in T
    PROVE  Nat \subseteq T
<1> DEFINE left == { n \in Nat : n \notin T }
<1>1. SUFFICES ASSUME left # {} PROVE FALSE
  OBVIOUS
<1> DEFINE m == Min(left)
<1>2. m \in left /\ \A i \in left : m <= i
  <2>1. left \in SUBSET Nat
    OBVIOUS
  <2> HIDE DEF left
  <2> QED
    BY <1>1, <2>1, MinIsLeast
<1> HIDE DEF m
<1>3. m \in Nat /\ m \notin T
  BY <1>2
<1>4. m - 1 \in Nat /\ m - 1 \notin left
  BY <1>2, <1>3
<1>5. m - 1 \in T
  BY <1>4
<1> QED
  BY <1>3, <1>4, <1>5

(* The sum of f over a finite set, element by element.                     *)
Chosen(s) == CHOOSE x \in s : TRUE

SumsUp(f, S, h) ==
    h = [s \in SUBSET S |-> IF s = {} THEN 0 ELSE f[Chosen(s)] + h[s \ {Chosen(s)}]]

LEMMA SumRecursion ==
    ASSUME NEW f, NEW S, IsFiniteSet(S)
    PROVE  \E h : SumFunctionOnSet(f, S) = h[S] /\ SumsUp(f, S, h)
<1> DEFINE Step(h, s) == IF s = {} THEN 0 ELSE f[Chosen(s)] + h[s \ {Chosen(s)}]
           Level(n) == { s \in SUBSET S : Cardinality(s) <= n }
           Rec(D, h) == h = [s \in D |-> Step(h, s)]
           good == { n \in Nat : \E h : Rec(Level(n), h) }
<1>1. \A s \in SUBSET S : s # {} => Chosen(s) \in s
  BY DEF Chosen
<1>2. \A s \in SUBSET S : IsFiniteSet(s) /\ Cardinality(s) \in Nat
  BY FS_Subset, FS_CardinalityType
<1>3. \A s \in SUBSET S : s # {} => Cardinality(s \ {Chosen(s)}) = Cardinality(s) - 1
  BY <1>1, <1>2, FS_RemoveElement
<1>4. \A s \in SUBSET S : Cardinality(s) = 0 <=> s = {}
  BY <1>2, FS_EmptySet
<1>5. 0 \in good
  <2> DEFINE h == [s \in Level(0) |-> 0]
  <2>1. \A s \in Level(0) : s = {}
    BY <1>2, <1>4
  <2>2. Rec(Level(0), h)
    BY <2>1
  <2> QED
    BY <2>2
<1>6. ASSUME NEW n \in Nat, n \in good PROVE n + 1 \in good
  <2>1. PICK g : Rec(Level(n), g)
    BY <1>6
  <2> DEFINE h == [s \in Level(n + 1) |-> IF s \in Level(n) THEN g[s] ELSE Step(g, s)]
  <2>2. \A s \in Level(n + 1) : s # {} => s \ {Chosen(s)} \in Level(n)
    <3>1. TAKE s \in Level(n + 1)
    <3>2. HAVE s # {}
    <3>3. Cardinality(s) \in Nat /\ Cardinality(s) <= n + 1
      BY <1>2
    <3>4. Cardinality(s \ {Chosen(s)}) <= n
      BY <3>2, <3>3, <1>3
    <3> QED
      BY <3>4
  <2>3. Level(n) \subseteq Level(n + 1)
    BY <1>2
  <2>4. \A s \in Level(n) : h[s] = g[s]
    BY <2>3
  <2>5. \A s \in Level(n) : g[s] = Step(g, s)
    BY <2>1
  <2> HIDE DEF Level
  <2>6. \A s \in Level(n + 1) : h[s] = Step(g, s)
    BY <2>5
  <2>7. \A s \in Level(n + 1) : s # {} => h[s \ {Chosen(s)}] = g[s \ {Chosen(s)}]
    BY <2>2, <2>4
  <2> HIDE DEF h
  <2>8. \A s \in Level(n + 1) : Step(g, s) = Step(h, s)
    BY <2>7
  <2>9. h = [s \in Level(n + 1) |-> h[s]]
    BY DEF h
  <2>10. Rec(Level(n + 1), h)
    BY <2>6, <2>8, <2>9
  <2> HIDE DEF Step
  <2>11. \E k : Rec(Level(n + 1), k)
    BY <2>10
  <2> HIDE DEF Rec
  <2> QED
    BY <2>11
<1>7. Cardinality(S) \in good
  <2> HIDE DEF good
  <2>1. Nat \subseteq good
    BY <1>5, <1>6, NatFromZero
  <2> QED
    BY <2>1, <1>2
<1>8. Level(Cardinality(S)) = SUBSET S
  <2>1. \A s \in SUBSET S : Cardinality(s) <= Cardinality(S)
    BY FS_Subset
  <2> QED
    BY <2>1
<1>9. \E h : Rec(SUBSET S, h)
  BY <1>7, <1>8
<1> DEFINE iter == CHOOSE h : Rec(SUBSET S, h)
<1>10. Rec(SUBSET S, iter)
  BY <1>9
<1>11. SumFunctionOnSet(f, S) = iter[S]
  BY DEF SumFunctionOnSet, FoldFunctionOnSet, MapThenFoldSet, Chosen
<1> QED
  BY <1>10, <1>11 DEF SumsUp

(* A lesser summand makes a lesser sum, by at least what it lacks.         *)
LEMMA SumsCompare ==
    ASSUME NEW S, IsFiniteSet(S), NEW f \in [S -> Int], NEW g \in [S -> Int],
           \A x \in S : f[x] <= g[x]
    PROVE  /\ SumFunctionOnSet(f, S) \in Int /\ SumFunctionOnSet(g, S) \in Int
           /\ SumFunctionOnSet(f, S) <= SumFunctionOnSet(g, S)
           /\ \A b \in S : g[b] - f[b] <= SumFunctionOnSet(g, S) - SumFunctionOnSet(f, S)
           /\ (\A x \in S : f[x] >= 0) => SumFunctionOnSet(f, S) >= 0
<1>1. PICK hf : SumFunctionOnSet(f, S) = hf[S] /\ SumsUp(f, S, hf)
  BY SumRecursion
<1>2. PICK hg : SumFunctionOnSet(g, S) = hg[S] /\ SumsUp(g, S, hg)
  BY SumRecursion
<1> DEFINE Compare(s) ==
        /\ hf[s] \in Int /\ hg[s] \in Int /\ hf[s] <= hg[s]
        /\ \A b \in s : g[b] - f[b] <= hg[s] - hf[s]
        /\ (\A x \in S : f[x] >= 0) => hf[s] >= 0
      good == { n \in Nat : \A s \in SUBSET S : Cardinality(s) = n => Compare(s) }
<1>3. \A s \in SUBSET S : IsFiniteSet(s) /\ Cardinality(s) \in Nat
  BY FS_Subset, FS_CardinalityType
<1>4. \A s \in SUBSET S : s # {} => Chosen(s) \in s
  BY DEF Chosen
<1>5. \A s \in SUBSET S : s # {} => Cardinality(s \ {Chosen(s)}) = Cardinality(s) - 1
  BY <1>3, <1>4, FS_RemoveElement
<1>6. Compare({})
  <2>1. {} \in SUBSET S
    OBVIOUS
  <2> QED
    BY <1>1, <1>2, <2>1 DEF SumsUp
<1>7. ASSUME NEW s \in SUBSET S, s # {}, Compare(s \ {Chosen(s)}) PROVE Compare(s)
  <2> DEFINE x == Chosen(s)
             r == s \ {x}
  <2>1. x \in s /\ x \in S /\ r \in SUBSET S
    BY <1>4, <1>7
  <2>2. hf[s] = f[x] + hf[r] /\ hg[s] = g[x] + hg[r]
    BY <1>1, <1>2, <1>7 DEF SumsUp
  <2>3. Compare(r)
    BY <1>7
  <2>4. \A b \in s : b = x \/ b \in r
    OBVIOUS
  <2>5. f[x] \in Int /\ g[x] \in Int /\ f[x] <= g[x]
    BY <2>1
  <2> HIDE DEF x, r
  <2>6. hf[s] \in Int /\ hg[s] \in Int /\ hf[s] <= hg[s]
    BY <2>2, <2>3, <2>5
  <2>7. ASSUME NEW b \in s PROVE g[b] - f[b] <= hg[s] - hf[s]
    <3>1. CASE b = x
      BY <2>2, <2>3, <2>5, <3>1
    <3>2. CASE b \in r
      <4>1. g[b] - f[b] <= hg[r] - hf[r]
        BY <2>3, <3>2
      <4>2. g[b] \in Int /\ f[b] \in Int
        OBVIOUS
      <4> QED
        BY <2>2, <2>3, <2>5, <4>1, <4>2
    <3> QED
      BY <2>4, <3>1, <3>2
  <2>8. ASSUME \A y \in S : f[y] >= 0 PROVE hf[s] >= 0
    BY <2>1, <2>2, <2>3, <2>5, <2>8
  <2> QED
    BY <2>6, <2>7, <2>8
<1> HIDE DEF Compare
<1>8. 0 \in good
  <2>1. \A s \in SUBSET S : Cardinality(s) = 0 => s = {}
    BY <1>3, FS_EmptySet
  <2> QED
    BY <1>6, <2>1
<1>9. ASSUME NEW n \in Nat, n \in good PROVE n + 1 \in good
  <2>1. ASSUME NEW s \in SUBSET S, Cardinality(s) = n + 1 PROVE Compare(s)
    <3>1. s # {}
      BY <2>1, FS_EmptySet
    <3>2. Cardinality(s \ {Chosen(s)}) = n
      BY <1>5, <2>1, <3>1
    <3>3. Compare(s \ {Chosen(s)})
      BY <1>9, <3>2
    <3> QED
      BY <1>7, <3>1, <3>3
  <2> QED
    BY <2>1
<1>10. Compare(S)
  <2> HIDE DEF good
  <2>1. Nat \subseteq good
    BY <1>8, <1>9, NatFromZero
  <2>2. Cardinality(S) \in good
    BY <1>3, <2>1
  <2> QED
    BY <2>2 DEF good
<1> QED
  BY <1>1, <1>2, <1>10 DEF Compare

(* What a fold from the left computes: o is the operator, as a function,   *)
(* and h holds what every prefix, and every other set of places, comes to. *)
Folding(o, base, seq, h) ==
    h = [s \in SUBSET (1..Len(seq)) |->
            IF s = {} THEN base ELSE o[h[s \ {Max(s)}], seq[Max(s)]]]

LEMMA FoldsExist ==
    ASSUME NEW V, NEW D, NEW o \in [V \X D -> V], NEW base \in V, NEW seq \in Seq(D)
    PROVE  \E h \in [SUBSET (1..Len(seq)) -> V] : Folding(o, base, seq, h)
<1> DEFINE N == Len(seq)
           Places == SUBSET (1..N)
           Step(h, s) == IF s = {} THEN base ELSE o[h[s \ {Max(s)}], seq[Max(s)]]
           Level(n) == { s \in Places : \A i \in s : i <= n }
           Rec(D1, h) == h \in [D1 -> V] /\ h = [s \in D1 |-> Step(h, s)]
           good == { n \in Nat : \E h : Rec(Level(n), h) }
<1>1. N \in Nat
  OBVIOUS
<1>2. \A s \in Places : s # {} => Max(s) \in s /\ \A i \in s : i <= Max(s)
  BY <1>1, MaxIsGreatest
<1>3. \A s \in Places : s # {} => seq[Max(s)] \in D
  <2>1. TAKE s \in Places
  <2>2. HAVE s # {}
  <2> DEFINE m == Max(s)
  <2>3. m \in 1..Len(seq)
    BY <1>2, <2>2
  <2> HIDE DEF m
  <2>4. seq[m] \in D
    BY <2>3
  <2> QED
    BY <2>4 DEF m
<1>4. 0 \in good
  <2> DEFINE h == [s \in Level(0) |-> base]
  <2>1. \A s \in Level(0) : s = {}
    OBVIOUS
  <2>2. Rec(Level(0), h)
    BY <2>1
  <2> QED
    BY <2>2
<1> HIDE DEF N
<1>5. ASSUME NEW n \in Nat, n \in good PROVE n + 1 \in good
  <2>1. PICK g : Rec(Level(n), g)
    BY <1>5
  <2> DEFINE h == [s \in Level(n + 1) |-> IF s \in Level(n) THEN g[s] ELSE Step(g, s)]
  <2>2. \A s \in Level(n + 1) : s # {} => s \ {Max(s)} \in Level(n)
    <3>1. TAKE s \in Level(n + 1)
    <3>2. HAVE s # {}
    <3>3. Max(s) \in s /\ (\A i \in s : i <= Max(s)) /\ s \subseteq 1..N
      BY <1>2, <3>2
    <3>4. \A i \in s \ {Max(s)} : i <= n
      <4>1. TAKE i \in s \ {Max(s)}
      <4> DEFINE m == Max(s)
      <4>2. m \in 1..N /\ i \in 1..N /\ i <= m /\ i # m /\ m <= n + 1
        BY <3>3
      <4> HIDE DEF m
      <4> QED
        BY <4>2, <1>1
    <3> QED
      BY <3>3, <3>4
  <2>3. Level(n) \subseteq Level(n + 1)
    BY <1>1
  <2>4. \A s \in Level(n) : h[s] = g[s]
    BY <2>3
  <2>5. \A s \in Level(n) : g[s] = Step(g, s)
    BY <2>1
  <2>6. \A s \in Level(n + 1) : s # {} => seq[Max(s)] \in D
    BY <1>3
  <2>7. \A s \in Level(n) : g[s] \in V
    BY <2>1
  <2> HIDE DEF Level
  <2>8. \A s \in Level(n + 1) : h[s] = Step(g, s)
    BY <2>5
  <2>9. \A s \in Level(n + 1) : Step(g, s) \in V
    BY <2>2, <2>6, <2>7
  <2>10. \A s \in Level(n + 1) : s # {} => h[s \ {Max(s)}] = g[s \ {Max(s)}]
    BY <2>2, <2>4
  <2> HIDE DEF h
  <2>11. \A s \in Level(n + 1) : Step(g, s) = Step(h, s)
    BY <2>10
  <2>12. h = [s \in Level(n + 1) |-> h[s]]
    BY DEF h
  <2>13. h = [s \in Level(n + 1) |-> Step(h, s)]
    BY <2>8, <2>11, <2>12
  <2>14. h \in [Level(n + 1) -> V]
    BY <2>8, <2>9, <2>12
  <2> HIDE DEF Step
  <2>15. \E k : Rec(Level(n + 1), k)
    BY <2>13, <2>14
  <2> HIDE DEF Rec
  <2> QED
    BY <2>15
<1>6. N \in good
  <2> HIDE DEF good
  <2>1. Nat \subseteq good
    BY <1>4, <1>5, NatFromZero
  <2> QED
    BY <2>1, <1>1
<1>7. Level(N) = Places
  BY <1>1
<1>8. \E h : Rec(Places, h)
  BY <1>6, <1>7
<1> QED
  BY <1>8 DEF Folding, N

(* The prefixes are what matters.                                          *)
LEMMA PrefixOfPlaces ==
    ASSUME NEW i \in Nat \ {0}
    PROVE  1..i # {} /\ Max(1..i) = i /\ (1..i) \ {i} = 1..(i - 1)
<1>1. 1..i \in SUBSET (1..i) /\ i \in 1..i
  OBVIOUS
<1>2. Max(1..i) \in 1..i /\ \A j \in 1..i : j <= Max(1..i)
  BY <1>1, MaxIsGreatest
<1> DEFINE m == Max(1..i)
<1>3. m \in 1..i /\ i <= m
  BY <1>1, <1>2
<1> HIDE DEF m
<1>4. m = i
  BY <1>3
<1> QED
  BY <1>4 DEF m

(* Every element of a set that is listed is in it.                         *)
LEMMA ListedOnce ==
    ASSUME NEW S, IsFiniteSet(S)
    PROVE  SetToSeq(S) \in Seq(S)
<1> DEFINE N == Cardinality(S)
<1>1. N \in Nat /\ ExistsBijection(1..N, S)
  BY FS_CardinalityType
<1>2. PICK f \in Bijection(1..N, S) : TRUE
  BY <1>1 DEF ExistsBijection
<1>3. f \in [1..N -> S] /\ IsInjective(f)
  BY <1>2 DEF Bijection, Injection, IsInjective
<1>4. SetToSeq(S) \in [1..N -> S]
  BY <1>3 DEF SetToSeq
<1> HIDE DEF N
<1> QED
  BY <1>1, <1>4

(* What holds of the first prefix, and of every next one, holds of all.    *)
LEMMA EveryPrefix ==
    ASSUME NEW N \in Nat, NEW T, 0 \in T, \A i \in 1..N : i - 1 \in T => i \in T
    PROVE  0..N \subseteq T
<1> DEFINE U == { i \in Nat : i <= N => i \in T }
<1>1. 0 \in U
  OBVIOUS
<1>2. ASSUME NEW i \in Nat, i \in U PROVE i + 1 \in U
  <2>1. CASE i + 1 <= N
    <3>1. i \in T /\ i + 1 \in 1..N /\ (i + 1) - 1 = i
      BY <1>2, <2>1
    <3> QED
      BY <3>1
  <2> QED
    BY <2>1
<1>3. Nat \subseteq U
  <2> HIDE DEF U
  <2> QED
    BY <1>1, <1>2, NatFromZero
<1> QED
  BY <1>3

(* A fold over places computes prefix by prefix.                           *)
Marching(o, base, seq, a) ==
    /\ a[0] = base
    /\ \A i \in 1..Len(seq) : a[i] = o[a[i - 1], seq[i]]

Solves(V, o, base, seq, g) ==
    /\ g[{}] = base
    /\ \A s \in SUBSET (1..Len(seq)) :
         s # {} /\ g[s \ {Max(s)}] \in V => g[s] = o[g[s \ {Max(s)}], seq[Max(s)]]

ValuesAlong(seq, g) == [i \in 0..Len(seq) |-> g[1..i]]

LEMMA FoldsMarch ==
    ASSUME NEW V, NEW D, NEW o \in [V \X D -> V], NEW base \in V, NEW seq \in Seq(D), NEW g,
           Solves(V, o, base, seq, g), NEW a, a = ValuesAlong(seq, g)
    PROVE  a \in [0..Len(seq) -> V] /\ Marching(o, base, seq, a)
<1> DEFINE N == Len(seq)
           T == { i \in 0..N : a[i] \in V /\ (i > 0 => a[i] = o[a[i - 1], seq[i]]) }
<1>1. N \in Nat /\ DOMAIN seq = 1..N
  OBVIOUS
<1>2. a[0] = base
  <2>1. 1..0 = {} /\ 0 \in 0..N
    BY <1>1
  <2> QED
    BY <2>1 DEF Solves, ValuesAlong
<1>3. ASSUME NEW i \in 1..N, i - 1 \in T PROVE i \in T
  <2>1. i \in Nat \ {0} /\ i - 1 \in 0..N /\ i \in 0..N /\ 1..i \in SUBSET (1..N)
    BY <1>1
  <2>2. 1..i # {} /\ Max(1..i) = i /\ (1..i) \ {i} = 1..(i - 1)
    BY <2>1, PrefixOfPlaces
  <2>3. a[i] = g[1..i] /\ a[i - 1] = g[1..(i - 1)] /\ a[i - 1] \in V
    BY <1>3, <2>1 DEF ValuesAlong
  <2>4. g[1..i] = o[g[1..(i - 1)], seq[i]]
    BY <2>1, <2>2, <2>3 DEF Solves
  <2>5. seq[i] \in D
    BY <1>1
  <2>6. o[a[i - 1], seq[i]] \in V
    BY <2>3, <2>5
  <2> QED
    BY <2>1, <2>3, <2>4, <2>6
<1>4. 0..N \subseteq T
  <2>1. 0 \in T
    BY <1>1, <1>2
  <2> HIDE DEF T
  <2> QED
    BY <1>1, <1>3, <2>1, EveryPrefix
<1>5. \A i \in 0..N : a[i] \in V
  BY <1>4
<1>6. \A i \in 1..N : a[i] = o[a[i - 1], seq[i]]
  <2>1. TAKE i \in 1..N
  <2>2. i \in 0..N /\ i > 0
    BY <1>1
  <2>3. i \in T
    <3> HIDE DEF T
    <3> QED
      BY <1>4, <2>2
  <2> QED
    BY <2>2, <2>3
<1> QED
  BY <1>2, <1>5, <1>6 DEF Marching, ValuesAlong

(* A fold of an operator that keeps a set, as its folding solves it.       *)
LEMMA FoldingTyped ==
    ASSUME NEW V, NEW D, NEW o \in [V \X D -> V], NEW base \in V, NEW seq \in Seq(D),
           NEW h \in [SUBSET (1..Len(seq)) -> V], Folding(o, base, seq, h)
    PROVE  /\ h[{}] = base
           /\ \A s \in SUBSET (1..Len(seq)) : s # {} =>
                /\ h[s] = o[h[s \ {Max(s)}], seq[Max(s)]]
                /\ h[s \ {Max(s)}] \in V /\ seq[Max(s)] \in D
<1> DEFINE N == Len(seq)
<1>1. N \in Nat /\ DOMAIN seq = 1..N
  OBVIOUS
<1>2. h[{}] = base
  <2>1. {} \in SUBSET (1..N)
    OBVIOUS
  <2> QED
    BY <2>1 DEF Folding
<1>3. ASSUME NEW s \in SUBSET (1..N), s # {}
      PROVE  /\ h[s] = o[h[s \ {Max(s)}], seq[Max(s)]]
             /\ h[s \ {Max(s)}] \in V /\ seq[Max(s)] \in D
  <2> DEFINE m == Max(s)
             r == s \ {m}
  <2>1. m \in 1..N
    BY <1>1, <1>3, MaxIsGreatest
  <2>2. h[s] = o[h[r], seq[m]]
    BY <1>3 DEF Folding
  <2> HIDE DEF m
  <2>3. r \in SUBSET (1..N) /\ seq[m] \in D
    BY <2>1
  <2> HIDE DEF r
  <2>4. h[r] \in V
    BY <2>3
  <2> QED
    BY <2>2, <2>3, <2>4 DEF m, r
<1> QED
  BY <1>2, <1>3

(* What holds of a subset once it holds of all smaller ones holds of all.  *)
LEMMA EverySubset ==
    ASSUME NEW S, IsFiniteSet(S), NEW T,
           \A s \in SUBSET S : (\A r \in SUBSET s : r # s => r \in T) => s \in T
    PROVE  SUBSET S \subseteq T
<1> DEFINE good == { n \in Nat : \A s \in SUBSET S : Cardinality(s) <= n => s \in T }
<1>1. \A s \in SUBSET S : IsFiniteSet(s) /\ Cardinality(s) \in Nat
  BY FS_Subset, FS_CardinalityType
<1>2. \A s \in SUBSET S : \A r \in SUBSET s : r # s => Cardinality(r) < Cardinality(s)
  <2>1. TAKE s \in SUBSET S
  <2>2. TAKE r \in SUBSET s
  <2>3. HAVE r # s
  <2>4. r \in SUBSET S
    OBVIOUS
  <2>5. Cardinality(r) <= Cardinality(s) /\ Cardinality(r) # Cardinality(s)
    BY <1>1, <2>3, FS_Subset
  <2>6. Cardinality(r) \in Nat /\ Cardinality(s) \in Nat
    BY <1>1, <2>4
  <2> QED
    BY <2>5, <2>6
<1>3. 0 \in good
  <2>1. ASSUME NEW s \in SUBSET S, Cardinality(s) <= 0 PROVE s \in T
    <3>1. s = {}
      BY <1>1, <2>1, FS_EmptySet
    <3> QED
      BY <3>1
  <2> QED
    BY <2>1
<1>4. ASSUME NEW n \in Nat, n \in good PROVE n + 1 \in good
  <2>1. ASSUME NEW s \in SUBSET S, Cardinality(s) <= n + 1 PROVE s \in T
    <3>1. ASSUME NEW r \in SUBSET s, r # s PROVE r \in T
      <4>1. r \in SUBSET S /\ Cardinality(r) < Cardinality(s)
        BY <1>2, <3>1
      <4>2. Cardinality(r) \in Nat /\ Cardinality(s) \in Nat
        BY <1>1, <4>1
      <4>3. Cardinality(r) <= n
        BY <2>1, <4>1, <4>2
      <4> QED
        BY <1>4, <4>1, <4>3
    <3> QED
      BY <3>1
  <2> QED
    BY <2>1
<1>5. Nat \subseteq good
  <2> HIDE DEF good
  <2> QED
    BY <1>3, <1>4, NatFromZero
<1>6. ASSUME NEW s \in SUBSET S PROVE s \in T
  <2>1. Cardinality(s) \in good /\ Cardinality(s) <= Cardinality(s)
    BY <1>1, <1>5
  <2> QED
    BY <2>1
<1> QED
  BY <1>6

(* Two functions with the same values have the same sum.                   *)
LEMMA SumsAgree ==
    ASSUME NEW S, IsFiniteSet(S), NEW R, IsFiniteSet(R), S \subseteq R,
           NEW f, NEW g, \A x \in S : f[x] = g[x], NEW hf, NEW hg,
           SumsUp(f, S, hf), SumsUp(g, R, hg)
    PROVE  \A s \in SUBSET S : hf[s] = hg[s]
<1> DEFINE T == { s \in SUBSET S : hf[s] = hg[s] }
<1>1. ASSUME NEW s \in SUBSET S, \A r \in SUBSET s : r # s => r \in T PROVE s \in T
  <2>1. s \in SUBSET R
    OBVIOUS
  <2>2. CASE s = {}
    BY <2>1, <2>2 DEF SumsUp
  <2>3. CASE s # {}
    <3> DEFINE x == Chosen(s)
    <3>1. x \in s
      BY <2>3 DEF Chosen
    <3>2. hf[s] = f[x] + hf[s \ {x}] /\ hg[s] = g[x] + hg[s \ {x}]
      BY <2>1, <2>3 DEF SumsUp
    <3> HIDE DEF x
    <3>3. s \ {x} \in T
      BY <1>1, <3>1
    <3> QED
      BY <3>1, <3>2, <3>3
  <2> QED
    BY <2>2, <2>3
<1>2. SUBSET S \subseteq T
  <2> HIDE DEF T
  <2> QED
    BY <1>1, EverySubset
<1> QED
  BY <1>2

LEMMA SumOfTheSame ==
    ASSUME NEW S, IsFiniteSet(S), NEW f, NEW g, \A x \in S : f[x] = g[x]
    PROVE  SumFunctionOnSet(f, S) = SumFunctionOnSet(g, S)
<1>1. PICK hf : SumFunctionOnSet(f, S) = hf[S] /\ SumsUp(f, S, hf)
  BY SumRecursion
<1>2. PICK hg : SumFunctionOnSet(g, S) = hg[S] /\ SumsUp(g, S, hg)
  BY SumRecursion
<1>3. \A s \in SUBSET S : hf[s] = hg[s]
  BY <1>1, <1>2, SumsAgree
<1> QED
  BY <1>1, <1>2, <1>3

(* A sum is that of all but one element, and that one: whichever it is.    *)
LEMMA SumOfOneMore ==
    ASSUME NEW S, IsFiniteSet(S), NEW f, \A x \in S : f[x] \in Int, NEW b \in S
    PROVE  /\ SumFunctionOnSet(f, S) \in Int
           /\ SumFunctionOnSet(f, S \ {b}) \in Int
           /\ SumFunctionOnSet(f, S) = f[b] + SumFunctionOnSet(f, S \ {b})
<1>1. PICK h : SumFunctionOnSet(f, S) = h[S] /\ SumsUp(f, S, h)
  BY SumRecursion
<1> DEFINE T == { s \in SUBSET S :
                    h[s] \in Int /\ \A x \in s : h[s] = f[x] + h[s \ {x}] }
<1>2. ASSUME NEW s \in SUBSET S, \A r \in SUBSET s : r # s => r \in T PROVE s \in T
  <2>1. CASE s = {}
    BY <1>1, <2>1 DEF SumsUp
  <2>2. CASE s # {}
    <3> DEFINE c == Chosen(s)
    <3>1. c \in s
      BY <2>2 DEF Chosen
    <3>2. h[s] = f[c] + h[s \ {c}]
      BY <1>1, <2>2 DEF SumsUp
    <3> HIDE DEF c
    <3>3. s \ {c} \in T
      BY <1>2, <3>1
    <3>4. f[c] \in Int /\ h[s \ {c}] \in Int /\ h[s] \in Int
      BY <3>1, <3>2, <3>3
    <3>5. ASSUME NEW x \in s PROVE h[s] = f[x] + h[s \ {x}]
      <4>1. CASE x = c
        BY <3>2, <4>1
      <4>2. CASE x # c
        <5>1. x \in s \ {c} /\ c \in s \ {x} /\ s \ {x} \in SUBSET s /\ s \ {x} # s
          BY <3>1, <4>2
        <5>2. s \ {x} \in T
          BY <1>2, <5>1
        <5>3. h[s \ {c}] = f[x] + h[(s \ {c}) \ {x}]
          BY <3>3, <5>1
        <5>4. h[s \ {x}] = f[c] + h[(s \ {x}) \ {c}]
          BY <5>1, <5>2
        <5>5. (s \ {c}) \ {x} = (s \ {x}) \ {c}
          OBVIOUS
        <5>6. (s \ {x}) \ {c} \in SUBSET s /\ (s \ {x}) \ {c} # s
          BY <5>1
        <5>7. h[(s \ {x}) \ {c}] \in Int /\ f[x] \in Int
          BY <1>2, <5>6
        <5> DEFINE rest == h[(s \ {x}) \ {c}]
        <5>8. h[s \ {c}] = f[x] + rest /\ h[s \ {x}] = f[c] + rest /\ rest \in Int
          BY <5>3, <5>4, <5>5, <5>7
        <5> HIDE DEF rest
        <5> QED
          BY <3>2, <3>4, <5>7, <5>8
      <4> QED
        BY <4>1, <4>2
    <3> QED
      BY <3>4, <3>5
  <2> QED
    BY <2>1, <2>2
<1>3. SUBSET S \subseteq T
  <2> HIDE DEF T
  <2> QED
    BY <1>2, EverySubset
<1>4. S \in T /\ S \ {b} \in T
  <2> HIDE DEF T
  <2>1. S \in SUBSET S /\ S \ {b} \in SUBSET S
    OBVIOUS
  <2> QED
    BY <1>3, <2>1
<1>5. h[S] \in Int /\ h[S \ {b}] \in Int /\ h[S] = f[b] + h[S \ {b}]
  BY <1>4
<1>6. SumFunctionOnSet(f, S \ {b}) = h[S \ {b}]
  <2>1. IsFiniteSet(S \ {b}) /\ S \ {b} \subseteq S
    BY FS_RemoveElement
  <2>2. PICK k : SumFunctionOnSet(f, S \ {b}) = k[S \ {b}] /\ SumsUp(f, S \ {b}, k)
    BY <2>1, SumRecursion
  <2>3. \A s \in SUBSET (S \ {b}) : k[s] = h[s]
    BY <1>1, <2>1, <2>2, SumsAgree
  <2> QED
    BY <2>2, <2>3
<1> QED
  BY <1>1, <1>5, <1>6

LEMMA SumOfNothing ==
    ASSUME NEW f
    PROVE  SumFunctionOnSet(f, {}) = 0
<1>1. IsFiniteSet({})
  BY FS_EmptySet
<1>2. PICK h : SumFunctionOnSet(f, {}) = h[{}] /\ SumsUp(f, {}, h)
  BY <1>1, SumRecursion
<1> QED
  BY <1>2 DEF SumsUp

(* The sum of integers is one.                                             *)
LEMMA SumIsAnInteger ==
    ASSUME NEW S, IsFiniteSet(S), NEW f, \A x \in S : f[x] \in Int
    PROVE  SumFunctionOnSet(f, S) \in Int
<1>1. CASE S = {}
  BY <1>1, SumOfNothing
<1>2. CASE S # {}
  <2>1. PICK b \in S : TRUE
    BY <1>2
  <2> QED
    BY <2>1, SumOfOneMore
<1> QED
  BY <1>1, <1>2

(* The sum over two sets without a common element.                         *)
LEMMA SumOfUnion ==
    ASSUME NEW A, IsFiniteSet(A), NEW B, IsFiniteSet(B), A \cap B = {},
           NEW f, \A x \in A \cup B : f[x] \in Int
    PROVE  SumFunctionOnSet(f, A \cup B) = SumFunctionOnSet(f, A) + SumFunctionOnSet(f, B)
<1> DEFINE T == { s \in SUBSET B :
        SumFunctionOnSet(f, A \cup s) = SumFunctionOnSet(f, A) + SumFunctionOnSet(f, s) }
<1>1. SumFunctionOnSet(f, A) \in Int
  BY SumIsAnInteger
<1>2. ASSUME NEW s \in SUBSET B, \A r \in SUBSET s : r # s => r \in T PROVE s \in T
  <2>1. CASE s = {}
    <3>1. A \cup s = A
      BY <2>1
    <3>2. SumFunctionOnSet(f, s) = 0
      BY <2>1, SumOfNothing
    <3>3. SumFunctionOnSet(f, A) = SumFunctionOnSet(f, A) + 0
      BY <1>1
    <3> QED
      BY <3>1, <3>2, <3>3
  <2>2. CASE s # {}
    <3>1. PICK b \in s : TRUE
      BY <2>2
    <3>2. IsFiniteSet(s) /\ IsFiniteSet(A \cup s)
      BY FS_Subset, FS_Union
    <3>3. b \in A \cup s /\ (A \cup s) \ {b} = A \cup (s \ {b}) /\ f[b] \in Int
      OBVIOUS
    <3>4. /\ SumFunctionOnSet(f, s \ {b}) \in Int
          /\ SumFunctionOnSet(f, s) = f[b] + SumFunctionOnSet(f, s \ {b})
      BY <3>2, SumOfOneMore
    <3>5. SumFunctionOnSet(f, A \cup s) = f[b] + SumFunctionOnSet(f, (A \cup s) \ {b})
      BY <3>2, <3>3, SumOfOneMore
    <3>6. s \ {b} \in T
      BY <1>2
    <3>7. SumFunctionOnSet(f, A \cup (s \ {b}))
             = SumFunctionOnSet(f, A) + SumFunctionOnSet(f, s \ {b})
      BY <3>6
    <3>8. SumFunctionOnSet(f, A \cup s) = f[b] + SumFunctionOnSet(f, A \cup (s \ {b}))
      BY <3>3, <3>5
    <3> HIDE DEF T
    <3>9. SumFunctionOnSet(f, A \cup s) = SumFunctionOnSet(f, A) + SumFunctionOnSet(f, s)
      BY <1>1, <3>3, <3>4, <3>7, <3>8
    <3> QED
      BY <3>9 DEF T
  <2> QED
    BY <2>1, <2>2
<1>3. SUBSET B \subseteq T
  <2> HIDE DEF T
  <2> QED
    BY <1>2, EverySubset
<1> QED
  BY <1>3

(* Summands may be numbered anew.                                          *)
LEMMA SumRenumbered ==
    ASSUME NEW S, IsFiniteSet(S), NEW R, NEW p \in Bijection(S, R),
           NEW f, NEW g, \A x \in S : f[x] \in Int /\ g[p[x]] = f[x]
    PROVE  SumFunctionOnSet(f, S) = SumFunctionOnSet(g, R)
<1> DEFINE Image(s) == { p[x] : x \in s }
           T == { s \in SUBSET S : SumFunctionOnSet(f, s) = SumFunctionOnSet(g, Image(s)) }
<1>1. \A x, y \in S : p[x] = p[y] => x = y
  BY DEF Bijection, Injection, IsInjective
<1>2. Image(S) = R
  BY DEF Bijection, Surjection
<1>3. \A s \in SUBSET S : IsFiniteSet(s) /\ IsFiniteSet(Image(s))
  <2>1. TAKE s \in SUBSET S
  <2>2. [x \in s |-> p[x]] \in Surjection(s, Image(s))
    BY DEF Surjection
  <2> HIDE DEF Image
  <2>3. IsFiniteSet(s)
    BY FS_Subset
  <2> QED
    BY <2>2, <2>3, FS_Surjection
<1>4. ASSUME NEW s \in SUBSET S, \A r \in SUBSET s : r # s => r \in T PROVE s \in T
  <2>1. CASE s = {}
    <3>1. Image(s) = {}
      BY <2>1
    <3>2. SumFunctionOnSet(f, s) = 0 /\ SumFunctionOnSet(g, Image(s)) = 0
      <4> HIDE DEF Image
      <4> QED
        BY <2>1, <3>1, SumOfNothing
    <3> QED
      BY <3>2
  <2>2. CASE s # {}
    <3>1. PICK b \in s : TRUE
      BY <2>2
    <3>2. p[b] \in Image(s) /\ Image(s \ {b}) = Image(s) \ {p[b]}
      BY <1>1
    <3>3. \A y \in Image(s) : g[y] \in Int
      OBVIOUS
    <3>4. s \ {b} \in T
      BY <1>4
    <3>5. SumFunctionOnSet(f, s \ {b}) = SumFunctionOnSet(g, Image(s) \ {p[b]})
      BY <3>2, <3>4
    <3> HIDE DEF Image, T
    <3>6. SumFunctionOnSet(f, s) = f[b] + SumFunctionOnSet(f, s \ {b})
      BY <1>3, SumOfOneMore
    <3>7. SumFunctionOnSet(g, Image(s)) = g[p[b]] + SumFunctionOnSet(g, Image(s) \ {p[b]})
      BY <1>3, <3>2, <3>3, SumOfOneMore
    <3>8. g[p[b]] = f[b]
      OBVIOUS
    <3> QED
      BY <3>5, <3>6, <3>7, <3>8 DEF T
  <2> QED
    BY <2>1, <2>2
<1>5. S \in T
  <2> HIDE DEF T
  <2>1. SUBSET S \subseteq T
    BY <1>4, EverySubset
  <2> QED
    BY <2>1
<1> QED
  BY <1>2, <1>5

(* The sum of sums, and of multiples.                                      *)
LEMMA SumOfSums ==
    ASSUME NEW S, IsFiniteSet(S), NEW f, NEW g, NEW k,
           \A x \in S : f[x] \in Int /\ g[x] \in Int /\ k[x] = f[x] + g[x]
    PROVE  SumFunctionOnSet(k, S) = SumFunctionOnSet(f, S) + SumFunctionOnSet(g, S)
<1> DEFINE T == { s \in SUBSET S : SumFunctionOnSet(k, s)
                      = SumFunctionOnSet(f, s) + SumFunctionOnSet(g, s) }
<1>1. ASSUME NEW s \in SUBSET S, \A r \in SUBSET s : r # s => r \in T PROVE s \in T
  <2>1. CASE s = {}
    BY <2>1, SumOfNothing
  <2>2. CASE s # {}
    <3>1. PICK b \in s : TRUE
      BY <2>2
    <3>2. IsFiniteSet(s) /\ s \ {b} \in T
      BY <1>1, FS_Subset
    <3>3. \A x \in s : f[x] \in Int /\ g[x] \in Int /\ k[x] \in Int
      OBVIOUS
    <3>4. /\ SumFunctionOnSet(f, s \ {b}) \in Int
          /\ SumFunctionOnSet(f, s) = f[b] + SumFunctionOnSet(f, s \ {b})
      BY <3>2, <3>3, SumOfOneMore
    <3>5. /\ SumFunctionOnSet(g, s \ {b}) \in Int
          /\ SumFunctionOnSet(g, s) = g[b] + SumFunctionOnSet(g, s \ {b})
      BY <3>2, <3>3, SumOfOneMore
    <3>6. SumFunctionOnSet(k, s) = k[b] + SumFunctionOnSet(k, s \ {b})
      BY <3>2, <3>3, SumOfOneMore
    <3>7. k[b] = f[b] + g[b] /\ f[b] \in Int /\ g[b] \in Int
      OBVIOUS
    <3>8. SumFunctionOnSet(k, s \ {b})
             = SumFunctionOnSet(f, s \ {b}) + SumFunctionOnSet(g, s \ {b})
      BY <3>2
    <3> HIDE DEF T
    <3>9. SumFunctionOnSet(k, s) = SumFunctionOnSet(f, s) + SumFunctionOnSet(g, s)
      BY <3>4, <3>5, <3>6, <3>7, <3>8
    <3> QED
      BY <3>9 DEF T
  <2> QED
    BY <2>1, <2>2
<1>2. S \in T
  <2> HIDE DEF T
  <2>1. SUBSET S \subseteq T
    BY <1>1, EverySubset
  <2> QED
    BY <2>1
<1> QED
  BY <1>2

(* What is in a set and no less than any of it is its greatest.            *)
LEMMA GreatestIsMax ==
    ASSUME NEW S \in SUBSET Int, NEW d \in S, \A x \in S : d >= x
    PROVE  Max(S) = d
<1>1. \A y \in S : (\A x \in S : y >= x) => y = d
  BY d \in Int
<1>2. (CHOOSE y \in S : \A x \in S : y >= x) = d
  BY <1>1
<1> QED
  BY <1>2 DEF Max

(* InOrder lists every element of a finite set once, the lesser first.     *)
LEMMA InOrderFacts ==
    ASSUME NEW S \in SUBSET Int, IsFiniteSet(S)
    PROVE  /\ Cardinality(S) \in Nat
           /\ InOrder(S) \in [1..Cardinality(S) -> S]
           /\ \A i, j \in 1..Cardinality(S) : i < j => InOrder(S)[i] < InOrder(S)[j]
           /\ \A x \in S : \E i \in 1..Cardinality(S) : InOrder(S)[i] = x
<1> DEFINE Below(x) == { y \in S : y < x }
           n == Cardinality(S)
           Listed(i) == CHOOSE x \in S : Cardinality(Below(x)) = i - 1
<1>1. n \in Nat
  BY FS_CardinalityType
<1>2. \A x \in S : IsFiniteSet(Below(x)) /\ Cardinality(Below(x)) \in 0..(n - 1)
  <2>1. TAKE x \in S
  <2>2. Below(x) \in SUBSET S /\ Below(x) # S
    <3>1. x \notin Below(x)
      OBVIOUS
    <3> QED
      BY <3>1
  <2> HIDE DEF Below
  <2>3. IsFiniteSet(Below(x)) /\ Cardinality(Below(x)) <= n /\ Cardinality(Below(x)) # n
    BY <2>2, FS_Subset
  <2>4. Cardinality(Below(x)) \in Nat
    BY <2>3, FS_CardinalityType
  <2> QED
    BY <1>1, <2>3, <2>4
<1>3. \A x, y \in S : x < y => Cardinality(Below(x)) < Cardinality(Below(y))
  <2>1. TAKE x, y \in S
  <2>2. HAVE x < y
  <2>3. Below(x) \in SUBSET Below(y)
    <3>1. \A z \in S : z < x => z < y
      BY <2>2
    <3> QED
      BY <3>1
  <2>4. Below(x) # Below(y)
    <3>1. x \in Below(y) /\ x \notin Below(x)
      BY <2>2
    <3> QED
      BY <3>1
  <2> HIDE DEF Below
  <2>5. Cardinality(Below(x)) <= Cardinality(Below(y))
        /\ Cardinality(Below(x)) # Cardinality(Below(y))
    BY <1>2, <2>3, <2>4, FS_Subset
  <2>6. Cardinality(Below(x)) \in Int /\ Cardinality(Below(y)) \in Int
    BY <1>1, <1>2
  <2> QED
    BY <2>5, <2>6
<1> HIDE DEF Below
<1>4. \A x, y \in S : Cardinality(Below(x)) = Cardinality(Below(y)) => x = y
  <2>1. TAKE x, y \in S
  <2>2. HAVE Cardinality(Below(x)) = Cardinality(Below(y))
  <2>3. ~ (x < y) /\ ~ (y < x)
    <3>1. Cardinality(Below(x)) \in Int /\ Cardinality(Below(y)) \in Int
      BY <1>1, <1>2
    <3> QED
      BY <1>3, <2>2, <3>1
  <2> QED
    BY <2>3
<1>5. \A i \in 1..n : \E x \in S : Cardinality(Below(x)) = i - 1
  <2> DEFINE rank == [x \in S |-> Cardinality(Below(x))]
  <2>1. rank \in Injection(S, 0..(n - 1))
    BY <1>2, <1>4 DEF Injection, IsInjective
  <2>2. IsFiniteSet(0..(n - 1)) /\ Cardinality(0..(n - 1)) = n
    BY <1>1, FS_Interval
  <2>3. rank \in Surjection(S, 0..(n - 1))
    <3> HIDE DEF rank
    <3> QED
      BY <2>1, <2>2, FS_Injection
  <2>4. \A r \in 0..(n - 1) : \E x \in S : rank[x] = r
    BY <2>3 DEF Surjection
  <2>5. TAKE i \in 1..n
  <2>6. i - 1 \in 0..(n - 1)
    BY <1>1
  <2> QED
    BY <2>4, <2>6
<1>6. \A i \in 1..n : Listed(i) \in S /\ Cardinality(Below(Listed(i))) = i - 1
  BY <1>5
<1>7. InOrder(S) = [i \in 1..n |-> Listed(i)]
  BY DEF InOrder, Below
<1> HIDE DEF Listed
<1>8. \A i, j \in 1..n : i < j => Listed(i) < Listed(j)
  <2>1. TAKE i, j \in 1..n
  <2>2. HAVE i < j
  <2> DEFINE x == Listed(i)
             y == Listed(j)
  <2>3. x \in S /\ y \in S /\ Cardinality(Below(x)) = i - 1 /\ Cardinality(Below(y)) = j - 1
    BY <1>6
  <2> HIDE DEF x, y
  <2>4. ~ (y < x) /\ x # y
    BY <1>1, <1>3, <2>2, <2>3
  <2>5. x < y
    BY <2>3, <2>4
  <2> QED
    BY <2>5 DEF x, y
<1>9. \A x \in S : \E i \in 1..n : Listed(i) = x
  <2>1. TAKE x \in S
  <2> DEFINE i == Cardinality(Below(x)) + 1
  <2>2. i \in 1..n /\ i - 1 = Cardinality(Below(x))
    BY <1>1, <1>2
  <2> HIDE DEF i
  <2>3. Listed(i) = x
    BY <1>4, <1>6, <2>2
  <2> QED
    BY <2>2, <2>3
<1> HIDE DEF n
<1>10. InOrder(S) \in [1..n -> S]
  BY <1>6, <1>7
<1> QED
  BY <1>1, <1>7, <1>8, <1>9, <1>10 DEF n

LEMMA ListOf ==
    ASSUME NEW T, NEW n \in Nat, NEW s \in [1..n -> T]
    PROVE  s \in Seq(T) /\ Len(s) = n
  OBVIOUS

LEMMA ListsOfPart ==
    ASSUME NEW T, NEW R, T \subseteq R, NEW s \in Seq(T)
    PROVE  s \in Seq(R)
  OBVIOUS

LEMMA ConcatenationAssociates ==
    ASSUME NEW T, NEW s \in Seq(T), NEW t \in Seq(T), NEW u \in Seq(T)
    PROVE  (s \o t) \o u = s \o (t \o u) /\ s \o t \in Seq(T)
  OBVIOUS

LEMMA AppendedAsList ==
    ASSUME NEW T, NEW s \in Seq(T), NEW x \in T, NEW t, t = [k \in 1..1 |-> x]
    PROVE  Append(s, x) = s \o t
<1>1. t = <<x>>
  OBVIOUS
<1> QED
  BY <1>1

(* One list after another.                                                 *)
LEMMA Concatenated ==
    ASSUME NEW T, NEW s \in Seq(T), NEW t \in Seq(T), NEW u, u = s \o t
    PROVE  /\ u \in Seq(T) /\ Len(s) \in Nat /\ Len(t) \in Nat
           /\ Len(u) = Len(s) + Len(t) /\ DOMAIN u = 1..(Len(s) + Len(t))
           /\ \A i \in 1..Len(s) : u[i] = s[i]
           /\ \A i \in 1..Len(t) : u[Len(s) + i] = t[i]
           /\ \A i \in DOMAIN u : i \notin 1..Len(s) => i - Len(s) \in 1..Len(t) /\ u[i] = t[i - Len(s)]
  OBVIOUS

LEMMA Appended ==
    ASSUME NEW T, NEW s \in Seq(T), NEW x \in T, NEW u, u = Append(s, x)
    PROVE  /\ u \in Seq(T) /\ Len(s) \in Nat
           /\ Len(u) = Len(s) + 1 /\ DOMAIN u = 1..(Len(s) + 1)
           /\ \A i \in 1..Len(s) : u[i] = s[i]
           /\ u[Len(s) + 1] = x
  OBVIOUS
=============================================================================
