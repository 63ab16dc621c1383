--------------------------- MODULE ComponentProofs --------------------------
(***************************************************************************)
(* Theorems about the pairing of BestFirst and the back-tests' books, for  *)
(* every value of their constants.                                         *)
(***************************************************************************)
EXTENDS BestFirstMC, MultiBook, Arithmetic

(***************************************************************************)
(* The sorted candidates.                                                  *)
(***************************************************************************)
Triples == Costs \X Left \X Right

PairsOK == edges \in SUBSET Triples /\ IsFiniteSet(edges)

(* Tuples compare as Prior says, one way or the other.                     *)
LEMMA TriplesCompare ==
    \A e, f \in Triples :
        /\ Sooner(f, e) <=> Prior(f, e)
        /\ Prior(f, e) => ~ Prior(e, f)
        /\ e # f => Prior(f, e) \/ Prior(e, f)
        /\ \A g \in Triples : Prior(g, f) /\ Prior(f, e) => Prior(g, e)
<1>1. \A e \in Triples : /\ e = <<e[1], e[2], e[3]>>
                         /\ e[1] \in Int /\ e[2] \in Int /\ e[3] \in Int
  BY BestFirstAssumption DEF Triples
<1>2. TAKE e, f \in Triples
<1>3. Sooner(f, e) <=> Prior(f, e)
  <2>1. \A i \in 1..3 : i = 1 \/ i = 2 \/ i = 3
    OBVIOUS
  <2>2. 1 \in 1..3 /\ 2 \in 1..3 /\ 3 \in 1..3
    OBVIOUS
  <2>3. /\ \A j \in 1..(1 - 1) : f[j] = e[j]
        /\ (\A j \in 1..(2 - 1) : f[j] = e[j]) <=> f[1] = e[1]
        /\ (\A j \in 1..(3 - 1) : f[j] = e[j]) <=> f[1] = e[1] /\ f[2] = e[2]
    <3>1. 1..(1 - 1) = {} /\ 1..(2 - 1) = {1} /\ 1..(3 - 1) = {1, 2}
      OBVIOUS
    <3> QED
      BY <3>1
  <2>4. Sooner(f, e) <=> \/ f[1] < e[1]
                         \/ f[2] < e[2] /\ f[1] = e[1]
                         \/ f[3] < e[3] /\ f[1] = e[1] /\ f[2] = e[2]
    BY <2>1, <2>2, <2>3 DEF Sooner
  <2> QED
    BY <2>4 DEF Prior
<1>4. Prior(f, e) => ~ Prior(e, f)
  BY <1>1 DEF Prior
<1>5. e # f => Prior(f, e) \/ Prior(e, f)
  <2>1. e[1] = f[1] /\ e[2] = f[2] /\ e[3] = f[3] => e = f
    BY <1>1
  <2> QED
    BY <1>1, <2>1 DEF Prior
<1>6. \A g \in Triples : Prior(g, f) /\ Prior(f, e) => Prior(g, e)
  BY <1>1 DEF Prior
<1> QED
  BY <1>3, <1>4, <1>5, <1>6

(* Sorting lists every candidate once, the earlier first.                  *)
LEMMA SortedFacts ==
    ASSUME NEW S \in SUBSET Triples, IsFiniteSet(S)
    PROVE  /\ Cardinality(S) \in Nat
           /\ Sorted(S) \in [1..Cardinality(S) -> S]
           /\ \A i, j \in 1..Cardinality(S) : i < j => Prior(Sorted(S)[i], Sorted(S)[j])
           /\ \A x \in S : \E i \in 1..Cardinality(S) : Sorted(S)[i] = x
<1> DEFINE Below(x) == { y \in S : Sooner(y, x) }
           n == Cardinality(S)
           Listed(i) == CHOOSE x \in S : Cardinality(Below(x)) = i - 1
<1>0. \A x, y \in S : /\ Sooner(y, x) <=> Prior(y, x)
                      /\ Prior(y, x) => ~ Prior(x, y)
                      /\ x # y => Prior(y, x) \/ Prior(x, y)
                      /\ \A z \in S : Prior(z, y) /\ Prior(y, x) => Prior(z, x)
  BY TriplesCompare
<1>1. n \in Nat
  BY FS_CardinalityType
<1>2. \A x \in S : IsFiniteSet(Below(x)) /\ Cardinality(Below(x)) \in 0..(n - 1)
  <2>1. TAKE x \in S
  <2>2. Below(x) \in SUBSET S /\ Below(x) # S
    <3>1. x \notin Below(x)
      BY <1>0
    <3> QED
      BY <3>1
  <2> HIDE DEF Below
  <2>3. IsFiniteSet(Below(x)) /\ Cardinality(Below(x)) <= n /\ Cardinality(Below(x)) # n
    BY <2>2, FS_Subset
  <2>4. Cardinality(Below(x)) \in Nat
    BY <2>3, FS_CardinalityType
  <2> QED
    BY <1>1, <2>3, <2>4
<1>3. \A x, y \in S : Prior(x, y) => Cardinality(Below(x)) < Cardinality(Below(y))
  <2>1. TAKE x, y \in S
  <2>2. HAVE Prior(x, y)
  <2>3. Below(x) \in SUBSET Below(y)
    BY <1>0, <2>2
  <2>4. Below(x) # Below(y)
    <3>1. x \in Below(y) /\ x \notin Below(x)
      BY <1>0, <2>2
    <3> QED
      BY <3>1
  <2> HIDE DEF Below
  <2>5. Cardinality(Below(x)) <= Cardinality(Below(y))
        /\ Cardinality(Below(x)) # Cardinality(Below(y))
    BY <1>2, <2>3, <2>4, FS_Subset
  <2>6. Cardinality(Below(x)) \in Int /\ Cardinality(Below(y)) \in Int
    BY <1>1, <1>2
  <2> QED
    BY <2>5, <2>6
<1> HIDE DEF Below
<1>4. \A x, y \in S : Cardinality(Below(x)) = Cardinality(Below(y)) => x = y
  <2>1. TAKE x, y \in S
  <2>2. HAVE Cardinality(Below(x)) = Cardinality(Below(y))
  <2>3. ~ Prior(x, y) /\ ~ Prior(y, x)
    <3>1. Cardinality(Below(x)) \in Int /\ Cardinality(Below(y)) \in Int
      BY <1>1, <1>2
    <3> QED
      BY <1>3, <2>2, <3>1
  <2> QED
    BY <1>0, <2>3
<1>5. \A i \in 1..n : \E x \in S : Cardinality(Below(x)) = i - 1
  <2> DEFINE rank == [x \in S |-> Cardinality(Below(x))]
  <2>1. rank \in Injection(S, 0..(n - 1))
    BY <1>2, <1>4 DEF Injection, IsInjective
  <2>2. IsFiniteSet(0..(n - 1)) /\ Cardinality(0..(n - 1)) = n
    BY <1>1, FS_Interval
  <2>3. rank \in Surjection(S, 0..(n - 1))
    <3> HIDE DEF rank
    <3> QED
      BY <2>1, <2>2, FS_Injection
  <2>4. \A r \in 0..(n - 1) : \E x \in S : rank[x] = r
    BY <2>3 DEF Surjection
  <2>5. TAKE i \in 1..n
  <2>6. i - 1 \in 0..(n - 1)
    BY <1>1
  <2> QED
    BY <2>4, <2>6
<1>6. \A i \in 1..n : Listed(i) \in S /\ Cardinality(Below(Listed(i))) = i - 1
  BY <1>5
<1>7. Sorted(S) = [i \in 1..n |-> Listed(i)]
  BY DEF Sorted, Below
<1> HIDE DEF Listed
<1>8. \A i, j \in 1..n : i < j => Prior(Listed(i), Listed(j))
  <2>1. TAKE i, j \in 1..n
  <2>2. HAVE i < j
  <2> DEFINE x == Listed(i)
             y == Listed(j)
  <2>3. x \in S /\ y \in S /\ Cardinality(Below(x)) = i - 1 /\ Cardinality(Below(y)) = j - 1
    BY <1>6
  <2> HIDE DEF x, y
  <2>4. ~ Prior(y, x) /\ x # y
    BY <1>1, <1>3, <2>2, <2>3
  <2>5. Prior(x, y)
    BY <1>0, <2>3, <2>4
  <2> QED
    BY <2>5 DEF x, y
<1>9. \A x \in S : \E i \in 1..n : Listed(i) = x
  <2>1. TAKE x \in S
  <2> DEFINE i == Cardinality(Below(x)) + 1
  <2>2. i \in 1..n /\ i - 1 = Cardinality(Below(x))
    BY <1>1, <1>2
  <2> HIDE DEF i
  <2>3. Listed(i) = x
    BY <1>4, <1>6, <2>2
  <2> QED
    BY <2>2, <2>3
<1> HIDE DEF n
<1>10. Sorted(S) \in [1..n -> S]
  BY <1>6, <1>7
<1> QED
  BY <1>1, <1>7, <1>8, <1>9, <1>10 DEF n

(***************************************************************************)
(* The walk over the list.                                                 *)
(***************************************************************************)
WalkFold(seq, h) ==
    h = [s \in SUBSET DOMAIN seq |->
           IF s = {} THEN {} ELSE TakeIfFree(h[s \ {Max(s)}], seq[Max(s)])]

WalkRun(S, order, a) ==
    /\ a \in [0..Len(order) -> SUBSET S] /\ a[0] = {}
    /\ \A i \in 1..Len(order) : a[i] = TakeIfFree(a[i - 1], order[i])

LEMMA WalkRuns ==
    ASSUME NEW S, NEW order \in Seq(S)
    PROVE  \E a : WalkRun(S, order, a) /\ FoldLeft(TakeIfFree, {}, order) = a[Len(order)]
<1>1. PICK seq \in Seq(S) : seq = order
  OBVIOUS
<1>2. PICK V : V = SUBSET S
  OBVIOUS
<1>3. PICK o : o = [v \in V \X S |-> TakeIfFree(v[1], v[2])]
  OBVIOUS
<1>4. \A v \in V, e \in S : TakeIfFree(v, e) \in V
  BY <1>2 DEF TakeIfFree
<1>5. o \in [V \X S -> V]
  <2>1. \A v \in V \X S : TakeIfFree(v[1], v[2]) \in V
    BY <1>4
  <2> QED
    BY <1>3, <2>1
<1>6. \A v \in V, e \in S : o[v, e] = TakeIfFree(v, e)
  BY <1>3
<1>7. PICK base : base = {}
  OBVIOUS
<1>8. base \in V
  BY <1>2, <1>7
<1>9. Len(seq) \in Nat /\ DOMAIN seq = 1..Len(seq)
  OBVIOUS
<1>10. PICK h \in [SUBSET (1..Len(seq)) -> V] : Folding(o, base, seq, h)
  BY <1>5, <1>8, FoldsExist
<1>11. /\ h[{}] = base
       /\ \A s \in SUBSET (1..Len(seq)) : s # {} =>
            /\ h[s] = o[h[s \ {Max(s)}], seq[Max(s)]]
            /\ h[s \ {Max(s)}] \in V /\ seq[Max(s)] \in S
  BY <1>5, <1>8, <1>10, FoldingTyped
<1>12. \A s \in SUBSET (1..Len(seq)) : s # {} =>
         h[s] = TakeIfFree(h[s \ {Max(s)}], seq[Max(s)])
  BY <1>6, <1>11
<1>13. WalkFold(seq, h)
  <2>1. h = [s \in SUBSET (1..Len(seq)) |-> h[s]]
    OBVIOUS
  <2> QED
    BY <1>7, <1>9, <1>11, <1>12, <2>1 DEF WalkFold
<1>14. PICK g : g = CHOOSE f : WalkFold(seq, f)
  OBVIOUS
<1>15. WalkFold(seq, g)
  BY <1>13, <1>14
<1>16. FoldLeft(TakeIfFree, {}, seq) = g[1..Len(seq)]
  BY <1>9, <1>14 DEF FoldLeft, MapThenFoldSet, WalkFold
<1>17. \A s \in SUBSET (1..Len(seq)) :
         g[s] = IF s = {} THEN base ELSE TakeIfFree(g[s \ {Max(s)}], seq[Max(s)])
  BY <1>7, <1>9, <1>15 DEF WalkFold
<1>18. Solves(V, o, base, seq, g)
  <2>1. g[{}] = base
    BY <1>17
  <2>2. \A s \in SUBSET (1..Len(seq)) : s # {} => seq[Max(s)] \in S
    BY <1>11
  <2>3. \A s \in SUBSET (1..Len(seq)) :
         s # {} /\ g[s \ {Max(s)}] \in V => g[s] = o[g[s \ {Max(s)}], seq[Max(s)]]
    BY <1>6, <1>17, <2>2
  <2> QED
    BY <2>1, <2>3 DEF Solves
<1>19. PICK a : a = ValuesAlong(seq, g)
  OBVIOUS
<1>20. a \in [0..Len(seq) -> V] /\ Marching(o, base, seq, a)
  BY <1>5, <1>8, <1>18, <1>19, FoldsMarch
<1>21. \A i \in 1..Len(seq) : a[i] = TakeIfFree(a[i - 1], seq[i])
  <2>1. TAKE i \in 1..Len(seq)
  <2>2. i - 1 \in 0..Len(seq) /\ seq[i] \in S
    BY <1>9
  <2>3. a[i - 1] \in V
    BY <1>20, <2>2
  <2>4. a[i] = o[a[i - 1], seq[i]]
    BY <1>20, Zenon DEF Marching
  <2> QED
    BY <1>6, <2>2, <2>3, <2>4
<1>22. FoldLeft(TakeIfFree, {}, seq) = a[Len(seq)]
  BY <1>9, <1>16, <1>19 DEF ValuesAlong
<1>23. WalkRun(S, seq, a)
  BY <1>2, <1>7, <1>20, <1>21 DEF WalkRun, Marching
<1> QED
  BY <1>1, <1>22, <1>23

(* What the walk collects: every candidate it has come to is taken unless  *)
(* one that came before it and was taken shares an end.                    *)
LEMMA WalkCollects ==
    ASSUME NEW E \in SUBSET Triples, IsFiniteSet(E)
    PROVE  IsBestFirst(E, Walk(E))
<1> DEFINE n == Cardinality(E)
<1>1. PICK seq \in Seq(E) : seq = Sorted(E) /\ Len(seq) = n /\ n \in Nat
  BY SortedFacts, ListOf
<1>2. /\ \A i, j \in 1..n : i < j => Prior(seq[i], seq[j])
      /\ \A x \in E : \E i \in 1..n : seq[i] = x
      /\ \A i \in 1..n : seq[i] \in E
  BY <1>1, SortedFacts
<1> HIDE DEF n
<1>3. PICK a : WalkRun(E, seq, a) /\ FoldLeft(TakeIfFree, {}, seq) = a[Len(seq)]
  BY WalkRuns
<1>4. Walk(E) = a[n]
  BY <1>1, <1>3 DEF Walk
<1> DEFINE Seen(i) == { seq[k] : k \in 1..i }
           Good(i) == /\ a[i] \in SUBSET Seen(i)
                      /\ \A e \in Seen(i) : e \in a[i] <=>
                            ~ \E f \in a[i] : Prior(f, e) /\ Clash(f, e)
           T == { i \in 0..n : Good(i) }
<1>5. 0 \in T
  <2>1. a[0] = {} /\ Seen(0) = {} /\ 0 \in 0..n
    BY <1>1, <1>3 DEF WalkRun
  <2> HIDE DEF Seen
  <2> QED
    BY <2>1
<1>6. ASSUME NEW i \in 1..n, i - 1 \in T PROVE i \in T
  <2> DEFINE old == a[i - 1]
             new == a[i]
             x == seq[i]
             earlier == Seen(i - 1)
  <2>1. i - 1 \in 0..n /\ i \in 0..n /\ x \in E /\ Good(i - 1)
    BY <1>1, <1>2, <1>6
  <2>2. old \in SUBSET earlier
        /\ \A e \in earlier : e \in old <=> ~ \E f \in old : Prior(f, e) /\ Clash(f, e)
    BY <2>1
  <2>3. Seen(i) = earlier \cup {x}
    <3>1. \A k \in 1..i : k \in 1..(i - 1) \/ k = i
      BY <1>1
    <3>2. 1..(i - 1) \subseteq 1..i /\ i \in 1..i
      BY <1>1
    <3> QED
      BY <3>1, <3>2
  <2>4. \A f \in earlier : f \in E /\ Prior(f, x) /\ ~ Prior(x, f) /\ f # x
    <3>1. \A k \in 1..(i - 1) : k \in 1..n /\ k < i
      BY <1>1
    <3>2. \A k \in 1..(i - 1) : seq[k] \in E /\ Prior(seq[k], x)
      BY <1>2, <3>1
    <3>3. \A f \in E : Prior(f, x) => ~ Prior(x, f)
      BY <2>1, TriplesCompare
    <3> QED
      BY <3>2, <3>3
  <2>5. ~ Prior(x, x)
    BY <2>1, TriplesCompare
  <2>6. new = TakeIfFree(old, x)
    BY <1>1, <1>3 DEF WalkRun
  <2> HIDE DEF old, new, x, earlier
  <2>7. new = IF \E f \in old : Clash(f, x) THEN old ELSE old \cup {x}
    BY <2>6 DEF TakeIfFree, Clash
  <2>8. new \in SUBSET (earlier \cup {x})
    BY <2>2, <2>7
  <2>9. \A e \in earlier \cup {x} : e \in new <=> ~ \E f \in new : Prior(f, e) /\ Clash(f, e)
    <3>1. CASE \E f \in old : Clash(f, x)
      <4>1. new = old /\ x \notin old
        BY <2>2, <2>4, <2>7, <3>1
      <4>2. \E f \in new : Prior(f, x) /\ Clash(f, x)
        BY <2>2, <2>4, <3>1, <4>1
      <4> QED
        BY <2>2, <4>1, <4>2
    <3>2. CASE ~ \E f \in old : Clash(f, x)
      <4>1. new = old \cup {x}
        BY <2>7, <3>2
      <4>2. \A e \in earlier : (\E f \in new : Prior(f, e) /\ Clash(f, e))
                               <=> \E f \in old : Prior(f, e) /\ Clash(f, e)
        BY <2>4, <4>1
      <4>3. \A e \in earlier : e \in new <=> e \in old
        BY <2>4, <4>1
      <4>4. x \in new /\ ~ \E f \in new : Prior(f, x) /\ Clash(f, x)
        BY <2>5, <3>2, <4>1
      <4> QED
        BY <2>2, <4>2, <4>3, <4>4
    <3> QED
      BY <3>1, <3>2
  <2>10. Good(i)
    BY <2>3, <2>8, <2>9 DEF new
  <2> HIDE DEF Good
  <2> QED
    BY <2>1, <2>10
<1>7. Good(n)
  <2> HIDE DEF T
  <2>1. 0..n \subseteq T
    BY <1>1, <1>5, <1>6, EveryPrefix
  <2>2. n \in T
    BY <1>1, <2>1
  <2> QED
    BY <2>2 DEF T
<1>8. Seen(n) = E
  BY <1>2
<1> QED
  BY <1>4, <1>7, <1>8 DEF IsBestFirst

(* A set of candidates that is not empty has a first.                      *)
LEMMA FirstOfMany ==
    ASSUME NEW S \in SUBSET Triples, IsFiniteSet(S), S # {}
    PROVE  \E e \in S : \A f \in S : f # e => Prior(e, f)
<1> DEFINE n == Cardinality(S)
<1>1. /\ n \in Nat /\ \A i \in 1..n : Sorted(S)[i] \in S
      /\ \A i, j \in 1..n : i < j => Prior(Sorted(S)[i], Sorted(S)[j])
      /\ \A x \in S : \E i \in 1..n : Sorted(S)[i] = x
  BY SortedFacts
<1> HIDE DEF n
<1>2. 1 \in 1..n
  BY <1>1
<1>3. \A f \in S : f # Sorted(S)[1] => Prior(Sorted(S)[1], f)
  <2>1. TAKE f \in S
  <2>2. HAVE f # Sorted(S)[1]
  <2>3. PICK i \in 1..n : Sorted(S)[i] = f
    BY <1>1
  <2>4. 1 < i
    BY <2>2, <2>3
  <2> QED
    BY <1>1, <1>2, <2>3, <2>4
<1> QED
  BY <1>1, <1>2, <1>3

(* There is no other assignment like it.                                   *)
LEMMA OnlyOneBestFirst ==
    ASSUME NEW E \in SUBSET Triples, IsFiniteSet(E), NEW M, NEW N,
           IsBestFirst(E, M), IsBestFirst(E, N)
    PROVE  M = N
<1> DEFINE D == { e \in E : (e \in M /\ e \notin N) \/ (e \in N /\ e \notin M) }
<1>1. SUFFICES ASSUME D # {} PROVE FALSE
  BY DEF IsBestFirst
<1>2. D \in SUBSET E /\ D \in SUBSET Triples
  OBVIOUS
<1> HIDE DEF D
<1>3. IsFiniteSet(D)
  BY <1>2, FS_Subset
<1>4. PICK e \in D : \A f \in D : f # e => Prior(e, f)
  BY <1>1, <1>2, <1>3, FirstOfMany
<1>5. \A f \in E : Prior(f, e) => (f \in M <=> f \in N)
  <2>1. TAKE f \in E
  <2>2. HAVE Prior(f, e)
  <2>3. f \in Triples /\ e \in Triples
    BY <1>2
  <2>4. f # e /\ ~ Prior(e, f)
    BY <2>2, <2>3, TriplesCompare
  <2>5. f \notin D
    BY <1>4, <2>4
  <2> QED
    BY <2>5 DEF D
<1>6. e \in E /\ M \in SUBSET E /\ N \in SUBSET E
  BY <1>2 DEF IsBestFirst
<1>7. (e \in M <=> ~ \E f \in M : Prior(f, e) /\ Clash(f, e))
      /\ (e \in N <=> ~ \E f \in N : Prior(f, e) /\ Clash(f, e))
  BY <1>6 DEF IsBestFirst
<1>8. e \in M <=> e \in N
  BY <1>5, <1>6, <1>7
<1> QED
  BY <1>8 DEF D

(***************************************************************************)
(* What the callers count on.                                              *)
(***************************************************************************)

(* Two pairs that were taken share no end.                                 *)
LEMMA TakenPairsAreApart ==
    ASSUME NEW E \in SUBSET Triples, NEW M, IsBestFirst(E, M)
    PROVE  \A e, f \in M : Clash(e, f) => e = f
<1>1. TAKE e, f \in M
<1>2. HAVE Clash(e, f)
<1>3. SUFFICES ASSUME e # f PROVE FALSE
  OBVIOUS
<1>4. e \in E /\ f \in E /\ e \in Triples /\ f \in Triples
  BY DEF IsBestFirst
<1>5. Prior(f, e) \/ Prior(e, f)
  BY <1>3, <1>4, TriplesCompare
<1>6. Clash(f, e)
  BY <1>2 DEF Clash
<1>7. ~ (Prior(f, e) /\ Clash(f, e)) /\ ~ (Prior(e, f) /\ Clash(e, f))
  BY <1>4 DEF IsBestFirst
<1> QED
  BY <1>2, <1>5, <1>6, <1>7

(* When every pair is a candidate, one side is matched completely.         *)
LEMMA OneSideIsMatched ==
    ASSUME NEW E \in SUBSET Triples, NEW M, IsBestFirst(E, M),
           { <<e[2], e[3]>> : e \in E } = Left \X Right
    PROVE  \/ \A l \in Left : \E e \in M : e[2] = l
           \/ \A r \in Right : \E e \in M : e[3] = r
<1>1. SUFFICES ASSUME NEW l \in Left, NEW r \in Right,
                      \A e \in M : e[2] # l, \A e \in M : e[3] # r
               PROVE  FALSE
  OBVIOUS
<1>2. PICK e \in E : <<l, r>> = <<e[2], e[3]>>
  <2>1. <<l, r>> \in { <<e[2], e[3]>> : e \in E }
    OBVIOUS
  <2> QED
    BY <2>1
<1>3. e[2] = l /\ e[3] = r
  BY <1>2
<1>4. e \notin M
  BY <1>1, <1>3
<1>5. PICK f \in M : Clash(f, e)
  BY <1>4 DEF IsBestFirst
<1> QED
  BY <1>1, <1>3, <1>5 DEF Clash

LEMMA AsManyAsPossible ==
    ASSUME NEW E \in SUBSET Triples, IsFiniteSet(E), NEW M, IsBestFirst(E, M),
           { <<e[2], e[3]>> : e \in E } = Left \X Right
    PROVE  Cardinality(M) = IF Cardinality(Left) < Cardinality(Right)
                            THEN Cardinality(Left) ELSE Cardinality(Right)
<1> DEFINE lefts == [e \in M |-> e[2]]
           rights == [e \in M |-> e[3]]
<1>1. M \in SUBSET Triples /\ M \in SUBSET E /\ IsFiniteSet(M)
  BY FS_Subset DEF IsBestFirst
<1>2. IsFiniteSet(Left) /\ IsFiniteSet(Right)
  BY BestFirstAssumption
<1>3. /\ Cardinality(M) \in Nat /\ Cardinality(Left) \in Nat /\ Cardinality(Right) \in Nat
  BY <1>1, <1>2, FS_CardinalityType
<1>4. lefts \in [M -> Left] /\ rights \in [M -> Right]
  BY <1>1 DEF Triples
<1>5. \A e, f \in M : (e[2] = f[2] \/ e[3] = f[3]) => e = f
  BY TakenPairsAreApart DEF Clash
<1>6. lefts \in Injection(M, Left) /\ rights \in Injection(M, Right)
  BY <1>4, <1>5 DEF Injection, IsInjective
<1>7. /\ (\A l \in Left : \E e \in M : e[2] = l) => lefts \in Surjection(M, Left)
      /\ (\A r \in Right : \E e \in M : e[3] = r) => rights \in Surjection(M, Right)
  BY <1>4 DEF Surjection
<1> HIDE DEF lefts, rights
<1>8. Cardinality(M) <= Cardinality(Left) /\ Cardinality(M) <= Cardinality(Right)
  BY <1>1, <1>2, <1>6, FS_Injection
<1>9. /\ lefts \in Surjection(M, Left) => Cardinality(Left) <= Cardinality(M)
      /\ rights \in Surjection(M, Right) => Cardinality(Right) <= Cardinality(M)
  BY <1>1, FS_Surjection
<1>10. \/ Cardinality(Left) <= Cardinality(M) \/ Cardinality(Right) <= Cardinality(M)
  BY <1>7, <1>9, OneSideIsMatched
<1> QED
  BY <1>3, <1>8, <1>10

(* A pair that everything it competes with fits worse is taken.            *)
LEMMA GenuineIsTaken ==
    ASSUME NEW E \in SUBSET Triples, NEW M, IsBestFirst(E, M), NEW e \in E,
           \A f \in E \ {e} : Clash(e, f) => e[1] < f[1]
    PROVE  e \in M
<1>1. SUFFICES ASSUME NEW f \in M, Prior(f, e), Clash(f, e) PROVE FALSE
  BY DEF IsBestFirst
<1>2. f \in E /\ f \in Triples /\ e \in Triples
  BY DEF IsBestFirst
<1>3. f # e
  BY <1>1, <1>2, TriplesCompare
<1>4. e[1] < f[1] /\ e[1] \in Int /\ f[1] \in Int
  BY <1>1, <1>2, <1>3, BestFirstAssumption DEF Clash, Triples
<1> QED
  BY <1>1, <1>4 DEF Prior

LEMMA PairsStay == PairsOK /\ [AddEdge]_edges => PairsOK'
<1>1. ASSUME PairsOK, NEW a \in Left, NEW b \in Right, NEW c \in Costs,
             edges' = edges \cup {<<c, a, b>>}
      PROVE  PairsOK'
  <2>1. IsFiniteSet(edges \cup {<<c, a, b>>})
    BY <1>1, FS_AddElement DEF PairsOK
  <2> QED
    BY <1>1, <2>1 DEF PairsOK, Triples
<1> QED
  BY <1>1 DEF AddEdge, PairsOK

(* Whatever the candidates, the loop over the sorted pairs returns the one *)
(* assignment that is best first; it matches as many as can be, and every  *)
(* pair of genuine partners (_match_positions, _assign_close_orders).      *)
THEOREM MatchingStaysBestFirst == Spec => []MatchingIsBestFirst
<1>1. Init => PairsOK
  BY FS_EmptySet DEF Init, PairsOK
<1>2. PairsOK => MatchingIsBestFirst
  <2> SUFFICES ASSUME PairsOK PROVE MatchingIsBestFirst
    OBVIOUS
  <2>1. edges \in SUBSET Triples /\ IsFiniteSet(edges)
    BY DEF PairsOK
  <2>2. WalkIsBestFirst
    <3>1. IsBestFirst(edges, Walk(edges))
      BY <2>1, WalkCollects
    <3>2. Walk(edges) \in BestFirst(edges)
      BY <3>1 DEF BestFirst, IsBestFirst
    <3>3. \A M \in BestFirst(edges) : M = Walk(edges)
      BY <2>1, <3>1, OnlyOneBestFirst DEF BestFirst
    <3> QED
      BY <3>2, <3>3 DEF WalkIsBestFirst
  <2>3. NobodyLeftOut
    BY <2>1, AsManyAsPossible DEF NobodyLeftOut, BestFirst, Ends
  <2>4. GenuinePairsMatch
    BY <2>1, GenuineIsTaken DEF GenuinePairsMatch, BestFirst
  <2> QED
    BY <2>2, <2>3, <2>4 DEF MatchingIsBestFirst
<1> QED
  BY <1>1, <1>2, PairsStay, PTL DEF Spec


(***************************************************************************)
(* One position at a time.                                                 *)
(***************************************************************************)
Configs == OwnConfigs \cup {StaticConfig}

(* The position that is held has been held since the bar after its         *)
(* signal, and its time stop has not come.                                 *)
IsPosition(p) ==
    p = [side |-> p.side, entry |-> p.entry, atr |-> p.atr, best |-> p.best, held |-> p.held,
         config |-> p.config, signalled |-> p.signalled, entered |-> p.entered]

HeldInTime(p) ==
    /\ IsPosition(p) /\ p.config \in Configs
    /\ p.signalled \in Nat /\ p.entered = p.signalled + 1 /\ p.held \in Nat
    /\ p.config.timeStop # None => p.held <= p.config.timeStop

(* A signal waits for the next bar only, with nothing held; a position was *)
(* signalled when the trade before it had been left.                       *)
SimInv ==
    /\ bar \in 0..MaxSimBars
    /\ pos # None => HeldInTime(pos) /\ pos.entered + pos.held = bar
    /\ pending # None =>
         pos = None /\ pending.at = bar /\ pending.config \in OwnConfigs \cup {None}
    /\ trade # None => trade.left \in Nat /\ trade.left <= bar
    /\ pos # None /\ trade # None => pos.signalled >= trade.left
    /\ TradesKeepTheRules

LEMMA SimConstants ==
    /\ MaxSimBars \in Nat /\ \A b \in SimBars : b.close \in Int
    /\ \A c \in Configs : c.timeStop # None => c.timeStop \in Nat /\ 0 <= c.timeStop
    /\ \A price \in Int : [reason |-> "time stop", price |-> price] # None
<1>1. MaxSimBars \in Nat /\ SimPrices \subseteq Nat
  BY SimulatorAssumption
<1>2. \A b \in SimBars : b.close \in Int
  <2>1. \A b \in SimBars : b.close \in SimPrices
    BY DEF SimBars
  <2>2. \A x \in SimPrices : x \in Int
    BY <1>1
  <2> QED
    BY <2>1, <2>2, Zenon
<1>3. \A c \in Configs : c.timeStop # None => c.timeStop \in Nat /\ 0 <= c.timeStop
  <2>1. \A c \in Configs : c.timeStop \in Nat \cup {None}
    BY SimulatorAssumption DEF Configs
  <2>2. \A n \in Nat : 0 <= n
    OBVIOUS
  <2> QED
    BY <2>1, <2>2, Zenon
<1>4. None \notin [reason : {"stop loss", "trail stop", "take profit", "time stop"}, price : Int]
  BY SimulatorAssumption
<1>5. \A price \in Int : [reason |-> "time stop", price |-> price]
                  \in [reason : {"stop loss", "trail stop", "take profit", "time stop"}, price : Int]
  OBVIOUS
<1> QED
  BY <1>1, <1>2, <1>3, <1>4, <1>5, Zenon

LEMMA HeldFacts ==
    ASSUME NEW p, HeldInTime(p)
    PROVE  /\ IsPosition(p) /\ p.config \in Configs
           /\ p.signalled \in Nat /\ p.entered = p.signalled + 1 /\ p.entered \in Nat /\ p.held \in Nat
           /\ p.config.timeStop # None =>
                p.held <= p.config.timeStop /\ p.config.timeStop \in Nat
<1>1. /\ IsPosition(p) /\ p.config \in Configs
      /\ p.signalled \in Nat /\ p.entered = p.signalled + 1 /\ p.held \in Nat
      /\ p.config.timeStop # None => p.held <= p.config.timeStop
  BY Zenon DEF HeldInTime
<1>2. p.entered \in Nat
  <2>1. p.signalled \in Nat /\ p.entered = p.signalled + 1
    BY <1>1, Zenon
  <2> QED
    BY <2>1
<1> QED
  BY <1>1, <1>2, SimConstants, Zenon

(* What a time stop has reached is left.                                   *)
LEMMA TimeStopLeaves ==
    ASSUME NEW p, NEW b, b.close \in Int,
           p.config.timeStop # None, p.held >= p.config.timeStop
    PROVE  EvaluateExit(p, b) # None
<1> DEFINE found == <<StopExit(p, b), TrailExit(p, b), TargetExit(p, b), TimeExit(p, b)>>
           hits  == {i \in 1 .. 4 : found[i] # None}
<1>1. TimeExit(p, b) # None
  <2>1. TimeExit(p, b) = [reason |-> "time stop", price |-> b.close]
    BY DEF TimeExit, Exits
  <2> QED
    BY <2>1, SimConstants
<1>2. 4 \in hits
  BY <1>1
<1>3. hits \in SUBSET Nat /\ hits # {}
  BY <1>2
<1>4. EvaluateExit(p, b) = IF hits = {} THEN None ELSE found[Min(hits)]
  BY DEF EvaluateExit
<1>5. \A i \in hits : found[i] # None
  OBVIOUS
<1> HIDE DEF hits, found
<1>6. Min(hits) \in hits
  BY <1>3, MinIsLeast
<1> QED
  BY <1>3, <1>4, <1>5, <1>6

(* A position one bar over what it held at most holds no longer in its     *)
(* trade.                                                                  *)
LEMMA HoldInBars ==
    ASSUME NEW entered \in Nat, NEW last \in Nat, NEW held \in Nat, last - entered <= held + 1
    PROVE  \A n \in Nat : held <= n => Max({1, last - entered}) <= n + 1
<1> DEFINE d == last - entered
<1>1. d \in Int /\ d <= held + 1
  OBVIOUS
<1> HIDE DEF d
<1>2. Max({1, d}) = IF 1 >= d THEN 1 ELSE d
  BY <1>1, MaxOfTwo
<1>3. \A n \in Nat : held <= n => Max({1, d}) <= n + 1
  BY <1>1, <1>2
<1> QED
  BY <1>3 DEF d

(* What a trade says that closes a position.                               *)
TradeFits(t, p, last) ==
    /\ t.left = last /\ t.signalled = p.signalled
    /\ t.entered = t.signalled + 1
    /\ t.left > t.entered \/ t.reason = "end of data"
    /\ t.timeStop # None => t.held <= t.timeStop + 1

LEMMA TradeFacts ==
    ASSUME NEW p, NEW exit, NEW last \in Nat, HeldInTime(p), p.entered <= last,
           last - p.entered <= p.held + 1, last > p.entered \/ exit.reason = "end of data",
           NEW t, t = TradeOf(p, exit, last)
    PROVE  TradeFits(t, p, last)
<1>1. /\ p.signalled \in Nat /\ p.entered = p.signalled + 1 /\ p.entered \in Nat /\ p.held \in Nat
      /\ p.config.timeStop # None =>
           p.held <= p.config.timeStop /\ p.config.timeStop \in Nat
  BY HeldFacts, Zenon
<1>2. \A n \in Nat : p.held <= n => Max({1, last - p.entered}) <= n + 1
  BY <1>1, HoldInBars, Zenon
<1>3. t.left = last /\ t.signalled = p.signalled /\ t.entered = p.entered
      /\ t.reason = exit.reason /\ t.timeStop = p.config.timeStop
      /\ t.held = Max({1, last - p.entered})
  BY DEF TradeOf
<1> QED
  BY <1>1, <1>2, <1>3, Zenon DEF TradeFits

LEMMA SimStarts == SimInit => SimInv
<1>1. 0 \in 0..MaxSimBars
  <2>1. MaxSimBars \in Nat
    BY SimConstants, Zenon
  <2> QED
    BY <2>1
<1> QED
  BY <1>1, Zenon DEF SimInit, SimInv, TradesKeepTheRules, TradesAreCausal,
     TimeStopBoundsTheHold, CurveEndsAtTheBook

LEMMA BarKeeps ==
    ASSUME SimInv, NEW b \in SimBars, NEW signal \in Signals \cup {None}, NEW atr \in Atrs,
           NextBar(b, signal, atr)
    PROVE  SimInv'
<1> DEFINE exit == ExitOn(b)
           kept  == IF pos = None \/ exit # None THEN None ELSE Held(pos, b)
           fills == kept = None /\ pending # None
<1>1. /\ bar < MaxSimBars /\ bar' = bar + 1
      /\ IF exit = None THEN UNCHANGED <<trade, before, equity>>
         ELSE trade' = TradeOf(pos, exit, bar + 1) /\ before' = trade
      /\ pos' = IF fills THEN Opened(pending, b) ELSE kept
      /\ pending' = IF signal # None /\ Listens(pos')
                    THEN [side |-> signal.side, config |-> signal.config,
                          atr |-> atr, at |-> bar + 1]
                    ELSE IF fills THEN None ELSE pending
      /\ curve' = equity'
  BY DEF NextBar, BarWith
<1>2. bar \in Nat /\ MaxSimBars \in Nat /\ bar' \in 0..MaxSimBars
  <2>1. bar \in 0..MaxSimBars /\ MaxSimBars \in Nat /\ bar < MaxSimBars /\ bar' = bar + 1
    BY <1>1, SimConstants, Zenon DEF SimInv
  <2> QED
    BY <2>1
<1>3. b.close \in Int
  BY SimConstants
<1>4. pos = None => exit = None
  BY DEF ExitOn
<1>5. exit # None => pos # None /\ pos' = None
  <2>1. HAVE exit # None
  <2>2. pos # None
    BY <1>4, <2>1
  <2>3. pending = None
    BY <2>2 DEF SimInv
  <2> QED
    BY <1>1, <2>1, <2>2, <2>3
<1>6. kept # None => HeldInTime(kept) /\ kept.entered + kept.held = bar + 1
                     /\ kept.signalled = pos.signalled /\ pos # None /\ exit = None /\ pos' = kept
  <2>1. HAVE kept # None
  <2>2. pos # None /\ exit = None /\ kept = Held(pos, b) /\ pos' = kept
    BY <1>1, <2>1
  <2>3. HeldInTime(pos) /\ pos.entered + pos.held = bar
    BY <2>2 DEF SimInv
  <2> DEFINE q == pos
  <2>4. kept = [side |-> q.side, entry |-> q.entry, atr |-> q.atr, best |-> Extreme(q, b),
                held |-> q.held + 1, config |-> q.config, signalled |-> q.signalled,
                entered |-> q.entered]
    BY <2>2, <2>3 DEF Held, HeldInTime, IsPosition
  <2>5. q.config.timeStop # None => q.held + 1 <= q.config.timeStop
    <3>1. HAVE q.config.timeStop # None
    <3>2. EvaluateExit(q, b) = None
      BY <2>2 DEF ExitOn
    <3>3. ~ (q.held >= q.config.timeStop)
      BY <1>3, <3>1, <3>2, TimeStopLeaves
    <3>4. q.config.timeStop \in Nat /\ q.held \in Nat
      BY <2>3, <3>1, SimConstants DEF HeldInTime
    <3> QED
      BY <3>3, <3>4
  <2>6. q.config \in Configs /\ q.signalled \in Nat /\ q.entered = q.signalled + 1 /\ q.held \in Nat
    BY <2>3 DEF HeldInTime
  <2>7. q.entered + (q.held + 1) = bar + 1
    BY <1>2, <2>3, <2>6
  <2> HIDE DEF kept
  <2>8. HeldInTime(kept)
    BY <2>4, <2>5, <2>6 DEF HeldInTime, IsPosition
  <2> QED
    BY <2>2, <2>4, <2>7, <2>8
<1>7. fills => /\ HeldInTime(Opened(pending, b))
               /\ Opened(pending, b).entered + Opened(pending, b).held = bar + 1
               /\ Opened(pending, b).signalled = bar /\ exit = None
               /\ pos' = Opened(pending, b)
  <2>1. HAVE fills
  <2>2. pending # None /\ pos = None /\ pending.at = bar
        /\ pending.config \in OwnConfigs \cup {None}
    BY <2>1 DEF SimInv
  <2> DEFINE c == IF pending.config # None THEN pending.config ELSE StaticConfig
  <2>3. c \in Configs
    BY <2>2 DEF Configs
  <2> HIDE DEF c
  <2>4. Opened(pending, b) = [side |-> pending.side, entry |-> b.open, atr |-> pending.atr,
                best |-> b.open, held |-> 0, config |-> c, signalled |-> bar, entered |-> bar + 1]
    BY <2>2 DEF Opened, c
  <2>5. c.timeStop # None => 0 <= c.timeStop
    BY <2>3, SimConstants
  <2>6. bar + 1 + 0 = bar + 1
    BY <1>2
  <2>7. pos' = Opened(pending, b)
    BY <1>1, <2>1
  <2> DEFINE o == Opened(pending, b)
  <2> HIDE DEF o
  <2>8. HeldInTime(o)
    BY <1>2, <2>3, <2>4, <2>5 DEF HeldInTime, IsPosition, o
  <2> QED
    BY <1>4, <2>2, <2>4, <2>6, <2>7, <2>8 DEF o
<1>8. pos' # None => HeldInTime(pos') /\ pos'.entered + pos'.held = bar' /\ exit = None
                     /\ (trade # None => pos'.signalled >= trade.left)
  <2>1. HAVE pos' # None
  <2>2. CASE fills
    <3>1. HeldInTime(pos') /\ pos'.entered + pos'.held = bar' /\ exit = None /\ pos'.signalled = bar
      BY <1>1, <1>7, <2>2
    <3>2. trade # None => bar >= trade.left
      BY <1>2 DEF SimInv
    <3> QED
      BY <3>1, <3>2
  <2>3. CASE ~ fills
    <3>1. pos' = kept
      BY <1>1, <2>3
    <3>2. HeldInTime(pos') /\ pos'.entered + pos'.held = bar' /\ exit = None
          /\ pos'.signalled = pos.signalled /\ pos # None
      BY <1>1, <1>6, <2>1, <3>1
    <3>3. trade # None => pos.signalled >= trade.left
      BY <3>2 DEF SimInv
    <3> QED
      BY <3>2, <3>3
  <2> QED
    BY <2>2, <2>3
<1>9. pending' # None =>
         pos' = None /\ pending'.at = bar' /\ pending'.config \in OwnConfigs \cup {None}
  <2>1. HAVE pending' # None
  <2>2. CASE signal # None /\ Listens(pos')
    <3>1. signal.config \in OwnConfigs \cup {None}
      BY <2>2 DEF Signals
    <3>2. pending'.at = bar + 1 /\ pending'.config = signal.config
      BY <1>1, <2>2
    <3> QED
      BY <1>1, <2>2, <3>1, <3>2 DEF Listens
  <2>3. CASE ~ (signal # None /\ Listens(pos'))
    <3>1. pending' = pending /\ ~ fills
      BY <1>1, <2>1, <2>3
    <3>2. pos = None
      BY <2>1, <3>1 DEF SimInv
    <3>3. kept = None
      BY <3>2
    <3> QED
      BY <2>1, <3>1, <3>3
  <2> QED
    BY <2>2, <2>3
<1> HIDE DEF kept, fills
<1>10. CASE exit = None
  <2>1. trade' = trade /\ before' = before
    BY <1>1, <1>10
  <2>2. trade' # None => trade'.left \in Nat /\ trade'.left <= bar'
    BY <1>1, <1>2, <2>1 DEF SimInv
  <2>3. TradesKeepTheRules'
    BY <1>1, <2>1 DEF SimInv, TradesKeepTheRules, TradesAreCausal,
       TimeStopBoundsTheHold, CurveEndsAtTheBook
  <2> QED
    BY <1>2, <1>8, <1>9, <2>1, <2>2, <2>3 DEF SimInv
<1>11. CASE exit # None
  <2>1. trade' = TradeOf(pos, exit, bar + 1) /\ before' = trade /\ pos # None /\ pos' = None
    BY <1>1, <1>5, <1>11
  <2>2. HeldInTime(pos) /\ pos.entered + pos.held = bar
    BY <2>1 DEF SimInv
  <2>3. pos.entered \in Nat /\ pos.held \in Nat
    BY <2>2, HeldFacts, Zenon
  <2>4. bar + 1 \in Nat /\ pos.entered <= bar + 1 /\ (bar + 1) - pos.entered <= pos.held + 1
        /\ bar + 1 > pos.entered
    BY <1>2, <2>2, <2>3
  <2> HIDE DEF exit
  <2>5. TradeFits(trade', pos, bar + 1)
    <3>1. PICK t : t = trade'
      OBVIOUS
    <3> DEFINE last == bar + 1
    <3> HIDE DEF last
    <3>2. last \in Nat /\ pos.entered <= last /\ last - pos.entered <= pos.held + 1
      BY <2>4 DEF last
    <3>3. t = TradeOf(pos, exit, last)
      BY <2>1, <3>1, Zenon DEF last
    <3>4. last > pos.entered \/ exit.reason = "end of data"
      BY <2>4, Zenon DEF last
    <3>5. TradeFits(t, pos, last)
      BY <2>2, <3>2, <3>3, <3>4, TradeFacts, Zenon
    <3> QED
      BY <3>1, <3>5, Zenon DEF last
  <2>6. trade # None => pos.signalled >= trade.left
    BY <2>1 DEF SimInv
  <2>7. TradesKeepTheRules'
    BY <1>1, <2>1, <2>5, <2>6 DEF TradesKeepTheRules, TradesAreCausal,
       TimeStopBoundsTheHold, CurveEndsAtTheBook, TradeFits
  <2>8. trade'.left \in Nat /\ trade'.left <= bar'
    <3>1. bar + 1 \in Nat /\ bar + 1 <= bar + 1
      BY <1>2
    <3> QED
      BY <1>1, <2>5, <3>1, Zenon DEF TradeFits
  <2> QED
    BY <1>2, <1>8, <1>9, <2>1, <2>7, <2>8 DEF SimInv
<1> QED
  BY <1>10, <1>11

LEMMA EndKeeps ==
    ASSUME SimInv, NEW close \in SimPrices, EndOfData(close)
    PROVE  SimInv'
<1> DEFINE exit == Exits("end of data", close)
<1>1. /\ pos # None /\ trade' = TradeOf(pos, exit, bar) /\ before' = trade
      /\ curve' = equity' /\ pos' = None /\ pending' = None /\ bar' = MaxSimBars
  BY DEF EndOfData, LastPoint
<1>2. HeldInTime(pos) /\ pos.entered + pos.held = bar
  BY <1>1 DEF SimInv
<1>3. pos.entered \in Nat /\ pos.held \in Nat /\ bar \in Nat /\ MaxSimBars \in Nat
      /\ bar <= MaxSimBars
  <2>1. pos.entered \in Nat /\ pos.held \in Nat /\ bar \in 0..MaxSimBars /\ MaxSimBars \in Nat
    BY <1>2, HeldFacts, SimConstants, Zenon DEF SimInv
  <2> QED
    BY <2>1
<1>4. pos.entered <= bar /\ bar - pos.entered <= pos.held + 1
  BY <1>2, <1>3
<1>5. exit.reason = "end of data"
  BY DEF Exits
<1> HIDE DEF exit
<1>6. TradeFits(trade', pos, bar)
  <2>1. PICK t : t = trade'
    OBVIOUS
  <2>2. t = TradeOf(pos, exit, bar)
    BY <1>1, <2>1, Zenon
  <2>3. bar > pos.entered \/ exit.reason = "end of data"
    BY <1>1, <1>2, <1>3, <1>4, <1>5, Zenon
  <2>4. TradeFits(t, pos, bar)
    BY <1>1, <1>2, <1>3, <1>4, <1>5, <2>2, <2>3, TradeFacts, Zenon
  <2> QED
    BY <2>1, <2>4, Zenon
<1>7. trade # None => pos.signalled >= trade.left
  BY <1>1 DEF SimInv
<1>8. TradesKeepTheRules'
  BY <1>1, <1>6, <1>7 DEF TradesKeepTheRules, TradesAreCausal,
     TimeStopBoundsTheHold, CurveEndsAtTheBook, TradeFits
<1>9. bar' \in 0..MaxSimBars /\ trade'.left \in Nat /\ trade'.left <= bar'
  <2>1. MaxSimBars \in 0..MaxSimBars
    BY <1>3
  <2> QED
    BY <1>1, <1>3, <1>6, <2>1, Zenon DEF TradeFits
<1> QED
  BY <1>1, <1>8, <1>9 DEF SimInv

(***************************************************************************)
(* Places, and sums over them.                                             *)
(***************************************************************************)

(* What is at some places of a list is listed in its order.                *)
LEMMA AtPlacesFacts ==
    ASSUME NEW T, NEW n \in Nat, NEW list \in [1..n -> T], NEW places \in SUBSET (1..n)
    PROVE  /\ IsFiniteSet(places) /\ Cardinality(places) \in Nat /\ Cardinality(places) <= n
           /\ AtPlaces(list, places) \in [1..Cardinality(places) -> T]
           /\ InOrder(places) \in Bijection(1..Cardinality(places), places)
           /\ \A i \in 1..Cardinality(places) : InOrder(places)[i] \in 1..n
<1>1. IsFiniteSet(1..n) /\ Cardinality(1..n) = n
  BY FS_Interval
<1>2. IsFiniteSet(places) /\ Cardinality(places) <= n
  <2>1. IsFiniteSet(places) /\ Cardinality(places) <= Cardinality(1..n)
    BY <1>1, FS_Subset, Zenon
  <2> QED
    BY <1>1, <2>1, Zenon
<1> DEFINE m == Cardinality(places)
           at == InOrder(places)
<1>3. places \in SUBSET Int
  OBVIOUS
<1>4. /\ m \in Nat /\ at \in [1..m -> places]
      /\ \A i, j \in 1..m : i < j => at[i] < at[j]
      /\ \A x \in places : \E i \in 1..m : at[i] = x
  BY <1>2, <1>3, InOrderFacts, Zenon
<1>5. AtPlaces(list, places) = [i \in DOMAIN at |-> list[at[i]]]
  BY DEF AtPlaces
<1> HIDE DEF m, at
<1>6. \A i \in 1..m : at[i] \in 1..n
  BY <1>4
<1>7. at \in Bijection(1..m, places)
  <2>1. \A i, j \in 1..m : at[i] = at[j] => i = j
    <3>1. TAKE i, j \in 1..m
    <3>2. HAVE at[i] = at[j]
    <3>3. at[i] \in Int /\ at[j] \in Int
      BY <1>6
    <3>4. ~ (i < j) /\ ~ (j < i)
      BY <1>4, <3>2, <3>3
    <3> QED
      BY <1>4, <3>4
  <2> QED
    BY <1>4, <2>1 DEF Bijection, Injection, Surjection, IsInjective
<1>8. AtPlaces(list, places) = [i \in 1..m |-> list[at[i]]]
  BY <1>4, <1>5
<1> QED
  BY <1>2, <1>4, <1>6, <1>7, <1>8 DEF m, at

(* A sum over a part of the places and one over the rest.                  *)
LEMMA SumsSplit ==
    ASSUME NEW n \in Nat, NEW places \in SUBSET (1..n), NEW f, \A k \in 1..n : f[k] \in Int
    PROVE  /\ IsFiniteSet(places) /\ IsFiniteSet((1..n) \ places)
           /\ SumFunctionOnSet(f, 1..n) \in Int
           /\ SumFunctionOnSet(f, places) \in Int
           /\ SumFunctionOnSet(f, (1..n) \ places) \in Int
           /\ SumFunctionOnSet(f, 1..n)
                = SumFunctionOnSet(f, places) + SumFunctionOnSet(f, (1..n) \ places)
<1> DEFINE rest == (1..n) \ places
<1>1. IsFiniteSet(1..n)
  BY FS_Interval
<1>2. IsFiniteSet(places) /\ IsFiniteSet(rest)
  BY <1>1, FS_Subset
<1>3. 1..n = places \cup rest /\ places \cap rest = {}
  OBVIOUS
<1>4. \A k \in places \cup rest : f[k] \in Int
  BY <1>3
<1> HIDE DEF rest
<1>5. SumFunctionOnSet(f, places \cup rest)
        = SumFunctionOnSet(f, places) + SumFunctionOnSet(f, rest)
  BY <1>2, <1>3, <1>4, SumOfUnion
<1>6. /\ SumFunctionOnSet(f, 1..n) \in Int /\ SumFunctionOnSet(f, places) \in Int
      /\ SumFunctionOnSet(f, rest) \in Int
  BY <1>1, <1>2, <1>4, SumIsAnInteger
<1> QED
  BY <1>2, <1>3, <1>5, <1>6 DEF rest

LEMMA SumOfZeros ==
    ASSUME NEW S, IsFiniteSet(S), NEW f, \A x \in S : f[x] = 0
    PROVE  SumFunctionOnSet(f, S) = 0
<1>1. \A x \in S : f[x] \in Int /\ f[x] = f[x] + f[x]
  OBVIOUS
<1> DEFINE sum == SumFunctionOnSet(f, S)
<1>2. sum = sum + sum
  BY <1>1, SumOfSums
<1>3. sum \in Int
  BY <1>1, SumIsAnInteger
<1> HIDE DEF sum
<1>4. sum = 0
  BY <1>2, <1>3
<1> QED
  BY <1>4 DEF sum

(***************************************************************************)
(* Several positions at a time.                                            *)
(***************************************************************************)
Sides  == {1, -1}
Slots  == [side : Sides, entry : Nat, entered : Nat, swap : Int, deferred : BOOLEAN]
Orders == [side : Sides, price : Nat, expiry : Int, placed : Int]

SwapsOf(book) == SumFunctionOnSet([k \in DOMAIN book |-> book[k].swap], DOMAIN book)

MultiInv ==
    /\ index \in Nat /\ slots \in Seq(Slots) /\ waiting \in Seq(Sides) /\ working \in Seq(Orders)
    /\ realised \in Int /\ swapOpen \in Int /\ purse \in Int
    /\ \A k \in DOMAIN slots : slots[k].entered <= index
    /\ index = 0 => slots = <<>>
    /\ SwapIsPaidOnce

LEMMA BookConstants ==
    /\ BookSlotCap \in Nat /\ DateBars \in Nat \ {0} /\ OrderBars \in Nat /\ MaxBookBars \in Nat
    /\ \A b \in BookBars : b.open \in Nat /\ b.close \in Nat
    /\ \A s \in BookSignals : s.market \in Seq(Sides) /\ s.limits \in Seq(Sides)
    /\ SwapPct \in Nat /\ FeePct \in Nat /\ BurstMult \in Nat
  BY MultiBookAssumption, SimulatorAssumption DEF Sides

LEMMA SwapIsAnInteger ==
    ASSUME NEW close \in Nat
    PROVE  Swap(close) \in Int
<1>1. SwapPct * close \in Int
  BY BookConstants
<1>2. 100 \in Nat \ {0}
  OBVIOUS
<1> QED
  BY <1>1, <1>2, DivisionFacts DEF Swap

(* What a position earns before and after its swap.                        *)
LEMMA MoneyFacts ==
    ASSUME NEW s \in Slots, NEW exit, exit.price \in Nat
    PROVE  GrossOf(s, exit) \in Int /\ NetOf(s, exit) = GrossOf(s, exit) - s.swap
<1>1. s.entry \in Nat /\ s.side \in Int /\ s.swap \in Int
  BY DEF Slots, Sides
<1> DEFINE e == s.entry
           p == exit.price
<1>2. e \in Int /\ p \in Int /\ FeePct \in Int /\ BurstMult \in Int
  BY <1>1, BookConstants
<1> HIDE DEF e, p
<1>3. 2 * e * FeePct \in Int /\ p * FeePct * (BurstMult - 1) \in Int /\ 100 \in Nat \ {0}
  BY <1>2
<1>4. (2 * e * FeePct) \div 100 \in Int /\ (p * FeePct * (BurstMult - 1)) \div 100 \in Int
  BY <1>3, DivisionFacts
<1>5. Cost(s, exit) \in Int
  <2> DEFINE fees == (2 * e * FeePct) \div 100
             burst == (p * FeePct * (BurstMult - 1)) \div 100
  <2>1. Cost(s, exit) = fees + (IF exit.reason = "stop loss" THEN burst ELSE 0)
    BY DEF Cost, e, p
  <2>2. fees \in Int /\ burst \in Int
    BY <1>4
  <2> HIDE DEF fees, burst
  <2>3. fees + burst \in Int /\ fees + 0 \in Int
    BY <2>2
  <2> QED
    BY <2>1, <2>3, Zenon
<1>6. s.side * (p - e) \in Int
  BY <1>1, <1>2
<1> QED
  BY <1>5, <1>6 DEF GrossOf, NetOf, e, p

(* A new day begins when the number of the bar's day changes.              *)
LEMMA DaysBegin ==
    ASSUME NEW i \in Nat, i > 1
    PROVE  NewDay(i) <=> (i - 1) \div DateBars # (i - 2) \div DateBars
<1> DEFINE d == DateBars
           a == i - 1
           q == a \div d
<1>1. d \in Nat \ {0} /\ a \in Nat \ {0}
  BY BookConstants
<1>2. q \in Int /\ q * d <= a /\ a < q * d + d /\ (a % d = 0 <=> q * d = a)
  BY <1>1
<1>3. NewDay(i) <=> a % d = 0
  BY DEF NewDay
<1>4. i - 2 = a - 1 /\ a - 1 \in Int
  BY <1>1
<1> HIDE DEF q, a, d
<1>5. CASE q * d = a
  <2>1. (q - 1) * d = q * d - d /\ q - 1 \in Int
    BY <1>1, <1>2
  <2>2. (q - 1) * d <= a - 1 /\ a - 1 < (q - 1) * d + d
    BY <1>1, <1>2, <1>5, <2>1
  <2>3. (a - 1) \div d = q - 1
    BY <1>1, <1>4, <2>1, <2>2, QuotientIsUnique
  <2>4. q # q - 1
    BY <1>2
  <2> QED
    BY <1>2, <1>3, <1>4, <1>5, <2>3, <2>4 DEF q, a, d
<1>6. CASE q * d # a
  <2>1. q * d \in Int
    BY <1>1, <1>2
  <2>2. q * d <= a - 1 /\ a - 1 < q * d + d
    BY <1>1, <1>2, <1>6, <2>1
  <2>3. (a - 1) \div d = q
    BY <1>1, <1>2, <1>4, <2>2, QuotientIsUnique
  <2> QED
    BY <1>2, <1>3, <1>4, <1>6, <2>3 DEF q, a, d
<1> QED
  BY <1>5, <1>6

LEMMA SlotsJoin ==
    \A s, t \in Seq(Slots) :
        /\ s \o t \in Seq(Slots) /\ DOMAIN (s \o t) = 1..(Len(s) + Len(t))
        /\ Len(s \o t) = Len(s) + Len(t)
        /\ \A i \in 1..Len(s) : (s \o t)[i] = s[i]
        /\ \A i \in DOMAIN (s \o t) : i \notin 1..Len(s) =>
             i - Len(s) \in 1..Len(t) /\ (s \o t)[i] = t[i - Len(s)]
  BY Concatenated

(* Positions opened now have paid no swap yet.                             *)
LEMMA SwapsJoin ==
    ASSUME NEW m \in Nat, NEW n \in Nat, NEW s \in [1..m -> Slots], NEW t \in [1..n -> Slots],
           \A k \in 1..n : t[k].swap = 0
    PROVE  SwapsOf(s \o t) = SwapsOf(s) /\ SwapsOf(s) \in Int
<1> DEFINE u == s \o t
           f == [k \in DOMAIN u |-> u[k].swap]
           g == [k \in DOMAIN s |-> s[k].swap]
           later == (1..(m + n)) \ (1..m)
<1>1. s \in Seq(Slots) /\ Len(s) = m /\ t \in Seq(Slots) /\ Len(t) = n
  BY ListOf
<1>2. /\ DOMAIN u = 1..(m + n) /\ DOMAIN s = 1..m
      /\ \A k \in 1..m : u[k] = s[k]
      /\ \A k \in DOMAIN u : k \notin 1..m => k - m \in 1..n /\ u[k] = t[k - m]
  <2>1. DOMAIN s = 1..m
    OBVIOUS
  <2> QED
    BY <1>1, <2>1, SlotsJoin, Zenon
<1>3. \A k \in 1..m : f[k] = g[k] /\ g[k] \in Int
  <2>1. 1..m \subseteq 1..(m + n)
    OBVIOUS
  <2>2. TAKE k \in 1..m
  <2>3. k \in DOMAIN u /\ k \in DOMAIN s /\ s[k] \in Slots
    BY <1>2, <2>1
  <2> QED
    BY <1>2, <2>3 DEF Slots
<1>4. \A k \in later : f[k] = 0
  BY <1>2
<1>5. 1..m \in SUBSET (1..(m + n)) /\ m + n \in Nat
  OBVIOUS
<1>6. \A k \in 1..(m + n) : f[k] \in Int
  <2>1. \A k \in 1..(m + n) : k \in 1..m \/ k \in later
    OBVIOUS
  <2>2. 0 \in Int
    OBVIOUS
  <2> HIDE DEF f, g, later
  <2> QED
    BY <1>3, <1>4, <2>1, <2>2, Zenon
<1> HIDE DEF f, g
<1>7. /\ IsFiniteSet(1..m) /\ IsFiniteSet(later)
      /\ SumFunctionOnSet(f, 1..m) \in Int
      /\ SumFunctionOnSet(f, 1..(m + n)) = SumFunctionOnSet(f, 1..m) + SumFunctionOnSet(f, later)
  BY <1>5, <1>6, SumsSplit, Zenon
<1> HIDE DEF later, u
<1>8. SumFunctionOnSet(f, later) = 0
  BY <1>4, <1>7, SumOfZeros
<1>9. SumFunctionOnSet(f, 1..m) = SumFunctionOnSet(g, 1..m)
  BY <1>3, <1>7, SumOfTheSame
<1>10. SwapsOf(u) = SumFunctionOnSet(f, 1..(m + n)) /\ SwapsOf(s) = SumFunctionOnSet(g, 1..m)
  BY <1>2, Zenon DEF SwapsOf, f, g
<1> QED
  BY <1>7, <1>8, <1>9, <1>10 DEF u

(***************************************************************************)
(* A bar: the positions marked at its close, those that stay and those     *)
(* that leave.                                                             *)
(***************************************************************************)
Due(i, close) == IF NewDay(i) THEN Swap(close) ELSE 0

BookOf(i, close) == IF NewDay(i) THEN Carried(close) ELSE slots

(* A list of marks over a book: the swap of each is the book's.            *)
MarksFit(marked, n, i, close) ==
    /\ DOMAIN marked = 1..n
    /\ \A k \in 1..n : /\ marked[k].slot \in Slots /\ marked[k].exit.price \in Nat
                       /\ marked[k].slot.swap = slots[k].swap + Due(i, close)
                       /\ marked[k].slot.entered = slots[k].entered

IsMarks(marked, n) == marked = [k \in 1..n |-> marked[k]]

LEMMA MarksAreMade ==
    ASSUME MultiInv, NEW i \in Nat, NEW open \in Nat, NEW close \in Nat, NEW why,
           NEW marked, marked = Marked(BookOf(i, close), why, open, close)
    PROVE  MarksFit(marked, Len(slots), i, close) /\ IsMarks(marked, Len(slots))
<1> DEFINE n == Len(slots)
           book == BookOf(i, close)
<1>1. n \in Nat /\ DOMAIN slots = 1..n /\ \A k \in 1..n : slots[k] \in Slots
  BY DEF MultiInv
<1>2. Swap(close) \in Int
  BY SwapIsAnInteger
<1>3. /\ DOMAIN book = 1..n
      /\ \A k \in 1..n : /\ book[k] \in Slots /\ book[k].swap = slots[k].swap + Due(i, close)
                         /\ book[k].entered = slots[k].entered
  <2>1. CASE NewDay(i)
    <3>1. book = [k \in 1..n |-> [slots[k] EXCEPT !.swap = @ + Swap(close)]]
      BY <1>1, <2>1 DEF BookOf, Carried
    <3>2. ASSUME NEW s \in Slots, NEW c, c = [s EXCEPT !.swap = @ + Swap(close)]
          PROVE  c \in Slots /\ c.swap = s.swap + Swap(close) /\ c.entered = s.entered
      BY <1>2, <3>2 DEF Slots
    <3>3. Due(i, close) = Swap(close)
      BY <2>1 DEF Due
    <3> QED
      BY <1>1, <3>1, <3>2, <3>3
  <2>2. CASE ~ NewDay(i)
    <3>1. book = slots /\ Due(i, close) = 0
      BY <2>2 DEF BookOf, Due
    <3>2. \A k \in 1..n : slots[k].swap = slots[k].swap + 0
      <4>1. TAKE k \in 1..n
      <4>2. slots[k].swap \in Int
        BY <1>1 DEF Slots
      <4> QED
        BY <4>2
    <3> QED
      BY <1>1, <3>1, <3>2
  <2> QED
    BY <2>1, <2>2
<1> HIDE DEF book
<1>4. marked = [k \in DOMAIN book |->
         [slot |-> [book[k] EXCEPT !.deferred = @ \/ Deferred(book[k], why[k])],
          stays |-> Stays(book[k], why[k]),
          exit |-> ExitOf(book[k], why[k], open, close)]]
  BY DEF Marked, book
<1>5. ASSUME NEW k \in 1..n
      PROVE  /\ marked[k].slot \in Slots /\ marked[k].exit.price \in Nat
             /\ marked[k].slot.swap = slots[k].swap + Due(i, close)
             /\ marked[k].slot.entered = slots[k].entered
  <2>1. book[k] \in Slots
    BY <1>3
  <2>2. Deferred(book[k], why[k]) \in BOOLEAN
    BY <2>1 DEF Deferred, Slots
  <2>3. ASSUME NEW s \in Slots, NEW d \in BOOLEAN, NEW c, c = [s EXCEPT !.deferred = @ \/ d]
        PROVE  c \in Slots /\ c.swap = s.swap /\ c.entered = s.entered
    BY <2>3 DEF Slots
  <2>4. marked[k].slot = [book[k] EXCEPT !.deferred = @ \/ Deferred(book[k], why[k])]
        /\ marked[k].exit = ExitOf(book[k], why[k], open, close)
    BY <1>3, <1>4
  <2>5. marked[k].slot \in Slots /\ marked[k].slot.swap = book[k].swap
        /\ marked[k].slot.entered = book[k].entered
    BY <2>1, <2>2, <2>3, <2>4
  <2>6. marked[k].exit.price \in Nat
    <3>1. marked[k].exit.price = open \/ marked[k].exit.price = close
      <4>1. \A s, w : ExitOf(s, w, open, close).price \in {open, close}
        BY DEF ExitOf, Exits
      <4> QED
        BY <2>4, <4>1
    <3> QED
      BY <3>1, Zenon
  <2> QED
    BY <1>3, <2>5, <2>6
<1>6. IsMarks(marked, n)
  BY <1>3, <1>4 DEF IsMarks
<1> QED
  BY <1>3, <1>4, <1>5, <1>6 DEF MarksFit

(* Who stays keeps what it has paid, and nobody is paid twice.             *)
StayersOf(marked, stay) ==
    [k \in DOMAIN AtPlaces(marked, stay) |-> AtPlaces(marked, stay)[k].slot]

SwapsMarked(marked) == [k \in DOMAIN marked |-> marked[k].slot.swap]

LEMMA StayersAreMarked ==
    ASSUME NEW n \in Nat, NEW i \in Nat, NEW close \in Nat, NEW marked,
           MarksFit(marked, n, i, close), IsMarks(marked, n), NEW stay \in SUBSET (1..n)
    PROVE  /\ Cardinality(stay) \in Nat /\ Cardinality(stay) <= n
           /\ DOMAIN AtPlaces(marked, stay) = 1..Cardinality(stay)
           /\ Len(AtPlaces(marked, stay)) = Cardinality(stay)
           /\ StayersOf(marked, stay) \in [1..Cardinality(stay) -> Slots]
           /\ SwapsOf(StayersOf(marked, stay)) = SumFunctionOnSet(SwapsMarked(marked), stay)
           /\ \A k \in 1..Cardinality(stay) :
                \E j \in 1..n : StayersOf(marked, stay)[k].entered = slots[j].entered
<1> DEFINE m == Cardinality(stay)
           kept == AtPlaces(marked, stay)
           at == InOrder(stay)
           book == StayersOf(marked, stay)
           T == {marked[k] : k \in 1..n}
<1>1. marked \in [1..n -> T]
  BY DEF IsMarks
<1>2. /\ IsFiniteSet(stay) /\ m \in Nat /\ m <= n
      /\ kept \in [1..m -> T] /\ at \in Bijection(1..m, stay)
      /\ \A k \in 1..m : at[k] \in 1..n /\ kept[k] = marked[at[k]]
  <2> HIDE DEF T
  <2>1. /\ IsFiniteSet(stay) /\ Cardinality(stay) \in Nat /\ Cardinality(stay) <= n
        /\ AtPlaces(marked, stay) \in [1..Cardinality(stay) -> T]
        /\ InOrder(stay) \in Bijection(1..Cardinality(stay), stay)
        /\ \A k \in 1..Cardinality(stay) : InOrder(stay)[k] \in 1..n
    BY <1>1, AtPlacesFacts, Zenon
  <2>2. \A k \in 1..Cardinality(stay) : AtPlaces(marked, stay)[k] = marked[InOrder(stay)[k]]
    BY Zenon DEF AtPlaces, InOrder
  <2> QED
    BY <2>1, <2>2, Zenon
<1>3. DOMAIN kept = 1..m /\ Len(kept) = m
  <2>1. DOMAIN kept = 1..m
    BY <1>2, Zenon
  <2>2. kept \in Seq(T) /\ Len(kept) = m
    BY <1>2, ListOf, Zenon
  <2> QED
    BY <2>1, <2>2
<1>4. book = [k \in 1..m |-> kept[k].slot]
  BY <1>3, Zenon DEF StayersOf
<1> HIDE DEF kept, T, at, book, m
<1>5. \A k \in 1..m : book[k] = marked[at[k]].slot /\ at[k] \in 1..n
  BY <1>2, <1>4
<1>6. book \in [1..m -> Slots]
  <2>1. \A k \in 1..m : book[k] \in Slots
    BY <1>5, Zenon DEF MarksFit
  <2> QED
    BY <1>4, <2>1
<1>7. \A k \in 1..m : \E j \in 1..n : book[k].entered = slots[j].entered
  BY <1>5, Zenon DEF MarksFit
<1>8. SwapsOf(book) = SumFunctionOnSet(SwapsMarked(marked), stay)
  <2> DEFINE f == [k \in DOMAIN book |-> book[k].swap]
             g == SwapsMarked(marked)
  <2>1. DOMAIN book = 1..m /\ IsFiniteSet(1..m)
    BY <1>2, <1>6, FS_Interval
  <2>2. \A k \in 1..m : f[k] \in Int /\ g[at[k]] = f[k]
    <3>1. TAKE k \in 1..m
    <3>2. f[k] = book[k].swap /\ book[k] \in Slots /\ book[k] = marked[at[k]].slot
          /\ at[k] \in DOMAIN marked
      BY <1>5, <1>6, <2>1 DEF MarksFit
    <3>3. g[at[k]] = marked[at[k]].slot.swap
      BY <3>2 DEF SwapsMarked
    <3>4. book[k].swap \in Int
      BY <3>2 DEF Slots
    <3> QED
      BY <3>2, <3>3, <3>4
  <2>3. SwapsOf(book) = SumFunctionOnSet(f, 1..m)
    BY <2>1, Zenon DEF SwapsOf
  <2> HIDE DEF f, g
  <2>4. SumFunctionOnSet(f, 1..m) = SumFunctionOnSet(g, stay)
    <3> DEFINE S == 1..m
    <3>1. at \in Bijection(S, stay) /\ IsFiniteSet(S) /\ \A k \in S : f[k] \in Int /\ g[at[k]] = f[k]
      BY <1>2, <2>1, <2>2, Zenon
    <3> HIDE DEF S
    <3>2. SumFunctionOnSet(f, S) = SumFunctionOnSet(g, stay)
      BY <3>1, SumRenumbered
    <3> QED
      BY <3>2 DEF S
  <2> QED
    BY <2>3, <2>4 DEF g
<1> QED
  BY <1>2, <1>3, <1>6, <1>7, <1>8 DEF m, kept, book

LEMMA FirstOfFacts ==
    ASSUME NEW T, NEW list \in Seq(T), NEW n \in Nat
    PROVE  /\ FirstOf(list, n) \in Seq(T) /\ Len(FirstOf(list, n)) \in Nat
           /\ DOMAIN FirstOf(list, n) = 1..Len(FirstOf(list, n))
           /\ Len(FirstOf(list, n)) <= n /\ DOMAIN FirstOf(list, n) \subseteq DOMAIN list
<1> DEFINE l == IF n <= Len(list) THEN n ELSE Len(list)
<1>1. l \in Nat /\ l <= n /\ l <= Len(list) /\ Len(list) \in Nat
  OBVIOUS
<1>2. FirstOf(list, n) = SubSeq(list, 1, l)
  BY <1>1, MinOfTwo DEF FirstOf
<1> HIDE DEF l
<1>3. SubSeq(list, 1, l) \in Seq(T) /\ Len(SubSeq(list, 1, l)) = l
  BY <1>1
<1>4. DOMAIN SubSeq(list, 1, l) = 1..l /\ DOMAIN list = 1..Len(list)
  BY <1>1, <1>3
<1> QED
  BY <1>1, <1>2, <1>3, <1>4

(* The orders that are left after a bar.                                   *)
LEMMA OrdersAt ==
    ASSUME NEW list \in Seq(Orders), NEW places \in SUBSET (DOMAIN list)
    PROVE  AtPlaces(list, places) \in Seq(Orders)
<1>1. Len(list) \in Nat /\ list \in [1..Len(list) -> Orders] /\ DOMAIN list = 1..Len(list)
  OBVIOUS
<1>2. places \in SUBSET (1..Len(list))
  BY <1>1
<1>3. /\ Cardinality(places) \in Nat
      /\ AtPlaces(list, places) \in [1..Cardinality(places) -> Orders]
  BY <1>1, <1>2, AtPlacesFacts, Zenon
<1> QED
  BY <1>3, ListOf, Zenon

LEMMA OrdersLeft ==
    ASSUME MultiInv, NEW i \in Nat, NEW touched, NEW filled, Free(filled) \in Nat
    PROVE  /\ Hits(filled, touched, i) \in Seq(Orders)
           /\ Len(Hits(filled, touched, i)) <= Free(filled)
           /\ Unhit(filled, touched, i) \in Seq(Orders)
<1> DEFINE alive == Alive(i)
           reached == {k \in DOMAIN alive : alive[k].side \in touched}
<1>1. alive \in Seq(Orders)
  <2> DEFINE places == {k \in DOMAIN working : i <= working[k].expiry}
  <2>1. working \in Seq(Orders) /\ places \in SUBSET (DOMAIN working)
    BY DEF MultiInv
  <2> HIDE DEF places
  <2>2. AtPlaces(working, places) \in Seq(Orders)
    BY <2>1, OrdersAt, Zenon
  <2> QED
    BY <2>2 DEF Alive, places
<1> HIDE DEF alive
<1>2. AtPlaces(alive, reached) \in Seq(Orders)
  <2>1. reached \in SUBSET (DOMAIN alive)
    OBVIOUS
  <2> HIDE DEF reached
  <2> QED
    BY <1>1, <2>1, OrdersAt, Zenon
<1>3. Hits(filled, touched, i) = FirstOf(AtPlaces(alive, reached), Free(filled))
  BY Zenon DEF Hits, Reached, alive
<1>5. Unhit(filled, touched, i) \in Seq(Orders)
  <2> DEFINE places == {k \in DOMAIN alive :
                         k \notin reached \/ Cardinality({j \in reached : j < k}) >= Free(filled)}
  <2>1. places \in SUBSET (DOMAIN alive)
    OBVIOUS
  <2>2. Unhit(filled, touched, i) = AtPlaces(alive, places)
    BY Zenon DEF Unhit, Reached, alive
  <2> HIDE DEF places
  <2> QED
    BY <1>1, <2>1, <2>2, OrdersAt, Zenon
<1> HIDE DEF reached
<1>4. Hits(filled, touched, i) \in Seq(Orders) /\ Len(Hits(filled, touched, i)) <= Free(filled)
  BY <1>2, <1>3, FirstOfFacts
<1> QED
  BY <1>4, <1>5

(* Positions opened now.                                                   *)
LEMMA OpenedNow ==
    ASSUME NEW n \in Nat, NEW i \in Nat, NEW new, DOMAIN new = 1..n, new = [k \in 1..n |-> new[k]],
           \A k \in 1..n : \E side \in Sides, price \in Nat : new[k] = NewSlot(side, price, i)
    PROVE  /\ new \in [1..n -> Slots]
           /\ \A k \in 1..n : new[k].swap = 0 /\ new[k].entered = i
<1>1. ASSUME NEW side \in Sides, NEW price \in Nat
      PROVE  /\ NewSlot(side, price, i) \in Slots
             /\ NewSlot(side, price, i).swap = 0 /\ NewSlot(side, price, i).entered = i
  BY DEF NewSlot, Slots
<1>2. \A k \in 1..n : new[k] \in Slots /\ new[k].swap = 0 /\ new[k].entered = i
  BY <1>1
<1> QED
  BY <1>2

(* The book after a bar's fills: it has room for all, owes the swaps of    *)
(* those that stay, and nobody entered later than now.                     *)
BookFits(book, i, owed) ==
    /\ book \in Seq(Slots) /\ Len(book) \in Nat /\ Len(book) <= BookSlotCap
    /\ SwapsOf(book) = owed
    /\ \A k \in DOMAIN book : book[k].entered <= i

LEMMA BookGrows ==
    ASSUME NEW book, NEW i \in Nat, NEW owed, BookFits(book, i, owed), NEW n \in Nat,
           Len(book) + n <= BookSlotCap, NEW new \in [1..n -> Slots],
           \A k \in 1..n : new[k].swap = 0 /\ new[k].entered = i
    PROVE  BookFits(book \o new, i, owed)
<1> DEFINE m == Len(book)
           all == book \o new
<1>1. m \in Nat /\ book \in Seq(Slots) /\ book \in [1..m -> Slots] /\ DOMAIN book = 1..m
  BY DEF BookFits
<1>2. new \in Seq(Slots) /\ Len(new) = n
  BY ListOf
<1>3. /\ all \in Seq(Slots) /\ DOMAIN all = 1..(m + n) /\ Len(all) = m + n
      /\ \A k \in 1..m : all[k] = book[k]
      /\ \A k \in DOMAIN all : k \notin 1..m => k - m \in 1..n /\ all[k] = new[k - m]
  BY <1>1, <1>2, SlotsJoin, Zenon
<1> HIDE DEF m
<1>4. SwapsOf(all) = owed
  <2>1. \A k \in 1..n : new[k].swap = 0
    OBVIOUS
  <2>2. SwapsOf(all) = SwapsOf(book)
    BY <1>1, <2>1, SwapsJoin
  <2> QED
    BY <2>2, Zenon DEF BookFits
<1> HIDE DEF all
<1>5. \A k \in DOMAIN all : all[k].entered <= i
  <2>1. TAKE k \in DOMAIN all
  <2>2. CASE k \in 1..m
    BY <1>1, <1>3, <2>2, Zenon DEF BookFits
  <2>3. CASE k \notin 1..m
    <3>1. all[k].entered = i
      BY <1>3, <2>3
    <3>2. i <= i
      OBVIOUS
    <3> QED
      BY <3>1, <3>2
  <2> QED
    BY <2>2, <2>3
<1>6. Len(all) \in Nat /\ Len(all) <= BookSlotCap
  BY <1>1, <1>3 DEF m
<1> QED
  BY <1>3, <1>4, <1>5, <1>6 DEF BookFits, all

LEMMA FilledFits ==
    ASSUME MultiInv, NEW i \in Nat, i = index + 1, NEW open \in Nat, NEW close \in Nat, NEW marked,
           MarksFit(marked, Len(slots), i, close), IsMarks(marked, Len(slots)),
           NEW stay \in SUBSET (1..Len(slots))
    PROVE  BookFits(FillAtOpen(AtPlaces(marked, stay), open, i), i,
                    SumFunctionOnSet(SwapsMarked(marked), stay))
<1> DEFINE n == Len(slots)
           m == Cardinality(stay)
           kept == AtPlaces(marked, stay)
           book == StayersOf(marked, stay)
           owed == SumFunctionOnSet(SwapsMarked(marked), stay)
           taken == FirstOf(waiting, Free(kept))
           new == [k \in DOMAIN taken |-> NewSlot(waiting[k], open, i)]
<1>1. n \in Nat /\ n <= BookSlotCap /\ BookSlotCap \in Nat /\ DOMAIN slots = 1..n
      /\ waiting \in Seq(Sides) /\ index \in Nat /\ \A k \in 1..n : slots[k].entered <= index
  <2>1. slots \in Seq(Slots) /\ Len(slots) <= BookSlotCap /\ waiting \in Seq(Sides)
        /\ index \in Nat /\ \A k \in DOMAIN slots : slots[k].entered <= index
    BY Zenon DEF MultiInv, SwapIsPaidOnce
  <2>2. n \in Nat /\ DOMAIN slots = 1..n
    BY <2>1
  <2> QED
    BY <2>1, <2>2, BookConstants, Zenon
<1>2. /\ m \in Nat /\ m <= n /\ Len(kept) = m
      /\ book \in [1..m -> Slots] /\ SwapsOf(book) = owed
      /\ \A k \in 1..m : \E j \in 1..n : book[k].entered = slots[j].entered
  <2> HIDE DEF n, m, kept, book, owed
  <2>1. MarksFit(marked, n, i, close) /\ IsMarks(marked, n) /\ stay \in SUBSET (1..n)
    BY DEF n
  <2> QED
    BY <1>1, <2>1, StayersAreMarked DEF m, kept, book, owed
<1>3. FillAtOpen(kept, open, i) = book \o new
  BY Zenon DEF FillAtOpen, StayersOf
<1> HIDE DEF book, kept, owed, m, n
<1>4. BookFits(book, i, owed)
  <2>1. book \in Seq(Slots) /\ Len(book) = m /\ DOMAIN book = 1..m
    BY <1>2, ListOf
  <2>2. \A k \in 1..m : book[k].entered <= i
    <3>1. TAKE k \in 1..m
    <3>2. PICK j \in 1..n : book[k].entered = slots[j].entered
      BY <1>2
    <3>3. slots[j].entered <= index
      BY <1>1
    <3>4. slots[j] \in Slots
      BY <1>1 DEF MultiInv, n
    <3>5. slots[j].entered \in Nat
      BY <3>4 DEF Slots
    <3> QED
      BY <1>1, <3>2, <3>3, <3>5
  <2>3. m <= BookSlotCap
    BY <1>1, <1>2
  <2> QED
    BY <1>2, <2>1, <2>2, <2>3, Zenon DEF BookFits
<1>5. Free(kept) \in Nat /\ Free(kept) = BookSlotCap - m
  BY <1>1, <1>2 DEF Free
<1>6. /\ Len(taken) \in Nat /\ DOMAIN taken = 1..Len(taken) /\ Len(taken) <= Free(kept)
      /\ DOMAIN taken \subseteq DOMAIN waiting
  BY <1>1, <1>5, FirstOfFacts, Zenon
<1> DEFINE l == Len(taken)
<1> HIDE DEF taken
<1>7. new \in [1..l -> Slots] /\ \A k \in 1..l : new[k].swap = 0 /\ new[k].entered = i
  <2>1. DOMAIN new = 1..l /\ new = [k \in 1..l |-> new[k]]
    BY <1>6
  <2>2. \A k \in 1..l : waiting[k] \in Sides /\ new[k] = NewSlot(waiting[k], open, i)
    BY <1>1, <1>6
  <2> HIDE DEF new
  <2> QED
    BY <1>6, <2>1, <2>2, OpenedNow
<1>8. Len(book) + l <= BookSlotCap
  <2>1. Len(book) = m
    BY <1>2, ListOf
  <2> QED
    BY <1>1, <1>2, <1>5, <1>6, <2>1
<1> HIDE DEF new
<1>9. BookFits(book \o new, i, owed)
  BY <1>4, <1>6, <1>7, <1>8, BookGrows, Zenon
<1> QED
  BY <1>3, <1>9, Zenon DEF kept, owed

LEMMA BookedFits ==
    ASSUME MultiInv, NEW i \in Nat, NEW touched, NEW filled, NEW owed, BookFits(filled, i, owed)
    PROVE  LET hits == Hits(filled, touched, i)
           IN  BookFits(filled \o [k \in DOMAIN hits |-> NewSlot(hits[k].side, hits[k].price, i)],
                        i, owed)
<1> DEFINE hits == Hits(filled, touched, i)
           new == [k \in DOMAIN hits |-> NewSlot(hits[k].side, hits[k].price, i)]
           l == Len(hits)
<1>1. Free(filled) \in Nat /\ Free(filled) = BookSlotCap - Len(filled) /\ Len(filled) \in Nat
  <2>1. Len(filled) \in Nat /\ Len(filled) <= BookSlotCap /\ BookSlotCap \in Nat
    BY BookConstants, Zenon DEF BookFits
  <2> QED
    BY <2>1 DEF Free
<1>2. hits \in Seq(Orders) /\ l <= Free(filled)
  BY <1>1, OrdersLeft, Zenon
<1> HIDE DEF hits
<1>3. l \in Nat /\ DOMAIN hits = 1..l /\ \A k \in 1..l : hits[k] \in Orders
  BY <1>2
<1>4. new \in [1..l -> Slots] /\ \A k \in 1..l : new[k].swap = 0 /\ new[k].entered = i
  <2>1. DOMAIN new = 1..l /\ new = [k \in 1..l |-> new[k]]
    BY <1>3
  <2>2. \A k \in 1..l : /\ hits[k].side \in Sides /\ hits[k].price \in Nat
                        /\ new[k] = NewSlot(hits[k].side, hits[k].price, i)
    BY <1>3 DEF Orders
  <2> HIDE DEF new
  <2>3. \A k \in 1..l : \E side \in Sides, price \in Nat : new[k] = NewSlot(side, price, i)
    BY <2>2, Zenon
  <2>4. l \in Nat
    BY <1>3, Zenon
  <2> HIDE DEF l
  <2> QED
    BY <2>1, <2>3, <2>4, OpenedNow
<1>5. Len(filled) + l <= BookSlotCap
  BY <1>1, <1>2, <1>3, BookConstants
<1> HIDE DEF new
<1>6. BookFits(filled \o new, i, owed)
  BY <1>3, <1>4, <1>5, BookGrows, Zenon
<1> QED
  BY <1>6 DEF new, hits

(***************************************************************************)
(* The money of a bar.                                                     *)
(***************************************************************************)

ChargedAt(i, close) ==
    IF NewDay(i) THEN SumFunction([k \in DOMAIN slots |-> Swap(close)]) ELSE 0

PaidAt(i, close) ==
    SumFunction([k \in DOMAIN slots |->
        IF slots[k].entered < i /\ (i - 1) \div DateBars # (i - 2) \div DateBars
        THEN Swap(close) ELSE 0])

DueAt(n, i, close) == SumFunctionOnSet([k \in 1..n |-> Due(i, close)], 1..n)

NetGone(gone)   == SumFunction([k \in DOMAIN gone |-> NetOf(gone[k].slot, gone[k].exit)])
GrossGone(gone) == SumFunction([k \in DOMAIN gone |-> GrossOf(gone[k].slot, gone[k].exit)])

(* Every position held over a day's end is charged, once.                  *)
LEMMA ChargesFall ==
    ASSUME MultiInv, NEW i \in Nat, i = index + 1, NEW close \in Nat,
           NEW n \in Nat, DOMAIN slots = 1..n
    PROVE  /\ ChargedAt(i, close) = DueAt(n, i, close)
           /\ PaidAt(i, close) = DueAt(n, i, close)
           /\ Due(i, close) \in Int
<1> DEFINE due == [k \in 1..n |-> Due(i, close)]
           f == [k \in DOMAIN slots |-> Swap(close)]
           g == [k \in DOMAIN slots |->
                   IF slots[k].entered < i /\ (i - 1) \div DateBars # (i - 2) \div DateBars
                   THEN Swap(close) ELSE 0]
<1>1. IsFiniteSet(1..n)
  BY FS_Interval
<1>2. Swap(close) \in Int
  BY SwapIsAnInteger
<1>3. \A k \in 1..n : due[k] = Due(i, close)
  OBVIOUS
<1>8. Due(i, close) \in Int
  BY <1>2 DEF Due
<1> HIDE DEF due
<1>4. \A k \in 1..n : g[k] = due[k]
  <2>1. TAKE k \in 1..n
  <2>2. index \in Nat /\ slots[k].entered <= index /\ slots[k] \in Slots /\ slots # <<>>
    BY DEF MultiInv
  <2>3. slots[k].entered \in Nat
    BY <2>2 DEF Slots
  <2>4. index # 0
    BY <2>2 DEF MultiInv
  <2>5. i > 1 /\ slots[k].entered < i
    BY <2>2, <2>3, <2>4
  <2>6. NewDay(i) <=> (i - 1) \div DateBars # (i - 2) \div DateBars
    BY <2>5, DaysBegin
  <2>7. g[k] = IF slots[k].entered < i /\ (i - 1) \div DateBars # (i - 2) \div DateBars
               THEN Swap(close) ELSE 0
    OBVIOUS
  <2> HIDE DEF g
  <2> QED
    BY <1>3, <2>5, <2>6, <2>7 DEF Due
<1>5. SumFunction(f) = SumFunctionOnSet(f, 1..n) /\ SumFunction(g) = SumFunctionOnSet(g, 1..n)
  <2>1. DOMAIN f = 1..n /\ DOMAIN g = 1..n
    OBVIOUS
  <2> HIDE DEF f, g
  <2> QED
    BY <2>1 DEF SumFunction
<1>6. CASE NewDay(i)
  <2>1. \A k \in 1..n : f[k] = due[k]
    BY <1>3, <1>6 DEF Due
  <2> HIDE DEF f, g
  <2>2. SumFunctionOnSet(f, 1..n) = SumFunctionOnSet(due, 1..n)
    BY <1>1, <2>1, SumOfTheSame
  <2>3. SumFunctionOnSet(g, 1..n) = SumFunctionOnSet(due, 1..n)
    BY <1>1, <1>4, SumOfTheSame
  <2> QED
    BY <1>5, <1>6, <1>8, <2>2, <2>3, Zenon DEF f, g, due, ChargedAt, PaidAt, DueAt
<1>7. CASE ~ NewDay(i)
  <2>1. \A k \in 1..n : due[k] = 0
    BY <1>3, <1>7 DEF Due
  <2> HIDE DEF f, g
  <2>2. SumFunctionOnSet(due, 1..n) = 0
    BY <1>1, <2>1, SumOfZeros
  <2>3. SumFunctionOnSet(g, 1..n) = SumFunctionOnSet(due, 1..n)
    BY <1>1, <1>4, SumOfTheSame
  <2> QED
    BY <1>5, <1>7, <1>8, <2>2, <2>3, Zenon DEF f, g, due, ChargedAt, PaidAt, DueAt
<1> QED
  BY <1>6, <1>7

(* What leaves takes its swap from the open ones into its trade.           *)
LEMMA LeavingPays ==
    ASSUME NEW n \in Nat, NEW i \in Nat, NEW close \in Nat, NEW marked,
           MarksFit(marked, n, i, close), NEW rest \in SUBSET (1..n),
           NEW gone, gone = Restrict(marked, rest)
    PROVE  /\ Released(gone) = SumFunctionOnSet(SwapsMarked(marked), rest)
           /\ Released(gone) \in Int
           /\ NetGone(gone) \in Int /\ GrossGone(gone) = NetGone(gone) + Released(gone)
<1> DEFINE net   == [k \in DOMAIN gone |-> NetOf(gone[k].slot, gone[k].exit)]
           gross == [k \in DOMAIN gone |-> GrossOf(gone[k].slot, gone[k].exit)]
           swap  == [k \in DOMAIN gone |-> gone[k].slot.swap]
           all   == SwapsMarked(marked)
<1>1. DOMAIN gone = rest /\ \A k \in rest : gone[k] = marked[k]
  BY DEF Restrict
<1>2. IsFiniteSet(rest)
  <2>1. IsFiniteSet(1..n)
    BY FS_Interval
  <2> QED
    BY <2>1, FS_Subset, Zenon
<1>3. \A k \in rest : /\ gone[k].slot \in Slots /\ gone[k].exit.price \in Nat
  BY <1>1 DEF MarksFit
<1>4. \A k \in rest : /\ swap[k] \in Int /\ net[k] \in Int
                      /\ gross[k] = net[k] + swap[k] /\ swap[k] = all[k]
  <2>1. TAKE k \in rest
  <2> DEFINE s == gone[k].slot
             e == gone[k].exit
  <2>2. s \in Slots /\ e.price \in Nat
    BY <1>3
  <2>3. net[k] = NetOf(s, e) /\ gross[k] = GrossOf(s, e) /\ swap[k] = s.swap
    BY <1>1
  <2>4. all[k] = s.swap
    BY <1>1 DEF SwapsMarked, MarksFit
  <2> HIDE DEF s, e, all, net, gross, swap
  <2>5. GrossOf(s, e) \in Int /\ NetOf(s, e) = GrossOf(s, e) - s.swap
    BY <2>2, MoneyFacts
  <2>6. s.swap \in Int
    BY <2>2 DEF Slots
  <2>7. ASSUME NEW a \in Int, NEW b \in Int, NEW c, c = a - b PROVE c \in Int /\ a = c + b
    BY <2>7
  <2>8. NetOf(s, e) \in Int /\ GrossOf(s, e) = NetOf(s, e) + s.swap
    BY <2>5, <2>6, <2>7, Zenon
  <2> QED
    BY <2>3, <2>4, <2>6, <2>8, Zenon
<1>5. /\ SumFunction(net) = SumFunctionOnSet(net, rest)
      /\ SumFunction(gross) = SumFunctionOnSet(gross, rest)
      /\ SumFunction(swap) = SumFunctionOnSet(swap, rest)
  <2>1. DOMAIN net = rest /\ DOMAIN gross = rest /\ DOMAIN swap = rest
    BY <1>1
  <2> HIDE DEF net, gross, swap
  <2> QED
    BY <2>1 DEF SumFunction
<1>6. Released(gone) = SumFunction(swap)
  BY Zenon DEF Released
<1> HIDE DEF net, gross, swap, all
<1>7. SumFunctionOnSet(gross, rest) = SumFunctionOnSet(net, rest) + SumFunctionOnSet(swap, rest)
  BY <1>2, <1>4, SumOfSums
<1>8. SumFunctionOnSet(net, rest) \in Int /\ SumFunctionOnSet(swap, rest) \in Int
  BY <1>2, <1>4, SumIsAnInteger
<1>9. SumFunctionOnSet(swap, rest) = SumFunctionOnSet(all, rest)
  BY <1>2, <1>4, SumOfTheSame
<1>10. NetGone(gone) = SumFunction(net) /\ GrossGone(gone) = SumFunction(gross)
  BY Zenon DEF NetGone, GrossGone, net, gross
<1> QED
  BY <1>5, <1>6, <1>7, <1>8, <1>9, <1>10 DEF all

LEMMA BarKeepsBook ==
    ASSUME MultiInv, NEW open \in Nat, NEW close \in Nat, NEW why, NEW touched,
           NEW ordered \in Seq(Sides), NEW limits \in Seq(Sides),
           StepBar(open, close, why, touched, ordered, limits)
    PROVE  MultiInv'
<1> DEFINE i == index + 1
           n == Len(slots)
           marked == Marked(BookOf(i, close), why, open, close)
           stay == {k \in DOMAIN marked : marked[k].stays}
           rest == DOMAIN marked \ stay
           gone == Restrict(marked, rest)
           filled == FillAtOpen(AtPlaces(marked, stay), open, i)
           hits == Hits(filled, touched, i)
           opened == [k \in DOMAIN hits |-> NewSlot(hits[k].side, hits[k].price, i)]
           sw == SwapsMarked(marked)
           old == [k \in DOMAIN slots |-> slots[k].swap]
           due == [k \in 1..n |-> Due(i, close)]
           earned == NetGone(gone)
           grossed == GrossGone(gone)
           charge == DueAt(n, i, close)
           owed == SumFunctionOnSet(sw, stay)
<1>1. BookBar(i, close, gone, filled, hits, Unhit(filled, touched, i), ordered, limits)
  BY Zenon DEF StepBar, BookFilled, BookOf
<1>2. index \in Nat /\ i \in Nat /\ i = index + 1 /\ n \in Nat /\ DOMAIN slots = 1..n
      /\ realised \in Int /\ swapOpen \in Int /\ purse \in Int /\ SwapIsPaidOnce
      /\ \A k \in 1..n : slots[k] \in Slots
  <2>1. index \in Nat /\ slots \in Seq(Slots)
      /\ realised \in Int /\ swapOpen \in Int /\ purse \in Int /\ SwapIsPaidOnce
    BY Zenon DEF MultiInv
  <2> QED
    BY <2>1
<1> HIDE DEF i, n, marked
<1>3. MarksFit(marked, n, i, close) /\ IsMarks(marked, n)
  BY <1>2, MarksAreMade, Zenon DEF marked, n
<1>4. stay \in SUBSET (1..n) /\ rest = (1..n) \ stay /\ rest \in SUBSET (1..n)
  BY <1>3 DEF MarksFit
<1>5. BookFits(filled, i, owed)
  <2> HIDE DEF stay, rest, gone, hits, sw
  <2> QED
    BY <1>2, <1>3, <1>4, FilledFits, Zenon DEF n, sw
<1>6. BookFits(filled \o opened, i, owed)
  <2> HIDE DEF filled, owed
  <2> QED
    BY <1>2, <1>5, BookedFits, Zenon
<1>7. ChargedAt(i, close) = charge /\ PaidAt(i, close) = charge /\ Due(i, close) \in Int
  BY <1>2, ChargesFall
<1>8. Released(gone) = SumFunctionOnSet(sw, rest) /\ Released(gone) \in Int
      /\ earned \in Int /\ grossed = earned + Released(gone)
  <2> HIDE DEF rest, sw, gone
  <2>1. gone = Restrict(marked, rest)
    BY Zenon DEF gone
  <2> QED
    BY <1>2, <1>3, <1>4, <2>1, LeavingPays DEF sw
<1> HIDE DEF stay, rest, gone, filled, hits, opened, due, old
<1>9. \A k \in 1..n : old[k] \in Int /\ due[k] \in Int /\ sw[k] = old[k] + due[k]
  <2>1. \A k \in 1..n : old[k] = slots[k].swap /\ due[k] = Due(i, close)
                        /\ sw[k] = marked[k].slot.swap
    BY <1>2, <1>3 DEF old, due, SwapsMarked, MarksFit
  <2>2. \A k \in 1..n : slots[k].swap \in Int
    BY <1>2 DEF Slots
  <2>3. \A k \in 1..n : marked[k].slot.swap = slots[k].swap + Due(i, close)
    BY <1>3, Zenon DEF MarksFit
  <2> HIDE DEF sw
  <2>4. \A k \in 1..n : sw[k] = old[k] + due[k]
    BY <2>1, <2>3
  <2> QED
    BY <1>7, <2>1, <2>2, <2>4, Zenon
<1>10. SwapsOf(slots) = SumFunctionOnSet(old, 1..n)
  BY <1>2, Zenon DEF SwapsOf, old
<1> HIDE DEF sw
<1>11. /\ SumFunctionOnSet(sw, 1..n) = SwapsOf(slots) + charge
       /\ SumFunctionOnSet(sw, 1..n) = owed + Released(gone)
       /\ charge \in Int /\ owed \in Int
  <2>1. IsFiniteSet(1..n)
    BY <1>2, FS_Interval
  <2>2. SumFunctionOnSet(sw, 1..n) = SumFunctionOnSet(old, 1..n) + SumFunctionOnSet(due, 1..n)
    BY <1>9, <2>1, SumOfSums
  <2>3. charge \in Int /\ charge = SumFunctionOnSet(due, 1..n)
    <3>1. SumFunctionOnSet(due, 1..n) \in Int
      BY <1>9, <2>1, SumIsAnInteger
    <3> QED
      BY <3>1, Zenon DEF DueAt, due
  <2>4. \A k \in 1..n : sw[k] \in Int
    BY <1>9
  <2>5. SumFunctionOnSet(sw, 1..n) = SumFunctionOnSet(sw, stay) + SumFunctionOnSet(sw, (1..n) \ stay)
        /\ SumFunctionOnSet(sw, stay) \in Int
    BY <1>2, <1>4, <2>4, SumsSplit
  <2> QED
    BY <1>4, <1>8, <1>10, <2>2, <2>3, <2>5
<1> HIDE DEF owed, charge, earned, grossed
<1>12. /\ slots' = filled \o opened /\ waiting' = ordered /\ index' = i
       /\ working' = Unhit(filled, touched, i) \o [k \in DOMAIN limits |-> NewOrder(limits[k], close, i)]
       /\ realised' = realised + earned
       /\ swapOpen' = swapOpen + charge - Released(gone)
       /\ purse' = purse - charge + grossed
  BY <1>1, <1>7, Zenon DEF BookBar, opened, earned, grossed, ChargedAt, PaidAt, NetGone, GrossGone
<1>13. point' = realised' + SumFunction([k \in DOMAIN slots' |->
                              slots'[k].side * (close - slots'[k].entry)]) - swapOpen'
  BY <1>1, Zenon DEF BookBar
<1>14. swapOpen = SwapsOf(slots) /\ realised - swapOpen = purse
  BY <1>2, Zenon DEF SwapIsPaidOnce, SwapsOf, SumFunction
<1>15. /\ realised' \in Int /\ swapOpen' \in Int /\ purse' \in Int
       /\ swapOpen' = owed /\ realised' - swapOpen' = purse'
  <2>1. swapOpen + charge = owed + Released(gone)
    BY <1>11, <1>14
  <2> DEFINE left == Released(gone)
  <2>2. left \in Int /\ grossed = earned + left /\ swapOpen + charge = owed + left
        /\ realised' = realised + earned /\ swapOpen' = swapOpen + charge - left
        /\ purse' = purse - charge + grossed
    BY <1>8, <1>12, <2>1, Zenon
  <2>3. /\ realised \in Int /\ swapOpen \in Int /\ purse \in Int /\ realised - swapOpen = purse
        /\ charge \in Int /\ owed \in Int /\ earned \in Int
    BY <1>2, <1>8, <1>11, <1>14, Zenon
  <2> HIDE DEF left
  <2>4. realised' \in Int /\ swapOpen' \in Int /\ swapOpen' = owed
    BY <2>2, <2>3
  <2>5. grossed \in Int /\ purse' \in Int
    BY <2>2, <2>3
  <2>6. realised' - swapOpen' = purse'
    BY <2>2, <2>3
  <2> QED
    BY <2>4, <2>5, <2>6
<1>16. /\ slots' \in Seq(Slots) /\ Len(slots') <= BookSlotCap
       /\ SwapsOf(slots') = owed /\ \A k \in DOMAIN slots' : slots'[k].entered <= i
  BY <1>6, <1>12, Zenon DEF BookFits
<1>17. swapOpen' = SumFunction([k \in DOMAIN slots' |-> slots'[k].swap])
  BY <1>15, <1>16, Zenon DEF SwapsOf, SumFunction
<1>18. slots' = <<>> => point' = purse'
  <2>1. HAVE slots' = <<>>
  <2>2. DOMAIN slots' = {}
    BY <2>1
  <2> DEFINE f == [k \in DOMAIN slots' |-> slots'[k].side * (close - slots'[k].entry)]
  <2>3. DOMAIN f = {}
    BY <2>2
  <2> HIDE DEF f
  <2>4. SumFunction(f) = 0
    BY <2>3, SumOfNothing DEF SumFunction
  <2>5. point' = realised' + 0 - swapOpen'
    BY <1>13, <2>4, Zenon DEF f
  <2>6. ASSUME NEW a \in Int, NEW b \in Int PROVE a + 0 - b = a - b
    OBVIOUS
  <2> QED
    BY <1>15, <2>5, <2>6, Zenon
<1>19. SwapIsPaidOnce'
  BY <1>15, <1>16, <1>17, <1>18, Zenon DEF SwapIsPaidOnce
<1>20. working' \in Seq(Orders)
  <2> DEFINE new == [k \in DOMAIN limits |-> NewOrder(limits[k], close, i)]
             l == Len(limits)
  <2>1. l \in Nat /\ DOMAIN limits = 1..l /\ \A k \in 1..l : limits[k] \in Sides
    OBVIOUS
  <2>2. \A k \in 1..l : NewOrder(limits[k], close, i) \in Orders
    <3>1. i + OrderBars \in Int /\ i \in Int
      BY <1>2, BookConstants
    <3> QED
      BY <2>1, <3>1 DEF NewOrder, Orders
  <2>3. new \in [1..l -> Orders]
    BY <2>1, <2>2
  <2> HIDE DEF new, l
  <2>4. new \in Seq(Orders)
    BY <2>1, <2>3, ListOf
  <2>5. Unhit(filled, touched, i) \in Seq(Orders)
    <3>1. Free(filled) \in Nat
      <4>1. Len(filled) \in Nat /\ Len(filled) <= BookSlotCap /\ BookSlotCap \in Nat
        BY <1>5, BookConstants, Zenon DEF BookFits
      <4> QED
        BY <4>1 DEF Free
    <3> QED
      BY <1>2, <3>1, OrdersLeft, Zenon
  <2>6. \A s, t \in Seq(Orders) : s \o t \in Seq(Orders)
    BY Concatenated
  <2> QED
    BY <1>12, <2>4, <2>5, <2>6, Zenon DEF new
<1>21. index' \in Nat /\ index' # 0
  BY <1>2, <1>12
<1> QED
  BY <1>12, <1>15, <1>16, <1>19, <1>20, <1>21, Zenon DEF MultiInv

LEMMA CloseKeepsBook ==
    ASSUME MultiInv, CloseBook
    PROVE  MultiInv'
<1> DEFINE n == Len(slots)
<1>1. n \in Nat /\ DOMAIN slots = 1..n /\ IsFiniteSet(1..n) /\ \A k \in 1..n : slots[k] \in Slots
  <2>1. slots \in Seq(Slots)
    BY Zenon DEF MultiInv
  <2>2. n \in Nat /\ DOMAIN slots = 1..n /\ \A k \in 1..n : slots[k] \in Slots
    BY <2>1
  <2> QED
    BY <2>2, FS_Interval
<1> HIDE DEF n
<1>2. PICK close \in { b.close : b \in BookBars } :
         LET exit == Exits("end of data", close)
         IN  /\ realised' = realised + SumFunction([k \in DOMAIN slots |-> NetOf(slots[k], exit)])
             /\ purse' = purse + SumFunction([k \in DOMAIN slots |-> GrossOf(slots[k], exit)])
  BY Zenon DEF CloseBook
<1> DEFINE exit  == Exits("end of data", close)
           net   == [k \in DOMAIN slots |-> NetOf(slots[k], exit)]
           gross == [k \in DOMAIN slots |-> GrossOf(slots[k], exit)]
           swap  == [k \in DOMAIN slots |-> slots[k].swap]
           nets  == SumFunctionOnSet(net, 1..n)
           swaps == SumFunctionOnSet(swap, 1..n)
<1>3. exit.price \in Nat
  <2>1. exit.price = close
    BY DEF Exits
  <2>2. close \in Nat
    BY <1>2, BookConstants
  <2> QED
    BY <2>1, <2>2
<1> HIDE DEF exit
<1>4. \A k \in 1..n : /\ swap[k] \in Int /\ net[k] \in Int /\ gross[k] = net[k] + swap[k]
  <2>1. TAKE k \in 1..n
  <2> DEFINE s == slots[k]
  <2>2. s \in Slots
    BY <1>1
  <2>3. net[k] = NetOf(s, exit) /\ gross[k] = GrossOf(s, exit) /\ swap[k] = s.swap
    BY <1>1
  <2> HIDE DEF s, net, gross, swap
  <2>4. GrossOf(s, exit) \in Int /\ NetOf(s, exit) = GrossOf(s, exit) - s.swap
    BY <1>3, <2>2, MoneyFacts
  <2>5. s.swap \in Int
    BY <2>2 DEF Slots
  <2>6. ASSUME NEW a \in Int, NEW b \in Int, NEW c, c = a - b PROVE c \in Int /\ a = c + b
    BY <2>6
  <2>7. NetOf(s, exit) \in Int /\ GrossOf(s, exit) = NetOf(s, exit) + s.swap
    BY <2>4, <2>5, <2>6, Zenon
  <2> QED
    BY <2>3, <2>5, <2>7, Zenon
<1>5. DOMAIN net = 1..n /\ DOMAIN gross = 1..n /\ DOMAIN swap = 1..n
  BY <1>1
<1>6. realised' = realised + nets /\ purse' = purse + SumFunctionOnSet(gross, 1..n)
      /\ swapOpen = swaps
  <2>1. realised' = realised + SumFunction(net) /\ purse' = purse + SumFunction(gross)
    BY <1>2, Zenon DEF exit, net, gross
  <2>2. swapOpen = SumFunction(swap)
    BY Zenon DEF MultiInv, SwapIsPaidOnce, swap
  <2> HIDE DEF net, gross, swap
  <2> QED
    BY <1>5, <2>1, <2>2, Zenon DEF SumFunction
<1> HIDE DEF net, gross, swap
<1>7. SumFunctionOnSet(gross, 1..n) = nets + swaps /\ nets \in Int /\ swaps \in Int
  <2>1. SumFunctionOnSet(gross, 1..n) = nets + swaps
    BY <1>1, <1>4, SumOfSums
  <2>2. nets \in Int /\ swaps \in Int
    BY <1>1, <1>4, SumIsAnInteger
  <2> QED
    BY <2>1, <2>2, Zenon
<1> HIDE DEF nets, swaps
<1>8. /\ slots' = <<>> /\ waiting' = <<>> /\ working' = <<>> /\ point' = realised' /\ swapOpen' = 0
      /\ index' = MaxBookBars
  BY Zenon DEF CloseBook
<1>9. realised \in Int /\ purse \in Int /\ realised - swaps = purse
  BY <1>6, Zenon DEF MultiInv, SwapIsPaidOnce
<1>10. realised' \in Int /\ purse' \in Int /\ realised' - 0 = purse' /\ point' = purse'
  <2>1. realised' = realised + nets /\ purse' = purse + (nets + swaps)
    BY <1>6, <1>7, Zenon
  <2>2. realised' \in Int /\ purse' \in Int /\ realised' = purse'
    BY <1>7, <1>9, <2>1
  <2> QED
    BY <1>8, <2>2
<1>11. SumFunction([k \in DOMAIN slots' |-> slots'[k].swap]) = 0
  <2> DEFINE f == [k \in DOMAIN slots' |-> slots'[k].swap]
  <2>1. DOMAIN f = {}
    <3>1. DOMAIN slots' = {}
      BY <1>8
    <3> QED
      BY <3>1
  <2> HIDE DEF f
  <2>2. SumFunction(f) = 0
    BY <2>1, SumOfNothing DEF SumFunction
  <2> QED
    BY <2>2 DEF f
<1>12. SwapIsPaidOnce'
  <2>1. Len(slots') <= BookSlotCap
    BY <1>8, BookConstants
  <2> QED
    BY <1>8, <1>10, <1>11, <2>1, Zenon DEF SwapIsPaidOnce
<1>13. /\ slots' \in Seq(Slots) /\ waiting' \in Seq(Sides) /\ working' \in Seq(Orders)
       /\ DOMAIN slots' = {} /\ swapOpen' \in Int /\ index' \in Nat
  BY <1>8, BookConstants
<1> QED
  BY <1>8, <1>10, <1>12, <1>13 DEF MultiInv

LEMMA MultiStarts == MultiInit => MultiInv
<1>1. HAVE MultiInit
<1>2. /\ index = 0 /\ slots = <<>> /\ waiting = <<>> /\ working = <<>>
      /\ realised = 0 /\ swapOpen = 0 /\ point = 0 /\ purse = 0
  BY <1>1, Zenon DEF MultiInit
<1>3. DOMAIN slots = {} /\ Len(slots) <= BookSlotCap
  BY <1>2, BookConstants
<1> DEFINE f == [k \in DOMAIN slots |-> slots[k].swap]
<1>4. DOMAIN f = {}
  BY <1>3
<1> HIDE DEF f
<1>5. SumFunction(f) = 0
  BY <1>4, SumOfNothing DEF SumFunction
<1>6. realised - swapOpen = purse
  BY <1>2
<1>7. SwapIsPaidOnce
  BY <1>2, <1>3, <1>5, <1>6, Zenon DEF SwapIsPaidOnce, f
<1>8. /\ index \in Nat /\ slots \in Seq(Slots) /\ waiting \in Seq(Sides) /\ working \in Seq(Orders)
      /\ realised \in Int /\ swapOpen \in Int /\ purse \in Int
  BY <1>2
<1> QED
  BY <1>2, <1>3, <1>7, <1>8 DEF MultiInv

(***************************************************************************)
(* The back-tests.                                                         *)
(***************************************************************************)
BacktestInv == SimInv /\ MultiInv

LEMMA BacktestSteps ==
    ASSUME BacktestInv,
           [(SimNext /\ UNCHANGED multiVars) \/ (MultiNext /\ UNCHANGED simVars)]_<<simVars, multiVars>>
    PROVE  BacktestInv'
<1>1. ASSUME SimNext PROVE SimInv'
  <2>1. CASE \E b \in SimBars, signal \in Signals \union {None}, atr \in Atrs :
               NextBar(b, signal, atr)
    BY <2>1, BarKeeps, Zenon DEF BacktestInv
  <2>2. CASE \E close \in SimPrices : EndOfData(close)
    BY <2>2, EndKeeps, Zenon DEF BacktestInv
  <2> QED
    BY <1>1, <2>1, <2>2, Zenon DEF SimNext
<1>2. ASSUME MultiNext PROVE MultiInv'
  <2>1. CASE OneBar
    <3>1. PICK b \in BookBars, why \in [DOMAIN slots -> Reasons],
               touched \in SUBSET { o.side : o \in Range(working) }, sig \in BookSignals :
             StepBar(b.open, b.close, why, touched, sig.market, sig.limits)
      BY <2>1, Zenon DEF OneBar
    <3>2. b.open \in Nat /\ b.close \in Nat /\ sig.market \in Seq(Sides) /\ sig.limits \in Seq(Sides)
      BY BookConstants, Zenon
    <3> QED
      BY <3>1, <3>2, BarKeepsBook, Zenon DEF BacktestInv
  <2>2. CASE CloseBook
    BY <2>2, CloseKeepsBook, Zenon DEF BacktestInv
  <2> QED
    BY <1>2, <2>1, <2>2, Zenon DEF MultiNext
<1>3. ASSUME UNCHANGED simVars PROVE SimInv'
  BY <1>3 DEF BacktestInv, SimInv, simVars, HeldInTime, IsPosition, TradesKeepTheRules,
     TradesAreCausal, TimeStopBoundsTheHold, CurveEndsAtTheBook
<1>4. ASSUME UNCHANGED multiVars PROVE MultiInv'
  BY <1>4 DEF BacktestInv, MultiInv, multiVars, SwapIsPaidOnce
<1>5. CASE SimNext /\ UNCHANGED multiVars
  BY <1>1, <1>4, <1>5, Zenon DEF BacktestInv
<1>6. CASE MultiNext /\ UNCHANGED simVars
  BY <1>2, <1>3, <1>6, Zenon DEF BacktestInv
<1>7. CASE UNCHANGED <<simVars, multiVars>>
  <2>1. UNCHANGED simVars /\ UNCHANGED multiVars
    BY <1>7
  <2> QED
    BY <1>3, <1>4, <2>1, Zenon DEF BacktestInv
<1> QED
  BY <1>5, <1>6, <1>7, Zenon

(* A back-test keeps its rules with one position or several: every trade   *)
(* is entered on the bar after its signal's and left in time, and the      *)
(* curve with the swaps it has been debited is what an account would hold  *)
(* that pays each charge on its day -- for all prices, strategies, exit    *)
(* rules, slots, rates and lengths of a day.                               *)
THEOREM BacktestsStayExact == BacktestSpec => []BacktestsAddUp
<1>1. SimInit /\ MultiInit => BacktestInv
  BY SimStarts, MultiStarts, Zenon DEF BacktestInv
<1>2. BacktestInv /\ [(SimNext /\ UNCHANGED multiVars)
                        \/ (MultiNext /\ UNCHANGED simVars)]_<<simVars, multiVars>> => BacktestInv'
  BY BacktestSteps, Zenon
<1>3. BacktestInv => BacktestsAddUp
  BY Zenon DEF BacktestInv, SimInv, MultiInv, BacktestsAddUp
<1> QED
  BY <1>1, <1>2, <1>3, PTL DEF BacktestSpec
=============================================================================
