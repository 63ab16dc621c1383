----------------------------- MODULE SignProofs -----------------------------
(***************************************************************************)
(* Theorems about the detectors of signs and the strategies replayed over  *)
(* a window, for every value of their constants: nothing looks ahead, the  *)
(* two ways to ask a detector agree, and the window holds the entry of     *)
(* every position that can be open.                                        *)
(***************************************************************************)
EXTENDS Rides, Arithmetic

(***************************************************************************)
(* The peaks.  They come in the order of their bars, with what they are;   *)
(* a new one is merged in from the left.                                   *)
(***************************************************************************)
PeakKinds == {2, 1, -1, -2}
PeakType  == [at : Int, kind : PeakKinds]

(* Two confirmed peaks of one kind have one of the other between them.     *)
Alternates(s) ==
    \A c \in {2, -2} : \A j, k \in DOMAIN s :
      j < k /\ s[j].kind = c /\ s[k].kind = c =>
        \E i \in DOMAIN s : j < i /\ i < k /\ s[i].kind = -c

(* A merge puts the older peak first, changes no place and no direction.   *)
IsMerged(m, p, kind, later) ==
    /\ m \in Seq(PeakType) /\ Len(m) = Len(later) + 1
    /\ m[1].at = p /\ (m[1].kind > 0) = (kind > 0)
    /\ \A j \in 1..Len(later) :
         m[j + 1].at = later[j].at /\ (m[j + 1].kind > 0) = (later[j].kind > 0)

(* A merge keeps the places and the alternation.                           *)
LEMMA MergeFacts ==
    ASSUME NEW bars, NEW p \in Int, NEW kind \in PeakKinds, NEW later \in Seq(PeakType)
    PROVE  /\ IsMerged(Merge(bars, p, kind, later), p, kind, later)
           /\ Alternates(later) => Alternates(Merge(bars, p, kind, later))
<1> DEFINE turn    == { j \in DOMAIN later : later[j].kind = -kind }
           run     == 1 .. (IF turn = {} THEN Len(later) ELSE Min(turn) - 1)
           rivals  == { j \in run : later[j].kind = kind }
           holders == { j \in rivals : ~Beats(bars, p, later[j].at, kind) }
           demoted == { j \in rivals : \A h \in holders : j < h }
           early   == IF kind > 0 THEN 1 ELSE -1
           rest    == [j \in DOMAIN later |->
                         IF j \in demoted THEN [later[j] EXCEPT !.kind = early] ELSE later[j]]
           first   == [at |-> p, kind |-> IF holders = {} THEN kind ELSE early]
           plain   == [at |-> p, kind |-> kind]
           m       == Merge(bars, p, kind, later)
           N       == Len(later)
<1>1. N \in Nat /\ DOMAIN later = 1..N /\ \A j \in 1..N : later[j] \in PeakType
  OBVIOUS
<1>2. turn # {} => Min(turn) \in turn /\ \A i \in turn : Min(turn) <= i
  <2>1. turn \in SUBSET Nat
    BY <1>1
  <2> HIDE DEF turn
  <2> QED
    BY <2>1, MinIsLeast
<1>3. run \subseteq 1..N
  <2> HIDE DEF turn
  <2>1. turn # {} => Min(turn) \in 1..N
    BY <1>1, <1>2 DEF turn
  <2>2. CASE turn = {}
    BY <1>1, <2>2
  <2>3. CASE turn # {}
    BY <1>1, <2>1, <2>3
  <2> QED
    BY <2>2, <2>3
<1>4. demoted \subseteq rivals /\ rivals \subseteq run
  OBVIOUS
<1>5. holders = {} => demoted = rivals
  OBVIOUS
<1>6. \A j \in demoted : j \in 1..N /\ later[j].kind = kind
  BY <1>3
<1>7. \A j \in 1..N : j \notin run => turn # {} /\ Min(turn) <= j
  <2> HIDE DEF turn
  <2>1. turn # {} => Min(turn) \in Nat
    BY <1>1, <1>2 DEF turn
  <2> QED
    BY <1>1, <2>1
<1>8. \A j \in run : turn # {} => j < Min(turn)
  <2> HIDE DEF turn
  <2>1. turn # {} => Min(turn) \in Nat
    BY <1>1, <1>2 DEF turn
  <2> QED
    BY <2>1
<1>9. m = IF kind \in {1, -1} THEN <<plain>> \o later ELSE <<first>> \o rest
  BY DEF Merge
<1>10. plain \in PeakType /\ first \in PeakType /\ early \in {1, -1} /\ (early > 0) = (kind > 0)
  BY DEF PeakType, PeakKinds
<1>11. /\ rest \in Seq(PeakType) /\ Len(rest) = N
       /\ \A j \in 1..N :
            /\ rest[j] = IF j \in demoted THEN [later[j] EXCEPT !.kind = early] ELSE later[j]
            /\ rest[j] \in PeakType
  <2> HIDE DEF demoted, early
  <2>1. \A j \in 1..N : rest[j] = (IF j \in demoted THEN [later[j] EXCEPT !.kind = early] ELSE later[j])
    BY <1>1
  <2>2. \A j \in 1..N : rest[j] \in PeakType
    BY <1>1, <1>10, <2>1 DEF PeakType, PeakKinds
  <2>3. rest \in [1..N -> PeakType]
    <3>1. rest = [j \in 1..N |-> rest[j]]
      BY <1>1
    <3> HIDE DEF rest
    <3> QED
      BY <2>2, <3>1
  <2> HIDE DEF rest
  <2> QED
    BY <1>1, <2>1, <2>2, <2>3
<1>12. \A j \in 1..N :
         /\ rest[j].at = later[j].at /\ (rest[j].kind > 0) = (later[j].kind > 0)
         /\ j \notin demoted => rest[j].kind = later[j].kind
         /\ j \in demoted => rest[j].kind = early
  <2> HIDE DEF rest, demoted, early
  <2> QED
    BY <1>1, <1>6, <1>10, <1>11 DEF PeakType
<1> HIDE DEF rest, demoted, early, first, plain, m, rivals, holders, run, turn
<1>13. CASE kind \in {1, -1}
  <2>1. m = <<plain>> \o later /\ plain.at = p /\ plain.kind = kind
    BY <1>9, <1>13 DEF plain
  <2>2. /\ m \in Seq(PeakType) /\ Len(m) = N + 1 /\ DOMAIN m = 1..(N + 1)
        /\ m[1] = plain /\ \A j \in 1..N : m[j + 1] = later[j]
    BY <1>1, <1>10, <2>1
  <2>3. IsMerged(m, p, kind, later)
    BY <1>1, <2>1, <2>2 DEF IsMerged
  <2>4. ASSUME Alternates(later), NEW c \in {2, -2}, NEW j \in DOMAIN m, NEW k \in DOMAIN m,
               j < k, m[j].kind = c, m[k].kind = c
        PROVE  \E i \in DOMAIN m : j < i /\ i < k /\ m[i].kind = -c
    <3>1. j # 1 /\ k # 1
      BY <1>13, <2>1, <2>2, <2>4
    <3>2. j - 1 \in 1..N /\ k - 1 \in 1..N /\ (j - 1) + 1 = j /\ (k - 1) + 1 = k
      <4>1. j \in 1..(N + 1) /\ k \in 1..(N + 1)
        BY <2>2
      <4> QED
        BY <1>1, <3>1, <4>1
    <3>3. later[j - 1].kind = c /\ later[k - 1].kind = c /\ j - 1 < k - 1
      BY <2>2, <2>4, <3>2
    <3>4. PICK i \in DOMAIN later : j - 1 < i /\ i < k - 1 /\ later[i].kind = -c
      BY <1>1, <2>4, <3>2, <3>3 DEF Alternates
    <3>5. i + 1 \in DOMAIN m /\ j < i + 1 /\ i + 1 < k /\ m[i + 1].kind = -c
      BY <1>1, <2>2, <3>2, <3>4
    <3> QED
      BY <3>5
  <2> QED
    BY <2>3, <2>4 DEF Alternates, m
<1>14. CASE kind \in {2, -2}
  <2>1. m = <<first>> \o rest /\ first.at = p
    BY <1>9, <1>14 DEF first
  <2>2. /\ m \in Seq(PeakType) /\ Len(m) = N + 1 /\ DOMAIN m = 1..(N + 1)
        /\ m[1] = first /\ \A j \in 1..N : m[j + 1] = rest[j]
    BY <1>1, <1>10, <1>11, <2>1
  <2>3. (first.kind > 0) = (kind > 0) /\ (holders # {} => first.kind = early)
        /\ (holders = {} => first.kind = kind)
    BY <1>10 DEF first
  <2>4. IsMerged(m, p, kind, later)
    BY <1>1, <1>12, <2>1, <2>2, <2>3 DEF IsMerged
  <2>5. ASSUME Alternates(later), NEW c \in {2, -2}, NEW j \in DOMAIN m, NEW k \in DOMAIN m,
               j < k, m[j].kind = c, m[k].kind = c
        PROVE  \E i \in DOMAIN m : j < i /\ i < k /\ m[i].kind = -c
    <3>1. k - 1 \in 1..N /\ (k - 1) + 1 = k
      BY <1>1, <2>2, <2>5
    <3>2. rest[k - 1].kind = c
      BY <2>2, <2>5, <3>1
    <3>3. k - 1 \notin demoted /\ later[k - 1].kind = c
      BY <1>10, <1>12, <3>1, <3>2
    <3>4. CASE j = 1
      <4>1. holders = {} /\ c = kind
        BY <1>10, <2>2, <2>3, <2>5, <3>4
      <4>2. k - 1 \notin run
        BY <1>5, <3>3, <4>1 DEF rivals
      <4>3. turn # {} /\ Min(turn) <= k - 1
        BY <1>7, <3>1, <4>2
      <4>4. PICK i \in turn : i <= k - 1
        BY <1>2, <4>3
      <4>5. i \in 1..N /\ later[i].kind = -kind
        BY <1>1 DEF turn
      <4>6. -c # c /\ -kind # kind
        BY <1>14, <4>1
      <4>7. i \notin demoted /\ i # k - 1
        BY <1>6, <3>3, <4>1, <4>5, <4>6
      <4>8. rest[i].kind = -c
        BY <1>12, <4>1, <4>5, <4>7
      <4>9. i + 1 \in DOMAIN m /\ j < i + 1 /\ i + 1 < k /\ m[i + 1].kind = -c
        BY <1>1, <2>2, <3>1, <3>4, <4>4, <4>5, <4>7, <4>8
      <4> QED
        BY <4>9
    <3>5. CASE j # 1
      <4>1. j - 1 \in 1..N /\ (j - 1) + 1 = j
        BY <1>1, <2>2, <3>5
      <4>2. rest[j - 1].kind = c
        BY <2>2, <2>5, <4>1
      <4>3. j - 1 \notin demoted /\ later[j - 1].kind = c
        BY <1>10, <1>12, <4>1, <4>2
      <4>4. PICK i \in DOMAIN later : j - 1 < i /\ i < k - 1 /\ later[i].kind = -c
        <5>1. j - 1 < k - 1
          BY <2>5, <3>1, <4>1
        <5> QED
          BY <1>1, <2>5, <3>1, <3>3, <4>1, <4>3, <5>1 DEF Alternates
      <4>5. i \notin demoted
        <5>1. SUFFICES ASSUME i \in demoted PROVE FALSE
          OBVIOUS
        <5>2. kind = -c /\ c = -kind
          BY <1>6, <1>14, <4>4, <5>1
        <5>3. j - 1 \in turn
          BY <1>1, <4>1, <4>3, <5>2 DEF turn
        <5>4. turn # {} /\ Min(turn) <= j - 1 /\ Min(turn) \in 1..N
          BY <1>1, <1>2, <5>3 DEF turn
        <5>5. i < Min(turn)
          BY <1>4, <1>8, <5>1, <5>4
        <5> QED
          BY <1>1, <4>1, <4>4, <5>4, <5>5
      <4>6. rest[i].kind = -c
        BY <1>1, <1>12, <4>4, <4>5
      <4>7. i + 1 \in DOMAIN m /\ j < i + 1 /\ i + 1 < k /\ m[i + 1].kind = -c
        BY <1>1, <2>2, <3>1, <4>1, <4>4, <4>6
      <4> QED
        BY <4>7
    <3> QED
      BY <3>4, <3>5
  <2> QED
    BY <2>4, <2>5 DEF Alternates, m
<1> QED
  BY <1>13, <1>14 DEF PeakKinds

(* The kind of a bar, if it is a peak.                                     *)
LEMMA KindFacts ==
    ASSUME NEW bars, NEW p
    PROVE  Kind(bars, p) \in PeakKinds \cup {0}
  BY Zenon DEF Kind, PeakKinds

(***************************************************************************)
(* The fold over the bars that can be judged.                              *)
(***************************************************************************)
PeakFold(bars, seq, h) ==
    h = [s \in SUBSET DOMAIN seq |->
           IF s = {} THEN <<>> ELSE AddPeak(bars, h[s \ {Max(s)}], seq[Max(s)])]

PeakRun(bars, n, a) ==
    /\ a \in [0..n -> Seq(PeakType)] /\ a[0] = <<>>
    /\ \A i \in 1..n : a[i] = AddPeak(bars, a[i - 1], Len(bars) - Size + 2 - i)

(* The list after so many of the judged bars.                              *)
LEMMA PeaksRun ==
    ASSUME NEW B, NEW bars \in Seq(B), NEW n, n = Atleast0(Len(bars) - 2 * Size)
    PROVE  n \in Nat /\ \E a : PeakRun(bars, n, a) /\ Peaks(bars) = a[n]
<1>1. Size \in Nat /\ Len(bars) \in Nat /\ n \in Nat
  BY IndicatorsAssumption DEF Atleast0
<1>2. PICK seq : seq = [k \in 1..n |-> Len(bars) - Size + 2 - k]
  OBVIOUS
<1>3. seq \in Seq(Int) /\ Len(seq) = n /\ \A k \in 1..n : seq[k] = Len(bars) - Size + 2 - k
  <2>1. seq \in [1..n -> Int]
    BY <1>1, <1>2
  <2> QED
    BY <1>1, <1>2, <2>1, ListOf
<1>4. PICK V : V = Seq(PeakType)
  OBVIOUS
<1>5. PICK o : o = [v \in V \X Int |-> AddPeak(bars, v[1], v[2])]
  OBVIOUS
<1>6. \A v \in V, e \in Int : AddPeak(bars, v, e) \in V
  <2>1. TAKE v \in V, e \in Int
  <2>2. CASE Kind(bars, e) = 0
    BY <2>2, Zenon DEF AddPeak
  <2>3. CASE Kind(bars, e) # 0
    <3>1. Kind(bars, e) \in PeakKinds
      BY <2>3, KindFacts, Zenon
    <3>2. Merge(bars, e, Kind(bars, e), v) \in V
      BY <1>4, <3>1, MergeFacts, Zenon DEF IsMerged
    <3> QED
      BY <2>3, <3>2, Zenon DEF AddPeak
  <2> QED
    BY <2>2, <2>3
<1>7. o \in [V \X Int -> V]
  <2>1. \A v \in V \X Int : AddPeak(bars, v[1], v[2]) \in V
    BY <1>6
  <2> QED
    BY <1>5, <2>1
<1>8. \A v \in V, e \in Int : o[v, e] = AddPeak(bars, v, e)
  BY <1>5
<1>9. PICK base : base = <<>>
  OBVIOUS
<1>10. base \in V
  BY <1>4, <1>9
<1>11. Len(seq) \in Nat /\ DOMAIN seq = 1..Len(seq)
  BY <1>3
<1>12. PICK h \in [SUBSET (1..Len(seq)) -> V] : Folding(o, base, seq, h)
  BY <1>3, <1>7, <1>10, FoldsExist
<1>13. /\ h[{}] = base
       /\ \A s \in SUBSET (1..Len(seq)) : s # {} =>
            /\ h[s] = o[h[s \ {Max(s)}], seq[Max(s)]]
            /\ h[s \ {Max(s)}] \in V /\ seq[Max(s)] \in Int
  BY <1>3, <1>7, <1>10, <1>12, FoldingTyped
<1>14. \A s \in SUBSET (1..Len(seq)) : s # {} =>
         h[s] = AddPeak(bars, h[s \ {Max(s)}], seq[Max(s)])
  BY <1>8, <1>13
<1>15. PeakFold(bars, seq, h)
  <2>1. h = [s \in SUBSET (1..Len(seq)) |-> h[s]]
    OBVIOUS
  <2> QED
    BY <1>9, <1>11, <1>13, <1>14, <2>1 DEF PeakFold
<1>16. PICK g : g = CHOOSE f : PeakFold(bars, seq, f)
  OBVIOUS
<1>17. PeakFold(bars, seq, g)
  BY <1>15, <1>16
<1>18. Peaks(bars) = g[1..Len(seq)]
  <2>1. Peaks(bars) = FoldLeft(LAMBDA later, p : AddPeak(bars, later, p), <<>>, seq)
    BY <1>2, Zenon DEF Peaks
  <2>2. FoldLeft(LAMBDA later, p : AddPeak(bars, later, p), <<>>, seq) = g[1..Len(seq)]
    BY <1>11, <1>16 DEF FoldLeft, MapThenFoldSet, PeakFold
  <2> QED
    BY <2>1, <2>2
<1>19. \A s \in SUBSET (1..Len(seq)) :
         g[s] = IF s = {} THEN base ELSE AddPeak(bars, g[s \ {Max(s)}], seq[Max(s)])
  BY <1>9, <1>11, <1>17 DEF PeakFold
<1>20. Solves(V, o, base, seq, g)
  <2>1. g[{}] = base
    BY <1>19
  <2>2. \A s \in SUBSET (1..Len(seq)) : s # {} => seq[Max(s)] \in Int
    BY <1>13
  <2>3. \A s \in SUBSET (1..Len(seq)) :
         s # {} /\ g[s \ {Max(s)}] \in V => g[s] = o[g[s \ {Max(s)}], seq[Max(s)]]
    BY <1>8, <1>19, <2>2
  <2> QED
    BY <2>1, <2>3 DEF Solves
<1>21. PICK a : a = ValuesAlong(seq, g)
  OBVIOUS
<1>22. a \in [0..Len(seq) -> V] /\ Marching(o, base, seq, a)
  BY <1>3, <1>7, <1>10, <1>20, <1>21, FoldsMarch
<1>23. \A i \in 1..n : a[i] = AddPeak(bars, a[i - 1], Len(bars) - Size + 2 - i)
  <2>1. TAKE i \in 1..n
  <2>2. i \in 1..Len(seq) /\ i - 1 \in 0..Len(seq) /\ seq[i] \in Int
        /\ seq[i] = Len(bars) - Size + 2 - i
    BY <1>1, <1>3
  <2>3. a[i - 1] \in V
    BY <1>22, <2>2
  <2>4. a[i] = o[a[i - 1], seq[i]]
    BY <1>22, <2>2, Zenon DEF Marching
  <2>5. o[a[i - 1], seq[i]] = AddPeak(bars, a[i - 1], seq[i])
    BY <1>8, <2>2, <2>3
  <2> QED
    BY <2>2, <2>4, <2>5, Zenon
<1>24. Peaks(bars) = a[n]
  <2>1. n \in 0..Len(seq)
    BY <1>1, <1>3
  <2> QED
    BY <1>3, <1>18, <1>21, <2>1 DEF ValuesAlong
<1>25. PeakRun(bars, n, a)
  <2>1. a[0] = <<>>
    BY <1>9, <1>22 DEF Marching
  <2>2. a \in [0..n -> Seq(PeakType)]
    BY <1>3, <1>4, <1>22
  <2> QED
    BY <1>23, <2>1, <2>2 DEF PeakRun
<1> QED
  BY <1>1, <1>24, <1>25

(* The peaks from bar low on: each of them once, in order, with its own    *)
(* direction.                                                              *)
ListsPeaks(s, bars, low) ==
    /\ s \in Seq(PeakType)
    /\ \A k \in DOMAIN s :
         /\ s[k].at \in low .. Len(bars) - Size + 1
         /\ Kind(bars, s[k].at) # 0 /\ (s[k].kind > 0) = (Kind(bars, s[k].at) > 0)
    /\ \A q \in low .. Len(bars) - Size + 1 :
         Kind(bars, q) # 0 => \E k \in DOMAIN s : s[k].at = q
    /\ \A j, k \in DOMAIN s : j < k => s[j].at < s[k].at
    /\ Alternates(s)

(* A bar more adds no place twice and keeps the alternation.               *)
LEMMA OnePeakMore ==
    ASSUME NEW B, NEW bars \in Seq(B), NEW p \in Int, p <= Len(bars) - Size + 1,
           NEW later, ListsPeaks(later, bars, p + 1)
    PROVE  ListsPeaks(AddPeak(bars, later, p), bars, p)
<1>1. PICK last \in Int : last = Len(bars) - Size + 1
  BY IndicatorsAssumption
<1>2. p \in p..last /\ \A q \in p..last : q = p \/ q \in (p + 1)..last
  BY <1>1
<1>3. later \in Seq(PeakType) /\ Alternates(later)
  BY DEF ListsPeaks
<1>4. /\ \A k \in DOMAIN later :
           /\ later[k].at \in (p + 1)..last
           /\ Kind(bars, later[k].at) # 0 /\ (later[k].kind > 0) = (Kind(bars, later[k].at) > 0)
      /\ \A q \in (p + 1)..last : Kind(bars, q) # 0 => \E k \in DOMAIN later : later[k].at = q
      /\ \A j, k \in DOMAIN later : j < k => later[j].at < later[k].at
  BY <1>1 DEF ListsPeaks
<1>5. CASE Kind(bars, p) = 0
  <2>1. AddPeak(bars, later, p) = later
    BY <1>5, Zenon DEF AddPeak
  <2>2. \A k \in DOMAIN later : later[k].at \in p..last
    BY <1>4
  <2>3. \A q \in p..last : Kind(bars, q) # 0 => \E k \in DOMAIN later : later[k].at = q
    BY <1>2, <1>4, <1>5
  <2> QED
    BY <1>1, <1>3, <1>4, <2>1, <2>2, <2>3 DEF ListsPeaks
<1>6. CASE Kind(bars, p) # 0
  <2>1. PICK kind : kind = Kind(bars, p)
    OBVIOUS
  <2>2. kind \in PeakKinds
    BY <1>6, <2>1, KindFacts, Zenon
  <2>3. PICK m : m = Merge(bars, p, kind, later)
    OBVIOUS
  <2>4. AddPeak(bars, later, p) = m
    BY <1>6, <2>1, <2>3, Zenon DEF AddPeak
  <2>5. IsMerged(m, p, kind, later) /\ Alternates(m)
    BY <1>3, <2>2, <2>3, MergeFacts, Zenon
  <2>6. /\ m \in Seq(PeakType) /\ Len(later) \in Nat /\ DOMAIN later = 1..Len(later)
        /\ DOMAIN m = 1..(Len(later) + 1)
        /\ m[1].at = p /\ (m[1].kind > 0) = (kind > 0)
        /\ \A j \in 1..Len(later) :
             m[j + 1].at = later[j].at /\ (m[j + 1].kind > 0) = (later[j].kind > 0)
    BY <1>3, <2>5 DEF IsMerged
  <2>7. \A k \in DOMAIN m : k = 1 \/ (k - 1 \in DOMAIN later /\ (k - 1) + 1 = k)
    BY <2>6
  <2>8. \A k \in DOMAIN m :
          /\ m[k].at \in p..last
          /\ Kind(bars, m[k].at) # 0 /\ (m[k].kind > 0) = (Kind(bars, m[k].at) > 0)
    <3>1. TAKE k \in DOMAIN m
    <3>2. CASE k = 1
      BY <1>2, <1>6, <2>1, <2>6, <3>2
    <3>3. CASE k # 1
      <4>1. k - 1 \in DOMAIN later /\ (k - 1) + 1 = k
        BY <2>7, <3>3
      <4>2. m[k].at = later[k - 1].at /\ (m[k].kind > 0) = (later[k - 1].kind > 0)
        BY <2>6, <4>1
      <4>3. later[k - 1].at \in (p + 1)..last
        BY <1>4, <4>1
      <4>4. Kind(bars, later[k - 1].at) # 0
            /\ (later[k - 1].kind > 0) = (Kind(bars, later[k - 1].at) > 0)
        BY <1>4, <4>1
      <4>5. later[k - 1].at \in p..last
        BY <4>3
      <4> QED
        BY <4>2, <4>4, <4>5
    <3> QED
      BY <3>2, <3>3
  <2>9. \A q \in p..last : Kind(bars, q) # 0 => \E k \in DOMAIN m : m[k].at = q
    <3>1. SUFFICES ASSUME NEW q \in p..last, Kind(bars, q) # 0
                   PROVE  \E k \in DOMAIN m : m[k].at = q
      OBVIOUS
    <3>2. CASE q = p
      BY <2>6, <3>2
    <3>3. CASE q # p
      <4>1. PICK k \in DOMAIN later : later[k].at = q
        BY <1>2, <1>4, <3>1, <3>3
      <4>2. k + 1 \in DOMAIN m /\ m[k + 1].at = q
        BY <2>6, <4>1
      <4> QED
        BY <4>2
    <3> QED
      BY <3>2, <3>3
  <2>10. \A j, k \in DOMAIN m : j < k => m[j].at < m[k].at
    <3>1. SUFFICES ASSUME NEW j \in DOMAIN m, NEW k \in DOMAIN m, j < k
                   PROVE  m[j].at < m[k].at
      OBVIOUS
    <3>2. k - 1 \in DOMAIN later /\ m[k].at = later[k - 1].at
      BY <2>6, <2>7, <3>1
    <3>3. CASE j = 1
      <4>1. later[k - 1].at \in (p + 1)..last
        BY <1>4, <3>2
      <4> QED
        BY <2>6, <3>2, <3>3, <4>1
    <3>4. CASE j # 1
      <4>1. j - 1 \in DOMAIN later /\ m[j].at = later[j - 1].at
        BY <2>6, <2>7, <3>4
      <4>2. j - 1 < k - 1
        BY <2>6, <3>1
      <4> QED
        BY <1>4, <3>2, <4>1, <4>2
    <3> QED
      BY <3>3, <3>4
  <2> QED
    BY <1>1, <2>4, <2>5, <2>6, <2>8, <2>9, <2>10 DEF ListsPeaks
<1> QED
  BY <1>5, <1>6

(* What Peaks returns.                                                     *)
LEMMA PeaksFacts ==
    ASSUME NEW B, NEW bars \in Seq(B)
    PROVE  ListsPeaks(Peaks(bars), bars, Size + 2)
<1>1. PICK n : n = Atleast0(Len(bars) - 2 * Size)
  OBVIOUS
<1>2. n \in Nat
  BY <1>1, PeaksRun
<1>3. PICK a : PeakRun(bars, n, a) /\ Peaks(bars) = a[n]
  BY <1>1, PeaksRun
<1>4. Size \in Nat /\ Len(bars) \in Nat
  BY IndicatorsAssumption
<1>5. PICK low : low = [i \in 0..n |-> Len(bars) - Size + 2 - i]
  OBVIOUS
<1> DEFINE T == { i \in 0..n : ListsPeaks(a[i], bars, low[i]) }
<1>6. 0 \in T
  <2>1. a[0] = <<>> /\ low[0] = Len(bars) - Size + 2
    BY <1>2, <1>3, <1>4, <1>5 DEF PeakRun
  <2>2. <<>> \in Seq(PeakType) /\ DOMAIN <<>> = {}
    OBVIOUS
  <2>3. Alternates(<<>>)
    BY <2>2 DEF Alternates
  <2>4. low[0] .. Len(bars) - Size + 1 = {}
    BY <1>4, <2>1
  <2>5. ListsPeaks(<<>>, bars, low[0])
    BY <2>2, <2>3, <2>4 DEF ListsPeaks
  <2> QED
    BY <1>2, <2>1, <2>5
<1>7. ASSUME NEW i \in 1..n, i - 1 \in T PROVE i \in T
  <2>1. i \in 0..n /\ i - 1 \in 0..n
    BY <1>2
  <2>2. low[i] \in Int /\ low[i] <= Len(bars) - Size + 1 /\ low[i - 1] = low[i] + 1
        /\ low[i] = Len(bars) - Size + 2 - i
    BY <1>4, <1>5, <2>1
  <2>3. a[i] = AddPeak(bars, a[i - 1], low[i])
    BY <1>3, <2>2 DEF PeakRun
  <2>4. ListsPeaks(a[i - 1], bars, low[i] + 1)
    BY <1>7, <2>2
  <2>5. ListsPeaks(AddPeak(bars, a[i - 1], low[i]), bars, low[i])
    BY <2>2, <2>4, OnePeakMore
  <2> QED
    BY <2>1, <2>3, <2>5
<1>8. ListsPeaks(a[n], bars, low[n])
  <2> HIDE DEF T
  <2>1. 0..n \subseteq T
    BY <1>2, <1>6, <1>7, EveryPrefix
  <2>2. n \in T
    BY <1>2, <2>1
  <2> QED
    BY <2>2 DEF T
<1>9. CASE Len(bars) - 2 * Size >= 0
  <2>1. n = Len(bars) - 2 * Size
    <3>1. 2 * Size \in Int
      BY <1>4
    <3>2. PICK e \in Int : e = 2 * Size
      BY <3>1
    <3>3. Len(bars) - e \in Int
      BY <1>4
    <3>4. PICK d \in Int : d = Len(bars) - 2 * Size
      BY <3>2, <3>3
    <3>5. n = Atleast0(d) /\ d >= 0
      BY <1>1, <1>9, <3>4
    <3>6. n = d
      BY <3>5 DEF Atleast0
    <3> QED
      BY <3>4, <3>6
  <2>2. low[n] = Size + 2
    BY <1>2, <1>4, <1>5, <2>1
  <2> QED
    BY <1>3, <1>8, <2>2
<1>10. CASE Len(bars) - 2 * Size < 0
  <2>1. n = 0 /\ a[0] = <<>>
    BY <1>1, <1>3, <1>4, <1>10 DEF Atleast0, PeakRun
  <2>2. <<>> \in Seq(PeakType) /\ DOMAIN <<>> = {}
    OBVIOUS
  <2>3. Alternates(<<>>)
    BY <2>2 DEF Alternates
  <2>4. Size + 2 .. Len(bars) - Size + 1 = {}
    BY <1>4, <1>10
  <2>5. ListsPeaks(<<>>, bars, Size + 2)
    BY <2>2, <2>3, <2>4 DEF ListsPeaks
  <2> QED
    BY <1>3, <2>1, <2>5
<1> QED
  BY <1>4, <1>9, <1>10

(* Confirmed peaks alternate.                                              *)
LEMMA ConfirmedAlternate ==
    ASSUME NEW B, NEW bars \in Seq(B), bars = market
    PROVE  ConfirmedPeaksAlternate
<1> DEFINE peaks  == Peaks(market)
           swings == { k \in DOMAIN peaks : peaks[k].kind \in {2, -2} }
<1>1. Alternates(peaks) /\ peaks \in Seq(PeakType)
  BY PeaksFacts DEF ListsPeaks
<1> HIDE DEF peaks
<1>2. ASSUME NEW j \in swings, NEW k \in swings, j < k, j + 1 .. k - 1 \cap swings = {}
      PROVE  peaks[j].kind = -peaks[k].kind
  <2>1. SUFFICES ASSUME peaks[j].kind = peaks[k].kind PROVE FALSE
    BY <1>2
  <2>2. PICK c \in {2, -2} : peaks[j].kind = c /\ peaks[k].kind = c
    BY <2>1
  <2>3. PICK i \in DOMAIN peaks : j < i /\ i < k /\ peaks[i].kind = -c
    BY <1>1, <1>2, <2>2 DEF Alternates
  <2>4. i \in swings
    BY <2>2, <2>3
  <2>5. i \in j + 1 .. k - 1
    <3>1. i \in Nat /\ j \in Nat /\ k \in Nat
      BY <1>1
    <3> QED
      BY <2>3, <3>1
  <2> QED
    BY <1>2, <2>4, <2>5
<1> QED
  BY <1>2 DEF ConfirmedPeaksAlternate, peaks

(***************************************************************************)
(* What a detector reads.  It looks at the newest bars and at the peaks    *)
(* among them, so that it finds the same in any list that ends alike.      *)
(***************************************************************************)
(* A part of a list that is a part of another.                             *)
LEMMA PartsOfLists ==
    ASSUME NEW T, NEW s \in Seq(T), NEW m \in Nat \ {0}, NEW n \in Int, n <= Len(s)
    PROVE  /\ SubSeq(s, m, n) = [k \in 1 .. 1 + n - m |-> s[k + m - 1]]
           /\ SubSeq(s, m, n) \in Seq(T)
           /\ Len(SubSeq(s, m, n)) = IF m <= n THEN 1 + n - m ELSE 0
<1>1. PICK l \in Int : l = 1 + n - m
  OBVIOUS
<1>2. PICK r : r = SubSeq(s, m, n)
  OBVIOUS
<1>3. r = [k \in 1 .. l |-> s[k + m - 1]]
  BY <1>1, <1>2
<1>4. CASE m <= n
  <2>1. l \in Nat /\ \A k \in 1..l : s[k + m - 1] \in T
    BY <1>1, <1>4
  <2>2. r \in [1..l -> T]
    BY <1>3, <2>1
  <2>3. r \in Seq(T) /\ Len(r) = l
    BY <2>1, <2>2, ListOf
  <2> QED
    BY <1>1, <1>2, <1>3, <1>4, <2>3
<1>5. CASE ~(m <= n)
  <2>1. 1..l = {} /\ 1..0 = {}
    BY <1>1, <1>5
  <2>2. r \in [1..0 -> T]
    BY <1>3, <2>1
  <2>3. r \in Seq(T) /\ Len(r) = 0
    BY <2>2, ListOf
  <2> QED
    BY <1>1, <1>2, <1>3, <1>5, <2>3
<1> QED
  BY <1>4, <1>5

(* Lists that carry the same bars have the same parts.                     *)
LEMMA SameParts ==
    ASSUME NEW T, NEW s \in Seq(T), NEW r \in Seq(T), NEW d \in Nat,
           NEW m \in Nat \ {0}, NEW n \in Int, n <= Len(r), n + d <= Len(s),
           \A k \in m..n : r[k] = s[k + d]
    PROVE  SubSeq(r, m, n) = SubSeq(s, m + d, n + d)
<1>1. PICK e \in Nat \ {0} : e = m + d
  OBVIOUS
<1>2. PICK l \in Int : l = n + d
  OBVIOUS
<1>3. SubSeq(r, m, n) = [k \in 1 .. 1 + n - m |-> r[k + m - 1]]
  BY PartsOfLists
<1>4. SubSeq(s, e, l) = [k \in 1 .. 1 + l - e |-> s[k + e - 1]]
  BY <1>2, PartsOfLists
<1>5. 1 + n - m = 1 + l - e
  BY <1>1, <1>2
<1>6. \A k \in 1 .. 1 + n - m : r[k + m - 1] = s[k + e - 1]
  <2>1. TAKE k \in 1 .. 1 + n - m
  <2>2. k + m - 1 \in m..n /\ (k + m - 1) + d = k + e - 1
    BY <1>1
  <2> QED
    BY <2>2
<1> QED
  BY <1>1, <1>2, <1>3, <1>4, <1>5, <1>6

(* What the bars around p are decides what p is.                           *)
SameKind(c, p, b, q) == Kind(c, p) = Kind(b, q)

(* What a bar is, Size bars either side of it decide.                      *)
LEMMA KindIsLocal ==
    ASSUME NEW b, NEW c, NEW p \in Int, NEW d \in Int, NEW q, q = p + d,
           \A k \in p - Size .. p + Size - 1 : c[k] = b[k + d]
    PROVE  SameKind(c, p, b, q)
<1>1. Size \in Nat /\ Middle \in Nat /\ Middle < Size
  BY IndicatorsAssumption
<1>2. \A k \in FullWindow(p) : k + d \in FullWindow(q) /\ c[k] = b[k + d]
  BY <1>1 DEF FullWindow
<1>3. \A k \in FullWindow(q) : k - d \in FullWindow(p) /\ b[k] = c[k - d]
  <2>1. TAKE k \in FullWindow(q)
  <2>2. k - d \in FullWindow(p) /\ (k - d) + d = k
    BY <1>1 DEF FullWindow
  <2> QED
    BY <1>2, <2>2
<1>4. \A k \in EarlyWindow(p) : k + d \in EarlyWindow(q) /\ c[k] = b[k + d]
  BY <1>1 DEF EarlyWindow
<1>5. \A k \in EarlyWindow(q) : k - d \in EarlyWindow(p) /\ b[k] = c[k - d]
  <2>1. TAKE k \in EarlyWindow(q)
  <2>2. k - d \in EarlyWindow(p) /\ (k - d) + d = k
    BY <1>1 DEF EarlyWindow
  <2> QED
    BY <1>4, <2>2
<1>6. ASSUME NEW S, NEW R, \A k \in S : k + d \in R /\ c[k] = b[k + d],
             \A k \in R : k - d \in S /\ b[k] = c[k - d]
      PROVE  High(c, S) = High(b, R) /\ Low(c, S) = Low(b, R)
  <2>1. { c[k].high : k \in S } = { b[k].high : k \in R }
    BY <1>6
  <2>2. { c[k].low : k \in S } = { b[k].low : k \in R }
    BY <1>6
  <2> QED
    BY <2>1, <2>2 DEF High, Low
<1>7. High(c, FullWindow(p)) = High(b, FullWindow(q)) /\ Low(c, FullWindow(p)) = Low(b, FullWindow(q))
  BY <1>2, <1>3, <1>6
<1>8. High(c, EarlyWindow(p)) = High(b, EarlyWindow(q)) /\ Low(c, EarlyWindow(p)) = Low(b, EarlyWindow(q))
  BY <1>4, <1>5, <1>6
<1>9. c[p] = b[q]
  <2>1. p \in p - Size .. p + Size - 1
    BY <1>1
  <2> QED
    BY <2>1
<1> QED
  BY <1>7, <1>8, <1>9 DEF Kind, SameKind

(* Clear air, in terms of the bars alone: of every swing that is known and *)
(* near.                                                                   *)
Swing(bars, q, t, side) ==
    /\ Kind(bars, q) # 0 /\ q + Size <= t /\ q >= t - Lookback
    /\ (Kind(bars, q) > 0) = (side = Long)

Roomy(bars, q, t, side) ==
    LET price == IF Kind(bars, q) > 0 THEN bars[q].high ELSE bars[q].low
        room  == Past(side, bars[t].close, price)
    IN room < 0 \/ ClearAir[2] * room >= ClearAir[1] * bars[t].close

(* The way is clear when no full peak in sight stands in it.               *)
LEMMA ClearAirOfBars ==
    ASSUME NEW B, NEW bars \in Seq(B), NEW t \in Int, t <= Len(bars), NEW side
    PROVE  HasClearAir(bars, Peaks(bars), t, side) <=>
             \/ ClearAir[1] = 0
             \/ \A q \in Size + 2 .. Len(bars) - Size + 1 :
                  Swing(bars, q, t, side) => Roomy(bars, q, t, side)
<1>1. PICK peaks : peaks = Peaks(bars)
  OBVIOUS
<1>2. PICK last \in Int : last = Len(bars) - Size + 1
  <2>1. PICK n \in Nat : n = Len(bars)
    OBVIOUS
  <2>2. Size \in Nat /\ n - Size + 1 \in Int
    BY IndicatorsAssumption
  <2> QED
    BY <2>1, <2>2
<1>3. PICK first \in Int : first = Size + 2
  BY IndicatorsAssumption
<1>4. /\ peaks \in Seq(PeakType)
      /\ \A k \in DOMAIN peaks :
           /\ peaks[k].at \in first .. last
           /\ Kind(bars, peaks[k].at) # 0 /\ (peaks[k].kind > 0) = (Kind(bars, peaks[k].at) > 0)
      /\ \A q \in first .. last : Kind(bars, q) # 0 => \E k \in DOMAIN peaks : peaks[k].at = q
  BY <1>1, <1>2, <1>3, PeaksFacts DEF ListsPeaks
<1>5. Size \in Nat /\ Lookback \in Nat
  BY IndicatorsAssumption, SignsAssumption
<1> DEFINE Fine(k) ==
             LET p == peaks[k]
                 room == Past(side, bars[t].close, PriceOf(bars, p))
             IN \/ ~Confirmable(p, t) \/ p.at < t - Lookback
                \/ (p.kind > 0) # (side = Long)
                \/ room < 0 \/ ClearAir[2] * room >= ClearAir[1] * bars[t].close
<1>6. HasClearAir(bars, peaks, t, side) <=> (ClearAir[1] = 0 \/ \A k \in DOMAIN peaks : Fine(k))
  BY DEF HasClearAir
<1>7. ASSUME NEW k \in DOMAIN peaks, NEW q, q = peaks[k].at
      PROVE  Fine(k) <=> (Swing(bars, q, t, side) => Roomy(bars, q, t, side))
  <2>1. q \in Int /\ Kind(bars, q) # 0 /\ (peaks[k].kind > 0) = (Kind(bars, q) > 0)
    BY <1>2, <1>3, <1>4, <1>7
  <2>2. PriceOf(bars, peaks[k]) = IF Kind(bars, q) > 0 THEN bars[q].high ELSE bars[q].low
    BY <1>7, <2>1, Zenon DEF PriceOf
  <2>3. PICK price : price = PriceOf(bars, peaks[k])
    OBVIOUS
  <2>4. Roomy(bars, q, t, side) <=>
          LET room == Past(side, bars[t].close, price)
          IN room < 0 \/ ClearAir[2] * room >= ClearAir[1] * bars[t].close
    BY <2>2, <2>3 DEF Roomy
  <2>5. Confirmable(peaks[k], t) <=> q + Size <= t
    BY <1>7 DEF Confirmable
  <2>6. peaks[k].at < t - Lookback <=> ~(q >= t - Lookback)
    BY <1>5, <1>7, <2>1
  <2>7. Fine(k) <=> \/ ~(q + Size <= t) \/ ~(q >= t - Lookback)
                    \/ (Kind(bars, q) > 0) # (side = Long)
                    \/ Roomy(bars, q, t, side)
    BY <2>1, <2>3, <2>4, <2>5, <2>6
  <2> QED
    BY <2>1, <2>7 DEF Swing
<1> HIDE DEF Fine
<1>8. (\A k \in DOMAIN peaks : Fine(k)) <=>
        \A q \in first .. last : Swing(bars, q, t, side) => Roomy(bars, q, t, side)
  <2>1. ASSUME \A k \in DOMAIN peaks : Fine(k), NEW q \in first .. last, Swing(bars, q, t, side)
        PROVE  Roomy(bars, q, t, side)
    <3>1. PICK k \in DOMAIN peaks : peaks[k].at = q
      BY <1>4, <2>1 DEF Swing
    <3> QED
      BY <1>7, <2>1, <3>1
  <2>2. ASSUME \A q \in first .. last : Swing(bars, q, t, side) => Roomy(bars, q, t, side),
               NEW k \in DOMAIN peaks
        PROVE  Fine(k)
    BY <1>4, <1>7, <2>2
  <2> QED
    BY <2>1, <2>2
<1> QED
  BY <1>1, <1>2, <1>3, <1>6, <1>8

(* It is the same in a part of the bars that holds them from Lookback on,  *)
(* and the bars that decide which of them are swings.                      *)
LEMMA ClearAirShift ==
    ASSUME NEW B, NEW b \in Seq(B), NEW c \in Seq(B), NEW d \in Nat, NEW t \in 1..Len(c),
           t + d <= Len(b), \A k \in 1..t : c[k] = b[k + d],
           d = 0 \/ t - Lookback >= Size + 2, NEW side, NEW u, u = t + d
    PROVE  HasClearAir(c, Peaks(c), t, side) <=> HasClearAir(b, Peaks(b), u, side)
<1>1. Size \in Nat /\ Lookback \in Nat
  BY IndicatorsAssumption, SignsAssumption
<1>2. PICK lc \in Nat : lc = Len(c)
  OBVIOUS
<1>3. PICK lb \in Nat : lb = Len(b)
  OBVIOUS
<1>4. t \in Int /\ t <= Len(c) /\ u \in Int /\ u <= Len(b) /\ t \in 1..lc /\ u <= lb
  BY <1>2, <1>3
<1>5. ASSUME NEW q \in Int, q >= Size + 2, q + Size <= t, NEW v, v = q + d
      PROVE  (Swing(c, q, t, side) <=> Swing(b, v, u, side))
             /\ (Roomy(c, q, t, side) <=> Roomy(b, v, u, side))
  <2>1. \A k \in q - Size .. q + Size - 1 : c[k] = b[k + d]
    <3>1. \A k \in q - Size .. q + Size - 1 : k \in 1..t
      BY <1>1, <1>4, <1>5
    <3> QED
      BY <3>1
  <2>2. Kind(c, q) = Kind(b, v)
    <3>1. d \in Int
      OBVIOUS
    <3>2. SameKind(c, q, b, v)
      BY <1>5, <2>1, <3>1, KindIsLocal, Zenon
    <3> QED
      BY <3>2 DEF SameKind
  <2>3. c[q] = b[v] /\ c[t] = b[u]
    BY <1>1, <1>4, <1>5
  <2>4. (q + Size <= t <=> v + Size <= u) /\ (q >= t - Lookback <=> v >= u - Lookback)
    BY <1>1, <1>4, <1>5
  <2> QED
    BY <2>2, <2>3, <2>4 DEF Swing, Roomy
<1>6. (\A q \in Size + 2 .. lc - Size + 1 : Swing(c, q, t, side) => Roomy(c, q, t, side)) <=>
      (\A q \in Size + 2 .. lb - Size + 1 : Swing(b, q, u, side) => Roomy(b, q, u, side))
  <2>1. ASSUME \A q \in Size + 2 .. lc - Size + 1 : Swing(c, q, t, side) => Roomy(c, q, t, side),
               NEW q \in Size + 2 .. lb - Size + 1, Swing(b, q, u, side)
        PROVE  Roomy(b, q, u, side)
    <3>1. q \in Int /\ q + Size <= u /\ q >= u - Lookback /\ q >= Size + 2
      BY <1>1, <2>1 DEF Swing
    <3>2. PICK p \in Int : p = q - d
      BY <3>1
    <3>3. p + Size <= t /\ p >= t - Lookback /\ q = p + d
      BY <1>1, <1>4, <3>1, <3>2
    <3>4. p >= Size + 2
      BY <1>1, <1>4, <3>1, <3>2, <3>3
    <3>5. p \in Size + 2 .. lc - Size + 1
      BY <1>1, <1>4, <3>3, <3>4
    <3> QED
      BY <1>5, <2>1, <3>3, <3>4, <3>5
  <2>2. ASSUME \A q \in Size + 2 .. lb - Size + 1 : Swing(b, q, u, side) => Roomy(b, q, u, side),
               NEW q \in Size + 2 .. lc - Size + 1, Swing(c, q, t, side)
        PROVE  Roomy(c, q, t, side)
    <3>1. q \in Int /\ q + Size <= t /\ q >= Size + 2
      BY <1>1, <2>2 DEF Swing
    <3>2. PICK v \in Int : v = q + d
      BY <3>1
    <3>3. v \in Size + 2 .. lb - Size + 1
      BY <1>1, <1>4, <3>1, <3>2
    <3> QED
      BY <1>5, <2>2, <3>1, <3>2, <3>3
  <2> QED
    BY <2>1, <2>2
<1>7. HasClearAir(c, Peaks(c), t, side) <=>
        \/ ClearAir[1] = 0
        \/ \A q \in Size + 2 .. lc - Size + 1 : Swing(c, q, t, side) => Roomy(c, q, t, side)
  BY <1>2, <1>4, ClearAirOfBars
<1>8. HasClearAir(b, Peaks(b), u, side) <=>
        \/ ClearAir[1] = 0
        \/ \A q \in Size + 2 .. lb - Size + 1 : Swing(b, q, u, side) => Roomy(b, q, u, side)
  BY <1>3, <1>4, ClearAirOfBars
<1> QED
  BY <1>6, <1>7, <1>8

(* c is a part of b, d bars later.                                         *)
Carries(c, b, d, t) == \A k \in 1..t : c[k] = b[k + d]

SameSlice(c, t, b, u, w) ==
    SubSeq(c, Larger(1, t - w), t) = SubSeq(b, Larger(1, u - w), u)

(* The newest bars before a place.                                         *)
LEMMA SliceShift ==
    ASSUME NEW B, NEW b \in Seq(B), NEW c \in Seq(B), NEW d \in Nat, NEW t \in 1..Len(c),
           NEW u, u = t + d, u <= Len(b), Carries(c, b, d, t),
           NEW w \in Nat, d = 0 \/ t > w
    PROVE  SameSlice(c, t, b, u, w)
<1>1. PICK e \in Int : e = t - w
  OBVIOUS
<1>2. PICK m \in Nat \ {0} : m = Larger(1, t - w)
  <2>1. Larger(1, e) \in Nat \ {0}
    BY DEF Larger
  <2> QED
    BY <1>1, <2>1
<1>3. Larger(1, u - w) = m + d
  <2>1. u - w = e + d
    BY <1>1
  <2>2. m = IF 1 > e THEN 1 ELSE e
    BY <1>1, <1>2 DEF Larger
  <2>3. Larger(1, e + d) = IF 1 > e + d THEN 1 ELSE e + d
    BY DEF Larger
  <2>4. d = 0 \/ e >= 1
    BY <1>1
  <2> QED
    BY <2>1, <2>2, <2>3, <2>4
<1>4. \A k \in m..t : c[k] = b[k + d]
  <2>1. \A k \in m..t : k \in 1..t
    BY <1>2
  <2> QED
    BY <2>1 DEF Carries
<1>5. t \in Int /\ t <= Len(c) /\ t + d <= Len(b)
  OBVIOUS
<1>6. SubSeq(c, m, t) = SubSeq(b, m + d, t + d)
  BY <1>4, <1>5, SameParts
<1> QED
  BY <1>2, <1>3, <1>6 DEF SameSlice

(* The longest lookback is one.                                            *)
LEMMA FiniteHasGreatest ==
    ASSUME NEW S \in SUBSET Int, IsFiniteSet(S), S # {}
    PROVE  \E x \in S : \A y \in S : x >= y
<1>1. PICK list : list = InOrder(S)
  OBVIOUS
<1>2. PICK n : n = Cardinality(S)
  OBVIOUS
<1>3. /\ n \in Nat /\ list \in [1..n -> S]
      /\ \A i, j \in 1..n : i < j => list[i] < list[j]
      /\ \A x \in S : \E i \in 1..n : list[i] = x
  BY <1>1, <1>2, InOrderFacts
<1>4. n \in 1..n
  <2>1. PICK x \in S : TRUE
    OBVIOUS
  <2>2. PICK i \in 1..n : list[i] = x
    BY <1>3
  <2> QED
    BY <1>3, <2>2
<1>5. \A y \in S : list[n] >= y
  <2>1. TAKE y \in S
  <2>2. PICK i \in 1..n : list[i] = y
    BY <1>3
  <2>3. list[i] \in Int /\ list[n] \in Int /\ (i < n => list[i] < list[n])
    BY <1>3, <1>4, <2>2
  <2> QED
    BY <1>3, <2>2, <2>3
<1> QED
  BY <1>3, <1>4, <1>5

(* The window of zigzag_bounce.                                            *)
LEMMA BounceWindowFacts == BounceWindow \in Nat \ {0}
<1>1. PICK S : S = Lookbacks \cup {Dominant, WallWindow}
  OBVIOUS
<1>2. S \subseteq Nat \ {0} /\ S # {} /\ IsFiniteSet(S)
  <2>1. S \subseteq Nat \ {0} /\ S # {}
    BY <1>1, SignsAssumption
  <2>2. IsFiniteSet({Dominant}) /\ IsFiniteSet({Dominant} \cup {WallWindow})
    BY FS_Singleton, FS_AddElement
  <2>3. S = Lookbacks \cup ({Dominant} \cup {WallWindow})
    BY <1>1
  <2>4. IsFiniteSet(Lookbacks)
    BY SignsAssumption
  <2>5. IsFiniteSet(Lookbacks \cup ({Dominant} \cup {WallWindow}))
    BY <2>2, <2>4, FS_Union
  <2> QED
    BY <2>1, <2>3, <2>5
<1>3. PICK x \in S : \A y \in S : x >= y
  BY <1>2, FiniteHasGreatest
<1>4. Max(S) = x
  BY <1>2, <1>3, GreatestIsMax
<1>5. BounceWindow = x + 2 * Size + Middle + 5
  BY <1>1, <1>4 DEF BounceWindow
<1>6. 2 * Size \in Nat /\ Middle \in Nat /\ x \in Nat
  BY <1>2, IndicatorsAssumption
<1> QED
  BY <1>5, <1>6

(* Bars enough for the newest of them to be judged.                        *)
LEMMA BufferFacts ==
    ASSUME NEW name
    PROVE  /\ BufferLength(name) \in Nat \ {0}
           /\ name \in {"density_breakout", "density_breakout_acc", "density_breakout_vol",
                       "density_volwall_breakout", "density_band"} => BufferLength(name) > Window
           /\ name = "density_breakout_clearair" =>
                BufferLength(name) > Window /\ BufferLength(name) >= Lookback + Size + 2
           /\ name \notin {"density_breakout", "density_breakout_acc", "density_breakout_vol",
                          "density_volwall_breakout", "density_band", "density_breakout_clearair"} =>
                BufferLength(name) = BounceWindow
<1>1. Window \in Nat /\ Confirm \in Nat \ {0} /\ Lookback \in Nat \ {0} /\ Size \in Nat
  BY SignsAssumption, IndicatorsAssumption
<1>2. PICK l \in Nat : l = Larger(Window, Lookback) /\ l >= Window /\ l >= Lookback
  BY <1>1 DEF Larger
<1>3. CASE name \in {"density_breakout", "density_breakout_acc", "density_breakout_vol"}
  <2>1. BufferLength(name) = Window + Confirm + 1
    BY <1>3 DEF BufferLength
  <2> QED
    BY <1>1, <1>3, <2>1
<1>4. CASE name = "density_breakout_clearair"
  <2>1. BufferLength(name) = l + Size + Confirm + 1
    BY <1>2, <1>4 DEF BufferLength, ClearAirBuffer
  <2> QED
    BY <1>1, <1>2, <1>4, <2>1
<1>5. CASE name \in {"density_volwall_breakout", "density_band"}
  <2>1. BufferLength(name) = Window + 2
    BY <1>5 DEF BufferLength
  <2> QED
    BY <1>1, <1>5, <2>1
<1>6. CASE name \notin {"density_breakout", "density_breakout_acc", "density_breakout_vol",
                       "density_volwall_breakout", "density_band", "density_breakout_clearair"}
  <2>1. BufferLength(name) = BounceWindow
    BY <1>6 DEF BufferLength
  <2> QED
    BY <1>6, <2>1, BounceWindowFacts
<1> QED
  BY <1>3, <1>4, <1>5, <1>6

(* What a detector makes of a bar depends on the bars it may read.         *)
SameFire(name, c, t, b, u) ==
    FireAt(name, c, PeaksFor(name, c), t) = FireAt(name, b, PeaksFor(name, b), u)

(* A detector finds at a bar what it finds there in a longer series.       *)
LEMMA FireShift ==
    ASSUME NEW B, NEW b \in Seq(B), NEW c \in Seq(B), NEW d \in Nat, NEW t \in 1..Len(c),
           NEW u, u = t + d, u <= Len(b), Carries(c, b, d, t),
           NEW name, d = 0 \/ t >= BufferLength(name)
    PROVE  SameFire(name, c, t, b, u)
<1>1. Window \in Nat /\ Lookback \in Nat /\ Size \in Nat
  BY SignsAssumption, IndicatorsAssumption
<1>2. t \in Int /\ u \in Int
  OBVIOUS
<1>3. PICK len \in Nat \ {0} : len = BufferLength(name)
  BY BufferFacts
<1>4. ASSUME d = 0 \/ t > Window PROVE Slice(c, t) = Slice(b, u)
  <2>1. SameSlice(c, t, b, u, Window)
    BY <1>1, <1>4, SliceShift, Zenon
  <2> QED
    BY <2>1 DEF Slice, SameSlice
<1>5. CASE name \in {"density_breakout", "density_breakout_acc", "density_breakout_vol",
                    "density_volwall_breakout", "density_band"}
  <2>1. d = 0 \/ t > Window
    BY <1>1, <1>2, <1>3, <1>5, BufferFacts
  <2>2. Slice(c, t) = Slice(b, u)
    BY <1>4, <2>1
  <2> QED
    BY <1>5, <2>2 DEF SameFire, FireAt, DensityBreakout, DensityBreakoutAcc, DensityBreakoutVol,
                      DensityVolwallBreakout, DensityBand
<1>6. CASE name = "density_breakout_clearair"
  <2>1. d = 0 \/ (t > Window /\ t - Lookback >= Size + 2)
    BY <1>1, <1>2, <1>3, <1>6, BufferFacts
  <2>2. DensityBreakout(c, t) = DensityBreakout(b, u)
    BY <1>4, <2>1 DEF DensityBreakout
  <2>3. ASSUME NEW side
        PROVE  HasClearAir(c, Peaks(c), t, side) <=> HasClearAir(b, Peaks(b), u, side)
    <3>1. t + d <= Len(b) /\ \A k \in 1..t : c[k] = b[k + d]
      BY DEF Carries
    <3>2. d = 0 \/ t - Lookback >= Size + 2
      BY <2>1
    <3> QED
      BY <3>1, <3>2, ClearAirShift, Zenon
  <2>4. DensityBreakoutClearair(c, Peaks(c), t) = DensityBreakoutClearair(b, Peaks(b), u)
    BY <2>2, <2>3 DEF DensityBreakoutClearair
  <2> QED
    BY <1>6, <2>4 DEF SameFire, FireAt, PeaksFor
<1>7. CASE name \notin {"density_breakout", "density_breakout_acc", "density_breakout_vol",
                       "density_volwall_breakout", "density_band", "density_breakout_clearair"}
  <2>1. PICK w \in Nat : BounceWindow = w + 1
    <3>1. BounceWindow - 1 \in Nat /\ BounceWindow = (BounceWindow - 1) + 1
      BY BounceWindowFacts
    <3> QED
      BY <3>1
  <2>2. d = 0 \/ t > w
    BY <1>2, <1>7, <2>1, BufferFacts
  <2>3. SubSeq(c, Larger(1, t - w), t) = SubSeq(b, Larger(1, u - w), u)
    <3>1. SameSlice(c, t, b, u, w)
      BY <2>2, SliceShift, Zenon
    <3> QED
      BY <3>1 DEF SameSlice
  <2>4. t - BounceWindow + 1 = t - w /\ u - BounceWindow + 1 = u - w
    BY <1>2, <2>1
  <2>5. \A walls \in BOOLEAN : ZigzagBounce(walls, c, t) = ZigzagBounce(walls, b, u)
    BY <2>3, <2>4 DEF ZigzagBounce
  <2>6. FireAt(name, c, PeaksFor(name, c), t) = ZigzagBounce(name = "zigzag_bounce", c, t)
    BY <1>7, Zenon DEF FireAt
  <2>7. FireAt(name, b, PeaksFor(name, b), u) = ZigzagBounce(name = "zigzag_bounce", b, u)
    BY <1>7, Zenon DEF FireAt
  <2> QED
    BY <2>5, <2>6, <2>7 DEF SameFire
<1> QED
  BY <1>5, <1>6, <1>7

(* The newest bars of a list that has grown by one.                        *)
LEMMA NewestOfMore ==
    ASSUME NEW B, NEW s \in Seq(B), NEW x \in B, NEW n \in Nat \ {0}
    PROVE  Newest(Append(Newest(s, n), x), n) = Newest(Append(s, x), n)
<1>1. PICK l \in Nat : l = Len(s)
  OBVIOUS
<1>2. PICK e \in Int : e = l - n + 1
  OBVIOUS
<1>3. Larger(1, e) \in Nat \ {0} /\ Larger(1, e) = (IF 1 > e THEN 1 ELSE e)
  BY DEF Larger
<1>4. PICK m \in Nat \ {0} : m = Larger(1, l - n + 1) /\ m = (IF 1 > e THEN 1 ELSE e)
  BY <1>2, <1>3
<1>5. PICK r : r = Newest(s, n)
  OBVIOUS
<1>6. r = SubSeq(s, m, l) /\ l \in Int
  BY <1>1, <1>4, <1>5 DEF Newest
<1>7. /\ r = [k \in 1 .. 1 + l - m |-> s[k + m - 1]] /\ r \in Seq(B)
      /\ Len(r) = IF m <= l THEN 1 + l - m ELSE 0
  BY <1>1, <1>6, PartsOfLists
<1>8. m <= l + 1 /\ Len(r) = 1 + l - m
  <2>1. m <= l + 1
    BY <1>2, <1>4
  <2> QED
    BY <1>4, <1>7, <2>1
<1>9. PICK d \in Nat : d = m - 1
  BY <1>4
<1>10. PICK c : c = Append(r, x)
  OBVIOUS
<1>11. PICK b : b = Append(s, x)
  OBVIOUS
<1>12. /\ c \in Seq(B) /\ Len(c) = Len(r) + 1 /\ c[Len(r) + 1] = x
       /\ \A k \in 1..Len(r) : c[k] = r[k]
  <2>1. r \in Seq(B)
    BY <1>7
  <2> QED
    BY <1>10, <2>1, Appended
<1>13. /\ b \in Seq(B) /\ Len(b) = l + 1 /\ b[l + 1] = x
       /\ \A k \in 1..l : b[k] = s[k]
  BY <1>1, <1>11, Appended
<1>14. PICK t \in Nat \ {0} : t = Len(c) /\ t = 2 + l - m /\ t + d = l + 1
  <2>1. 2 + l - m \in Nat \ {0} /\ (2 + l - m) + d = l + 1
    BY <1>8, <1>9
  <2>2. Len(c) = 2 + l - m
    BY <1>8, <1>12
  <2> QED
    BY <2>1, <2>2
<1>15. Carries(c, b, d, t)
  <2>1. SUFFICES ASSUME NEW k \in 1..t PROVE c[k] = b[k + d]
    BY DEF Carries
  <2>2. CASE k = t
    <3>1. c[k] = x /\ k + d = l + 1
      BY <1>12, <1>14, <2>2
    <3> QED
      BY <1>13, <3>1
  <2>3. CASE k # t
    <3>1. k \in 1 .. 1 + l - m /\ k \in 1..Len(r)
      BY <1>8, <1>14, <2>3
    <3>2. k + m - 1 = k + d /\ k + d \in 1..l
      BY <1>4, <1>9, <3>1
    <3>3. c[k] = r[k] /\ r[k] = s[k + m - 1]
      BY <1>7, <1>12, <3>1
    <3> QED
      BY <1>13, <3>2, <3>3
  <2> QED
    BY <2>2, <2>3
<1>16. PICK w \in Nat : n = w + 1
  <2>1. n - 1 \in Nat /\ n = (n - 1) + 1
    OBVIOUS
  <2> QED
    BY <2>1
<1>17. d = 0 \/ t > w
  BY <1>2, <1>4, <1>9, <1>14, <1>16
<1>18. PICK u \in Nat : u = t + d
  OBVIOUS
<1>19. t \in 1..Len(c) /\ u <= Len(b)
  BY <1>13, <1>14, <1>18
<1>20. SubSeq(c, Larger(1, t - w), t) = SubSeq(b, Larger(1, u - w), u)
  <2>1. SameSlice(c, t, b, u, w)
    BY <1>12, <1>13, <1>15, <1>17, <1>18, <1>19, SliceShift, Zenon
  <2> QED
    BY <2>1 DEF SameSlice
<1>21. Len(c) - n + 1 = t - w /\ Len(b) - n + 1 = u - w /\ Len(c) = t /\ Len(b) = u
  BY <1>13, <1>14, <1>16, <1>18
<1> QED
  BY <1>5, <1>10, <1>11, <1>20, <1>21 DEF Newest

(***************************************************************************)
(* The detectors: what their state is at every step.                       *)
(***************************************************************************)
SignBars == Shapes \cup UNION { Range(bars) : bars \in Openings }

SignsInv ==
    /\ sign \in SignNames
    /\ series \in Seq(SignBars)
    /\ buffer = Newest(series, BufferLength(sign))
    /\ answer = OnBar(sign, buffer)
    /\ detected = Detect(sign, series)

(* The strategy starts with the newest bars of the series.                 *)
LEMMA SignsStart == SignsInit => SignsInv
<1>1. SUFFICES ASSUME SignsInit PROVE series \in Seq(SignBars)
  BY SignsAssumption DEF SignsInit, SignsInv
<1>2. series \in Openings /\ series \in Seq(Range(series))
  BY <1>1, SignsAssumption DEF SignsInit
<1>3. Range(series) \subseteq SignBars
  BY <1>2 DEF SignBars
<1> QED
  BY <1>2, <1>3, ListsOfPart

(* Every bar moves the buffer on.                                          *)
LEMMA SignsGoOn == SignsInv /\ [SignsNext]_signVars => SignsInv'
<1>1. SUFFICES ASSUME SignsInv, [SignsNext]_signVars PROVE SignsInv'
  OBVIOUS
<1>2. CASE UNCHANGED signVars
  BY <1>1, <1>2 DEF SignsInv, signVars
<1>3. CASE SignsNext
  <2>1. PICK bar \in Shapes : PushBar(bar)
    BY <1>3 DEF SignsNext
  <2>2. /\ sign' = sign /\ series' = Append(series, bar)
        /\ buffer' = Newest(Append(buffer, bar), BufferLength(sign))
        /\ answer' = OnBar(sign, buffer') /\ detected' = Detect(sign, series')
    BY <2>1 DEF PushBar
  <2>3. bar \in SignBars /\ series \in Seq(SignBars) /\ buffer = Newest(series, BufferLength(sign))
    BY <1>1 DEF SignBars, SignsInv
  <2>4. series' \in Seq(SignBars)
    BY <2>2, <2>3
  <2>5. BufferLength(sign) \in Nat \ {0}
    BY BufferFacts
  <2>6. buffer' = Newest(series', BufferLength(sign))
    BY <2>2, <2>3, <2>5, NewestOfMore
  <2> QED
    BY <1>1, <2>2, <2>4, <2>6 DEF SignsInv
<1> QED
  BY <1>1, <1>2, <1>3

(* What the strategy makes of its buffer is what the benchmark makes of    *)
(* the newest bar of the series.                                           *)
LEMMA WarmBufferAgrees ==
    ASSUME SignsInv
    PROVE  OnBarAgreesWithDetect
<1>1. PICK L \in Nat \ {0} : L = BufferLength(sign)
  BY BufferFacts
<1>2. PICK n \in Nat : n = Len(series)
  BY DEF SignsInv
<1>3. SUFFICES ASSUME n >= L
               PROVE  answer = OrdersFor(sign, series, detected[n])
  BY <1>1, <1>2 DEF OnBarAgreesWithDetect
<1>4. PICK d \in Nat : d = n - L
  BY <1>3
<1>5. series \in Seq(SignBars) /\ buffer = SubSeq(series, d + 1, n) /\ d + 1 \in Nat \ {0}
  <2>1. n - L + 1 = d + 1 /\ d + 1 >= 1
    BY <1>4
  <2>2. Larger(1, n - L + 1) = d + 1
    BY <2>1 DEF Larger
  <2>3. buffer = SubSeq(series, Larger(1, n - L + 1), n)
    BY <1>1, <1>2 DEF SignsInv, Newest
  <2>4. series \in Seq(SignBars)
    BY DEF SignsInv
  <2> QED
    BY <2>1, <2>2, <2>3, <2>4
<1>6. /\ buffer = [k \in 1 .. 1 + n - (d + 1) |-> series[k + (d + 1) - 1]]
      /\ buffer \in Seq(SignBars)
      /\ Len(buffer) = IF d + 1 <= n THEN 1 + n - (d + 1) ELSE 0
  <2>1. PICK m \in Nat \ {0} : m = d + 1
    BY <1>5
  <2> QED
    BY <1>2, <1>5, <2>1, PartsOfLists
<1>7. Len(buffer) = L /\ 1 + n - (d + 1) = L /\ n = L + d /\ L \in 1..Len(buffer)
  BY <1>3, <1>4, <1>6
<1>8. Carries(buffer, series, d, L)
  <2>1. SUFFICES ASSUME NEW k \in 1..L PROVE buffer[k] = series[k + d]
    BY DEF Carries
  <2>2. k + (d + 1) - 1 = k + d /\ k \in 1 .. 1 + n - (d + 1)
    BY <1>7
  <2> QED
    BY <1>6, <2>2
<1>9. n <= Len(series) /\ L >= BufferLength(sign)
  BY <1>1, <1>2
<1>10. SameFire(sign, buffer, L, series, n)
  BY <1>5, <1>6, <1>7, <1>8, <1>9, FireShift, Zenon
<1>11. detected[n] = FireAt(sign, series, PeaksFor(sign, series), n)
  <2>1. n \in DOMAIN series
    BY <1>2, <1>3, <1>5
  <2> QED
    BY <2>1 DEF SignsInv, Detect
<1>12. PICK fires : fires = detected[n]
  OBVIOUS
<1>13. FireAt(sign, buffer, PeaksFor(sign, buffer), L) = fires
  BY <1>10, <1>11, <1>12 DEF SameFire
<1>14. NewestClose(buffer) = NewestClose(series)
  <2>1. L \in 1..L /\ L + d = n
    BY <1>7
  <2>2. buffer[L] = series[n]
    BY <1>8, <2>1 DEF Carries
  <2> QED
    BY <1>2, <1>7, <2>2 DEF NewestClose
<1>15. /\ RideOrders(buffer, fires) = RideOrders(series, fires)
       /\ BandOrders(buffer, fires) = BandOrders(series, fires)
       /\ BounceOrders(buffer, fires) = BounceOrders(series, fires)
  BY <1>14 DEF RideOrders, BandOrders, BounceOrders
<1>16. answer = OrdersFor(sign, buffer, fires)
  <2>1. answer = OnBar(sign, buffer) /\ ~(Len(buffer) < BufferLength(sign)) /\ Len(buffer) = L
    BY <1>1, <1>7 DEF SignsInv
  <2>2. CASE sign = "density_breakout"
    <3>1. fires = DensityBreakout(buffer, L)
      BY <1>13, <2>2, Zenon DEF FireAt
    <3>2. answer = BreakoutOnBar(buffer)
      BY <2>1, <2>2 DEF OnBar
    <3> QED
      BY <2>1, <2>2, <3>1, <3>2 DEF BreakoutOnBar, OrdersFor
  <2>3. CASE sign = "density_breakout_acc"
    <3>1. fires = DensityBreakoutAcc(buffer, L)
      BY <1>13, <2>3, Zenon DEF FireAt
    <3>2. answer = AccOnBar(buffer)
      BY <2>1, <2>3 DEF OnBar
    <3> QED
      BY <2>1, <2>3, <3>1, <3>2 DEF AccOnBar, OrdersFor
  <2>4. CASE sign = "density_breakout_vol"
    <3>1. fires = DensityBreakoutVol(buffer, L)
      BY <1>13, <2>4, Zenon DEF FireAt
    <3>2. answer = VolOnBar(buffer)
      BY <2>1, <2>4 DEF OnBar
    <3> QED
      BY <2>1, <2>4, <3>1, <3>2 DEF VolOnBar, OrdersFor
  <2>5. CASE sign = "density_breakout_clearair"
    <3>1. fires = DensityBreakoutClearair(buffer, Peaks(buffer), L)
      BY <1>13, <2>5, Zenon DEF FireAt, PeaksFor
    <3>2. answer = ClearAirOnBar(buffer)
      BY <2>1, <2>5 DEF OnBar
    <3> QED
      BY <2>1, <2>5, <3>1, <3>2 DEF ClearAirOnBar, OrdersFor
  <2>6. CASE sign = "density_volwall_breakout"
    <3>1. fires = DensityVolwallBreakout(buffer, L)
      BY <1>13, <2>6, Zenon DEF FireAt
    <3>2. answer = VolWallOnBar(buffer)
      BY <2>1, <2>6 DEF OnBar
    <3> QED
      BY <2>1, <2>6, <3>1, <3>2 DEF VolWallOnBar, OrdersFor
  <2>7. CASE sign = "density_band"
    <3>1. fires = DensityBand(buffer, L)
      BY <1>13, <2>7, Zenon DEF FireAt
    <3>2. answer = BandOnBar(buffer)
      BY <2>1, <2>7 DEF OnBar
    <3> QED
      BY <2>1, <2>7, <3>1, <3>2 DEF BandOnBar, OrdersFor
  <2>8. CASE sign \in {"zigzag_bounce", "zigzag_bounce_levels"}
    <3>1. fires = ZigzagBounce(sign = "zigzag_bounce", buffer, L)
      BY <1>13, <2>8, Zenon DEF FireAt
    <3>2. answer = BounceOnBar(sign, buffer)
      BY <2>1, <2>8 DEF OnBar
    <3> QED
      BY <2>1, <2>8, <3>1, <3>2 DEF BounceOnBar, OrdersFor
  <2> QED
    BY <2>2, <2>3, <2>4, <2>5, <2>6, <2>7, <2>8 DEF SignsInv, SignNames
<1> QED
  BY <1>12, <1>15, <1>16, Zenon DEF OrdersFor

(* An earlier bar's fires stay as they were.                               *)
LEMMA FiresStay ==
    ASSUME SignsInv, [SignsNext]_signVars
    PROVE  \A t \in DOMAIN series : detected'[t] = detected[t]
<1>1. CASE UNCHANGED signVars
  BY <1>1 DEF signVars
<1>2. CASE SignsNext
  <2>1. PICK bar \in Shapes : PushBar(bar)
    BY <1>2 DEF SignsNext
  <2>2. PICK more : more = Append(series, bar)
    OBVIOUS
  <2>3. detected' = Detect(sign, more) /\ detected = Detect(sign, series)
    BY <2>1, <2>2 DEF PushBar, SignsInv
  <2>4. series \in Seq(SignBars) /\ bar \in SignBars
    BY DEF SignsInv, SignBars
  <2>5. /\ more \in Seq(SignBars) /\ Len(more) = Len(series) + 1
        /\ DOMAIN more = 1..(Len(series) + 1) /\ Len(series) \in Nat
        /\ \A k \in 1..Len(series) : more[k] = series[k]
    BY <2>2, <2>4, Appended
  <2>6. ASSUME NEW t \in DOMAIN series PROVE detected'[t] = detected[t]
    <3>1. t \in 1..Len(series) /\ t = t + 0 /\ t <= Len(more) /\ t \in DOMAIN more
      BY <2>4, <2>5
    <3>2. Carries(series, more, 0, t)
      <4>1. \A k \in 1..t : k \in 1..Len(series) /\ k + 0 = k
        BY <2>5, <3>1
      <4> QED
        BY <2>5, <4>1 DEF Carries
    <3>3. 0 \in Nat /\ (0 = 0 \/ t >= BufferLength(sign))
      OBVIOUS
    <3>4. SameFire(sign, series, t, more, t)
      BY <2>4, <2>5, <3>1, <3>2, <3>3, FireShift, Zenon
    <3> QED
      BY <2>3, <3>1, <3>4 DEF SameFire, Detect
  <2> QED
    BY <2>6
<1> QED
  BY <1>1, <1>2

(* The strategy that is asked bar by bar finds what the benchmark finds in *)
(* the whole series, with the same stop and target: the buffer each        *)
(* strategy keeps is long enough for its detector.                         *)
THEOREM BothSeeTheSame == SignsSpec => []OnBarAgreesWithDetect
<1>1. SignsInv => OnBarAgreesWithDetect
  BY WarmBufferAgrees
<1> QED
  BY <1>1, SignsStart, SignsGoOn, PTL DEF SignsSpec

(* No detector looks ahead: a fire, once found at a bar, is found there    *)
(* whatever bars come later, and none is added.                            *)
THEOREM FiresStayFinal == SignsSpec => FiresAreFinal
<1>1. SignsInv /\ [SignsNext]_signVars =>
        [\A t \in DOMAIN series : detected'[t] = detected[t]]_signVars
  BY FiresStay
<1> QED
  BY <1>1, SignsStart, SignsGoOn, PTL DEF SignsSpec, FiresAreFinal

(***************************************************************************)
(* The legs.  Those known at a bar are the sizes of the swings between the *)
(* confirmed peaks that could be judged by then, newest last.              *)
(***************************************************************************)
(* A part of an interval is finite.                                        *)
LEMMA FiniteInts ==
    ASSUME NEW a \in Int, NEW b \in Int, NEW K, K \subseteq a..b
    PROVE  K \in SUBSET Int /\ IsFiniteSet(K)
<1>1. IsFiniteSet(a..b) /\ a..b \subseteq Int
  BY FS_Interval
<1> QED
  BY <1>1, FS_Subset

(* Numbers can be listed in ascending order in one way.                    *)
Ascends(g, n, K) ==
    /\ n \in Nat /\ g \in [1..n -> K]
    /\ \A i, j \in 1..n : i < j => g[i] < g[j]
    /\ \A x \in K : \E i \in 1..n : g[i] = x

(* The beginning of the list is the list of the lesser numbers.            *)
LEMMA AscendsFirst ==
    ASSUME NEW K \in SUBSET Int, NEW n, NEW m, NEW g, NEW h, Ascends(g, n, K), Ascends(h, m, K)
    PROVE  n <= m /\ \A i \in 1..n : g[i] = h[i]
<1> DEFINE T == { i \in 0..n : \A j \in 1..i : j <= m /\ g[j] = h[j] }
<1>1. /\ n \in Nat /\ g \in [1..n -> K] /\ \A i, j \in 1..n : i < j => g[i] < g[j]
      /\ \A x \in K : \E i \in 1..n : g[i] = x
  BY DEF Ascends
<1>2. /\ m \in Nat /\ h \in [1..m -> K] /\ \A i, j \in 1..m : i < j => h[i] < h[j]
      /\ \A x \in K : \E i \in 1..m : h[i] = x
  BY DEF Ascends
<1>3. \A i \in 1..n : g[i] \in Int
  BY <1>1
<1>4. \A i \in 1..m : h[i] \in Int
  BY <1>2
<1>5. n \in Nat /\ m \in Nat
  BY <1>1, <1>2
<1>6. 0 \in T
  BY <1>1
<1>7. ASSUME NEW i \in 1..n, i - 1 \in T PROVE i \in T
  <2>1. i \in 0..n /\ i - 1 \in 0..n /\ \A j \in 1..(i - 1) : j <= m /\ g[j] = h[j]
    BY <1>7
  <2>2. PICK k \in 1..m : h[k] = g[i]
    BY <1>1, <1>2
  <2>3. ~(k < i)
    <3>1. SUFFICES ASSUME k < i PROVE FALSE
      OBVIOUS
    <3>2. k \in 1..(i - 1) /\ k \in 1..n
      BY <1>5, <3>1
    <3>3. g[k] = h[k] /\ g[k] < g[i]
      BY <1>1, <2>1, <3>1, <3>2
    <3> QED
      BY <1>3, <2>2, <3>2, <3>3
  <2>4. i \in 1..m
    BY <1>1, <1>2, <2>3
  <2>5. PICK l \in 1..n : g[l] = h[i]
    BY <1>1, <1>2, <2>4
  <2>6. ~(l < i)
    <3>1. SUFFICES ASSUME l < i PROVE FALSE
      OBVIOUS
    <3>2. l \in 1..(i - 1) /\ l \in 1..m
      BY <1>5, <2>4, <3>1
    <3>3. g[l] = h[l] /\ h[l] < h[i]
      BY <1>2, <2>1, <2>4, <3>1, <3>2
    <3> QED
      BY <1>4, <2>4, <2>5, <3>2, <3>3
  <2>7. h[i] <= h[k]
    <3>1. i = k \/ i < k
      BY <2>3, <2>4
    <3> QED
      BY <1>2, <1>4, <2>4, <3>1
  <2>8. g[i] <= g[l]
    <3>1. i = l \/ i < l
      BY <2>6
    <3> QED
      BY <1>1, <1>3, <3>1
  <2>9. g[i] = h[i]
    BY <1>3, <1>4, <2>2, <2>4, <2>5, <2>7, <2>8
  <2>10. \A j \in 1..i : j \in 1..(i - 1) \/ j = i
    OBVIOUS
  <2>11. i <= m
    BY <2>4
  <2> QED
    BY <2>1, <2>9, <2>10, <2>11
<1>8. n \in T
  <2> HIDE DEF T
  <2>1. 0..n \subseteq T
    BY <1>1, <1>6, <1>7, EveryPrefix
  <2> QED
    BY <1>1, <2>1
<1>9. \A j \in 1..n : j <= m /\ g[j] = h[j]
  BY <1>8
<1>10. n <= m
  <2> HIDE DEF T
  <2>1. n = 0 \/ n \in 1..n
    BY <1>5
  <2> QED
    BY <1>5, <1>9, <2>1
<1> QED
  BY <1>9, <1>10, Zenon

(* Two ascending lists of the same numbers are the same.                   *)
LEMMA AscendsOnce ==
    ASSUME NEW K \in SUBSET Int, NEW n, NEW m, NEW g, NEW h, Ascends(g, n, K), Ascends(h, m, K)
    PROVE  n = m /\ g = h
<1>1. n <= m /\ \A i \in 1..n : g[i] = h[i]
  BY AscendsFirst
<1>2. m <= n
  BY AscendsFirst, Zenon
<1>3. n = m
  BY <1>1, <1>2 DEF Ascends
<1> QED
  BY <1>1, <1>3 DEF Ascends

(* The prices between which the legs known at a bar run, from the bars     *)
(* alone.                                                                  *)
KnownBars(bars, t) == { q \in Size + 2 .. t - Size : Kind(bars, q) # 0 }
ExtremeAt(bars, q) == IF Kind(bars, q) > 0 THEN bars[q].high ELSE bars[q].low
KnownPrices(bars, t) ==
    LET at == InOrder(KnownBars(bars, t)) IN [i \in DOMAIN at |-> ExtremeAt(bars, at[i])]

(* The legs known at a bar, from the bars alone.                           *)
LEMMA LegsOfBars ==
    ASSUME NEW B, NEW bars \in Seq(B), NEW t \in Nat, t <= Len(bars)
    PROVE  Legs(bars, Peaks(bars), t) = Steps(Newest(KnownPrices(bars, t), MaxLegs + 1))
<1>1. PICK peaks : peaks = Peaks(bars)
  OBVIOUS
<1>2. Size \in Nat /\ Len(bars) \in Nat
  BY IndicatorsAssumption
<1>3. PICK last \in Int : last = Len(bars) - Size + 1
  <2>1. PICK n \in Nat : n = Len(bars)
    BY <1>2
  <2>2. n - Size + 1 \in Int
    BY <1>2
  <2> QED
    BY <2>1, <2>2
<1>4. PICK first \in Int : first = Size + 2
  BY <1>2
<1>5. /\ peaks \in Seq(PeakType)
      /\ \A k \in DOMAIN peaks :
           /\ peaks[k].at \in first .. last
           /\ Kind(bars, peaks[k].at) # 0 /\ (peaks[k].kind > 0) = (Kind(bars, peaks[k].at) > 0)
      /\ \A q \in first .. last : Kind(bars, q) # 0 => \E k \in DOMAIN peaks : peaks[k].at = q
      /\ \A j, k \in DOMAIN peaks : j < k => peaks[j].at < peaks[k].at
  BY <1>1, <1>3, <1>4, PeaksFacts DEF ListsPeaks
<1>6. PICK places : places = { k \in DOMAIN peaks : peaks[k].at + Size <= t }
  OBVIOUS
<1>7. places \in SUBSET Int /\ IsFiniteSet(places) /\ places \subseteq DOMAIN peaks
  <2>1. places \subseteq 1..Len(peaks) /\ Len(peaks) \in Nat /\ DOMAIN peaks = 1..Len(peaks)
    BY <1>5, <1>6
  <2>2. PICK l \in Nat : l = Len(peaks) /\ places \subseteq 1..l
    BY <2>1
  <2>3. places \in SUBSET Int /\ IsFiniteSet(places)
    <3>1. 1 \in Int /\ l \in Int
      OBVIOUS
    <3> QED
      BY <2>2, <3>1, FiniteInts, Zenon
  <2> QED
    BY <2>1, <2>3
<1>8. PICK at : at = InOrder(places)
  OBVIOUS
<1>9. PICK n : n = Cardinality(places)
  OBVIOUS
<1>10. /\ n \in Nat /\ at \in [1..n -> places]
       /\ \A i, j \in 1..n : i < j => at[i] < at[j]
       /\ \A x \in places : \E i \in 1..n : at[i] = x
  BY <1>7, <1>8, <1>9, InOrderFacts
<1>11. PICK known : known = Known(peaks, t)
  OBVIOUS
<1>12. known = [i \in 1..n |-> peaks[at[i]]]
  BY <1>6, <1>8, <1>10, <1>11 DEF Known, AtPlaces
<1>13. PICK K : K = KnownBars(bars, t)
  OBVIOUS
<1>14. PICK g : g = [i \in 1..n |-> peaks[at[i]].at]
  OBVIOUS
<1>15. \A i \in 1..n : at[i] \in DOMAIN peaks /\ at[i] \in places
  BY <1>7, <1>10
<1>16. \A k \in places : peaks[k].at \in K
  <2>1. TAKE k \in places
  <2>2. k \in DOMAIN peaks /\ peaks[k].at + Size <= t
    BY <1>6
  <2>3. PICK q \in Int : q = peaks[k].at /\ q >= first /\ Kind(bars, q) # 0 /\ q + Size <= t
    BY <1>3, <1>4, <1>5, <2>2
  <2>4. q \in Size + 2 .. t - Size
    BY <1>2, <1>4, <2>3
  <2> QED
    BY <1>13, <2>3, <2>4 DEF KnownBars
<1>17. \A q \in K : \E k \in places : peaks[k].at = q
  <2>1. TAKE q \in K
  <2>2. q \in Size + 2 .. t - Size /\ Kind(bars, q) # 0
    BY <1>13 DEF KnownBars
  <2>3. q \in first .. last /\ q + Size <= t
    <3>1. PICK l \in Nat : l = Len(bars)
      BY <1>2
    <3> QED
      BY <1>2, <1>3, <1>4, <2>2, <3>1
  <2>4. PICK k \in DOMAIN peaks : peaks[k].at = q
    BY <1>5, <2>2, <2>3
  <2> QED
    BY <1>6, <2>3, <2>4
<1>18. Ascends(g, n, K)
  <2>1. g \in [1..n -> K]
    BY <1>14, <1>15, <1>16
  <2>2. \A i, j \in 1..n : i < j => g[i] < g[j]
    BY <1>5, <1>10, <1>14, <1>15
  <2>3. \A x \in K : \E i \in 1..n : g[i] = x
    BY <1>10, <1>14, <1>17
  <2> QED
    BY <1>10, <2>1, <2>2, <2>3 DEF Ascends
<1>19. K \in SUBSET Int /\ IsFiniteSet(K)
  <2>1. K \subseteq Size + 2 .. t - Size
    BY <1>13 DEF KnownBars
  <2>2. PICK a \in Int : a = Size + 2
    BY <1>2
  <2>3. PICK b \in Int : b = t - Size
    BY <1>2
  <2> QED
    BY <2>1, <2>2, <2>3, FiniteInts
<1>20. Ascends(InOrder(K), Cardinality(K), K)
  BY <1>19, InOrderFacts DEF Ascends
<1>21. g = InOrder(K)
  BY <1>18, <1>19, <1>20, AscendsOnce
<1>22. DOMAIN g = 1..n
  BY <1>14
<1>23. KnownPrices(bars, t) = [i \in 1..n |-> ExtremeAt(bars, g[i])]
  BY <1>13, <1>21, <1>22 DEF KnownPrices
<1>24. \A i \in 1..n : PriceOf(bars, known[i]) = ExtremeAt(bars, g[i])
  <2>1. TAKE i \in 1..n
  <2>2. PICK k \in DOMAIN peaks : k = at[i]
    BY <1>15
  <2>3. known[i] = peaks[k] /\ g[i] = peaks[k].at
    BY <1>12, <1>14, <2>2
  <2>4. (peaks[k].kind > 0) = (Kind(bars, peaks[k].at) > 0)
    BY <1>5
  <2> QED
    BY <2>3, <2>4 DEF PriceOf, ExtremeAt
<1>25. DOMAIN known = 1..n
  BY <1>12
<1>26. [k \in DOMAIN known |-> PriceOf(bars, known[k])] = KnownPrices(bars, t)
  BY <1>23, <1>24, <1>25
<1> QED
  BY <1>1, <1>11, <1>26, Zenon DEF Legs

(* The legs an entry knows are the same however many bars come later.      *)
LEMMA LegsStay ==
    ASSUME NEW B, NEW b \in Seq(B), NEW c \in Seq(B), NEW t \in Nat, t <= Len(c), t <= Len(b),
           Carries(c, b, 0, t)
    PROVE  Legs(c, Peaks(c), t) = Legs(b, Peaks(b), t)
<1>1. Size \in Nat
  BY IndicatorsAssumption
<1>2. ASSUME NEW q \in Size + 2 .. t - Size
      PROVE  Kind(c, q) = Kind(b, q) /\ c[q] = b[q]
  <2>1. q \in Int /\ 0 \in Int /\ q = q + 0 /\ q \in 1..t
    BY <1>1
  <2>2. \A k \in q - Size .. q + Size - 1 : k \in 1..t
    BY <1>1
  <2>3. \A k \in q - Size .. q + Size - 1 : c[k] = b[k + 0]
    BY <2>2 DEF Carries
  <2>4. SameKind(c, q, b, q)
    BY <2>1, <2>3, KindIsLocal, Zenon
  <2> QED
    BY <2>1, <2>4 DEF SameKind, Carries
<1>3. KnownBars(c, t) = KnownBars(b, t)
  BY <1>2 DEF KnownBars
<1>4. PICK K : K = KnownBars(b, t)
  OBVIOUS
<1>5. K \in SUBSET Int /\ IsFiniteSet(K) /\ K \subseteq Size + 2 .. t - Size
  <2>1. K \subseteq Size + 2 .. t - Size
    BY <1>4 DEF KnownBars
  <2>2. PICK m \in Int : m = Size + 2
    BY <1>1
  <2>3. PICK l \in Int : l = t - Size
    BY <1>1
  <2> QED
    BY <2>1, <2>2, <2>3, FiniteInts
<1>6. PICK at : at = InOrder(K)
  OBVIOUS
<1>7. \A i \in DOMAIN at : at[i] \in K
  BY <1>5, <1>6, InOrderFacts
<1>8. \A i \in DOMAIN at : ExtremeAt(c, at[i]) = ExtremeAt(b, at[i])
  <2>1. TAKE i \in DOMAIN at
  <2>2. at[i] \in Size + 2 .. t - Size
    BY <1>5, <1>7
  <2> QED
    BY <1>2, <2>2 DEF ExtremeAt
<1>9. KnownPrices(c, t) = KnownPrices(b, t)
  BY <1>3, <1>4, <1>6, <1>8 DEF KnownPrices
<1> QED
  BY <1>9, LegsOfBars

(***************************************************************************)
(* What the entries of a window are read from, when the window moves on.   *)
(***************************************************************************)
Shows(c, b, d) == Len(c) + d <= Len(b) /\ \A k \in 1..Len(c) : c[k] = b[k + d]

(* A function over 1..n is a list.                                         *)
LEMMA Written ==
    ASSUME NEW n \in Nat, NEW f, f = [k \in 1..n |-> f[k]]
    PROVE  f \in Seq({ f[k] : k \in 1..n }) /\ Len(f) = n /\ DOMAIN f = 1..n
<1>1. PICK T : T = { f[k] : k \in 1..n }
  OBVIOUS
<1>2. f \in [1..n -> T]
  BY <1>1
<1>3. f \in Seq(T) /\ Len(f) = n
  BY <1>2, ListOf
<1> QED
  BY <1>1, <1>2, <1>3

(* The beginning of a list that is written as a function.                  *)
LEMMA Beginning ==
    ASSUME NEW n \in Nat, NEW f, f = [k \in 1..n |-> f[k]], NEW l \in 0..n
    PROVE  SubSeq(f, 1, l) = [k \in 1..l |-> f[k]]
<1>1. PICK T : f \in Seq(T) /\ Len(f) = n
  BY Written
<1>2. 1 \in Nat \ {0} /\ l \in Int /\ l <= Len(f)
  BY <1>1
<1>3. SubSeq(f, 1, l) = [k \in 1 .. 1 + l - 1 |-> f[k + 1 - 1]]
  BY <1>1, <1>2, PartsOfLists
<1>4. 1 + l - 1 = l /\ \A k \in 1..l : k + 1 - 1 = k
  BY <1>2
<1>5. \A k \in 1..l : f[k + 1 - 1] = f[k]
  BY <1>4
<1> QED
  BY <1>3, <1>4, <1>5

SameTo(f, g, l) == \A k \in 1..l : f[k] = g[k]

(* A smoothed value depends on those up to it.                             *)
LEMMA SmoothedStays ==
    ASSUME NEW n \in Nat, NEW f, f = [k \in 1..n |-> f[k]],
           NEW m \in Nat, NEW g, g = [k \in 1..m |-> g[k]],
           NEW l \in Nat, l <= n, l <= m, SameTo(f, g, l), NEW p
    PROVE  SameTo(Smoothed(f, p), Smoothed(g, p), l)
<1>1. SUFFICES ASSUME NEW j \in 1..l PROVE Smoothed(f, p)[j] = Smoothed(g, p)[j]
  BY DEF SameTo
<1>2. j \in 0..n /\ j \in 0..m /\ j \in 1..n /\ j \in 1..m /\ \A k \in 1..j : f[k] = g[k]
  <2>1. j \in 0..n /\ j \in 0..m /\ j \in 1..n /\ j \in 1..m /\ \A k \in 1..j : k \in 1..l
    OBVIOUS
  <2> QED
    BY <2>1 DEF SameTo
<1>3. SubSeq(f, 1, j) = [k \in 1..j |-> f[k]]
  BY <1>2, Beginning
<1>4. SubSeq(g, 1, j) = [k \in 1..j |-> g[k]]
  BY <1>2, Beginning
<1>5. SubSeq(f, 1, j) = SubSeq(g, 1, j)
  BY <1>2, <1>3, <1>4
<1>6. DOMAIN f = 1..n /\ DOMAIN g = 1..m
  BY Written
<1>7. Smoothed(f, p)[j] = SmoothedTo(SubSeq(f, 1, j), p)
  BY <1>2, <1>6 DEF Smoothed
<1>8. Smoothed(g, p)[j] = SmoothedTo(SubSeq(g, 1, j), p)
  BY <1>2, <1>6 DEF Smoothed
<1> QED
  BY <1>5, <1>7, <1>8

Atrs(bars) == SubSeq(Atr(bars), 1, Len(bars))

(* The average range of a bar.                                             *)
LEMMA AtrsStay ==
    ASSUME NEW B, NEW b \in Seq(B), NEW c \in Seq(B), Shows(c, b, 0)
    PROVE  \A k \in 1..Len(c) : /\ TrueRange(c)[k] = TrueRange(b)[k]
                                /\ Atrs(c)[k] = Atrs(b)[k]
<1>1. PICK n \in Nat : n = Len(c)
  OBVIOUS
<1>2. PICK m \in Nat : m = Len(b)
  OBVIOUS
<1>3. n <= m /\ DOMAIN c = 1..n /\ DOMAIN b = 1..m /\ \A k \in 1..n : c[k] = b[k]
  <2>1. \A k \in 1..n : k + 0 = k
    OBVIOUS
  <2> QED
    BY <1>1, <1>2, <2>1 DEF Shows
<1>4. PICK f : f = TrueRange(c)
  OBVIOUS
<1>5. PICK g : g = TrueRange(b)
  OBVIOUS
<1>6. f = [k \in 1..n |-> f[k]] /\ g = [k \in 1..m |-> g[k]]
  BY <1>3, <1>4, <1>5 DEF TrueRange
<1>7. \A k \in 1..n : f[k] = g[k]
  <2>1. TAKE k \in 1..n
  <2>2. c[k] = b[k] /\ k \in 1..m
    BY <1>3
  <2>3. k # 1 => c[k - 1] = b[k - 1]
    <3>1. k # 1 => k - 1 \in 1..n
      OBVIOUS
    <3> QED
      BY <1>3, <3>1
  <2> QED
    BY <1>3, <1>4, <1>5, <2>2, <2>3 DEF TrueRange
<1>8. \A k \in 1..n : Smoothed(f, AtrPeriod)[k] = Smoothed(g, AtrPeriod)[k]
  <2>1. SameTo(f, g, n) /\ n <= n
    BY <1>7 DEF SameTo
  <2>2. SameTo(Smoothed(f, AtrPeriod), Smoothed(g, AtrPeriod), n)
    BY <1>3, <1>6, <2>1, SmoothedStays, Zenon
  <2> QED
    BY <2>2 DEF SameTo
<1>9. PICK s : s = Smoothed(f, AtrPeriod)
  OBVIOUS
<1>10. PICK r : r = Smoothed(g, AtrPeriod)
  OBVIOUS
<1>11. DOMAIN f = 1..n /\ DOMAIN g = 1..m
  BY <1>6
<1>12. DOMAIN s = 1..n /\ DOMAIN r = 1..m
  BY <1>9, <1>10, <1>11 DEF Smoothed
<1>13. PICK x : x = Atr(c)
  OBVIOUS
<1>14. PICK y : y = Atr(b)
  OBVIOUS
<1>15. x = Warmed(s, AtrPeriod - 1) /\ y = Warmed(r, AtrPeriod - 1)
  BY <1>4, <1>5, <1>9, <1>10, <1>13, <1>14 DEF Atr
<1>16. x = [k \in 1..n |-> x[k]] /\ y = [k \in 1..m |-> y[k]] /\ \A k \in 1..n : x[k] = y[k]
  BY <1>3, <1>8, <1>9, <1>10, <1>12, <1>15 DEF Warmed
<1>17. SubSeq(x, 1, n) = [k \in 1..n |-> x[k]]
  <2>1. n \in 0..n
    OBVIOUS
  <2> QED
    BY <1>16, <2>1, Beginning
<1>18. SubSeq(y, 1, m) = [k \in 1..m |-> y[k]]
  <2>1. m \in 0..m
    OBVIOUS
  <2> QED
    BY <1>16, <2>1, Beginning
<1>19. \A k \in 1..n : Atrs(c)[k] = Atrs(b)[k]
  <2>1. \A k \in 1..n : k \in 1..m
    BY <1>3
  <2>2. Atrs(c) = SubSeq(x, 1, n) /\ Atrs(b) = SubSeq(y, 1, m)
    BY <1>1, <1>2, <1>13, <1>14 DEF Atrs
  <2> QED
    BY <1>16, <1>17, <1>18, <2>1, <2>2
<1> QED
  BY <1>1, <1>4, <1>5, <1>7, <1>19

(* The gates read the ATRs up to the bar.                                  *)
LEMMA GatesStay ==
    ASSUME NEW x, NEW y, NEW u \in Nat \ {0}, \A k \in 1..u : x[k] = y[k]
    PROVE  /\ QuietEnough(x, u) <=> QuietEnough(y, u)
           /\ InRegime(x, u) <=> InRegime(y, u)
<1>1. ASSUME NEW first \in Nat \ {0} PROVE AtrsUpTo(x, first, u) = AtrsUpTo(y, first, u)
  <2>1. \A k \in 1 .. u - first + 1 : first + k - 1 \in 1..u
    OBVIOUS
  <2>2. \A k \in 1 .. u - first + 1 : x[first + k - 1] = y[first + k - 1]
    BY <2>1
  <2> QED
    BY <2>2 DEF AtrsUpTo
<1>2. RankWindow \in Nat
  BY RidesAssumption
<1>3. ASSUME NEW e \in Int PROVE Larger(1, e) \in Nat \ {0}
  BY <1>3 DEF Larger
<1>4. Larger(1, u - RankWindow) \in Nat \ {0} /\ Larger(1, u - RankWindow + 1) \in Nat \ {0}
  <2>1. u - RankWindow \in Int /\ u - RankWindow + 1 \in Int
    BY <1>2
  <2> QED
    BY <1>3, <2>1
<1>5. x[u] = y[u]
  OBVIOUS
<1>6. QuietEnough(x, u) <=> QuietEnough(y, u)
  BY <1>1, <1>4, <1>5 DEF QuietEnough
<1>7. InRegime(x, u) <=> InRegime(y, u)
  BY <1>1, <1>4, <1>5 DEF InRegime
<1> QED
  BY <1>6, <1>7

(* The direction of the average, and the index.                            *)
LEMMA TrendStays ==
    ASSUME NEW B, NEW b \in Seq(B), NEW c \in Seq(B), Shows(c, b, 0), NEW u \in 1..Len(c)
    PROVE  Trend(c, u) = Trend(b, u)
<1>1. PICK n \in Nat : n = Len(c)
  OBVIOUS
<1>2. PICK m \in Nat : m = Len(b)
  OBVIOUS
<1>3. n <= m /\ DOMAIN c = 1..n /\ DOMAIN b = 1..m /\ \A k \in 1..n : c[k] = b[k]
  <2>1. \A k \in 1..n : k + 0 = k
    OBVIOUS
  <2> QED
    BY <1>1, <1>2, <2>1 DEF Shows
<1>4. PICK f : f = Closes(c)
  OBVIOUS
<1>5. PICK g : g = Closes(b)
  OBVIOUS
<1>6. f = [k \in 1..n |-> f[k]] /\ g = [k \in 1..m |-> g[k]] /\ \A k \in 1..n : f[k] = g[k]
  BY <1>3, <1>4, <1>5 DEF Closes
<1>7. PICK p : p = (TrendSpan + 1) \div 2
  OBVIOUS
<1>8. \A k \in 1..n : Smoothed(f, p)[k] = Smoothed(g, p)[k]
  <2>1. n <= n
    OBVIOUS
  <2>2. SameTo(f, g, n)
    BY <1>6, Zenon DEF SameTo
  <2>3. SameTo(Smoothed(f, p), Smoothed(g, p), n)
    BY <1>3, <1>6, <2>1, <2>2, SmoothedStays, Zenon
  <2> QED
    BY <2>3 DEF SameTo
<1>9. DOMAIN Smoothed(f, p) = 1..n /\ DOMAIN Smoothed(g, p) = 1..m
  <2>1. DOMAIN f = 1..n /\ DOMAIN g = 1..m
    BY <1>6
  <2> QED
    BY <2>1 DEF Smoothed
<1>10. \A k \in 1..n : Warmed(Smoothed(f, p), TrendSpan - 1)[k] = Warmed(Smoothed(g, p), TrendSpan - 1)[k]
  <2>1. \A k \in 1..n : k \in 1..m
    BY <1>3
  <2> QED
    BY <1>8, <1>9, <2>1 DEF Warmed
<1>11. u \in 1..n /\ c[u] = b[u]
  BY <1>1, <1>3
<1>12. PICK x : x = Warmed(Smoothed(f, p), TrendSpan - 1)
  OBVIOUS
<1>13. PICK y : y = Warmed(Smoothed(g, p), TrendSpan - 1)
  OBVIOUS
<1>14. TrendLag \in Nat
  BY RidesAssumption
<1>15. CASE u <= TrendLag
  <2>1. Trend(c, u) = 0
    BY <1>15 DEF Trend
  <2>2. Trend(b, u) = 0
    BY <1>15 DEF Trend
  <2> QED
    BY <2>1, <2>2
<1>16. CASE ~(u <= TrendLag)
  <2>1. u - TrendLag \in 1..n
    BY <1>11, <1>14, <1>16
  <2>2. x[u] = y[u] /\ x[u - TrendLag] = y[u - TrendLag]
    BY <1>10, <1>11, <1>12, <1>13, <2>1
  <2> QED
    BY <1>4, <1>5, <1>7, <1>11, <1>12, <1>13, <2>2, Zenon DEF Trend
<1> QED
  BY <1>15, <1>16

Changes(bars) == [k \in 1 .. Len(bars) - 1 |-> bars[k + 1].close - bars[k].close]
Gains(bars) == [k \in DOMAIN Changes(bars) |-> Atleast0(Changes(bars)[k])]
Losses(bars) == [k \in DOMAIN Changes(bars) |-> Atleast0(-Changes(bars)[k])]

(* The index of a bar.                                                     *)
LEMMA RsiStays ==
    ASSUME NEW B, NEW b \in Seq(B), NEW c \in Seq(B), Shows(c, b, 0), NEW u \in 1..Len(c)
    PROVE  Rsi(c)[u] = Rsi(b)[u]
<1>1. PICK n \in Nat : n = Len(c) /\ n >= 1
  OBVIOUS
<1>2. PICK m \in Nat : m = Len(b)
  OBVIOUS
<1>3. n <= m /\ DOMAIN c = 1..n /\ DOMAIN b = 1..m /\ \A k \in 1..n : c[k] = b[k]
  <2>1. \A k \in 1..n : k + 0 = k
    OBVIOUS
  <2> QED
    BY <1>1, <1>2, <2>1 DEF Shows
<1>4. PICK i \in Nat : i = n - 1
  BY <1>1
<1>5. PICK j \in Nat : j = m - 1
  BY <1>1, <1>3
<1>6. i <= j
  BY <1>3, <1>4, <1>5
<1>7. /\ Changes(c) = [k \in 1..i |-> c[k + 1].close - c[k].close]
      /\ Changes(b) = [k \in 1..j |-> b[k + 1].close - b[k].close]
  BY <1>1, <1>2, <1>4, <1>5 DEF Changes
<1>8. \A k \in 1..i : k \in 1..j /\ Changes(c)[k] = Changes(b)[k]
  <2>1. TAKE k \in 1..i
  <2>2. k \in 1..n /\ k + 1 \in 1..n /\ k \in 1..j
    BY <1>4, <1>6
  <2>3. c[k] = b[k] /\ c[k + 1] = b[k + 1]
    BY <1>3, <2>2
  <2> QED
    BY <1>7, <2>2, <2>3
<1>9. DOMAIN Changes(c) = 1..i /\ DOMAIN Changes(b) = 1..j
  BY <1>7
<1>10. /\ Gains(c) = [k \in 1..i |-> Gains(c)[k]] /\ Gains(b) = [k \in 1..j |-> Gains(b)[k]]
       /\ \A k \in 1..i : Gains(c)[k] = Gains(b)[k]
  BY <1>8, <1>9 DEF Gains
<1>11. /\ Losses(c) = [k \in 1..i |-> Losses(c)[k]] /\ Losses(b) = [k \in 1..j |-> Losses(b)[k]]
       /\ \A k \in 1..i : Losses(c)[k] = Losses(b)[k]
  BY <1>8, <1>9 DEF Losses
<1>12. \A k \in 1..i : Smoothed(Gains(c), AtrPeriod)[k] = Smoothed(Gains(b), AtrPeriod)[k]
  <2>1. i <= i
    OBVIOUS
  <2>2. SameTo(Gains(c), Gains(b), i)
    BY <1>10, Zenon DEF SameTo
  <2>3. SameTo(Smoothed(Gains(c), AtrPeriod), Smoothed(Gains(b), AtrPeriod), i)
    BY <1>6, <1>10, <2>1, <2>2, SmoothedStays, Zenon
  <2> QED
    BY <2>3 DEF SameTo
<1>13. \A k \in 1..i : Smoothed(Losses(c), AtrPeriod)[k] = Smoothed(Losses(b), AtrPeriod)[k]
  <2>1. i <= i
    OBVIOUS
  <2>2. SameTo(Losses(c), Losses(b), i)
    BY <1>11, Zenon DEF SameTo
  <2>3. SameTo(Smoothed(Losses(c), AtrPeriod), Smoothed(Losses(b), AtrPeriod), i)
    BY <1>6, <1>11, <2>1, <2>2, SmoothedStays, Zenon
  <2> QED
    BY <2>3 DEF SameTo
<1> DEFINE IndexAt(bars, k) ==
             LET gain == Smoothed(Gains(bars), AtrPeriod)
                 loss == Smoothed(Losses(bars), AtrPeriod)
             IN IF k <= AtrPeriod THEN <<0, 1>>
                ELSE IF loss[k - 1] = 0 THEN <<1, 1>>
                ELSE <<gain[k - 1], gain[k - 1] + loss[k - 1]>>
<1>14. Rsi(c) = [k \in DOMAIN c |-> IndexAt(c, k)] /\ Rsi(b) = [k \in DOMAIN b |-> IndexAt(b, k)]
  BY DEF Rsi, Gains, Losses, Changes
<1>15. u \in 1..n /\ u \in DOMAIN c /\ u \in DOMAIN b
  BY <1>1, <1>3
<1>16. IndexAt(c, u) = IndexAt(b, u)
  <2>1. AtrPeriod \in Nat \ {0}
    BY RidesAssumption
  <2>2. CASE u <= AtrPeriod
    BY <2>2
  <2>3. CASE ~(u <= AtrPeriod)
    <3>1. u - 1 \in 1..i
      BY <1>4, <1>15, <2>1, <2>3
    <3> QED
      BY <1>12, <1>13, <3>1
  <2> QED
    BY <2>2, <2>3
<1> HIDE DEF IndexAt
<1> QED
  BY <1>14, <1>15, <1>16

(* The squeeze and the burst out of it.                                    *)
LEMMA BurstsStay ==
    ASSUME NEW B, NEW b \in Seq(B), NEW c \in Seq(B), Shows(c, b, 0), NEW u \in 2..Len(c)
    PROVE  /\ Bursts(c, Atrs(c), u) = Bursts(b, Atrs(b), u)
           /\ Extremes(c, u) = Extremes(b, u)
<1>1. Len(c) \in Nat /\ u \in 1..Len(c) /\ u - 1 \in 1..Len(c)
  OBVIOUS
<1>2. \A k \in 1..Len(c) : TrueRange(c)[k] = TrueRange(b)[k] /\ Atrs(c)[k] = Atrs(b)[k]
  BY AtrsStay
<1>3. \A k \in 1..Len(c) : c[k] = b[k]
  <2>1. \A k \in 1..Len(c) : k + 0 = k
    OBVIOUS
  <2> QED
    BY <2>1 DEF Shows
<1>4. c[u] = b[u] /\ c[u - 1] = b[u - 1] /\ Atrs(c)[u - 1] = Atrs(b)[u - 1]
      /\ TrueRange(c)[u] = TrueRange(b)[u]
  BY <1>1, <1>2, <1>3
<1>5. PICK first \in Nat \ {0} : first = Larger(1, u - 1 - RankWindow)
  <2>1. RankWindow \in Nat /\ u - 1 - RankWindow \in Int
    BY RidesAssumption
  <2>2. Larger(1, u - 1 - RankWindow) \in Nat \ {0}
    BY <2>1 DEF Larger
  <2> QED
    BY <2>2
<1>6. AtrsUpTo(Atrs(c), first, u - 1) = AtrsUpTo(Atrs(b), first, u - 1)
  <2>1. \A k \in 1 .. u - 1 - first + 1 : first + k - 1 \in 1..Len(c)
    BY <1>1
  <2>2. \A k \in 1 .. u - 1 - first + 1 : Atrs(c)[first + k - 1] = Atrs(b)[first + k - 1]
    BY <1>2, <2>1
  <2> QED
    BY <2>2 DEF AtrsUpTo
<1>7. Trend(c, u) = Trend(b, u)
  BY <1>1, TrendStays
<1>8. \A s : WithTrend(c, s, u) <=> WithTrend(b, s, u)
  BY <1>7 DEF WithTrend
<1>9. Bursts(c, Atrs(c), u) = Bursts(b, Atrs(b), u)
  BY <1>4, <1>5, <1>6, <1>8 DEF Bursts
<1>10. Rsi(c)[u] = Rsi(b)[u] /\ Rsi(c)[u - 1] = Rsi(b)[u - 1]
  BY <1>1, RsiStays
<1>11. Extremes(c, u) = Extremes(b, u)
  BY <1>10 DEF Extremes
<1> QED
  BY <1>9, <1>11

(* The box before a bar, and what a bar is to it.                          *)
LEMMA BoxShift ==
    ASSUME NEW B, NEW b \in Seq(B), NEW c \in Seq(B), NEW d \in Nat, Shows(c, b, d),
           NEW t \in 1..Len(c), NEW u, u = t + d, d = 0 \/ t > Window, NEW name
    PROVE  /\ Box(name, c, t) = Box(name, b, u) /\ c[t] = b[u]
           /\ Accepted(name, c, t) <=> Accepted(name, b, u)
<1>1. Window \in Nat /\ t \in Int /\ u \in Int
  BY SignsAssumption
<1>2. c[t] = b[u]
  BY DEF Shows
<1>3. CASE t <= Window
  <2>1. u <= Window
    BY <1>1, <1>3
  <2>2. Box(name, c, t) = NoBand /\ Box(name, b, u) = NoBand
    BY <1>3, <2>1 DEF Box
  <2> QED
    BY <1>2, <2>2 DEF Accepted
<1>4. CASE ~(t <= Window)
  <2>1. ~(u <= Window)
    BY <1>1, <1>4
  <2>2. PICK m \in Nat \ {0} : m = t - Window
    BY <1>1, <1>4
  <2>3. PICK n \in Int : n = t - 1 /\ n <= Len(c)
    BY <1>1
  <2>4. u - Window = m + d /\ u - 1 = n + d /\ n + d <= Len(b)
    BY <1>1, <2>2, <2>3 DEF Shows
  <2>5. \A k \in m..n : c[k] = b[k + d]
    <3>1. \A k \in m..n : k \in 1..Len(c)
      BY <2>3
    <3> QED
      BY <3>1 DEF Shows
  <2>6. SubSeq(c, m, n) = SubSeq(b, m + d, n + d)
    BY <2>3, <2>4, <2>5, SameParts
  <2>7. PICK past : past = SubSeq(c, t - Window, t - 1)
    OBVIOUS
  <2>8. past = SubSeq(b, u - Window, u - 1)
    BY <2>2, <2>3, <2>4, <2>6, <2>7
  <2> DEFINE band == CASE name \in PullbackNames -> ValueArea(WeightedTimeProfile(past, Recency))
                       [] name = "density_multi_relative" -> RelativeBand(TimeProfile(past))
                       [] OTHER -> ValueArea(TimeProfile(past))
  <2>9. Box(name, c, t) = band
    BY <1>4, <2>7, Zenon DEF Box
  <2>10. Box(name, b, u) = band
    BY <2>1, <2>8, Zenon DEF Box
  <2> HIDE DEF band
  <2> QED
    BY <1>2, <2>9, <2>10 DEF Accepted
<1> QED
  BY <1>3, <1>4

(* The edges a bar breaks.                                                 *)
LEMMA BreaksShift ==
    ASSUME NEW B, NEW b \in Seq(B), NEW c \in Seq(B), NEW d \in Nat, Shows(c, b, d),
           NEW t \in 2..Len(c), NEW u, u = t + d, d = 0 \/ t > Window, NEW name, NEW k
    PROVE  BoxBreaks(name, c, t, k) = BoxBreaks(name, b, u, k)
<1>1. t \in 1..Len(c) /\ t - 1 \in 1..Len(c) /\ (t - 1) + d = u - 1
  OBVIOUS
<1>2. Box(name, c, t) = Box(name, b, u) /\ c[t] = b[u]
  BY <1>1, BoxShift
<1>3. c[t - 1] = b[u - 1]
  BY <1>1 DEF Shows
<1> QED
  BY <1>2, <1>3 DEF BoxBreaks

(* The bars accepted before it.                                            *)
LEMMA LongAcceptedShift ==
    ASSUME NEW B, NEW b \in Seq(B), NEW c \in Seq(B), NEW d \in Nat, Shows(c, b, d),
           NEW t \in 1..Len(c), NEW u, u = t + d, d = 0 \/ t > Window + MaxBase + 1, NEW name
    PROVE  LongAccepted(name, c, t) <=> LongAccepted(name, b, u)
<1>1. Window \in Nat /\ MaxBase \in Nat /\ t \in Int /\ u \in Int
  BY SignsAssumption, RidesAssumption
<1>2. ASSUME NEW j \in t - 1 - MaxBase .. t - 1, NEW v, v = j + d
      PROVE  (j > 0 /\ Accepted(name, c, j)) <=> (v > 0 /\ Accepted(name, b, v))
  <2>1. CASE j > 0
    <3>1. j \in 1..Len(c) /\ (d = 0 \/ j > Window) /\ v > 0
      BY <1>1, <1>2, <2>1
    <3>2. Accepted(name, c, j) <=> Accepted(name, b, v)
      BY <1>2, <3>1, BoxShift
    <3> QED
      BY <2>1, <3>1, <3>2
  <2>2. CASE ~(j > 0)
    <3>1. d = 0
      BY <1>1, <1>2, <2>2
    <3>2. ~(v > 0)
      BY <1>2, <2>2, <3>1
    <3> QED
      BY <2>2, <3>2
  <2> QED
    BY <2>1, <2>2
<1>3. ASSUME LongAccepted(name, c, t) PROVE LongAccepted(name, b, u)
  <2>1. SUFFICES ASSUME NEW v \in u - 1 - MaxBase .. u - 1 PROVE v > 0 /\ Accepted(name, b, v)
    BY DEF LongAccepted
  <2>2. PICK j \in Int : j = v - d
    BY <1>1
  <2>3. j \in t - 1 - MaxBase .. t - 1 /\ v = j + d
    BY <1>1, <2>2
  <2>4. j > 0 /\ Accepted(name, c, j)
    BY <1>3, <2>3 DEF LongAccepted
  <2> QED
    BY <1>2, <2>3, <2>4
<1>4. ASSUME LongAccepted(name, b, u) PROVE LongAccepted(name, c, t)
  <2>1. SUFFICES ASSUME NEW j \in t - 1 - MaxBase .. t - 1 PROVE j > 0 /\ Accepted(name, c, j)
    BY DEF LongAccepted
  <2>2. PICK v \in Int : v = j + d
    BY <1>1
  <2>3. v \in u - 1 - MaxBase .. u - 1
    BY <1>1, <2>2
  <2>4. v > 0 /\ Accepted(name, b, v)
    BY <1>4, <2>3 DEF LongAccepted
  <2> QED
    BY <1>2, <2>2, <2>4
<1> QED
  BY <1>3, <1>4

(* The bar that confirms a pullback stays the first that closes behind     *)
(* the edge.                                                               *)
LEMMA ConfirmationStays ==
    ASSUME NEW B, NEW b \in Seq(B), NEW c \in Seq(B), Shows(c, b, 0),
           NEW u \in 1..Len(c), NEW v \in 1..Len(c), NEW f
    PROVE  v \in Confirmation(f, c, u) <=> v \in Confirmation(f, b, u)
<1>1. PICK n \in Nat : n = Len(c)
  OBVIOUS
<1>2. PICK m \in Nat : m = Len(b)
  OBVIOUS
<1>3. n <= m /\ \A k \in 1..n : c[k] = b[k]
  <2>1. \A k \in 1..n : k + 0 = k
    OBVIOUS
  <2> QED
    BY <1>1, <1>2, <2>1 DEF Shows
<1>4. PICK w \in Nat : w = u + LimitWindow
  BY RidesAssumption
<1>5. PICK i \in Int : i = Smaller(w, n) /\ i = (IF w < n THEN w ELSE n)
  BY DEF Smaller
<1>6. PICK j \in Int : j = Smaller(w, m) /\ j = (IF w < m THEN w ELSE m)
  BY DEF Smaller
<1> DEFINE Back(s, l) == { k \in u + 1 .. l : Past(f.side, f.near, s[k].close) <= 0 }
           floor == Within(f, AcceptBand)
           Fails(s, k) == Past(f.side, floor[1], floor[2] * s[k].close) < 0
           Found(s, back) == IF back = {} THEN {}
                             ELSE IF Fails(s, Min(back)) THEN {} ELSE {Min(back)}
<1>7. /\ Confirmation(f, c, u) = Found(c, Back(c, i))
      /\ Confirmation(f, b, u) = Found(b, Back(b, j))
  <2>1. Confirmation(f, c, u) = Found(c, Back(c, Smaller(u + LimitWindow, Len(c))))
    BY DEF Confirmation
  <2>2. Confirmation(f, b, u) = Found(b, Back(b, Smaller(u + LimitWindow, Len(b))))
    BY DEF Confirmation
  <2> HIDE DEF Found, Back
  <2> QED
    BY <1>1, <1>2, <1>4, <1>5, <1>6, <2>1, <2>2
<1>8. PICK X : X = Back(c, i)
  OBVIOUS
<1>9. PICK Y : Y = Back(b, j)
  OBVIOUS
<1>10. X \in SUBSET Nat /\ Y \in SUBSET Nat /\ \A k \in X \cup Y : k >= 1
  BY <1>8, <1>9
<1>11. \A k \in 1..n : k \in X <=> k \in Y
  <2>1. TAKE k \in 1..n
  <2>2. k \in u + 1 .. i <=> k \in u + 1 .. j
    BY <1>1, <1>3, <1>5, <1>6
  <2>3. c[k] = b[k]
    BY <1>3
  <2> QED
    BY <1>8, <1>9, <2>2, <2>3
<1>12. v \in 1..n /\ Fails(c, v) = Fails(b, v)
  BY <1>1, <1>3
<1> HIDE DEF Back, Fails
<1>13. ASSUME NEW S \in SUBSET Nat, NEW s
       PROVE  v \in Found(s, S) <=> v \in S /\ (\A k \in S : v <= k) /\ ~Fails(s, v)
  <2>1. CASE S = {}
    BY <2>1
  <2>2. CASE S # {}
    <3>1. Min(S) \in S /\ \A k \in S : Min(S) <= k
      BY <2>2, MinIsLeast
    <3>2. PICK least \in Nat : least = Min(S)
      BY <3>1
    <3>3. v = least <=> v \in S /\ \A k \in S : v <= k
      BY <3>1, <3>2
    <3>4. v \in Found(s, S) <=> v = least /\ ~Fails(s, least)
      BY <2>2, <3>2
    <3> QED
      BY <3>3, <3>4
  <2> QED
    BY <2>1, <2>2
<1> HIDE DEF Found
<1>14. (v \in X /\ \A k \in X : v <= k) <=> (v \in Y /\ \A k \in Y : v <= k)
  <2>1. ASSUME v \in X, \A k \in X : v <= k, NEW k \in Y PROVE v <= k
    <3>1. k \in Nat /\ k >= 1
      BY <1>10
    <3>2. k \in 1..n \/ v <= k
      BY <1>12, <3>1
    <3> QED
      BY <1>11, <2>1, <3>2
  <2>2. ASSUME v \in Y, \A k \in Y : v <= k, NEW k \in X PROVE v <= k
    <3>1. k \in Nat /\ k >= 1
      BY <1>10
    <3>2. k \in 1..n \/ v <= k
      BY <1>12, <3>1
    <3> QED
      BY <1>11, <2>2, <3>2
  <2> QED
    BY <1>11, <1>12, <2>1, <2>2
<1>15. v \in Found(c, X) <=> v \in X /\ (\A k \in X : v <= k) /\ ~Fails(c, v)
  BY <1>10, <1>13
<1>16. v \in Found(b, Y) <=> v \in Y /\ (\A k \in Y : v <= k) /\ ~Fails(b, v)
  BY <1>10, <1>13
<1>17. v \in Found(c, X) <=> v \in Found(b, Y)
  BY <1>12, <1>14, <1>15, <1>16, Zenon
<1> QED
  BY <1>7, <1>8, <1>9, <1>17

(* The bars a strategy waits for.                                          *)
LEMMA WarmFacts ==
    ASSUME NEW name
    PROVE  /\ Warm(name) \in Nat /\ Warm(name) >= 2
           /\ name = "random_hedge_density" => Warm(name) > Window
           /\ name \in PullbackNames => Warm(name) = PullbackWarm
<1>1. Window \in Nat /\ Window >= 2 /\ TargetWindow \in Nat /\ RankWindow \in Nat
      /\ Size \in Nat /\ MaxLegs \in Nat
  BY SignsAssumption, RidesAssumption, IndicatorsAssumption
<1>2. ASSUME NEW x \in Nat, NEW y \in Nat
      PROVE  Larger(x, y) \in Nat /\ Larger(x, y) >= x /\ Larger(x, y) >= y
  BY <1>2 DEF Larger
<1>3. PICK h \in Nat : h = HedgeWarm /\ h >= 2
  <2>1. MaxLegs + 2 \in Nat
    BY <1>1
  <2>2. Size * (MaxLegs + 2) \in Nat
    BY <1>1, <2>1
  <2>3. Larger(TargetWindow, Size * (MaxLegs + 2)) \in Nat
    BY <1>1, <1>2, <2>2
  <2>4. HedgeWarm \in Nat /\ HedgeWarm >= 2
    BY <2>3 DEF HedgeWarm
  <2> QED
    BY <2>4
<1>4. PICK p \in Nat : p = PullbackWarm /\ p >= 2
  <2>1. Larger(h, Window + 2) \in Nat /\ Larger(h, Window + 2) >= h
    BY <1>1, <1>2
  <2> QED
    BY <1>3, <2>1 DEF PullbackWarm
<1>5. CASE name \in PullbackNames
  <2>1. Warm(name) = p
    <3>1. /\ name \notin MultiNames /\ name # "random_hedge_density" /\ name # "vol_expansion_ride"
          /\ name \notin {"zigzag_bounce_ride", "zigzag_bounce_ride_pullback"}
      BY <1>5 DEF PullbackNames, MultiNames
    <3> QED
      BY <1>4, <1>5, <3>1 DEF Warm
  <2>2. name # "random_hedge_density"
    BY <1>5 DEF PullbackNames
  <2> QED
    BY <1>4, <2>1, <2>2
<1>6. CASE name \in MultiNames
  <2>1. name \notin PullbackNames /\ name # "random_hedge_density"
    BY <1>6 DEF PullbackNames, MultiNames
  <2>2. Warm(name) = Window
    <3>1. /\ name # "vol_expansion_ride"
          /\ name \notin {"zigzag_bounce_ride", "zigzag_bounce_ride_pullback"}
      BY <1>6 DEF MultiNames
    <3> QED
      BY <1>6, <2>1, <3>1 DEF Warm
  <2> QED
    BY <1>1, <2>1, <2>2
<1>7. CASE name \notin PullbackNames \cup MultiNames
  <2>1. CASE name = "random_hedge_density"
    <3>1. Warm(name) = Larger(h, Window + 1)
      BY <1>3, <1>7, <2>1 DEF Warm
    <3>2. Larger(h, Window + 1) \in Nat /\ Larger(h, Window + 1) >= h
          /\ Larger(h, Window + 1) >= Window + 1
      BY <1>1, <1>2
    <3> QED
      BY <1>1, <1>3, <1>7, <3>1, <3>2
  <2>2. CASE name \in {"zigzag_bounce_ride", "zigzag_bounce_ride_pullback"}
    <3>1. Warm(name) = Larger(h, BounceWindow)
      BY <1>3, <1>7, <2>2 DEF Warm
    <3>2. Larger(h, BounceWindow) \in Nat /\ Larger(h, BounceWindow) >= h
      BY <1>2, BounceWindowFacts
    <3> QED
      BY <1>3, <1>7, <2>2, <3>1, <3>2
  <2>3. CASE name = "vol_expansion_ride"
    <3>1. Warm(name) = Larger(h, RankWindow + 2)
      BY <1>3, <1>7, <2>3 DEF Warm
    <3>2. Larger(h, RankWindow + 2) \in Nat /\ Larger(h, RankWindow + 2) >= h
      BY <1>1, <1>2
    <3> QED
      BY <1>3, <1>7, <2>3, <3>1, <3>2
  <2>4. CASE name \notin {"random_hedge_density", "zigzag_bounce_ride",
                        "zigzag_bounce_ride_pullback", "vol_expansion_ride"}
    <3>1. Warm(name) = h
      BY <1>3, <1>7, <2>4 DEF Warm
    <3> QED
      BY <1>3, <1>7, <2>4, <3>1
  <2> QED
    BY <2>1, <2>2, <2>3, <2>4
<1> QED
  BY <1>5, <1>6, <1>7

(* Entries are read from bars up to their own.                             *)
LEMMA EntryStays ==
    ASSUME NEW B, NEW b \in Seq(B), NEW c \in Seq(B), Shows(c, b, 0), NEW u \in 1..Len(c)
    PROVE  /\ Legs(c, Peaks(c), u) = Legs(b, Peaks(b), u) /\ c[u] = b[u]
           /\ \A s, p, dist : Target(c, u, s, p, dist) = Target(b, u, s, p, dist)
           /\ \A s, p, l, i, band : Entry(c, u, s, p, l, i, band) = Entry(b, u, s, p, l, i, band)
<1>1. \A k \in 1..u : k \in 1..Len(c)
  OBVIOUS
<1>2. Carries(c, b, 0, u) /\ u \in Nat /\ u <= Len(c) /\ u <= Len(b)
  BY <1>1 DEF Shows, Carries
<1>3. Legs(c, Peaks(c), u) = Legs(b, Peaks(b), u)
  BY <1>2, LegsStay
<1>4. c[u] = b[u]
  <2>1. u + 0 = u
    OBVIOUS
  <2> QED
    BY <2>1 DEF Shows
<1>5. PICK m \in Nat \ {0} : m = Larger(1, u - TargetWindow)
  <2>1. TargetWindow \in Nat /\ u - TargetWindow \in Int
    BY RidesAssumption
  <2>2. Larger(1, u - TargetWindow) \in Nat \ {0}
    BY <2>1 DEF Larger
  <2> QED
    BY <2>2
<1>6. PICK n \in Int : n = u - 1 /\ n <= Len(c) /\ n + 0 <= Len(b)
  BY <1>2
<1>7. \A k \in m..n : c[k] = b[k + 0]
  <2>1. \A k \in m..n : k \in 1..Len(c)
    BY <1>6
  <2> QED
    BY <2>1 DEF Shows
<1>8. SubSeq(c, m, n) = SubSeq(b, m + 0, n + 0)
  <2>1. PICK d \in Nat : d = 0
    OBVIOUS
  <2>2. n + d <= Len(b) /\ \A k \in m..n : c[k] = b[k + d]
    BY <1>6, <1>7, <2>1
  <2>3. SubSeq(c, m, n) = SubSeq(b, m + d, n + d)
    BY <1>6, <2>2, SameParts
  <2> QED
    BY <2>1, <2>3
<1>9. m + 0 = m /\ n + 0 = n
  OBVIOUS
<1>10. SubSeq(c, Larger(1, u - TargetWindow), u - 1) = SubSeq(b, Larger(1, u - TargetWindow), u - 1)
  BY <1>5, <1>6, <1>8, <1>9
<1>11. \A s, p, dist : Target(c, u, s, p, dist) = Target(b, u, s, p, dist)
  BY <1>10 DEF Target
<1>12. \A s, p, l, i, band : Entry(c, u, s, p, l, i, band) = Entry(b, u, s, p, l, i, band)
  BY <1>11 DEF Entry
<1> QED
  BY <1>3, <1>4, <1>11, <1>12

(* A sign's fires, as the rides ask for them.                              *)
LEMMA BounceStays ==
    ASSUME NEW B, NEW b \in Seq(B), NEW c \in Seq(B), Shows(c, b, 0), NEW u \in 1..Len(c)
    PROVE  ZigzagBounce(TRUE, c, u) = ZigzagBounce(TRUE, b, u)
<1>1. \A k \in 1..u : k \in 1..Len(c)
  OBVIOUS
<1>2. /\ Carries(c, b, 0, u) /\ u = u + 0 /\ u <= Len(b)
      /\ 0 \in Nat /\ (0 = 0 \/ u >= BufferLength("zigzag_bounce"))
  BY <1>1 DEF Shows, Carries
<1>3. SameFire("zigzag_bounce", c, u, b, u)
  BY <1>2, FireShift, Zenon
<1> QED
  BY <1>3 DEF SameFire, FireAt

(* The pullbacks that the breakouts of earlier bars lead to.               *)
LEMMA PullbacksStay ==
    ASSUME NEW B, NEW b \in Seq(B), NEW c \in Seq(B), Shows(c, b, 0), NEW v \in 1..Len(c), NEW name
    PROVE  PullbackEntries(name, c, Peaks(c), v) = PullbackEntries(name, b, Peaks(b), v)
<1>1. Warm(name) \in Nat /\ Warm(name) >= 2
  BY WarmFacts
<1>2. PICK first \in Int : first = Larger(Warm(name) + 1, v - LimitWindow) /\ first >= 3
  <2>1. LimitWindow \in Nat /\ v - LimitWindow \in Int
    BY RidesAssumption
  <2>2. Larger(Warm(name) + 1, v - LimitWindow) \in Int /\ Larger(Warm(name) + 1, v - LimitWindow) >= 3
    BY <1>1, <2>1 DEF Larger
  <2> QED
    BY <2>2
<1>3. ASSUME NEW u \in 2..Len(c)
      PROVE  BreakoutEntry(name, c, Peaks(c), u, v) = BreakoutEntry(name, b, Peaks(b), u, v)
  <2>1. u \in 1..Len(c) /\ u = u + 0 /\ 0 \in Nat
    OBVIOUS
  <2>2. BoxBreaks(name, c, u, BreakoutK) = BoxBreaks(name, b, u, BreakoutK)
    BY <2>1, BreaksShift
  <2>3. LongAccepted(name, c, u) <=> LongAccepted(name, b, u)
    BY <2>1, LongAcceptedShift
  <2>4. \A f : v \in Confirmation(f, c, u) <=> v \in Confirmation(f, b, u)
    BY <2>1, ConfirmationStays
  <2>5. \A f : v \in EntryBars(name, f, c, u) <=> v \in EntryBars(name, f, b, u)
    BY <2>4 DEF EntryBars
  <2>6. /\ Legs(c, Peaks(c), u) = Legs(b, Peaks(b), u) /\ c[u] = b[u]
        /\ \A s, p, l, i, band : Entry(c, u, s, p, l, i, band) = Entry(b, u, s, p, l, i, band)
    BY <2>1, EntryStays
  <2>7. \A f : Pullback(name, f, c, Peaks(c), u) = Pullback(name, f, b, Peaks(b), u)
    BY <2>6 DEF Pullback
  <2> QED
    BY <2>2, <2>3, <2>5, <2>7 DEF BreakoutEntry
<1>4. \A k \in 1 .. v - first + 1 : first + k - 1 \in 2..Len(c)
  BY <1>2
<1>5. [k \in 1 .. v - first + 1 |-> AsSeq(BreakoutEntry(name, c, Peaks(c), first + k - 1, v))]
      = [k \in 1 .. v - first + 1 |-> AsSeq(BreakoutEntry(name, b, Peaks(b), first + k - 1, v))]
  BY <1>3, <1>4
<1> QED
  BY <1>2, <1>5 DEF PullbackEntries

(* The limits at the edges of the box.                                     *)
LEMMA EdgesStay ==
    ASSUME NEW B, NEW b \in Seq(B), NEW c \in Seq(B), Shows(c, b, 0), NEW u \in 1..Len(c), u > Window
    PROVE  EdgeHedge(c, Peaks(c), u) = EdgeHedge(b, Peaks(b), u)
<1>1. /\ Legs(c, Peaks(c), u) = Legs(b, Peaks(b), u) /\ c[u] = b[u]
      /\ \A s, p, l, i, band : Entry(c, u, s, p, l, i, band) = Entry(b, u, s, p, l, i, band)
  BY EntryStays
<1>2. PICK m \in Nat \ {0} : m = u - Window
  <2>1. Window \in Nat /\ u - Window \in Nat \ {0}
    BY SignsAssumption
  <2> QED
    BY <2>1
<1>3. PICK n \in Int : n = u - 1
  OBVIOUS
<1>4. PICK d \in Nat : d = 0
  OBVIOUS
<1>5. \A k \in m..n : c[k] = b[k + d]
  <2>1. \A k \in m..n : k \in 1..Len(c)
    BY <1>3
  <2> QED
    BY <1>4, <2>1 DEF Shows
<1>6. n <= Len(c) /\ n + d <= Len(b)
  BY <1>3, <1>4 DEF Shows
<1>7. SubSeq(c, m, n) = SubSeq(b, m + d, n + d)
  BY <1>5, <1>6, SameParts
<1>8. m + d = m /\ n + d = n
  BY <1>4
<1>9. SubSeq(c, u - Window, u - 1) = SubSeq(b, u - Window, u - 1)
  BY <1>2, <1>3, <1>7, <1>8
<1>10. PICK past : past = SubSeq(c, u - Window, u - 1)
  OBVIOUS
<1>11. PICK close : close = c[u].close
  OBVIOUS
<1> DEFINE profile == TimeProfile(past)
           corners == BoxEdges(profile, ValueBins(profile.weight))
           legs    == AtPlaces(corners, { k \in 1 .. 2 :
                                          Past(corners[k].side, corners[k].price, close) > 0 })
           band    == BandOf(Legs(c, Peaks(c), u), close)
<1>12. EdgeHedge(c, Peaks(c), u)
       = [i \in DOMAIN legs |-> Entry(c, u, legs[i].side, legs[i].price, legs[i].price, NoPrice, band)]
  BY <1>10, <1>11, Zenon DEF EdgeHedge
<1>13. EdgeHedge(b, Peaks(b), u)
       = [i \in DOMAIN legs |-> Entry(b, u, legs[i].side, legs[i].price, legs[i].price, NoPrice, band)]
  <2>1. past = SubSeq(b, u - Window, u - 1) /\ close = b[u].close
        /\ Legs(c, Peaks(c), u) = Legs(b, Peaks(b), u)
    BY <1>1, <1>9, <1>10, <1>11
  <2> QED
    BY <2>1, Zenon DEF EdgeHedge
<1> HIDE DEF legs, band
<1> QED
  BY <1>1, <1>12, <1>13

(* What a window signals at a bar, once it is warm.                        *)
LEMMA WarmSignalsStay ==
    ASSUME NEW B, NEW b \in Seq(B), NEW c \in Seq(B), Shows(c, b, 0), NEW u \in 1..Len(c),
           NEW name, u > Warm(name)
    PROVE  WarmSignals(name, c, Peaks(c), Atrs(c), u) = WarmSignals(name, b, Peaks(b), Atrs(b), u)
<1>1. Warm(name) \in Nat /\ Warm(name) >= 2 /\ (name = "random_hedge_density" => Warm(name) > Window)
  BY WarmFacts
<1>2. Window \in Nat /\ u \in 2..Len(c) /\ u \in Nat \ {0} /\ u = u + 0 /\ 0 \in Nat
      /\ (name = "random_hedge_density" => u > Window)
  BY <1>1, SignsAssumption
<1>3. /\ Legs(c, Peaks(c), u) = Legs(b, Peaks(b), u) /\ c[u] = b[u]
      /\ \A s, p, dist : Target(c, u, s, p, dist) = Target(b, u, s, p, dist)
      /\ \A s, p, l, i, band : Entry(c, u, s, p, l, i, band) = Entry(b, u, s, p, l, i, band)
  BY EntryStays
<1>4. /\ QuietEnough(Atrs(c), u) <=> QuietEnough(Atrs(b), u)
      /\ InRegime(Atrs(c), u) <=> InRegime(Atrs(b), u)
  <2>1. \A k \in 1..u : k \in 1..Len(c)
    OBVIOUS
  <2>2. \A k \in 1..u : Atrs(c)[k] = Atrs(b)[k]
    BY <2>1, AtrsStay
  <2> QED
    BY <1>2, <2>2, GatesStay
<1>5. Trend(c, u) = Trend(b, u)
  BY TrendStays
<1>6. CASE name \in {"random_hedge", "random_hedge_volfilter"}
  <2>1. /\ name \notin PullbackNames /\ name \notin MultiNames /\ name # "random_hedge_density"
        /\ name \notin {"zigzag_bounce_ride", "zigzag_bounce_ride_pullback"}
    BY <1>6 DEF PullbackNames, MultiNames
  <2>2. Hedge(c, Peaks(c), u) = Hedge(b, Peaks(b), u)
    BY <1>3 DEF Hedge
  <2> QED
    BY <1>4, <1>6, <2>1, <2>2 DEF WarmSignals
<1>7. CASE name = "random_hedge_density"
  <2>1. /\ name \notin PullbackNames /\ name \notin MultiNames
        /\ name \notin {"random_hedge", "random_hedge_volfilter"}
        /\ name \notin {"zigzag_bounce_ride", "zigzag_bounce_ride_pullback"}
    BY <1>7 DEF PullbackNames, MultiNames
  <2>2. EdgeHedge(c, Peaks(c), u) = EdgeHedge(b, Peaks(b), u)
    BY <1>2, <1>7, EdgesStay
  <2> QED
    BY <1>7, <2>1, <2>2 DEF WarmSignals
<1>8. CASE name \in MultiNames
  <2>1. /\ name \notin PullbackNames /\ name # "random_hedge_density"
        /\ name \notin {"random_hedge", "random_hedge_volfilter"}
        /\ name \notin {"zigzag_bounce_ride", "zigzag_bounce_ride_pullback"}
    BY <1>8 DEF PullbackNames, MultiNames
  <2>2. BoxBreaks(name, c, u, <<0, 1>>) = BoxBreaks(name, b, u, <<0, 1>>)
    BY <1>2, BreaksShift
  <2>3. MultiEntries(name, c, u) = MultiEntries(name, b, u)
    BY <1>3, <2>2 DEF MultiEntries
  <2>4. Gated(name, Atrs(c), u) <=> Gated(name, Atrs(b), u)
    BY <1>4 DEF Gated
  <2> QED
    BY <1>8, <2>1, <2>3, <2>4 DEF WarmSignals
<1>9. CASE name \in PullbackNames
  <2>1. /\ name \notin MultiNames /\ name # "random_hedge_density"
        /\ name \notin {"random_hedge", "random_hedge_volfilter"}
        /\ name \notin {"zigzag_bounce_ride", "zigzag_bounce_ride_pullback"}
    BY <1>9 DEF PullbackNames, MultiNames
  <2>2. PullbackEntries(name, c, Peaks(c), u) = PullbackEntries(name, b, Peaks(b), u)
    BY PullbacksStay
  <2> QED
    BY <1>9, <2>1, <2>2 DEF WarmSignals
<1>10. CASE name \in {"zigzag_bounce_ride", "zigzag_bounce_ride_pullback"}
  <2>1. /\ name \notin PullbackNames /\ name \notin MultiNames /\ name # "random_hedge_density"
        /\ name \notin {"random_hedge", "random_hedge_volfilter"}
    BY <1>10 DEF PullbackNames, MultiNames
  <2>2. ZigzagBounce(TRUE, c, u) = ZigzagBounce(TRUE, b, u)
    BY BounceStays
  <2>3. \A s : WithTrend(c, s, u) <=> WithTrend(b, s, u)
    BY <1>5 DEF WithTrend
  <2>4. BounceEntries(name, c, u) = BounceEntries(name, b, u)
    <3>1. PICK close : close = c[u].close /\ close = b[u].close
      BY <1>3
    <3> DEFINE Limit(f) == IF name = "zigzag_bounce_ride_pullback" /\ Past(f.side, f.near, close) > 0
                           THEN f.near ELSE NoPrice
               Price(f) == IF Limit(f) = NoPrice THEN close ELSE f.near
               S == { g \in ZigzagBounce(TRUE, c, u) : WithTrend(c, g.side, u) }
    <3>2. S = { g \in ZigzagBounce(TRUE, b, u) : WithTrend(b, g.side, u) }
      BY <2>2, <2>3
    <3>3. BounceEntries(name, c, u)
          = { Entry(c, u, f.side, Price(f), Limit(f), NoPrice, BandOf(f.legs, close)) : f \in S }
      BY <3>1, Zenon DEF BounceEntries
    <3> HIDE DEF S
    <3>4. BounceEntries(name, b, u)
          = { Entry(b, u, f.side, Price(f), Limit(f), NoPrice, BandOf(f.legs, close)) : f \in S }
      BY <3>1, <3>2, Zenon DEF BounceEntries
    <3> HIDE DEF Limit, Price
    <3> QED
      BY <1>3, <3>3, <3>4
  <2> QED
    BY <1>10, <2>1, <2>4 DEF WarmSignals
<1>11. CASE /\ name \notin PullbackNames /\ name \notin MultiNames /\ name # "random_hedge_density"
            /\ name \notin {"random_hedge", "random_hedge_volfilter"}
            /\ name \notin {"zigzag_bounce_ride", "zigzag_bounce_ride_pullback"}
  <2>1. /\ Bursts(c, Atrs(c), u) = Bursts(b, Atrs(b), u)
        /\ Extremes(c, u) = Extremes(b, u)
    BY <1>2, BurstsStay
  <2>2. \A sides : MarketEntries(c, Peaks(c), u, sides) = MarketEntries(b, Peaks(b), u, sides)
    BY <1>3 DEF MarketEntries
  <2> QED
    BY <1>11, <2>1, <2>2 DEF WarmSignals
<1> QED
  BY <1>6, <1>7, <1>8, <1>9, <1>10, <1>11

(* Whatever the strategy, a bar more changes nothing before it.            *)
LEMMA SignalsStay ==
    ASSUME NEW B, NEW b \in Seq(B), NEW c \in Seq(B), Shows(c, b, 0), NEW u \in 1..Len(c), NEW name
    PROVE  Precompute(name, c)[u] = Precompute(name, b)[u]
<1>1. \A inner : SignalsAt(inner, c, Peaks(c), Atrs(c), u) = SignalsAt(inner, b, Peaks(b), Atrs(b), u)
  <2>1. TAKE inner
  <2>2. CASE u <= Warm(inner)
    BY <2>2 DEF SignalsAt
  <2>3. CASE ~(u <= Warm(inner))
    <3>1. u > Warm(inner)
      BY <2>3, WarmFacts
    <3>2. WarmSignals(inner, c, Peaks(c), Atrs(c), u) = WarmSignals(inner, b, Peaks(b), Atrs(b), u)
      BY <3>1, WarmSignalsStay
    <3> QED
      BY <2>3, <3>2 DEF SignalsAt
  <2> QED
    BY <2>2, <2>3
<1>2. PICK inner : inner = IF name = "combo_dp_ver" THEN <<"density_pullback", "vol_expansion_ride">>
                           ELSE <<name>>
  OBVIOUS
<1>3. u \in DOMAIN c /\ u \in DOMAIN b
  BY DEF Shows
<1>4. Precompute(name, c)[u]
      = FlattenSeq([i \in DOMAIN inner |-> SignalsAt(inner[i], c, Peaks(c), Atrs(c), u)])
  BY <1>2, <1>3 DEF Precompute, Atrs
<1>5. Precompute(name, b)[u]
      = FlattenSeq([i \in DOMAIN inner |-> SignalsAt(inner[i], b, Peaks(b), Atrs(b), u)])
  BY <1>2, <1>3 DEF Precompute, Atrs
<1>6. [i \in DOMAIN inner |-> SignalsAt(inner[i], c, Peaks(c), Atrs(c), u)]
      = [i \in DOMAIN inner |-> SignalsAt(inner[i], b, Peaks(b), Atrs(b), u)]
  BY <1>1
<1> QED
  BY <1>4, <1>5, <1>6

(***************************************************************************)
(* The window of a run, and what it still holds.                           *)
(***************************************************************************)
LEMMA WindowFacts ==
    ASSUME NEW n \in Nat
    PROVE  /\ WindowStart(n) \in Nat \ {0}
           /\ n >= 1 => WindowStart(n) <= n
           /\ WindowStart(n) > 1 => n - WindowStart(n) + 1 >= RideDays * RideDay
<1>1. RideDay \in Nat \ {0} /\ RideDays \in Nat \ {0}
  BY RidesAssumption
<1>2. PICK q \in Int : q = n \div RideDay /\ q * RideDay <= n
  BY <1>1, DivisionFacts
<1>3. WindowStart(n) = Larger(0, q - RideDays) * RideDay + 1
  BY <1>2 DEF WindowStart
<1>4. CASE q - RideDays <= 0
  <2>1. Larger(0, q - RideDays) = 0
    BY <1>1, <1>4 DEF Larger
  <2>2. WindowStart(n) = 1
    BY <1>1, <1>3, <2>1
  <2> QED
    BY <2>2
<1>5. CASE q - RideDays > 0
  <2>1. PICK x \in Nat \ {0} : x = q - RideDays
    BY <1>1, <1>5
  <2>2. Larger(0, q - RideDays) = x
    BY <2>1 DEF Larger
  <2>3. PICK y \in Nat : y = x * RideDay
    BY <1>1, <2>1
  <2>4. PICK z \in Nat \ {0} : z = RideDays * RideDay
    BY <1>1
  <2>5. q * RideDay = y + z
    BY <1>1, <2>1, <2>3, <2>4
  <2>6. y + z <= n
    BY <1>2, <2>5
  <2>7. WindowStart(n) = y + 1
    BY <1>3, <2>2, <2>3
  <2> QED
    BY <2>4, <2>6, <2>7
<1> QED
  BY <1>1, <1>2, <1>4, <1>5

(* It only moves forward.                                                  *)
LEMMA WindowSlides ==
    ASSUME NEW m \in Nat, NEW n \in Nat, m <= n
    PROVE  WindowStart(m) <= WindowStart(n)
<1>1. RideDay \in Nat \ {0} /\ RideDays \in Nat \ {0}
  BY RidesAssumption
<1>2. PICK p \in Int : p = m \div RideDay /\ p * RideDay <= m /\ m < p * RideDay + RideDay
  BY <1>1, DivisionFacts
<1>3. PICK q \in Int : q = n \div RideDay /\ q * RideDay <= n /\ n < q * RideDay + RideDay
  BY <1>1, DivisionFacts
<1>4. p <= q
  <2>1. SUFFICES ASSUME q + 1 <= p PROVE FALSE
    BY <1>2, <1>3
  <2>2. (q + 1) * RideDay <= p * RideDay
    BY <1>1, <2>1, ProductsAreOrdered
  <2>3. (q + 1) * RideDay = q * RideDay + RideDay
    BY <1>1
  <2>4. PICK x \in Int : x = q * RideDay
    BY <1>1
  <2>5. PICK y \in Int : y = p * RideDay
    BY <1>1
  <2> QED
    BY <1>1, <1>2, <1>3, <2>2, <2>3, <2>4, <2>5
<1>5. PICK a \in Nat : a = Larger(0, p - RideDays)
  <2>1. p - RideDays \in Int
    BY <1>1
  <2>2. Larger(0, p - RideDays) \in Nat
    BY <2>1 DEF Larger
  <2> QED
    BY <2>2
<1>6. PICK b \in Nat : b = Larger(0, q - RideDays)
  <2>1. q - RideDays \in Int
    BY <1>1
  <2>2. Larger(0, q - RideDays) \in Nat
    BY <2>1 DEF Larger
  <2> QED
    BY <2>2
<1>7. a <= b
  BY <1>1, <1>4, <1>5, <1>6 DEF Larger
<1>8. a * RideDay <= b * RideDay
  BY <1>1, <1>7, ProductsAreOrdered
<1>9. WindowStart(m) = a * RideDay + 1 /\ WindowStart(n) = b * RideDay + 1
  BY <1>2, <1>3, <1>5, <1>6 DEF WindowStart
<1>10. PICK x \in Int : x = a * RideDay
  BY <1>1
<1>11. PICK y \in Int : y = b * RideDay
  BY <1>1
<1> QED
  BY <1>8, <1>9, <1>10, <1>11

(* The bars of a window are those of the market from its start on.         *)
LEMMA WindowShows ==
    ASSUME NEW B, NEW bars \in Seq(B), bars # <<>>,
           NEW first, first = WindowStart(Len(bars)), NEW c, c = WindowBars(bars)
    PROVE  /\ first \in Nat \ {0} /\ first <= Len(bars) /\ c \in Seq(B)
           /\ Len(c) = Len(bars) - first + 1 /\ Shows(c, bars, first - 1)
<1>1. PICK n \in Nat : n = Len(bars) /\ n >= 1
  OBVIOUS
<1>2. first \in Nat \ {0} /\ first <= n
  BY <1>1, WindowFacts
<1>3. c = SubSeq(bars, first, n) /\ n \in Int /\ n <= Len(bars)
  BY <1>1 DEF WindowBars
<1>4. /\ c = [k \in 1 .. 1 + n - first |-> bars[k + first - 1]] /\ c \in Seq(B)
      /\ Len(c) = IF first <= n THEN 1 + n - first ELSE 0
  BY <1>2, <1>3, PartsOfLists
<1>5. Len(c) = n - first + 1 /\ 1 + n - first = n - first + 1
  BY <1>2, <1>4
<1>6. \A k \in 1..Len(c) : c[k] = bars[k + (first - 1)]
  <2>1. \A k \in 1..Len(c) : k \in 1 .. 1 + n - first /\ k + first - 1 = k + (first - 1)
    BY <1>2, <1>5
  <2> QED
    BY <1>4, <2>1
<1>7. Len(c) + (first - 1) <= Len(bars)
  BY <1>1, <1>2, <1>5
<1> QED
  BY <1>1, <1>2, <1>4, <1>5, <1>6, <1>7 DEF Shows

(***************************************************************************)
(* The entries of the live books' strategies.                              *)
(***************************************************************************)
LEMMA LastOfEmpties ==
    ASSUME NEW T, NEW n \in Nat \ {0}, NEW f, f = [k \in 1..n |-> f[k]],
           f[n] \in Seq(T), \A k \in 1..n : k < n => f[k] = <<>>
    PROVE  FlattenSeq(f) = f[n]
<1>1. PICK g : g = [k \in 1..n |-> IF k = n THEN f[n] ELSE <<>>]
  OBVIOUS
<1>2. f \in Seq({ f[k] : k \in 1..n }) /\ Len(f) = n
  BY Written
<1> DEFINE Flat(h) == h = [i \in 1..n |-> IF i = 1 THEN f[i] ELSE h[i - 1] \o f[i]]
<1>3. Flat(g)
  <2>1. ASSUME NEW i \in 1..n PROVE g[i] = IF i = 1 THEN f[i] ELSE g[i - 1] \o f[i]
    <3>1. CASE i = 1
      BY <1>1, <3>1
    <3>2. CASE i # 1
      <4>1. i - 1 \in 1..n /\ i - 1 # n
        BY <3>2
      <4>2. g[i - 1] = <<>> /\ g[i] = f[i]
        BY <1>1, <4>1
      <4>3. f[i] \in Seq(T)
        <5>1. i < n => f[i] = <<>>
          OBVIOUS
        <5>2. <<>> \in Seq(T)
          OBVIOUS
        <5>3. i < n \/ i = n
          OBVIOUS
        <5> QED
          BY <5>1, <5>2, <5>3
      <4>4. <<>> \o f[i] = f[i]
        BY <4>3
      <4> QED
        BY <3>2, <4>2, <4>4
    <3> QED
      BY <3>1, <3>2
  <2> QED
    BY <1>1, <2>1
<1>4. PICK h : h = CHOOSE x : Flat(x)
  OBVIOUS
<1>5. Flat(h)
  BY <1>3, <1>4
<1>6. FlattenSeq(f) = h[n]
  BY <1>2, <1>4 DEF FlattenSeq
<1> DEFINE S == { i \in 0..n : i > 0 => h[i] = g[i] }
<1>7. 0 \in S
  OBVIOUS
<1>8. ASSUME NEW i \in 1..n, i - 1 \in S PROVE i \in S
  <2>1. h[i] = (IF i = 1 THEN f[i] ELSE h[i - 1] \o f[i])
        /\ g[i] = (IF i = 1 THEN f[i] ELSE g[i - 1] \o f[i])
    BY <1>3, <1>5
  <2>2. i = 1 \/ h[i - 1] = g[i - 1]
    BY <1>8
  <2> QED
    BY <2>1, <2>2
<1>9. n \in S
  <2> HIDE DEF S
  <2>1. 0..n \subseteq S
    BY <1>7, <1>8, EveryPrefix
  <2> QED
    BY <2>1
<1>10. h[n] = g[n] /\ g[n] = f[n]
  BY <1>1, <1>9
<1> QED
  BY <1>6, <1>10

(* A finite set is listed in full.                                         *)
LEMMA ListedInFull ==
    ASSUME NEW S, IsFiniteSet(S), NEW s, s = SetToSeq(S)
    PROVE  s \in Seq(S) /\ { s[k] : k \in DOMAIN s } = S
<1>1. PICK n : n = Cardinality(S)
  OBVIOUS
<1>2. n \in Nat /\ ExistsBijection(1..n, S)
  BY <1>1, FS_CardinalityType
<1>3. PICK f \in Bijection(1..n, S) : TRUE
  BY <1>2 DEF ExistsBijection
<1>4. f \in [1..n -> S] /\ IsInjective(f)
  BY <1>3 DEF Bijection, Injection, IsInjective
<1>5. s \in [1..n -> S] /\ IsInjective(s)
  BY <1>1, <1>4 DEF SetToSeq
<1>6. s \in Injection(1..n, S)
  BY <1>5 DEF Injection, IsInjective
<1>7. Cardinality(1..n) = Cardinality(S)
  BY <1>1, <1>2, <1>3, FS_Interval
<1>8. s \in Surjection(1..n, S)
  BY <1>6, <1>7, FS_Injection
<1>9. \A x \in S : \E k \in 1..n : s[k] = x
  BY <1>8 DEF Surjection
<1>10. s \in Seq(S)
  BY <1>2, <1>5, ListOf
<1> QED
  BY <1>5, <1>9, <1>10

(* Nothing is listed as nothing.                                           *)
LEMMA ListOfNone == SetToSeq({}) = <<>>
<1>1. IsFiniteSet({}) /\ Cardinality({}) = 0
  BY FS_EmptySet
<1>2. PICK s : s = SetToSeq({})
  OBVIOUS
<1>3. s \in Seq({})
  BY <1>1, <1>2, ListedInFull
<1>4. Len(s) = 0
  BY <1>3
<1> QED
  BY <1>2, <1>3, <1>4

(* The entries of bar t of the market, bar u of a window, from the bars    *)
(* alone.                                                                  *)
LiveEntry(f, t) ==
    [bar |-> t, side |-> f.side,
     limit |-> Within(f, LimitOffset)[1] \div Within(f, LimitOffset)[2]]

Setups(name, bars, u) == { f \in BoxBreaks(name, bars, u, BreakoutK) : ~LongAccepted(name, bars, u) }

LiveEntries(name, bars, u, t) == { LiveEntry(f, t) : f \in Setups(name, bars, u) }

EntryOf(s, t) == [bar |-> t, side |-> s.side, limit |-> s.limit]

(* The entries of a list of signals.                                       *)
EntriesAre(s, t, L) == { EntryOf(s[k], t) : k \in DOMAIN s } = L

(* A bar breaks one of two edges.                                          *)
LEMMA TwoAtMost ==
    ASSUME NEW name, NEW bars, NEW u
    PROVE  \E x, y : BoxBreaks(name, bars, u, BreakoutK) \subseteq {x, y}
<1>1. PICK band : band = Box(name, bars, u)
  OBVIOUS
<1>2. BoxBreaks(name, bars, u, BreakoutK) \subseteq Edges(band)
  BY <1>1 DEF BoxBreaks
<1>3. PICK x : x = [side |-> Long, near |-> band[2], far |-> band[1]]
  OBVIOUS
<1>4. PICK y : y = [side |-> Short, near |-> band[1], far |-> band[2]]
  OBVIOUS
<1>5. Edges(band) \subseteq {x, y}
  BY <1>3, <1>4 DEF Edges
<1> QED
  BY <1>2, <1>5

(* Without confirmation, only the breakout of the bar itself enters.       *)
LEMMA LivePullbacks ==
    ASSUME NEW name \in LiveNames, NEW bars, NEW u \in Nat, u > Warm(name), NEW t,
           NEW s, s = PullbackEntries(name, bars, Peaks(bars), u)
    PROVE  /\ \E T : s \in Seq(T)
           /\ { EntryOf(s[k], t) : k \in DOMAIN s } = LiveEntries(name, bars, u, t)
<1>1. PICK peaks : peaks = Peaks(bars)
  OBVIOUS
<1>2. Warm(name) \in Nat /\ LimitWindow \in Nat
  BY WarmFacts, RidesAssumption
<1>3. PICK first \in Int : first = Larger(Warm(name) + 1, u - LimitWindow) /\ first <= u
  <2>1. u - LimitWindow \in Int /\ u - LimitWindow <= u /\ Warm(name) + 1 \in Int /\ Warm(name) + 1 <= u
    BY <1>2
  <2>2. Larger(Warm(name) + 1, u - LimitWindow) \in Int /\ Larger(Warm(name) + 1, u - LimitWindow) <= u
    BY <2>1 DEF Larger
  <2> QED
    BY <2>2
<1>4. PICK n \in Nat \ {0} : n = u - first + 1
  BY <1>3
<1>5. /\ name # "density_pullback_confirm" /\ name # "density_pullback_market"
  BY DEF LiveNames
<1>6. \A f, w : EntryBars(name, f, bars, w) = {w}
  BY <1>5 DEF EntryBars
<1>7. PICK E : E = BreakoutEntry(name, bars, peaks, u, u)
  OBVIOUS
<1>8. E = { Pullback(name, f, bars, peaks, u) : f \in Setups(name, bars, u) }
  BY <1>6, <1>7 DEF BreakoutEntry, Setups
<1>9. IsFiniteSet(E)
  <2>1. PICK x, y : BoxBreaks(name, bars, u, BreakoutK) \subseteq {x, y}
    BY TwoAtMost
  <2>2. PICK v, w : v = Pullback(name, x, bars, peaks, u) /\ w = Pullback(name, y, bars, peaks, u)
    OBVIOUS
  <2>3. E \subseteq {v} \cup {w}
    BY <1>8, <2>1, <2>2 DEF Setups
  <2>4. IsFiniteSet({v}) /\ IsFiniteSet({v} \cup {w})
    BY FS_Singleton, FS_AddElement
  <2> QED
    BY <2>3, <2>4, FS_Subset
<1>10. PICK list : list = SetToSeq(E)
  OBVIOUS
<1>11. list \in Seq(E) /\ { list[k] : k \in DOMAIN list } = E
  BY <1>9, <1>10, ListedInFull
<1>12. PICK g : g = [k \in 1..n |-> AsSeq(BreakoutEntry(name, bars, peaks, first + k - 1, u))]
  OBVIOUS
<1>13. \A k \in 1..n : k < n => g[k] = <<>>
  <2>1. SUFFICES ASSUME NEW k \in 1..n, k < n PROVE g[k] = <<>>
    OBVIOUS
  <2>2. PICK w : w = first + k - 1
    OBVIOUS
  <2>3. w # u
    BY <1>3, <1>4, <2>1, <2>2
  <2>4. BreakoutEntry(name, bars, peaks, w, u) = {}
    BY <1>6, <2>3 DEF BreakoutEntry
  <2> QED
    BY <1>12, <2>2, <2>4, ListOfNone DEF AsSeq
<1>14. g[n] = list
  <2>1. n \in 1..n /\ first + n - 1 = u
    BY <1>3, <1>4
  <2> QED
    BY <1>7, <1>10, <1>12, <2>1 DEF AsSeq
<1>15. FlattenSeq(g) = g[n]
  <2>1. g = [k \in 1..n |-> g[k]]
    BY <1>12
  <2>2. g[n] \in Seq(E)
    BY <1>11, <1>14
  <2> QED
    BY <1>13, <2>1, <2>2, LastOfEmpties
<1>16. s = list
  BY <1>1, <1>3, <1>4, <1>12, <1>14, <1>15 DEF PullbackEntries
<1>17. \A f : EntryOf(Pullback(name, f, bars, peaks, u), t) = LiveEntry(f, t)
  <2>1. TAKE f
  <2>2. PICK p : p = Pullback(name, f, bars, peaks, u)
    OBVIOUS
  <2>3. p.side = f.side
    BY <2>2 DEF Pullback, Entry
  <2>4. p.limit = Within(f, LimitOffset)[1] \div Within(f, LimitOffset)[2]
    BY <1>5, <2>2 DEF Pullback, Entry
  <2> QED
    BY <2>2, <2>3, <2>4 DEF EntryOf, LiveEntry
<1>18. { EntryOf(list[k], t) : k \in DOMAIN list } = { EntryOf(e, t) : e \in E }
  BY <1>11
<1>19. { EntryOf(e, t) : e \in E } = LiveEntries(name, bars, u, t)
  BY <1>8, <1>17 DEF LiveEntries
<1> QED
  BY <1>11, <1>16, <1>18, <1>19

(* What a replay signals at a bar, before it is warm and after.            *)
LEMMA LiveSignals ==
    ASSUME NEW name \in LiveNames, NEW B, NEW bars \in Seq(B), NEW u \in 1..Len(bars), NEW t,
           NEW s, s = Precompute(name, bars)[u]
    PROVE  /\ u > Warm(name) => EntriesAre(s, t, LiveEntries(name, bars, u, t))
           /\ ~(u > Warm(name)) => EntriesAre(s, t, {})
<1>1. Warm(name) \in Nat /\ u \in DOMAIN bars /\ u \in Nat
  BY WarmFacts
<1>2. PICK r : r = SignalsAt(name, bars, Peaks(bars), Atrs(bars), u)
  OBVIOUS
<1>3. s = FlattenSeq([i \in 1..1 |-> r])
  <2>1. name # "combo_dp_ver"
    BY DEF LiveNames
  <2>2. s = FlattenSeq([i \in DOMAIN <<name>> |->
                          SignalsAt(<<name>>[i], bars, Peaks(bars), Atrs(bars), u)])
    BY <1>1, <2>1 DEF Precompute, Atrs
  <2>3. DOMAIN <<name>> = 1..1 /\ \A i \in 1..1 : <<name>>[i] = name
    OBVIOUS
  <2>4. [i \in DOMAIN <<name>> |-> SignalsAt(<<name>>[i], bars, Peaks(bars), Atrs(bars), u)]
        = [i \in 1..1 |-> r]
    BY <1>2, <2>3
  <2> QED
    BY <2>2, <2>4
<1>4. ASSUME NEW T, r \in Seq(T) PROVE s = r
  <2>1. PICK f : f = [i \in 1..1 |-> r]
    OBVIOUS
  <2>2. f = [i \in 1..1 |-> f[i]] /\ f[1] = r /\ \A k \in 1..1 : k < 1 => f[k] = <<>>
    BY <2>1
  <2>3. 1 \in Nat \ {0} /\ f[1] \in Seq(T)
    BY <1>4, <2>2
  <2>4. FlattenSeq(f) = f[1]
    BY <2>2, <2>3, LastOfEmpties
  <2> QED
    BY <1>3, <2>1, <2>2, <2>4
<1>5. CASE ~(u > Warm(name))
  <2>1. r = <<>>
    BY <1>1, <1>2, <1>5 DEF SignalsAt
  <2>2. <<>> \in Seq({}) /\ DOMAIN <<>> = {}
    OBVIOUS
  <2>3. s = <<>>
    BY <1>4, <2>1, <2>2
  <2> QED
    BY <1>5, <2>2, <2>3 DEF EntriesAre
<1>6. CASE u > Warm(name)
  <2>1. /\ name \in PullbackNames /\ name \notin MultiNames /\ name # "random_hedge_density"
        /\ name \notin {"random_hedge", "random_hedge_volfilter"}
        /\ name \notin {"zigzag_bounce_ride", "zigzag_bounce_ride_pullback"}
    BY DEF LiveNames, PullbackNames, MultiNames
  <2>2. r = PullbackEntries(name, bars, Peaks(bars), u)
    BY <1>1, <1>2, <1>6, <2>1 DEF SignalsAt, WarmSignals
  <2>3. PICK T : r \in Seq(T)
    BY <1>1, <1>6, <2>2, LivePullbacks
  <2>4. { EntryOf(r[k], t) : k \in DOMAIN r } = LiveEntries(name, bars, u, t)
    BY <1>1, <1>6, <2>2, LivePullbacks
  <2>5. s = r
    BY <1>4, <2>3
  <2> QED
    BY <1>6, <2>4, <2>5 DEF EntriesAre
<1> QED
  BY <1>5, <1>6

(* They do not depend on where the window starts.                          *)
LEMMA LiveEntriesShift ==
    ASSUME NEW B, NEW b \in Seq(B), NEW c \in Seq(B), NEW d \in Nat, Shows(c, b, d),
           NEW name \in LiveNames, NEW u \in 1..Len(c), u > Warm(name), NEW v, v = u + d, NEW t
    PROVE  LiveEntries(name, c, u, t) = LiveEntries(name, b, v, t)
<1>1. /\ Warm(name) \in Nat /\ Warm(name) >= 2 /\ Warm(name) = PullbackWarm
      /\ Window \in Nat /\ MaxBase \in Nat
  BY WarmFacts, SignsAssumption, RidesAssumption DEF LiveNames, PullbackNames
<1>2. u > Window + MaxBase + 1 /\ u > Window /\ u \in 2..Len(c)
  BY <1>1, WindowAssumption
<1>3. BoxBreaks(name, c, u, BreakoutK) = BoxBreaks(name, b, v, BreakoutK)
  BY <1>2, BreaksShift
<1>4. LongAccepted(name, c, u) <=> LongAccepted(name, b, v)
  BY <1>2, LongAcceptedShift
<1> QED
  BY <1>3, <1>4 DEF LiveEntries, Setups

(* What a run signals at a bar of its window, from the market alone.       *)
LEMMA RunEntries ==
    ASSUME NEW name \in LiveNames, NEW B, NEW bars \in Seq(B), bars # <<>>,
           NEW first, first = WindowStart(Len(bars)), NEW t \in first..Len(bars)
    PROVE  Entries(t, Replayed(name, bars))
             = IF t - first + 1 > Warm(name) THEN LiveEntries(name, bars, t, t) ELSE {}
<1>1. PICK c : c = WindowBars(bars)
  OBVIOUS
<1>2. /\ first \in Nat \ {0} /\ first <= Len(bars) /\ c \in Seq(B)
      /\ Len(c) = Len(bars) - first + 1 /\ Shows(c, bars, first - 1)
  BY <1>1, WindowShows
<1>3. PICK u \in Int : u = t - first + 1
  BY <1>2
<1>4. PICK d \in Nat : d = first - 1
  BY <1>2
<1>5. u \in 1..Len(c) /\ t = u + d
  <2>1. PICK m \in Nat, n \in Nat : m = Len(c) /\ n = Len(bars)
    BY <1>2
  <2>2. PICK f \in Nat, w \in Int : f = first /\ w = t
    BY <1>2
  <2>3. f >= 1 /\ f <= w /\ w <= n /\ m = n - f + 1
    BY <1>2, <2>1, <2>2
  <2>4. u = w - f + 1 /\ d = f - 1
    BY <1>3, <1>4, <2>2
  <2>5. u >= 1 /\ u <= m /\ w = u + d
    BY <2>3, <2>4
  <2> QED
    BY <1>3, <2>1, <2>2, <2>5
<1>6. PICK s : s = Precompute(name, c)[u]
  OBVIOUS
<1>7. Replayed(name, bars)[t] = s
  BY <1>1, <1>3, <1>6 DEF Replayed
<1>8. Entries(t, Replayed(name, bars)) = { EntryOf(s[k], t) : k \in DOMAIN s }
  BY <1>7 DEF Entries, EntryOf
<1>9. Entries(t, Replayed(name, bars))
        = IF u > Warm(name) THEN LiveEntries(name, c, u, t) ELSE {}
  <2>1. /\ u > Warm(name) => EntriesAre(s, t, LiveEntries(name, c, u, t))
        /\ ~(u > Warm(name)) => EntriesAre(s, t, {})
    BY <1>2, <1>5, <1>6, LiveSignals, Zenon
  <2> QED
    BY <1>8, <2>1 DEF EntriesAre
<1>10. ASSUME u > Warm(name) PROVE LiveEntries(name, c, u, t) = LiveEntries(name, bars, t, t)
  <2>1. Shows(c, bars, d)
    BY <1>2, <1>4
  <2> QED
    BY <1>2, <1>4, <1>5, <1>10, <2>1, LiveEntriesShift
<1> QED
  BY <1>3, <1>9, <1>10

(***************************************************************************)
(* The runs: the window ends with the newest bar, the signals are the      *)
(* replay of its bars, and an entry that was acted on is one of the market *)
(* at its bar, at which the window of that run was warm.                   *)
(***************************************************************************)
RideBars == RideShapes \cup UNION { Range(bars) : bars \in Histories }

Settled(name, bars, a) ==
    /\ a.bar \in 1..Len(bars)
    /\ a.bar - WindowStart(a.bar) + 1 > Warm(name)
    /\ a \in LiveEntries(name, bars, a.bar, a.bar)

RidesInv ==
    /\ market \in Seq(RideBars) /\ market # <<>>
    /\ windowStart = WindowStart(Len(market))
    /\ signals = Replayed(ride, market)
    /\ ride \in LiveNames => \A a \in acted : Settled(ride, market, a)

(* What a run acts on is settled.                                          *)
LEMMA ActedIsSettled ==
    ASSUME NEW name \in LiveNames, NEW B, NEW bars \in Seq(B), bars # <<>>,
           NEW n, n = Len(bars), NEW a \in Entries(n, Replayed(name, bars))
    PROVE  Settled(name, bars, a)
<1>1. n \in Nat \ {0}
  OBVIOUS
<1>2. PICK first : first = WindowStart(n)
  OBVIOUS
<1>3. first \in Nat \ {0} /\ first <= n /\ n \in first..n
  BY <1>1, <1>2, WindowFacts
<1>4. Entries(n, Replayed(name, bars))
        = IF n - first + 1 > Warm(name) THEN LiveEntries(name, bars, n, n) ELSE {}
  BY <1>2, <1>3, RunEntries
<1>5. n - first + 1 > Warm(name) /\ a \in LiveEntries(name, bars, n, n)
  BY <1>4
<1>6. a.bar = n
  BY <1>5 DEF LiveEntries, LiveEntry
<1>7. n \in 1..Len(bars)
  BY <1>1
<1> QED
  BY <1>2, <1>5, <1>6, <1>7 DEF Settled

(* It stays settled as bars are added.                                     *)
LEMMA SettledStays ==
    ASSUME NEW name \in LiveNames, NEW B, NEW b \in Seq(B), NEW c \in Seq(B), Shows(c, b, 0),
           NEW a, Settled(name, c, a)
    PROVE  Settled(name, b, a)
<1>1. PICK d \in Nat : d = 0
  OBVIOUS
<1>2. PICK u \in Nat \ {0} : u = a.bar /\ u \in 1..Len(c)
  BY DEF Settled
<1>3. PICK first \in Nat \ {0} : first = WindowStart(u)
  BY <1>2, WindowFacts
<1>4. PICK w \in Nat : w = Warm(name)
  BY WarmFacts
<1>5. u - first + 1 > w
  BY <1>2, <1>3, <1>4 DEF Settled
<1>6. u > w /\ u = u + d
  BY <1>1, <1>5
<1>7. LiveEntries(name, c, u, u) = LiveEntries(name, b, u, u)
  BY <1>1, <1>2, <1>4, <1>6, LiveEntriesShift
<1>8. u \in 1..Len(b)
  BY <1>2 DEF Shows
<1> QED
  BY <1>2, <1>7, <1>8 DEF Settled

(* The series a behaviour starts with has had its runs.                    *)
LEMMA RidesStart == RidesInit => RidesInv
<1>1. SUFFICES ASSUME RidesInit PROVE RidesInv
  OBVIOUS
<1>2. market \in Histories /\ market # <<>> /\ market \in Seq(Range(market))
  BY <1>1, RidesAssumption DEF RidesInit
<1>3. market \in Seq(RideBars)
  <2>1. Range(market) \subseteq RideBars
    BY <1>2 DEF RideBars
  <2> QED
    BY <1>2, <2>1
<1>4. PICK m \in Nat \ {0} : m = Len(market)
  BY <1>3, <1>2
<1>5. PICK runs : /\ runs = [n \in DOMAIN market |-> Replayed(ride, SubSeq(market, 1, n))]
                  /\ signals = runs[Len(market)]
                  /\ acted = UNION { Entries(n, runs[n]) : n \in DOMAIN market }
  BY <1>1 DEF RidesInit
<1>6. ASSUME NEW n \in 1..m
      PROVE  \E c : /\ c = SubSeq(market, 1, n) /\ c \in Seq(RideBars) /\ Len(c) = n
                    /\ c # <<>> /\ Shows(c, market, 0)
  <2>1. PICK c : c = SubSeq(market, 1, n)
    OBVIOUS
  <2>2. 1 \in Nat \ {0} /\ n \in Int /\ n <= Len(market) /\ 1 <= n
    BY <1>4
  <2>3. /\ c = [k \in 1 .. 1 + n - 1 |-> market[k + 1 - 1]] /\ c \in Seq(RideBars)
        /\ Len(c) = IF 1 <= n THEN 1 + n - 1 ELSE 0
    BY <1>3, <2>1, <2>2, PartsOfLists
  <2>4. Len(c) = n
    BY <2>2, <2>3
  <2>5. \A k \in 1..n : c[k] = market[k + 0]
    <3>1. \A k \in 1..n : k \in 1 .. 1 + n - 1 /\ k + 1 - 1 = k /\ k + 0 = k
      OBVIOUS
    <3> QED
      BY <2>3, <3>1
  <2>6. Shows(c, market, 0)
    BY <2>2, <2>4, <2>5 DEF Shows
  <2>7. c # <<>>
    BY <2>2, <2>4
  <2> QED
    BY <2>1, <2>3, <2>4, <2>6, <2>7
<1>7. signals = Replayed(ride, market)
  <2>1. PICK c : /\ c = SubSeq(market, 1, m) /\ c \in Seq(RideBars) /\ Len(c) = m
                 /\ Shows(c, market, 0)
    BY <1>4, <1>6
  <2>2. \A k \in 1..m : c[k] = market[k]
    BY <2>1 DEF Shows
  <2>3. c = market
    BY <1>3, <1>4, <2>1, <2>2
  <2>4. m \in DOMAIN market
    BY <1>3, <1>4
  <2> QED
    BY <1>4, <1>5, <2>1, <2>3, <2>4
<1>8. ASSUME ride \in LiveNames, NEW a \in acted PROVE Settled(ride, market, a)
  <2>1. PICK n \in 1..m : a \in Entries(n, runs[n])
    BY <1>3, <1>4, <1>5, <1>8
  <2>2. PICK c : /\ c = SubSeq(market, 1, n) /\ c \in Seq(RideBars) /\ Len(c) = n
                 /\ c # <<>> /\ Shows(c, market, 0)
    BY <1>6
  <2>3. n \in DOMAIN market
    BY <1>3, <1>4
  <2>4. runs[n] = Replayed(ride, c)
    BY <1>5, <2>2, <2>3
  <2>5. a \in Entries(n, Replayed(ride, c))
    BY <2>1, <2>4
  <2>6. Settled(ride, c, a)
    BY <1>8, <2>2, <2>5, ActedIsSettled
  <2> QED
    BY <1>3, <1>8, <2>2, <2>6, SettledStays
<1> QED
  BY <1>1, <1>2, <1>3, <1>7, <1>8 DEF RidesInv, RidesInit

(* An hour later: the market shows the market before it.                   *)
LEMMA HourLater ==
    ASSUME RidesInv, RidesNext
    PROVE  /\ market' \in Seq(RideBars) /\ market' # <<>> /\ Len(market') = Len(market) + 1
           /\ Shows(market, market', 0) /\ ride' = ride
           /\ windowStart' = WindowStart(Len(market')) /\ signals' = Replayed(ride', market')
<1>1. PICK bar \in RideShapes : NextRun(bar)
  BY DEF RidesNext
<1>2. market \in Seq(RideBars) /\ market' = Append(market, bar) /\ bar \in RideBars
  BY <1>1 DEF RidesInv, NextRun, RideBars
<1>3. /\ market' \in Seq(RideBars) /\ market' # <<>> /\ Len(market') = Len(market) + 1
      /\ \A k \in 1..Len(market) : market[k] = market'[k]
  BY <1>2
<1>4. \A k \in 1..Len(market) : k + 0 = k
  OBVIOUS
<1>5. Shows(market, market', 0)
  BY <1>2, <1>3, <1>4 DEF Shows
<1>6. ride' = ride /\ windowStart' = WindowStart(Len(market')) /\ signals' = Replayed(ride, market')
  BY <1>1 DEF NextRun
<1> QED
  BY <1>3, <1>5, <1>6

(* Every hour adds a bar and a run.                                        *)
LEMMA RidesGoOn == RidesInv /\ [RidesNext]_rideVars => RidesInv'
<1>1. SUFFICES ASSUME RidesInv, [RidesNext]_rideVars PROVE RidesInv'
  OBVIOUS
<1>2. CASE UNCHANGED rideVars
  BY <1>1, <1>2 DEF RidesInv, rideVars
<1>3. CASE RidesNext
  <2>1. PICK bar \in RideShapes : NextRun(bar)
    BY <1>3 DEF RidesNext
  <2>2. /\ market' \in Seq(RideBars) /\ market' # <<>> /\ Len(market') = Len(market) + 1
        /\ Shows(market, market', 0) /\ ride' = ride /\ market \in Seq(RideBars)
        /\ windowStart' = WindowStart(Len(market')) /\ signals' = Replayed(ride', market')
    BY <1>1, <1>3, HourLater DEF RidesInv
  <2>3. acted' = acted \cup Entries(Len(market'), signals')
    BY <2>1 DEF NextRun
  <2>4. ASSUME ride' \in LiveNames, NEW a \in acted' PROVE Settled(ride', market', a)
    <3>1. ride \in LiveNames
      BY <2>2, <2>4
    <3>2. CASE a \in acted
      <4>1. Settled(ride, market, a)
        BY <1>1, <3>1, <3>2 DEF RidesInv
      <4> QED
        BY <2>2, <3>1, <4>1, SettledStays
    <3>3. CASE a \in Entries(Len(market'), signals')
      <4>1. a \in Entries(Len(market'), Replayed(ride, market'))
        BY <2>2, <3>3
      <4> QED
        BY <2>2, <3>1, <4>1, ActedIsSettled
    <3> QED
      BY <2>3, <2>4, <3>2, <3>3
  <2> QED
    BY <2>2, <2>4 DEF RidesInv
<1> QED
  BY <1>1, <1>2, <1>3

(* While its order can rest and its position be held, the window that ends *)
(* with a later bar still holds an entry, and warm.                        *)
LEMMA WindowStillWarm ==
    ASSUME NEW m \in Nat, NEW n \in 1..m, NEW name \in LiveNames,
           n - WindowStart(n) + 1 > Warm(name), m - n <= LimitWindow + RideTimeStop
    PROVE  n - WindowStart(m) + 1 > Warm(name) /\ n \in WindowStart(m)..m
<1>1. PICK H \in Nat : H = LimitWindow + RideTimeStop
  BY RidesAssumption
<1>2. PICK w \in Nat : w = Warm(name) /\ w = PullbackWarm
  BY WarmFacts DEF LiveNames, PullbackNames
<1>3. PICK first \in Nat \ {0} : first = WindowStart(m) /\ first <= m
  BY WindowFacts
<1>4. PICK then \in Nat \ {0} : then = WindowStart(n) /\ then <= first
  BY <1>3, WindowFacts, WindowSlides
<1>5. n - then + 1 > w /\ m - n <= H
  BY <1>1, <1>2, <1>4
<1>6. CASE first = 1
  BY <1>2, <1>3, <1>4, <1>5, <1>6
<1>7. CASE first > 1
  <2>1. PICK z \in Nat : z = RideDays * RideDay
    BY RidesAssumption
  <2>2. m - first + 1 >= z
    BY <1>3, <1>7, <2>1, WindowFacts
  <2>3. z > w + H
    <3>1. PICK x \in Nat, y \in Nat : x = LimitWindow /\ y = RideTimeStop
      BY RidesAssumption
    <3>2. z > w + x + y
      BY <1>2, <2>1, <3>1, WindowAssumption
    <3>3. H = x + y
      BY <1>1, <3>1
    <3> QED
      BY <3>2, <3>3
  <2>4. n - first + 1 > w
    BY <1>5, <2>2, <2>3
  <2> QED
    BY <1>2, <1>3, <2>4
<1> QED
  BY <1>3, <1>6, <1>7

(* What a run signals at a bar both of them hold warm, the next signals.   *)
LEMMA SlidingKeepsEntries ==
    ASSUME RidesInv, RidesNext, ride \in LiveNames,
           NEW t \in windowStart' + Warm(ride)..Len(market)
    PROVE  Entries(t, signals') = Entries(t, signals)
<1>1. /\ market' \in Seq(RideBars) /\ market' # <<>> /\ Len(market') = Len(market) + 1
      /\ Shows(market, market', 0) /\ ride' = ride
      /\ windowStart' = WindowStart(Len(market')) /\ signals' = Replayed(ride', market')
  BY HourLater
<1>2. /\ market \in Seq(RideBars) /\ market # <<>>
      /\ windowStart = WindowStart(Len(market)) /\ signals = Replayed(ride, market)
  BY DEF RidesInv
<1>3. PICK m \in Nat \ {0} : m = Len(market) /\ m + 1 = Len(market')
  BY <1>1, <1>2
<1>4. PICK first \in Nat \ {0} : first = windowStart /\ first = WindowStart(m)
  BY <1>2, <1>3, WindowFacts
<1>5. PICK then \in Nat \ {0} : then = windowStart' /\ then = WindowStart(m + 1) /\ first <= then
  <2>1. m + 1 \in Nat /\ m <= m + 1
    OBVIOUS
  <2>2. first <= WindowStart(m + 1) /\ WindowStart(m + 1) \in Nat \ {0}
    BY <1>4, <2>1, WindowFacts, WindowSlides
  <2> QED
    BY <1>1, <1>3, <2>2
<1>6. PICK w \in Nat : w = Warm(ride)
  BY WarmFacts
<1>7. t \in Int /\ then + w <= t /\ t <= m
  BY <1>3, <1>5, <1>6
<1>8. t - first + 1 > w /\ t - then + 1 > w /\ t > w /\ t \in 1..m
  BY <1>4, <1>5, <1>6, <1>7
<1>9. t \in first..m /\ t \in then..(m + 1)
  BY <1>5, <1>6, <1>7
<1>10. Entries(t, signals) = LiveEntries(ride, market, t, t)
  <2>1. Entries(t, Replayed(ride, market))
          = IF t - first + 1 > Warm(ride) THEN LiveEntries(ride, market, t, t) ELSE {}
    BY <1>2, <1>3, <1>4, <1>9, RunEntries
  <2> QED
    BY <1>2, <1>6, <1>8, <2>1
<1>11. Entries(t, signals') = LiveEntries(ride, market', t, t)
  <2>1. Entries(t, Replayed(ride, market'))
          = IF t - then + 1 > Warm(ride) THEN LiveEntries(ride, market', t, t) ELSE {}
    BY <1>1, <1>3, <1>5, <1>9, RunEntries
  <2> QED
    BY <1>1, <1>6, <1>8, <2>1
<1>12. LiveEntries(ride, market, t, t) = LiveEntries(ride, market', t, t)
  <2>1. PICK d \in Nat : d = 0
    OBVIOUS
  <2>2. t \in 1..Len(market) /\ t > Warm(ride) /\ t = t + d /\ Shows(market, market', d)
    BY <1>1, <1>3, <1>6, <1>8, <2>1
  <2> QED
    BY <1>1, <1>2, <2>2, LiveEntriesShift
<1> QED
  BY <1>10, <1>11, <1>12

(* As long as the window starts where it did, nothing it signals changes.  *)
LEMMA SignalsAreKept ==
    ASSUME RidesInv, RidesNext, windowStart' = windowStart, NEW t \in DOMAIN signals
    PROVE  signals'[t] = signals[t]
<1>1. /\ market' \in Seq(RideBars) /\ market' # <<>> /\ Len(market') = Len(market) + 1
      /\ Shows(market, market', 0) /\ ride' = ride
      /\ windowStart' = WindowStart(Len(market')) /\ signals' = Replayed(ride', market')
  BY HourLater
<1>2. /\ market \in Seq(RideBars) /\ market # <<>>
      /\ windowStart = WindowStart(Len(market)) /\ signals = Replayed(ride, market)
  BY DEF RidesInv
<1>3. PICK c, b : c = WindowBars(market) /\ b = WindowBars(market')
  OBVIOUS
<1>4. PICK first : first = windowStart
  OBVIOUS
<1>5. /\ first \in Nat \ {0} /\ first <= Len(market) /\ c \in Seq(RideBars)
      /\ Len(c) = Len(market) - first + 1 /\ Shows(c, market, first - 1)
  BY <1>2, <1>3, <1>4, WindowShows
<1>6. /\ b \in Seq(RideBars)
      /\ Len(b) = Len(market') - first + 1 /\ Shows(b, market', first - 1)
  BY <1>1, <1>3, <1>4, WindowShows
<1>7. PICK m \in Nat, n \in Nat : m = Len(market) /\ n = Len(c)
  BY <1>2, <1>5
<1>8. PICK f \in Nat \ {0} : f = first
  BY <1>5
<1>9. f <= m /\ n = m - f + 1 /\ Len(b) = n + 1
  BY <1>1, <1>5, <1>6, <1>7, <1>8
<1>10. Shows(c, b, 0)
  <2>1. ASSUME NEW k \in 1..n PROVE c[k] = b[k + 0]
    <3>1. PICK j \in Int : j = k + (f - 1)
      BY <1>8
    <3>2. j \in 1..m /\ k \in 1..(n + 1) /\ k + 0 = k /\ j + 0 = j
      BY <1>9, <3>1
    <3>3. c[k] = market[j]
      BY <1>5, <1>7, <1>8, <3>1 DEF Shows
    <3>4. b[k] = market'[j]
      BY <1>6, <1>8, <1>9, <3>1, <3>2 DEF Shows
    <3>5. market[j] = market'[j]
      BY <1>1, <1>7, <3>2 DEF Shows
    <3> QED
      BY <3>2, <3>3, <3>4, <3>5
  <2>2. Len(c) + 0 <= Len(b)
    BY <1>7, <1>9
  <2> QED
    BY <1>7, <2>1, <2>2 DEF Shows
<1>11. t \in f..m
  BY <1>2, <1>4, <1>7, <1>8 DEF Replayed
<1>12. PICK u \in Int : u = t - f + 1 /\ u \in 1..n
  BY <1>9, <1>11
<1>13. Precompute(ride, c)[u] = Precompute(ride, b)[u]
  BY <1>5, <1>6, <1>7, <1>10, <1>12, SignalsStay
<1>14. signals[t] = Precompute(ride, c)[u]
  BY <1>2, <1>3, <1>4, <1>7, <1>8, <1>11, <1>12 DEF Replayed
<1>15. signals'[t] = Precompute(ride, b)[u]
  <2>1. t \in f..(m + 1)
    BY <1>11
  <2> QED
    BY <1>1, <1>3, <1>4, <1>7, <1>8, <1>12, <2>1 DEF Replayed
<1> QED
  BY <1>13, <1>14, <1>15

(* Confirmed peaks alternate: the swings a leg is measured over are whole, *)
(* whatever the market printed (confirmed_leg_sizes).                      *)
THEOREM PeaksAlternate == RidesSpec => []ConfirmedPeaksAlternate
<1>1. RidesInv => ConfirmedPeaksAlternate
  BY ConfirmedAlternate DEF RidesInv
<1> QED
  BY <1>1, RidesStart, RidesGoOn, PTL DEF RidesSpec

(* The window never drops the entry of a position that can still be open:  *)
(* it is signalled, at its bar, on its side and at its price, by every run *)
(* from the one that acted on it until its order and its position have run *)
(* out of time.                                                            *)
THEOREM EntriesStay == RidesSpec => []ActedEntriesStay
<1>1. RidesInv => ActedEntriesStay
  <2>1. SUFFICES ASSUME RidesInv, ride \in LiveNames, NEW a \in acted,
                        Len(market) - a.bar <= LimitWindow + RideTimeStop
                 PROVE  a \in Entries(a.bar, signals)
    BY DEF ActedEntriesStay
  <2>2. /\ market \in Seq(RideBars) /\ market # <<>> /\ signals = Replayed(ride, market)
        /\ Settled(ride, market, a)
    BY <2>1 DEF RidesInv
  <2>3. PICK m \in Nat : m = Len(market)
    BY <2>2
  <2>4. PICK n \in 1..m : /\ n = a.bar /\ n - WindowStart(n) + 1 > Warm(ride)
                          /\ a \in LiveEntries(ride, market, n, n)
    BY <2>2, <2>3 DEF Settled
  <2>5. m - n <= LimitWindow + RideTimeStop
    BY <2>1, <2>3, <2>4
  <2>6. n - WindowStart(m) + 1 > Warm(ride) /\ n \in WindowStart(m)..m
    BY <2>1, <2>4, <2>5, WindowStillWarm
  <2>7. PICK first : first = WindowStart(m)
    OBVIOUS
  <2>8. Entries(n, Replayed(ride, market))
          = IF n - first + 1 > Warm(ride) THEN LiveEntries(ride, market, n, n) ELSE {}
    BY <2>1, <2>2, <2>3, <2>6, <2>7, RunEntries
  <2> QED
    BY <2>2, <2>4, <2>6, <2>7, <2>8
<1> QED
  BY <1>1, RidesStart, RidesGoOn, PTL DEF RidesSpec

(* What a run of the auto trader signalled, the runs after it signal too:  *)
(* every signal while the window starts where it did, and the entries of   *)
(* the live books at every bar the moved window is warm for.               *)
THEOREM RunsKeepAgreeing == RidesSpec => RunsAgree
<1>1. RidesInv /\ [RidesNext]_rideVars =>
        [\A t \in windowStart' + Warm(ride) .. Len(market) :
           ride \in LiveNames => Entries(t, signals') = Entries(t, signals)]_rideVars
  BY SlidingKeepsEntries
<1>2. RidesInv /\ [RidesNext]_rideVars =>
        [windowStart' = windowStart => \A t \in DOMAIN signals : signals'[t] = signals[t]]_rideVars
  BY SignalsAreKept
<1> QED
  BY <1>1, <1>2, RidesStart, RidesGoOn, PTL
     DEF RidesSpec, RunsAgree, EntriesSurviveTheSlide, SignalsAreFinal
=============================================================================
