-------------------------- MODULE MarketDataProofs --------------------------
(***************************************************************************)
(* Theorems about market data, for every value of the constants: the       *)
(* collector of History, and the users of GMO's klines, the walk of        *)
(* LiveBars and the import of GmoImport.                                   *)
(***************************************************************************)
EXTENDS History, LiveBars, GmoImport, Arithmetic, FiniteSetTheorems

(***************************************************************************)
(* Least and greatest ids.                                                 *)
(***************************************************************************)

(* The two bounds the checkpoint stores.                                   *)
LEMMA LeastOrNone ==
    ASSUME NEW n \in Nat, NEW S \in SUBSET (1..n)
    PROVE  Least(S) \in S \cup {NoId}
  BY MinIsLeast DEF Least

LEMMA GreatestOrNone ==
    ASSUME NEW n \in Nat, NEW S \in SUBSET (1..n)
    PROVE  /\ Greatest(S) \in S \cup {NoId}
           /\ S # {} => Greatest(S) \in S /\ \A i \in S : i <= Greatest(S)
  BY MaxIsGreatest DEF Greatest

(***************************************************************************)
(* A page.                                                                 *)
(***************************************************************************)

LEMMA CountBounds ==
    ASSUME left \in Nat
    PROVE  /\ Count \in Nat /\ Count <= left
           /\ left > 0 => Count > 0
  BY HistoryAssumption DEF Count

(* What a page holds: an unbroken stretch of what is served below the      *)
(* cursor, up to the newest such execution, and no more than asked for.    *)
LEMMA PageFacts ==
    ASSUME issued \in Nat, forgotten \in Nat, left \in Nat,
           cursor \in Nat
    PROVE  /\ Page \subseteq 1..issued
           /\ cursor # NoId => \A i \in Page : i < cursor
           /\ Contiguous(Page)
           /\ IsFiniteSet(Page) /\ Cardinality(Page) <= left
           /\ \A i \in Served :
                ( /\ left > 0 /\ (cursor # NoId => i < cursor)
                  /\ \A j \in Served : (cursor # NoId => j < cursor) => j <= i )
                  => i \in Page
<1> DEFINE below == { i \in Served : cursor # NoId => i < cursor }
           top   == Greatest(below)
<1>1. below \subseteq 1..issued
  BY DEF Served
<1>2. /\ top \in below \cup {NoId}
      /\ below # {} => top \in below /\ \A i \in below : i <= top
  BY <1>1, GreatestOrNone
<1>3. Page = { i \in below : i > top - Count }
  BY DEF Page
<1> HIDE DEF top
<1>4. Page \subseteq 1..issued /\ (cursor # NoId => \A i \in Page : i < cursor)
  BY <1>1, <1>3
<1>5. Count \in Nat /\ Count <= left /\ (left > 0 => Count > 0)
  BY CountBounds
<1>6. top \in Nat
  BY <1>1, <1>2 DEF NoId
<1>7. Contiguous(Page)
  <2>1. SUFFICES ASSUME NEW i \in Page, NEW j \in Page, NEW k \in i..j
                 PROVE  k \in Page
    BY DEF Contiguous
  <2>2. i \in Nat /\ j \in Nat /\ k \in Nat
    BY <1>4
  <2>3. k \in below
    BY <1>3, <2>2 DEF Served
  <2> QED
    BY <1>3, <1>5, <1>6, <2>2, <2>3
<1>8. IsFiniteSet(Page) /\ Cardinality(Page) <= left
  <2>1. Page \subseteq (top - Count + 1)..top
    BY <1>1, <1>2, <1>3, <1>5, <1>6
  <2>2. /\ IsFiniteSet((top - Count + 1)..top)
        /\ Cardinality((top - Count + 1)..top) = Count
    BY <1>5, <1>6, FS_Interval
  <2>3. /\ IsFiniteSet(Page)
        /\ Cardinality(Page) <= Cardinality((top - Count + 1)..top)
    BY <2>1, <2>2, FS_Subset
  <2>4. Cardinality(Page) \in Nat
    BY <2>3, FS_CardinalityType
  <2> QED
    BY <1>5, <2>2, <2>3, <2>4
<1>9. ASSUME NEW i \in Served, cursor # NoId => i < cursor,
             \A j \in Served : (cursor # NoId => j < cursor) => j <= i,
             left > 0
      PROVE  i \in Page
  <2>1. i \in below
    BY <1>9
  <2>2. top \in below /\ i <= top
    BY <1>2, <2>1
  <2>3. top <= i
    BY <1>9, <2>2
  <2>4. i \in Nat /\ top \in Nat /\ Count \in Nat /\ Count > 0
    BY <1>1, <1>5, <1>6, <1>9, <2>1
  <2>5. i > top - Count
    BY <2>2, <2>3, <2>4
  <2> QED
    BY <1>3, <2>1, <2>5
<1> QED
  BY <1>4, <1>7, <1>8, <1>9

(***************************************************************************)
(* The inductive invariant: what a walk has in memory hangs on to the id   *)
(* it started from, ends above the id it stops at, and has no hole.        *)
(***************************************************************************)

AtFeed == step \in {"page", "store"}

WalkOK ==
    /\ {start, stop} \subseteq stored \cup {NoId}
    /\ start # NoId => stop = NoId
    /\ rows \subseteq 1..issued /\ Contiguous(rows)
    /\ \A i \in rows : i > stop
    /\ start # NoId /\ rows # {} => start - 1 \in rows /\ \A i \in rows : i < start
    /\ step = "page" =>
         /\ left > 0
         /\ rows = {} => cursor = start
         /\ rows # {} => cursor \in rows /\ \A i \in rows : cursor <= i
    /\ step = "store" /\ joined => stop # NoId /\ (rows # {} => stop + 1 \in rows)

TablesOK ==
    /\ stored \subseteq 1..issued
    /\ {oldest, newest} \subseteq stored \cup {NoId}
    /\ ~mixed => \A b \in Buckets : ohlcv[b] \subseteq InBucket(stored, b)

HasJob == step \in {"page", "store", "mark"} => jobs # <<>>

HistoryInv == HistoryTypeOK /\ TablesOK /\ HasJob /\ (AtFeed => WalkOK)

LEMMA HistoryInitInv == HistoryInit => HistoryInv
<1> SUFFICES ASSUME HistoryInit PROVE HistoryInv
  OBVIOUS
<1> USE HistoryAssumption DEF HistoryInit, NoId
<1>1. issued \in 0..MaxId
  <2>1. MaxId \div 2 \in Nat /\ MaxId \div 2 <= MaxId
    OBVIOUS
  <2> QED
    BY <2>1
<1>2. HistoryTypeOK
  <2>1. ohlcv \in [Buckets -> SUBSET (1..MaxId)]
    OBVIOUS
  <2>2. jobs \in Seq({"forward", "back", "rebuild", "collect"})
    OBVIOUS
  <2>3. left \in 0..MaxTicks /\ faults \in 0..MaxFaults /\ byHand \in 0..MaxHand
    OBVIOUS
  <2>4. {oldest, newest, start, cursor, stop} \subseteq 0..MaxId /\ forgotten \in 0..MaxId
    OBVIOUS
  <2>5. mixed \in BOOLEAN /\ joined \in BOOLEAN
    OBVIOUS
  <2> QED
    BY <1>1, <2>1, <2>2, <2>3, <2>4, <2>5 DEF HistoryTypeOK
<1>3. TablesOK
  BY DEF TablesOK
<1>4. ~AtFeed /\ HasJob
  BY DEF AtFeed, HasJob
<1> QED
  BY <1>2, <1>3, <1>4 DEF HistoryInv

(***************************************************************************)
(* A page keeps the invariant.                                             *)
(***************************************************************************)

LEMMA GetPageKeeps ==
    ASSUME HistoryInv, GetPage
    PROVE  HistoryInv'
<1> USE DEF NoId
<1> DEFINE fresh == { i \in Page : i > stop }
           goesOn == /\ Page # {} /\ ~(fresh # Page)
                     /\ Cardinality(Page) = Count
                     /\ left > Cardinality(fresh)
<1>1. /\ step = "page"
      /\ rows' = rows \cup fresh
      /\ left' = left - Cardinality(fresh)
      /\ cursor' = IF Page = {} THEN cursor ELSE Min(Page)
      /\ joined' = (fresh # Page)
      /\ step' = IF goesOn THEN "page" ELSE "store"
      /\ UNCHANGED <<issued, forgotten, tables, jobs, start, stop, faults, byHand>>
  BY DEF GetPage, NextCursor
<1>2. HistoryTypeOK /\ TablesOK /\ WalkOK
  BY <1>1 DEF HistoryInv, AtFeed
<1>3. /\ issued \in 0..MaxId /\ forgotten \in Nat /\ left \in Nat /\ cursor \in Nat
      /\ stop \in Nat /\ start \in Nat /\ MaxId \in Nat /\ issued \in Nat
  BY <1>2, HistoryAssumption DEF HistoryTypeOK
<1>4. /\ Page \subseteq 1..issued
      /\ cursor # NoId => \A i \in Page : i < cursor
      /\ Contiguous(Page)
      /\ IsFiniteSet(Page) /\ Cardinality(Page) <= left
      /\ \A i \in Served :
           ( /\ left > 0 /\ (cursor # NoId => i < cursor)
             /\ \A j \in Served : (cursor # NoId => j < cursor) => j <= i )
             => i \in Page
  BY <1>3, PageFacts
<1>5. Page # {} => Min(Page) \in Page /\ \A i \in Page : Min(Page) <= i
  <2>1. Page \in SUBSET Nat
    BY <1>3, <1>4
  <2> QED
    BY <2>1, MinIsLeast
<1>6. Cardinality(fresh) \in Nat /\ Cardinality(fresh) <= left
  <2>1. /\ IsFiniteSet(fresh)
        /\ Cardinality(fresh) <= Cardinality(Page)
    BY <1>4, FS_Subset
  <2>2. Cardinality(fresh) \in Nat /\ Cardinality(Page) \in Nat
    BY <1>4, <2>1, FS_CardinalityType
  <2> QED
    BY <1>3, <1>4, <2>1, <2>2
<1> HIDE DEF fresh
<1>7. fresh \subseteq Page
  BY DEF fresh
(* With executions in memory the page goes on right below them.            *)
<1>8. rows # {} /\ Page # {} => cursor - 1 \in Page
  <2>1. SUFFICES ASSUME rows # {}, Page # {} PROVE cursor - 1 \in Page
    OBVIOUS
  <2>2. cursor \in rows /\ cursor \in 1..issued /\ left > 0
    BY <1>1, <1>2, <2>1 DEF WalkOK
  <2>3. PICK e \in Page : TRUE
    BY <2>1
  <2>4. e \in Served /\ e < cursor
    BY <1>4, <2>2, <2>3 DEF Page
  <2>5. cursor - 1 \in Served
    BY <1>3, <2>2, <2>4 DEF Served
  <2>6. \A j \in Served : j < cursor => j <= cursor - 1
    BY <1>3, <2>2 DEF Served
  <2> QED
    BY <1>3, <1>4, <2>2, <2>5, <2>6
<1>9. Contiguous(rows')
  <2>1. SUFFICES ASSUME NEW i \in rows', NEW j \in rows', NEW k \in i..j
                 PROVE  k \in rows'
    BY DEF Contiguous
  <2>2. Contiguous(rows) /\ rows \subseteq 1..issued /\ \A r \in rows : r > stop
    BY <1>2 DEF WalkOK
  <2>3. i \in Nat /\ j \in Nat /\ k \in Nat
    BY <1>1, <1>4, <1>7, <2>1, <2>2
  <2>4. CASE i \in rows /\ j \in rows
    BY <1>1, <2>2, <2>4 DEF Contiguous
  <2>5. CASE i \in fresh /\ j \in fresh
    <3>1. k \in Page
      BY <1>4, <1>7, <2>5 DEF Contiguous
    <3>2. k > stop
      BY <1>3, <2>3, <2>5 DEF fresh
    <3> QED
      BY <1>1, <3>1, <3>2 DEF fresh
  <2>6. CASE i \in fresh /\ j \in rows
    <3>1. cursor \in rows /\ cursor \in 1..issued /\ cursor - 1 \in Page
      BY <1>1, <1>2, <1>7, <1>8, <2>6 DEF WalkOK
    <3>2. CASE k >= cursor
      <4>1. k \in cursor..j
        BY <2>3, <3>1, <3>2
      <4> QED
        BY <1>1, <2>2, <2>6, <3>1, <4>1 DEF Contiguous
    <3>3. CASE k < cursor
      <4>1. k \in i..(cursor - 1)
        BY <1>3, <2>3, <3>1, <3>3
      <4>2. k \in Page
        BY <1>4, <1>7, <2>6, <3>1, <4>1 DEF Contiguous
      <4>3. k > stop
        BY <1>3, <2>3, <2>6 DEF fresh
      <4> QED
        BY <1>1, <4>2, <4>3 DEF fresh
    <3> QED
      BY <1>3, <2>3, <3>2, <3>3
  <2>7. CASE i \in rows /\ j \in fresh
    <3>1. cursor <= i /\ j < cursor
      BY <1>1, <1>2, <1>4, <1>7, <2>7 DEF WalkOK
    <3> QED
      BY <1>3, <2>3, <3>1
  <2> QED
    BY <1>1, <2>4, <2>5, <2>6, <2>7
<1>10. HistoryTypeOK'
  <2>1. rows' \subseteq 1..MaxId
    BY <1>1, <1>2, <1>3, <1>4, <1>7 DEF HistoryTypeOK
  <2>2. cursor' \in 0..MaxId
    <3>1. CASE Page = {}
      BY <1>1, <1>2, <3>1 DEF HistoryTypeOK
    <3>2. CASE Page # {}
      <4>1. Min(Page) \in 1..issued
        BY <1>4, <1>5, <3>2
      <4>2. cursor' = Min(Page)
        BY <1>1, <3>2
      <4> QED
        BY <1>3, <4>1, <4>2
    <3> QED
      BY <3>1, <3>2
  <2>3. left' \in 0..MaxTicks
    BY <1>1, <1>2, <1>6, HistoryAssumption DEF HistoryTypeOK
  <2>4. joined' \in BOOLEAN /\ step' \in {"idle", "next", "page", "store", "mark"}
    BY <1>1
  <2> QED
    BY <1>1, <1>2, <2>1, <2>2, <2>3, <2>4 DEF HistoryTypeOK, tables, Buckets
<1>11. TablesOK'
  BY <1>1, <1>2 DEF TablesOK, tables, Buckets, InBucket
<1>12. WalkOK'
  <2>1. {start, stop}' \subseteq stored' \cup {NoId} /\ (start' # NoId => stop' = NoId)
    BY <1>1, <1>2 DEF WalkOK, tables
  <2>2. rows' \subseteq 1..issued'
    BY <1>1, <1>2, <1>4, <1>7 DEF WalkOK
  <2>3. \A i \in rows' : i > stop'
    BY <1>1, <1>2 DEF WalkOK, fresh
  <2>4. start' # NoId /\ rows' # {} => start' - 1 \in rows' /\ \A i \in rows' : i < start'
    <3>1. SUFFICES ASSUME start # NoId, rows' # {}
                   PROVE  start - 1 \in rows' /\ \A i \in rows' : i < start
      BY <1>1
    <3>2. CASE rows # {}
      <4>1. start - 1 \in rows /\ \A i \in rows : i < start
        BY <1>2, <3>1, <3>2 DEF WalkOK
      <4>2. \A i \in fresh : i < start
        <5>1. cursor \in rows /\ cursor \in 1..issued /\ cursor < start
          BY <1>1, <1>2, <3>2, <4>1 DEF WalkOK
        <5> QED
          BY <1>3, <1>4, <1>7, <5>1
      <4> QED
        BY <1>1, <4>1, <4>2
    <3>3. CASE rows = {}
      <4>1. cursor = start /\ stop = NoId /\ start \in stored /\ left > 0
        BY <1>1, <1>2, <3>1, <3>3 DEF WalkOK
      <4>2. fresh = Page
        <5>1. \A i \in Page : i \in 1..issued
          BY <1>4
        <5>2. \A i \in Page : i > 0
          BY <1>3, <5>1
        <5> QED
          BY <4>1, <5>2 DEF fresh
      <4>3. PICK e \in Page : TRUE
        BY <1>1, <3>1, <3>3, <4>2
      <4>4. e \in Served /\ e < start
        BY <1>4, <3>1, <4>1, <4>3 DEF Page
      <4>5. start \in 1..issued
        BY <1>2, <4>1 DEF TablesOK
      <4>6. start - 1 \in Served /\ \A j \in Served : j < start => j <= start - 1
        BY <1>3, <4>4, <4>5 DEF Served
      <4>7. start - 1 \in Page
        BY <1>3, <1>4, <3>1, <4>1, <4>5, <4>6
      <4> QED
        BY <1>1, <1>4, <3>1, <3>3, <4>1, <4>2, <4>7
    <3> QED
      BY <3>2, <3>3
  <2>5. step' = "page" => left' > 0 /\ rows' # {} /\ cursor' \in rows'
                           /\ \A i \in rows' : cursor' <= i
    <3>1. SUFFICES ASSUME goesOn PROVE left' > 0 /\ rows' # {} /\ cursor' \in rows'
                                        /\ \A i \in rows' : cursor' <= i
      BY <1>1
    <3>2. Page # {} /\ fresh = Page /\ left > Cardinality(fresh)
      BY <3>1
    <3>3. cursor' \in fresh /\ \A i \in fresh : cursor' <= i
      BY <1>1, <1>5, <3>2
    <3>4. \A i \in rows : cursor' <= i
      <4>1. SUFFICES ASSUME NEW i \in rows PROVE cursor' <= i
        OBVIOUS
      <4>2. cursor <= i /\ cursor \in 1..issued /\ i \in 1..issued
        BY <1>1, <1>2, <4>1 DEF WalkOK
      <4>3. cursor' < cursor /\ cursor' \in 1..issued
        BY <1>3, <1>4, <1>7, <3>3, <4>2
      <4> QED
        BY <1>3, <4>2, <4>3
    <3>5. left' > 0
      BY <1>1, <1>3, <1>6, <3>2
    <3>6. cursor' \in rows' /\ \A i \in rows' : cursor' <= i
      BY <1>1, <3>3, <3>4
    <3> QED
      BY <3>5, <3>6
  <2>6. step' = "store" /\ joined' => stop' # NoId /\ (rows' # {} => stop' + 1 \in rows')
    <3>1. SUFFICES ASSUME fresh # Page PROVE stop # NoId /\ (rows' # {} => stop + 1 \in rows')
      BY <1>1
    <3>2. PICK e \in Page : ~(e > stop)
      BY <3>1 DEF fresh
    <3>3. e \in 1..issued /\ e <= stop
      BY <1>3, <1>4, <3>2
    <3>4. ASSUME NEW x \in Page, x > stop PROVE stop + 1 \in rows'
      <4>1. stop + 1 \in e..x
        BY <1>3, <1>4, <3>3, <3>4
      <4>2. stop + 1 \in Page
        BY <1>4, <3>2, <3>4, <4>1 DEF Contiguous
      <4> QED
        BY <1>1, <1>3, <4>2 DEF fresh
    <3>5. ASSUME rows' # {} PROVE stop + 1 \in rows'
      <4>1. CASE rows = {}
        BY <1>1, <3>4, <3>5, <4>1 DEF fresh
      <4>2. CASE rows # {}
        <5>1. cursor \in rows /\ cursor \in 1..issued /\ cursor > stop
          BY <1>1, <1>2, <4>2 DEF WalkOK
        <5>2. cursor - 1 \in Page
          BY <1>8, <3>2, <4>2
        <5>3. CASE cursor = stop + 1
          BY <1>1, <5>1, <5>3
        <5>4. CASE cursor # stop + 1
          <6>1. cursor - 1 > stop
            BY <1>3, <5>1, <5>4
          <6> QED
            BY <3>4, <5>2, <6>1
        <5> QED
          BY <5>3, <5>4
      <4> QED
        BY <4>1, <4>2
    <3> QED
      BY <1>3, <3>3, <3>5
  <2> QED
    BY <1>9, <2>1, <2>2, <2>3, <2>4, <2>5, <2>6 DEF WalkOK
<1>13. HasJob'
  BY <1>1 DEF HistoryInv, HasJob
<1> QED
  BY <1>10, <1>11, <1>12, <1>13 DEF HistoryInv

(***************************************************************************)
(* The other steps.                                                        *)
(***************************************************************************)

(* An upsert writes bars of the table's type, and only from its source.    *)
LEMMA UpsertedType ==
    ASSUME HistoryTypeOK, NEW S \in SUBSET (1..MaxId)
    PROVE  /\ Upserted(S) \in [Buckets -> SUBSET (1..MaxId)]
           /\ \A b \in Buckets : Upserted(S)[b] \in {ohlcv[b], InBucket(S, b)}
  BY DEF Upserted, HistoryTypeOK, InBucket

(* A bucket of a larger set holds what the same bucket of a smaller does.  *)
LEMMA InBucketMonotone ==
    ASSUME NEW S, NEW T, S \subseteq T, NEW b
    PROVE  InBucket(S, b) \subseteq InBucket(T, b)
  BY DEF InBucket

(* Where a walk starts and stops is stored, and only a forward walk has a  *)
(* stop.                                                                   *)
LEMMA BeginWalkKeeps ==
    ASSUME HistoryInv, BeginWalk
    PROVE  HistoryInv'
<1> USE DEF NoId
<1>1. /\ start' = Before(Head(jobs)) /\ cursor' = start' /\ stop' = StopAt(Head(jobs))
      /\ rows' = {} /\ left' = MaxTicks /\ joined' = FALSE /\ step' = "page"
      /\ UNCHANGED <<issued, forgotten, tables, jobs, faults, byHand>>
  BY DEF BeginWalk
<1>2. HistoryTypeOK /\ TablesOK
  BY DEF HistoryInv
<1>3. /\ {start', stop'} \subseteq stored \cup {NoId}
      /\ start' # NoId => stop' = NoId
  BY <1>1, <1>2 DEF TablesOK, Before, StopAt
<1>4. HistoryTypeOK'
  <2>1. {start', stop', cursor'} \subseteq 0..MaxId
    <3>1. \A i \in stored \cup {NoId} : i \in 0..MaxId
      BY <1>2, HistoryAssumption DEF HistoryTypeOK
    <3> QED
      BY <1>1, <1>3, <3>1
  <2>2. left' \in 0..MaxTicks
    BY <1>1, HistoryAssumption
  <2> QED
    BY <1>1, <1>2, <2>1, <2>2 DEF HistoryTypeOK, tables, Buckets
<1>5. TablesOK'
  BY <1>1, <1>2 DEF TablesOK, tables, Buckets, InBucket
<1>6. WalkOK'
  <2>1. left' > 0
    BY <1>1, HistoryAssumption
  <2> QED
    BY <1>1, <1>3, <2>1 DEF WalkOK, tables, Contiguous
<1>7. HasJob'
  BY DEF BeginWalk, HasJob
<1> QED
  BY <1>4, <1>5, <1>6, <1>7 DEF HistoryInv

(* An execution more, or one less to serve, changes nothing that is kept.  *)
LEMMA ExchangeKeeps ==
    ASSUME HistoryInv, Publish \/ Forget
    PROVE  HistoryInv'
<1>1. /\ UNCHANGED <<tables, jobs, step, walk, faults, byHand>>
      /\ issued' \in {issued, issued + 1} /\ issued' <= MaxId
      /\ forgotten' \in {forgotten, forgotten + 1} /\ forgotten' <= MaxId
  BY HistoryAssumption DEF Publish, Forget, HistoryInv, HistoryTypeOK
<1>2. HistoryTypeOK /\ TablesOK /\ (AtFeed => WalkOK)
  BY DEF HistoryInv
<1>3. issued \in Nat /\ forgotten \in Nat /\ 1..issued \subseteq 1..issued'
  BY <1>1, <1>2, HistoryAssumption DEF HistoryTypeOK
<1>4. HistoryTypeOK'
  <2>1. issued' \in 0..MaxId /\ forgotten' \in 0..MaxId
    BY <1>1, <1>3, HistoryAssumption
  <2> QED
    BY <1>1, <1>2, <2>1 DEF HistoryTypeOK, tables, walk, Buckets
<1>5. TablesOK'
  BY <1>1, <1>2, <1>3 DEF TablesOK, tables, Buckets, InBucket
<1>6. AtFeed' => WalkOK'
  BY <1>1, <1>2, <1>3 DEF AtFeed, WalkOK, tables, walk, Contiguous
<1>7. HasJob'
  BY <1>1 DEF HistoryInv, HasJob
<1> QED
  BY <1>4, <1>5, <1>6, <1>7 DEF HistoryInv

(* Runs start, end and die away from the feed, with the tables as they are.*)
LEMMA RunBoundariesKeep ==
    ASSUME HistoryInv, CronRun \/ HandRun \/ EndRun \/ Die
    PROVE  HistoryInv'
<1>1. /\ UNCHANGED <<issued, forgotten, tables, walk>>
      /\ step' \in {"idle", "next"}
      /\ faults' \in 0..MaxFaults /\ byHand' \in 0..MaxHand
  BY HistoryAssumption DEF CronRun, HandRun, EndRun, Die, HistoryInv, HistoryTypeOK
<1>2. jobs' \in Seq({"forward", "back", "rebuild", "collect"})
  <2>1. CASE CronRun
    BY <2>1 DEF CronRun
  <2>2. CASE HandRun
    BY <2>2, HistoryAssumption DEF HandRun
  <2>3. CASE EndRun
    BY <2>3 DEF EndRun, HistoryInv, HistoryTypeOK
  <2>4. CASE Die
    BY <2>4 DEF Die
  <2> QED
    BY <2>1, <2>2, <2>3, <2>4
<1>3. HistoryTypeOK'
  BY <1>1, <1>2 DEF HistoryInv, HistoryTypeOK, tables, walk, Buckets
<1>4. TablesOK'
  BY <1>1 DEF HistoryInv, TablesOK, tables, Buckets, InBucket
<1>5. ~AtFeed' /\ HasJob'
  BY <1>1 DEF AtFeed, HasJob, HistoryInv
<1> QED
  BY <1>3, <1>4, <1>5 DEF HistoryInv

(* A reset empties the three tables together.                              *)
LEMMA ResetKeeps ==
    ASSUME HistoryInv, ResetHistory
    PROVE  HistoryInv'
<1>1. /\ step = "idle" /\ UNCHANGED <<issued, forgotten, jobs, step, walk, faults>>
      /\ stored' = {} /\ oldest' = NoId /\ newest' = NoId
      /\ ohlcv' = [b \in Buckets |-> {}] /\ mixed' = FALSE
      /\ byHand' \in 0..MaxHand
  BY HistoryAssumption DEF ResetHistory, HistoryInv, HistoryTypeOK
<1>2. HistoryTypeOK'
  <2>1. ohlcv' \in [Buckets -> SUBSET (1..MaxId)]
    BY <1>1
  <2>2. {oldest', newest'} \subseteq 0..MaxId /\ stored' \subseteq 1..MaxId
    BY <1>1, HistoryAssumption DEF NoId
  <2> QED
    BY <1>1, <2>1, <2>2 DEF HistoryInv, HistoryTypeOK, walk, Buckets
<1>3. TablesOK'
  BY <1>1 DEF TablesOK, Buckets
<1>4. ~AtFeed' /\ HasJob'
  BY <1>1 DEF AtFeed, HasJob, HistoryInv
<1> QED
  BY <1>2, <1>3, <1>4 DEF HistoryInv

(* What is stored only grows, so cursors and bars stay within it.          *)
LEMMA StoreKeeps ==
    ASSUME HistoryInv, StoreExecutions
    PROVE  HistoryInv'
<1>1. /\ step = "store" /\ step' = "mark" /\ stored' = stored \cup rows
      /\ UNCHANGED <<issued, forgotten, oldest, newest, ohlcv, mixed, jobs, walk,
                     faults, byHand>>
  BY DEF StoreExecutions
<1>2. HistoryTypeOK /\ TablesOK /\ rows \subseteq 1..issued
  BY <1>1 DEF HistoryInv, AtFeed, WalkOK
<1>3. HistoryTypeOK'
  BY <1>1, <1>2 DEF HistoryTypeOK, walk, Buckets
<1>4. TablesOK'
  <2>1. \A b \in Buckets : InBucket(stored, b) \subseteq InBucket(stored', b)
    BY <1>1, InBucketMonotone
  <2> QED
    BY <1>1, <1>2, <2>1 DEF TablesOK, Buckets
<1>5. ~AtFeed' /\ HasJob'
  BY <1>1 DEF AtFeed, HasJob, HistoryInv
<1> QED
  BY <1>3, <1>4, <1>5 DEF HistoryInv

(* The cursors become the bounds of what is stored.                        *)
LEMMA RefreshKeeps ==
    ASSUME HistoryInv, RefreshCheckpoint
    PROVE  HistoryInv'
<1>1. /\ step' = "next" /\ oldest' = Least(stored) /\ newest' = Greatest(stored)
      /\ jobs' = Tail(jobs) /\ jobs # <<>>
      /\ UNCHANGED <<issued, forgotten, stored, ohlcv, mixed, walk, faults, byHand>>
  BY DEF RefreshCheckpoint, MarkedOldest, MarkedNewest, HistoryInv, HasJob
<1>2. HistoryTypeOK /\ TablesOK
  BY DEF HistoryInv
<1>3. {oldest', newest'} \subseteq stored \cup {NoId}
  <2>1. issued \in Nat /\ stored \in SUBSET (1..issued)
    BY <1>2, HistoryAssumption DEF HistoryTypeOK, TablesOK
  <2> QED
    BY <1>1, <2>1, LeastOrNone, GreatestOrNone
<1>4. HistoryTypeOK'
  <2>1. {oldest', newest'} \subseteq 0..MaxId
    <3>1. \A i \in stored \cup {NoId} : i \in 0..MaxId
      BY <1>2, HistoryAssumption DEF HistoryTypeOK, NoId
    <3> QED
      BY <1>3, <3>1
  <2>2. jobs' \in Seq({"forward", "back", "rebuild", "collect"})
    BY <1>1, <1>2 DEF HistoryTypeOK
  <2> QED
    BY <1>1, <1>2, <2>1, <2>2 DEF HistoryTypeOK, walk, Buckets
<1>5. TablesOK'
  BY <1>1, <1>2, <1>3 DEF TablesOK, Buckets, InBucket
<1>6. ~AtFeed' /\ HasJob'
  BY <1>1 DEF AtFeed, HasJob, HistoryInv
<1> QED
  BY <1>4, <1>5, <1>6 DEF HistoryInv

(* A rebuild writes bars of stored executions; a collect run says so.      *)
LEMMA BarsKeep ==
    ASSUME HistoryInv, RebuildOhlcv \/ Collect
    PROVE  HistoryInv'
<1>1. /\ step' = "next" /\ jobs' = Tail(jobs) /\ jobs # <<>>
      /\ UNCHANGED <<issued, forgotten, stored, oldest, newest, walk, faults, byHand>>
      /\ \/ ohlcv' = Upserted(stored) /\ mixed' = mixed
         \/ ohlcv' = Upserted(rows) /\ mixed' = TRUE
  BY DEF RebuildOhlcv, Collect, RebuildSource, HistoryInv, HasJob
<1>2. HistoryTypeOK /\ TablesOK /\ stored \subseteq 1..MaxId /\ rows \subseteq 1..MaxId
  BY DEF HistoryInv, HistoryTypeOK
<1>3. HistoryTypeOK'
  <2>1. ohlcv' \in [Buckets -> SUBSET (1..MaxId)]
    <3>1. CASE ohlcv' = Upserted(stored)
      BY <1>2, <3>1, UpsertedType
    <3>2. CASE ohlcv' = Upserted(rows)
      BY <1>2, <3>2, UpsertedType
    <3> QED
      BY <1>1, <3>1, <3>2
  <2>2. jobs' \in Seq({"forward", "back", "rebuild", "collect"})
    BY <1>1, <1>2 DEF HistoryTypeOK
  <2>3. mixed \in BOOLEAN
    BY <1>2 DEF HistoryTypeOK
  <2>4. mixed' \in BOOLEAN
    BY <1>1, <2>3
  <2> QED
    BY <1>1, <1>2, <2>1, <2>2, <2>4 DEF HistoryTypeOK, walk, Buckets
<1>4. TablesOK'
  <2>1. ~mixed' => \A b \in Buckets : ohlcv'[b] \subseteq InBucket(stored, b)
    BY <1>1, <1>2, UpsertedType DEF TablesOK
  <2> QED
    BY <1>1, <1>2, <2>1 DEF TablesOK, Buckets, InBucket
<1>5. ~AtFeed' /\ HasJob'
  BY <1>1 DEF AtFeed, HasJob, HistoryInv
<1> QED
  BY <1>3, <1>4, <1>5 DEF HistoryInv

LEMMA HistoryStep == HistoryInv /\ [HistoryNext]_historyVars => HistoryInv'
<1> SUFFICES ASSUME HistoryInv, [HistoryNext]_historyVars PROVE HistoryInv'
  OBVIOUS
<1>1. CASE Publish \/ Forget
  BY <1>1, ExchangeKeeps
<1>2. CASE CronRun \/ HandRun \/ EndRun \/ Die
  BY <1>2, RunBoundariesKeep
<1>3. CASE ResetHistory
  BY <1>3, ResetKeeps
<1>4. CASE BeginWalk
  BY <1>4, BeginWalkKeeps
<1>5. CASE GetPage
  BY <1>5, GetPageKeeps
<1>6. CASE StoreExecutions
  BY <1>6, StoreKeeps
<1>7. CASE RefreshCheckpoint
  BY <1>7, RefreshKeeps
<1>8. CASE RebuildOhlcv \/ Collect
  BY <1>8, BarsKeep
<1>9. CASE UNCHANGED historyVars
  BY <1>9 DEF historyVars, tables, walk, HistoryInv, HistoryTypeOK, TablesOK, HasJob,
              AtFeed, WalkOK, Contiguous, Buckets, InBucket
<1> QED
  BY <1>1, <1>2, <1>3, <1>4, <1>5, <1>6, <1>7, <1>8, <1>9 DEF HistoryNext, Work

(***************************************************************************)
(* The theorems.                                                           *)
(***************************************************************************)

(* Every run, crash and reset leaves every variable in its type.           *)
THEOREM HistoryTypeCorrect == HistorySpec => []HistoryTypeOK
<1>1. HistoryInv => HistoryTypeOK
  BY DEF HistoryInv
<1> QED
  BY <1>1, HistoryInitInv, HistoryStep, PTL DEF HistorySpec

(* Both cursors of the checkpoint name executions the table holds          *)
(* (extend_history, refresh_checkpoint, reset_history), wherever a run     *)
(* dies: the second transaction only ever writes bounds of what the first  *)
(* stored, and a reset takes the cursors with the rows.                    *)
THEOREM CursorsStayStored == HistorySpec => []CursorsAreStored
<1>1. HistoryInv => CursorsAreStored
  BY DEF HistoryInv, TablesOK, CursorsAreStored
<1> QED
  BY <1>1, HistoryInitInv, HistoryStep, PTL DEF HistorySpec

(* Two sets without a hole, one right next to an element of the other,     *)
(* make one without a hole.                                                *)
LEMMA AdjacentUnion ==
    ASSUME NEW S \in SUBSET Int, NEW T \in SUBSET Int, Contiguous(S), Contiguous(T),
           NEW s \in S, NEW t \in T, t = s + 1
    PROVE  Contiguous(S \cup T)
<1>1. SUFFICES ASSUME NEW i \in S \cup T, NEW j \in S \cup T, NEW k \in i..j
               PROVE  k \in S \cup T
  BY DEF Contiguous
<1>2. i \in Int /\ j \in Int /\ k \in Int /\ s \in Int /\ i <= k /\ k <= j
  OBVIOUS
<1>3. CASE i \in S /\ j \in S
  BY <1>3 DEF Contiguous
<1>4. CASE i \in T /\ j \in T
  BY <1>4 DEF Contiguous
<1>5. CASE i \in S /\ j \in T
  <2>1. CASE k <= s
    <3>1. k \in i..s
      BY <1>2, <2>1
    <3> QED
      BY <1>5, <3>1 DEF Contiguous
  <2>2. CASE ~(k <= s)
    <3>1. k \in t..j
      BY <1>2, <2>2
    <3> QED
      BY <1>5, <3>1 DEF Contiguous
  <2> QED
    BY <2>1, <2>2
<1>6. CASE i \in T /\ j \in S
  <2>1. CASE k >= t
    <3>1. k \in s..j
      BY <1>2, <2>1
    <3> QED
      BY <1>6, <3>1 DEF Contiguous
  <2>2. CASE ~(k >= t)
    <3>1. k \in i..t
      BY <1>2, <2>2
    <3> QED
      BY <1>6, <3>1 DEF Contiguous
  <2> QED
    BY <2>1, <2>2
<1> QED
  BY <1>3, <1>4, <1>5, <1>6

(* A walk that starts at a stored execution, or meets one, leaves no hole  *)
(* in a stored set that had none (StoreExecutions of extend_history), for  *)
(* every page size, walk length and retention of the feed.                 *)
THEOREM WalksLeaveNoHole == HistorySpec => JoinedWalksLeaveNoHole
<1>1. HistoryInv /\ StoreExecutions /\ (joined \/ start # NoId) /\ Contiguous(stored)
        => Contiguous(stored')
  <2>1. SUFFICES ASSUME HistoryInv, StoreExecutions, joined \/ start # NoId,
                        Contiguous(stored)
                 PROVE  Contiguous(stored \cup rows)
    BY DEF StoreExecutions
  <2>2. WalkOK /\ step = "store"
    BY <2>1 DEF StoreExecutions, HistoryInv, AtFeed
  <2>3. stored \subseteq 1..MaxId /\ rows \subseteq 1..MaxId /\ Contiguous(rows)
    BY <2>1, <2>2 DEF HistoryInv, HistoryTypeOK, WalkOK
  <2>4. CASE rows = {}
    BY <2>1, <2>4
  <2>5. CASE rows # {} /\ start # NoId
    <3>1. start \in stored /\ start - 1 \in rows
      BY <2>2, <2>5 DEF WalkOK
    <3>2. start = (start - 1) + 1
      BY <2>3, <3>1
    <3>3. Contiguous(rows \cup stored)
      BY <2>1, <2>3, <3>1, <3>2, AdjacentUnion
    <3>4. rows \cup stored = stored \cup rows
      OBVIOUS
    <3> QED
      BY <3>3, <3>4
  <2>6. CASE rows # {} /\ joined
    <3>1. stop \in stored /\ stop + 1 \in rows
      BY <2>2, <2>6 DEF WalkOK
    <3> QED
      BY <2>1, <2>3, <3>1, AdjacentUnion
  <2> QED
    BY <2>1, <2>4, <2>5, <2>6
<1> QED
  BY <1>1, HistoryInitInv, HistoryStep, PTL DEF HistorySpec, JoinedWalksLeaveNoHole

(* A rebuild from the raw set takes nothing out of a bar this collector    *)
(* wrote (rebuild_ohlcv), whatever walks and crashes came between.         *)
THEOREM BarsOnlyGrow == HistorySpec => BoundaryBarsGrow
<1>1. HistoryInv /\ RebuildOhlcv /\ ~mixed => \A b \in Buckets : ohlcv[b] \subseteq ohlcv'[b]
  <2>1. SUFFICES ASSUME HistoryInv, RebuildOhlcv, ~mixed, NEW b \in Buckets
                 PROVE  ohlcv[b] \subseteq ohlcv'[b]
    OBVIOUS
  <2>2. ohlcv[b] \subseteq InBucket(stored, b)
    BY <2>1 DEF HistoryInv, TablesOK
  <2>3. ohlcv'[b] \in {ohlcv[b], InBucket(stored, b)}
    BY <2>1, UpsertedType DEF RebuildOhlcv, RebuildSource, HistoryInv, HistoryTypeOK
  <2> QED
    BY <2>2, <2>3
<1> QED
  BY <1>1, HistoryInitInv, HistoryStep, PTL DEF HistorySpec, BoundaryBarsGrow

(***************************************************************************)
(* Day buckets and the venue.                                              *)
(***************************************************************************)

VenueInv ==
    /\ hour \in 0 .. MaxHour /\ published \in -1 .. hour
    /\ hour <= published + MaxLag + 1

LEMMA LengthIsPositive == DayLen \in Nat \ {0} /\ MaxHour \in Nat /\ MaxLag \in Nat
  BY KlineVenueAssumption

(* A bucket holds the hours of its day.                                    *)
LEMMA BucketsAreDays ==
    ASSUME NEW d \in Int, NEW h \in Int
    PROVE  h \in Bucket(d) <=> DayOf(h) = d
<1>1. DayLen \in Nat \ {0} /\ d * DayLen \in Int
  BY LengthIsPositive
<1>2. h \in Bucket(d) <=> d * DayLen <= h /\ h < d * DayLen + DayLen
  BY <1>1 DEF Bucket
<1>3. DayOf(h) * DayLen <= h /\ h < DayOf(h) * DayLen + DayLen
  BY <1>1, DivisionFacts DEF DayOf
<1> QED
  BY <1>1, <1>2, <1>3, QuotientIsUnique DEF DayOf

LEMMA DaysAreNumbers ==
    ASSUME NEW h \in Int
    PROVE  DayOf(h) \in Int /\ h \in Bucket(DayOf(h))
<1>1. DayOf(h) \in Int
  BY LengthIsPositive, DivisionFacts DEF DayOf
<1> QED
  BY <1>1, BucketsAreDays

(* Days follow one another as their hours do.                              *)
LEMMA DaysAreOrdered ==
    ASSUME NEW g \in Int, NEW h \in Int, g <= h
    PROVE  DayOf(g) <= DayOf(h)
<1>1. DayLen \in Nat \ {0} /\ DayOf(g) \in Int /\ DayOf(h) \in Int
  BY LengthIsPositive, DaysAreNumbers
<1>2. DayOf(g) * DayLen <= g /\ h < DayOf(h) * DayLen + DayLen
  BY <1>1, DivisionFacts DEF DayOf
<1>3. SUFFICES ASSUME DayOf(h) + 1 <= DayOf(g) PROVE FALSE
  BY <1>1
<1>4. (DayOf(h) + 1) * DayLen <= DayOf(g) * DayLen
  BY <1>1, <1>3, ProductsAreOrdered
<1>5. (DayOf(h) + 1) * DayLen = DayOf(h) * DayLen + DayLen
  BY <1>1
<1> QED
  BY <1>1, <1>2, <1>4, <1>5

(* A day before that of n is over at n.                                    *)
LEMMA EarlierDaysAreOver ==
    ASSUME NEW n \in Int, NEW d \in Int, d < DayOf(n), NEW h \in Bucket(d)
    PROVE  h \in Int /\ h < n
<1>1. h \in Int /\ DayOf(h) = d
  <2>1. h \in Int
    BY LengthIsPositive DEF Bucket
  <2> QED
    BY <2>1, BucketsAreDays
<1> QED
  BY <1>1, DaysAreOrdered, DaysAreNumbers

LEMMA DaysOfTheAxis ==
    ASSUME NEW h \in 0 .. MaxHour, NEW d \in Int, 0 <= d, d <= DayOf(h)
    PROVE  d \in Days
<1>1. DayOf(h) <= MaxHour \div DayLen /\ MaxHour \div DayLen \in Int
  BY LengthIsPositive, DaysAreOrdered, DaysAreNumbers DEF DayOf
<1> QED
  BY <1>1, DaysAreNumbers DEF Days

(* What a request returns: bars of the day's bucket.                       *)
LEMMA RecordFacts ==
    ASSUME VenueInv, NEW d \in Days, NEW records \in Answers(d)
    PROVE  /\ records \subseteq Bars
           /\ \A b \in records : b.hour \in Bucket(d) /\ (b.closed <=> b.hour < hour)
           /\ records # {} => records = Records(d)
           /\ Hours(Records(d)) = { h \in Bucket(d) : h <= published }
<1>1. d \in Int /\ 0 <= d
  BY LengthIsPositive, DivisionFacts DEF Days
<1>2. ASSUME NEW h \in Bucket(d) PROVE h \in Int /\ 0 <= h
  <2>1. h \in Int /\ d * DayLen <= h
    BY <1>1, LengthIsPositive DEF Bucket
  <2>2. 0 <= d * DayLen
    BY <1>1, LengthIsPositive
  <2> QED
    BY <1>1, <2>1, <2>2, LengthIsPositive
<1> DEFINE bar(h) == [hour |-> h, closed |-> h < hour]
           out == { h \in Bucket(d) : h <= published }
<1>3. Records(d) = { bar(h) : h \in out }
  BY DEF Records
<1>4. ASSUME NEW h \in out
      PROVE  bar(h) \in Bars /\ bar(h).hour = h /\ (bar(h).closed <=> h < hour)
  <2>1. h \in 0 .. MaxHour
    BY <1>2, LengthIsPositive DEF VenueInv
  <2>2. (h < hour) \in BOOLEAN
    OBVIOUS
  <2> QED
    BY <2>1, <2>2 DEF Bars
<1> HIDE DEF bar
<1>5. Records(d) \subseteq Bars /\ Hours(Records(d)) = out
  BY <1>3, <1>4 DEF Hours
<1>6. \A b \in Records(d) : b.hour \in Bucket(d) /\ (b.closed <=> b.hour < hour)
  BY <1>3, <1>4
<1>7. records \in {Records(d), {}}
  BY DEF Answers
<1> QED
  BY <1>5, <1>6, <1>7

LEMMA VenueKeepsInv ==
    ASSUME VenueInv, HourPasses \/ PublishBar
    PROVE  VenueInv' /\ hour <= hour' /\ published <= published'
  BY LengthIsPositive DEF VenueInv, HourPasses, PublishBar

(***************************************************************************)
(* The walk over the days of a window.                                     *)
(***************************************************************************)

(* Records of a day that was over: closed bars of its bucket, all of it    *)
(* unless the venue was late.                                              *)
WholeDay(records, d, short) ==
    /\ \A b \in records : b.closed /\ b.hour \in Bucket(d)
    /\ d \in short \/ Bucket(d) \subseteq Hours(records)

CacheHoldsWholeDays == \A d \in Days : cache[d] # {} => WholeDay(cache[d], d, servedShort)

(* Of day d a walk has all the bars, unless the venue gave it nothing, or  *)
(* not all when the day was over; of the current day it has those up to    *)
(* the newest it was given.                                                *)
HasDay(p, d) == d \in empty[p] \cup servedShort \/ Bucket(d) \subseteq Hours(got[p])

HasNoHoleToday(p) ==
    \A b \in got[p], h \in Bucket(Current(p)) :
        b.hour \in Bucket(Current(p)) /\ h <= b.hour => h \in Hours(got[p])

WalkIsClean(p) ==
    /\ now[p] \in 0 .. hour /\ back[p] \in -1 .. WindowDays
    /\ AtRest(p) => got[p] = {} /\ fetched[p] = {}
    /\ ~AtRest(p) =>
          /\ back[p] <= WindowDays /\ Current(p) >= WindowDays
          /\ \A b \in got[p] : b.hour \in Int /\ (b.hour < now[p] => b.closed)
          /\ \A d \in Current(p) - WindowDays .. Day(p) - 1 : d < Current(p) => HasDay(p, d)
          /\ HasNoHoleToday(p)
    /\ fetched[p] # {} => /\ back[p] > 0 /\ ~AtRest(p)
                          /\ WholeDay(fetched[p], Day(p), servedShort)

WalkTypesOK ==
    /\ now \in [Walkers -> Nat] /\ back \in [Walkers -> Int]
    /\ got \in [Walkers -> SUBSET Bars] /\ fetched \in [Walkers -> SUBSET Bars]
    /\ empty \in [Walkers -> SUBSET Int]

LiveBarsInv ==
    /\ VenueInv /\ WalkTypesOK
    /\ cache \in [Days -> SUBSET Bars] /\ CacheHoldsWholeDays
    /\ \A p \in Walkers : WalkIsClean(p)

LEMMA LiveBarsInitInv == VenueInit /\ LiveBarsInit => LiveBarsInv
<1> SUFFICES ASSUME VenueInit, LiveBarsInit PROVE LiveBarsInv
  OBVIOUS
<1>1. VenueInv
  BY DEF VenueInit, VenueInv
<1>2. CacheHoldsWholeDays
  BY DEF LiveBarsInit, CacheHoldsWholeDays
<1>3. ASSUME NEW p \in Walkers PROVE WalkIsClean(p)
  BY <1>1, LiveBarsAssumption DEF LiveBarsInit, WalkIsClean, AtRest, VenueInv
<1> QED
  BY <1>1, <1>2, <1>3 DEF LiveBarsInit, LiveBarsInv, WalkTypesOK

(* Where a walk stands.                                                    *)
LEMMA WalkFacts ==
    ASSUME LiveBarsInv, NEW p \in Walkers
    PROVE  /\ WalkIsClean(p) /\ now[p] \in 0 .. hour /\ back[p] \in Int
           /\ hour \in 0 .. MaxHour
           /\ Current(p) \in Int /\ Day(p) = Current(p) - back[p]
           /\ Current(p) = DayOf(now[p])
           /\ ~AtRest(p) /\ back[p] >= 0 => Day(p) \in Days /\ Day(p) <= Current(p)
<1>1. /\ WalkIsClean(p) /\ now[p] \in 0 .. hour /\ back[p] \in -1 .. WindowDays
      /\ hour \in 0 .. MaxHour /\ WindowDays \in Int
  BY LiveBarsAssumption DEF LiveBarsInv, WalkIsClean, VenueInv
<1>2. /\ Current(p) = DayOf(now[p]) /\ Current(p) \in Int /\ Day(p) = Current(p) - back[p]
  BY <1>1, DaysAreNumbers DEF Current, TradingDay, Day
<1>3. ASSUME ~AtRest(p), back[p] >= 0 PROVE Day(p) \in Days /\ Day(p) <= Current(p)
  <2>1. Current(p) >= WindowDays
    BY <1>1, <1>3 DEF WalkIsClean
  <2>2. Day(p) \in Int /\ 0 <= Day(p) /\ Day(p) <= DayOf(now[p])
    BY <1>1, <1>2, <1>3, <2>1
  <2>3. now[p] \in 0 .. MaxHour
    BY <1>1, LengthIsPositive
  <2> QED
    BY <1>2, <2>2, <2>3, DaysOfTheAxis
<1> QED
  BY <1>1, <1>2, <1>3

(* A walk that does not move stays clean as time passes and days are       *)
(* served short.                                                           *)
LEMMA RestingWalksStayClean ==
    ASSUME LiveBarsInv, NEW p \in Walkers, hour' \in Int, hour <= hour',
           servedShort \subseteq servedShort',
           now'[p] = now[p], back'[p] = back[p], got'[p] = got[p], fetched'[p] = fetched[p],
           empty'[p] = empty[p]
    PROVE  WalkIsClean(p)'
<1>1. WalkIsClean(p) /\ hour \in Int /\ now[p] \in Int
  BY WalkFacts
<1>2. AtRest(p)' = AtRest(p) /\ Current(p)' = Current(p) /\ Day(p)' = Day(p)
  BY DEF AtRest, Current, TradingDay, Day
<1>3. now'[p] \in 0 .. hour'
  BY <1>1 DEF WalkIsClean
<1>4. ASSUME NEW d PROVE HasDay(p, d) => HasDay(p, d)'
  BY DEF HasDay
<1>5. HasNoHoleToday(p) => HasNoHoleToday(p)'
  BY <1>2 DEF HasNoHoleToday
<1>6. ASSUME NEW records, NEW d PROVE WholeDay(records, d, servedShort) => WholeDay(records, d, servedShort')
  BY DEF WholeDay
<1>7. WholeDay(fetched[p], Day(p), servedShort) => WholeDay(fetched[p], Day(p), servedShort)'
  BY <1>2, <1>6 DEF WholeDay
<1> QED
  BY <1>1, <1>2, <1>3, <1>4, <1>5, <1>7 DEF WalkIsClean

(* The cache stays clean when files go, or one of a whole day comes.       *)
LEMMA CacheStaysClean ==
    ASSUME LiveBarsInv, servedShort \subseteq servedShort', cache' \in [Days -> SUBSET Bars],
           \A d \in Days : cache'[d] \in {{}, cache[d]} \/ WholeDay(cache'[d], d, servedShort)
    PROVE  CacheHoldsWholeDays'
<1>1. ASSUME NEW records, NEW d PROVE WholeDay(records, d, servedShort) => WholeDay(records, d, servedShort')
  BY DEF WholeDay
<1>2. ASSUME NEW d \in Days, cache'[d] # {} PROVE WholeDay(cache'[d], d, servedShort)
  BY <1>2 DEF LiveBarsInv, CacheHoldsWholeDays
<1>3. ASSUME NEW d \in Days, cache'[d] # {} PROVE WholeDay(cache'[d], d, servedShort')
  BY <1>2, <1>3 DEF WholeDay
<1> QED
  BY <1>3 DEF CacheHoldsWholeDays

(* A walk that adds a day it has whole, or all there is of the current     *)
(* day, and goes on to the next.                                           *)
LEMMA NextDayStaysClean ==
    ASSUME LiveBarsInv, NEW p \in Walkers, ~AtRest(p), back[p] >= 0,
           NEW bars \in SUBSET Bars,
           \/ WholeDay(bars, Day(p), servedShort) /\ Day(p) < Current(p)
           \/ bars = {} /\ Day(p) \in empty'[p]
           \/ Day(p) = Current(p) /\ bars = Records(Day(p)),
           servedShort \subseteq servedShort', empty[p] \subseteq empty'[p], hour' = hour,
           got'[p] = got[p] \cup bars, back'[p] = back[p] - 1, now'[p] = now[p],
           fetched'[p] = {}
    PROVE  WalkIsClean(p)'
<1> DEFINE today == Current(p)
<1>1. /\ WalkIsClean(p) /\ now[p] \in 0 .. hour /\ back[p] \in -1 .. WindowDays
      /\ hour \in 0 .. MaxHour /\ today \in Int /\ Day(p) = today - back[p]
      /\ today = DayOf(now[p]) /\ Day(p) \in Days /\ Day(p) <= today /\ Day(p) \in Int
      /\ VenueInv /\ today >= WindowDays /\ WindowDays \in Int
  BY WalkFacts, LiveBarsAssumption DEF WalkIsClean, LiveBarsInv
<1>2. AtRest(p)' = AtRest(p) /\ Current(p)' = today /\ Day(p)' = Day(p) + 1
  BY <1>1 DEF AtRest, Current, TradingDay, Day
<1>3. now'[p] \in 0 .. hour' /\ back'[p] \in -1 .. WindowDays
  BY <1>1
<1>4. ASSUME NEW b \in bars
      PROVE  b.hour \in Int /\ b.hour \in Bucket(Day(p)) /\ (b.hour < now[p] => b.closed)
  <2>1. b.hour \in Int
    BY DEF Bars
  <2>2. CASE WholeDay(bars, Day(p), servedShort)
    BY <2>1, <2>2 DEF WholeDay
  <2>3. CASE bars = Records(Day(p))
    <3>1. Records(Day(p)) \in Answers(Day(p))
      BY DEF Answers
    <3>2. b.hour \in Bucket(Day(p)) /\ (b.closed <=> b.hour < hour)
      BY <1>1, <2>3, <3>1, RecordFacts
    <3> QED
      BY <1>1, <2>1, <3>2
  <2> QED
    BY <2>2, <2>3
<1>5. \A b \in got'[p] : b.hour \in Int /\ (b.hour < now'[p] => b.closed)
  BY <1>1, <1>4 DEF WalkIsClean
<1>6. Hours(got[p]) \subseteq Hours(got'[p]) /\ Hours(bars) \subseteq Hours(got'[p])
  BY DEF Hours
<1>7. ASSUME NEW d \in today - WindowDays .. Day(p), d < today PROVE HasDay(p, d)'
  <2>1. CASE d \in today - WindowDays .. Day(p) - 1
    <3>1. HasDay(p, d)
      BY <1>1, <1>7, <2>1 DEF WalkIsClean
    <3> QED
      BY <1>6, <3>1 DEF HasDay
  <2>2. CASE d = Day(p)
    <3>1. d \in empty'[p] \/ WholeDay(bars, d, servedShort)
      BY <1>1, <1>7, <2>2
    <3>2. d \in empty'[p] \cup servedShort' \/ Bucket(d) \subseteq Hours(bars)
      BY <3>1 DEF WholeDay
    <3> QED
      BY <1>6, <3>2 DEF HasDay
  <2> QED
    BY <1>1, <2>1, <2>2
<1>8. HasNoHoleToday(p)'
  <2> SUFFICES ASSUME NEW b \in got'[p], NEW h \in Bucket(today), b.hour \in Bucket(today),
                      h <= b.hour
               PROVE  h \in Hours(got'[p])
    BY <1>2 DEF HasNoHoleToday
  <2>1. CASE b \in got[p]
    BY <1>1, <1>6, <2>1 DEF WalkIsClean, HasNoHoleToday
  <2>2. CASE b \in bars
    <3>1. b.hour \in Int /\ Day(p) = today
      BY <1>1, <1>4, <2>2, BucketsAreDays
    <3>2. bars = Records(today)
      <4>1. bars # {} /\ ~(Day(p) < Current(p))
        BY <1>1, <2>2, <3>1
      <4> QED
        BY <3>1, <4>1
    <3>3. Records(today) \in Answers(today) /\ Bucket(today) \subseteq Int
      BY <1>1, LengthIsPositive DEF Answers, Bucket
    <3>4. Hours(bars) = { g \in Bucket(today) : g <= published }
      BY <1>1, <3>1, <3>2, <3>3, RecordFacts
    <3>5. b.hour \in Hours(bars)
      BY <2>2 DEF Hours
    <3>6. h <= published
      BY <1>1, <3>1, <3>3, <3>4, <3>5 DEF VenueInv
    <3> QED
      BY <1>6, <3>4, <3>6
  <2> QED
    BY <2>1, <2>2
<1>9. \A d \in today - WindowDays .. Day(p)' - 1 : d < today => HasDay(p, d)'
  BY <1>1, <1>2, <1>7
<1> HIDE DEF today
<1> QED
  BY <1>1, <1>2, <1>3, <1>5, <1>8, <1>9 DEF WalkIsClean, today

(* A step of one walk.                                                     *)
LEMMA OneWalkMoves ==
    ASSUME LiveBarsInv, NEW p \in Walkers, WalkIsClean(p)', WalkTypesOK', UNCHANGED venueVars,
           servedShort \subseteq servedShort',
           cache' \in [Days -> SUBSET Bars], CacheHoldsWholeDays',
           \A q \in Walkers \ {p} :
              /\ now'[q] = now[q] /\ back'[q] = back[q] /\ got'[q] = got[q]
              /\ fetched'[q] = fetched[q] /\ empty'[q] = empty[q]
    PROVE  LiveBarsInv'
<1>1. VenueInv' /\ hour' \in Int /\ hour <= hour'
  BY DEF LiveBarsInv, VenueInv, venueVars
<1>2. ASSUME NEW q \in Walkers PROVE WalkIsClean(q)'
  BY <1>1, RestingWalksStayClean
<1> QED
  BY <1>1, <1>2 DEF LiveBarsInv

LEMMA StartWalkKeepsInv ==
    ASSUME LiveBarsInv, NEW p \in Walkers, StartWalk(p)
    PROVE  LiveBarsInv'
<1>1. /\ now' = [now EXCEPT ![p] = hour] /\ back' = [back EXCEPT ![p] = WindowDays]
      /\ UNCHANGED <<venueVars, cache, got, fetched, empty, servedShort>>
      /\ AtRest(p) /\ DayOf(hour) >= WindowDays
  BY DEF StartWalk, TradingDay
<1>2. /\ WalkTypesOK /\ hour \in Nat /\ WindowDays \in Nat \ {0} /\ got[p] = {} /\ fetched[p] = {}
      /\ DayOf(hour) \in Int
  BY <1>1, WalkFacts, LiveBarsAssumption, DaysAreNumbers DEF LiveBarsInv, WalkIsClean
<1>3. WalkTypesOK' /\ now'[p] = hour /\ back'[p] = WindowDays /\ got'[p] = {} /\ fetched'[p] = {}
  BY <1>1, <1>2 DEF WalkTypesOK
<1>4. Current(p)' = DayOf(hour) /\ Day(p)' = DayOf(hour) - WindowDays
  BY <1>3 DEF Current, TradingDay, Day
<1>5. HasNoHoleToday(p)'
  BY <1>3 DEF HasNoHoleToday
<1>6. WalkIsClean(p)'
  BY <1>1, <1>2, <1>3, <1>4, <1>5 DEF WalkIsClean, venueVars
<1>7. CacheHoldsWholeDays' /\ cache' \in [Days -> SUBSET Bars]
  BY <1>1 DEF LiveBarsInv, CacheHoldsWholeDays, WholeDay
<1> QED
  BY <1>1, <1>2, <1>3, <1>6, <1>7, OneWalkMoves DEF WalkTypesOK

LEMMA ReadCacheKeepsInv ==
    ASSUME LiveBarsInv, NEW p \in Walkers, ReadCache(p)
    PROVE  LiveBarsInv'
<1> DEFINE bars == cache[Day(p)]
<1>1. /\ got' = [got EXCEPT ![p] = @ \cup bars] /\ back' = [back EXCEPT ![p] = @ - 1]
      /\ UNCHANGED <<venueVars, cache, now, fetched, empty, servedShort>>
      /\ ~AtRest(p) /\ back[p] >= 0 /\ fetched[p] = {} /\ Day(p) < Current(p) /\ bars # {}
  BY DEF ReadCache, NextDay, Walking, Cacheable
<1>2. Day(p) \in Days
  BY <1>1, WalkFacts
<1>3. bars \in SUBSET Bars /\ WholeDay(bars, Day(p), servedShort)
  BY <1>1, <1>2 DEF LiveBarsInv, CacheHoldsWholeDays
<1>4. WalkTypesOK' /\ got'[p] = got[p] \cup bars /\ back'[p] = back[p] - 1
  BY <1>1, <1>3 DEF LiveBarsInv, WalkTypesOK
<1>5. WalkIsClean(p)'
  BY <1>1, <1>3, <1>4, NextDayStaysClean DEF venueVars
<1>6. CacheHoldsWholeDays' /\ cache' \in [Days -> SUBSET Bars]
  BY <1>1 DEF LiveBarsInv, CacheHoldsWholeDays, WholeDay
<1> QED
  BY <1>1, <1>4, <1>5, <1>6, OneWalkMoves DEF LiveBarsInv, WalkTypesOK

(* What the venue gives of a day that is over is all of it, or the day is  *)
(* noted as served short.                                                  *)
LEMMA ClosedDaysAreWhole ==
    ASSUME LiveBarsInv, NEW p \in Walkers, ~AtRest(p), back[p] >= 0, Cacheable(p),
           NEW records \in Answers(Day(p)), records # {},
           servedShort' = IF records # {} /\ NotAllOut(Day(p))
                          THEN servedShort \cup {Day(p)} ELSE servedShort
    PROVE  WholeDay(records, Day(p), servedShort')
<1> DEFINE d == Day(p)
<1>1. /\ d \in Days /\ d \in Int /\ d < DayOf(now[p]) /\ now[p] \in 0 .. hour
      /\ hour \in 0 .. MaxHour /\ VenueInv
  BY WalkFacts DEF Cacheable, LiveBarsInv
<1>2. \A h \in Bucket(d) : h \in Int /\ h < hour
  BY <1>1, EarlierDaysAreOver
<1>3. \A b \in records : b.closed /\ b.hour \in Bucket(d)
  BY <1>1, <1>2, RecordFacts
<1>4. d \in servedShort' \/ Bucket(d) \subseteq 0 .. published
  BY <1>2 DEF NotAllOut
<1>5. ASSUME Bucket(d) \subseteq 0 .. published PROVE Bucket(d) \subseteq Hours(records)
  BY <1>1, <1>5, RecordFacts DEF VenueInv
<1>6. d \in servedShort' \/ Bucket(d) \subseteq Hours(records)
  BY <1>4, <1>5
<1> QED
  BY <1>3, <1>6 DEF WholeDay

LEMMA FetchDayKeepsInv ==
    ASSUME LiveBarsInv, NEW p \in Walkers, FetchDay(p)
    PROVE  LiveBarsInv'
<1>1. PICK records \in Answers(Day(p)) :
         /\ empty' = IF records = {} THEN [empty EXCEPT ![p] = @ \cup {Day(p)}] ELSE empty
         /\ servedShort' = IF records # {} /\ NotAllOut(Day(p))
                           THEN servedShort \cup {Day(p)} ELSE servedShort
         /\ IF records # {} /\ Cacheable(p)
            THEN fetched' = [fetched EXCEPT ![p] = records] /\ UNCHANGED <<got, back>>
            ELSE NextDay(p, records) /\ UNCHANGED fetched
  BY DEF FetchDay
<1>2. /\ UNCHANGED <<venueVars, cache, now>> /\ ~AtRest(p) /\ back[p] >= 0 /\ fetched[p] = {}
      /\ servedShort \subseteq servedShort' /\ hour' = hour
  BY <1>1 DEF FetchDay, Walking, venueVars
<1>3. /\ Day(p) \in Days /\ Day(p) \in Int /\ Day(p) <= Current(p) /\ VenueInv /\ WalkTypesOK
      /\ Day(p) = Current(p) - back[p] /\ Current(p) \in Int /\ back[p] \in Int
  BY <1>2, WalkFacts DEF LiveBarsInv
<1>4. records \in SUBSET Bars
  BY <1>3, RecordFacts
<1>5. /\ empty' \in [Walkers -> SUBSET Int] /\ empty[p] \subseteq empty'[p]
      /\ records = {} => Day(p) \in empty'[p]
      /\ \A q \in Walkers \ {p} : empty'[q] = empty[q]
  BY <1>1, <1>3 DEF WalkTypesOK
<1>6. CacheHoldsWholeDays' /\ cache' \in [Days -> SUBSET Bars]
  BY <1>2, CacheStaysClean DEF LiveBarsInv
<1>7. CASE records # {} /\ Cacheable(p)
  <2>1. fetched' = [fetched EXCEPT ![p] = records] /\ UNCHANGED <<got, back>>
    BY <1>1, <1>7
  <2>2. WalkTypesOK' /\ fetched'[p] = records
    BY <1>2, <1>3, <1>4, <1>5, <2>1 DEF WalkTypesOK
  <2>3. WholeDay(records, Day(p), servedShort')
    BY <1>1, <1>2, <1>7, ClosedDaysAreWhole
  <2>4. AtRest(p)' = AtRest(p) /\ Current(p)' = Current(p) /\ Day(p)' = Day(p)
    BY <1>2, <2>1 DEF AtRest, Current, TradingDay, Day
  <2>5. WholeDay(fetched[p], Day(p), servedShort)'
    BY <2>2, <2>3, <2>4 DEF WholeDay
  <2>6. back[p] > 0
    BY <1>3, <1>7 DEF Cacheable
  <2>7. ASSUME NEW d PROVE HasDay(p, d) => HasDay(p, d)'
    BY <1>2, <1>5, <2>1 DEF HasDay
  <2>8. HasNoHoleToday(p) => HasNoHoleToday(p)'
    BY <2>1, <2>4 DEF HasNoHoleToday
  <2>9. WalkIsClean(p)'
    BY <1>2, <2>1, <2>4, <2>5, <2>6, <2>7, <2>8, WalkFacts DEF WalkIsClean
  <2> QED
    BY <1>2, <1>5, <1>6, <2>1, <2>2, <2>9, OneWalkMoves DEF WalkTypesOK
<1>8. CASE ~(records # {} /\ Cacheable(p))
  <2>1. /\ got' = [got EXCEPT ![p] = @ \cup records] /\ back' = [back EXCEPT ![p] = @ - 1]
        /\ UNCHANGED fetched
    BY <1>1, <1>8 DEF NextDay
  <2>2. WalkTypesOK' /\ got'[p] = got[p] \cup records /\ back'[p] = back[p] - 1
    BY <1>2, <1>3, <1>4, <1>5, <2>1 DEF WalkTypesOK
  <2>3. \/ records = {} /\ Day(p) \in empty'[p]
        \/ Day(p) = Current(p) /\ records = Records(Day(p))
    BY <1>3, <1>5, <1>8, RecordFacts DEF Cacheable
  <2>4. WalkIsClean(p)'
    BY <1>2, <1>4, <1>5, <2>1, <2>2, <2>3, NextDayStaysClean
  <2> QED
    BY <1>2, <1>5, <1>6, <2>1, <2>2, <2>4, OneWalkMoves DEF WalkTypesOK
<1> QED
  BY <1>7, <1>8

LEMMA WriteCacheKeepsInv ==
    ASSUME LiveBarsInv, NEW p \in Walkers, WriteCache(p)
    PROVE  LiveBarsInv'
<1> DEFINE bars == fetched[p]
<1>1. /\ got' = [got EXCEPT ![p] = @ \cup bars] /\ back' = [back EXCEPT ![p] = @ - 1]
      /\ fetched' = [fetched EXCEPT ![p] = {}]
      /\ cache' \in {cache, [cache EXCEPT ![Day(p)] = bars]}
      /\ UNCHANGED <<venueVars, now, empty, servedShort>> /\ bars # {} /\ hour' = hour
  BY DEF WriteCache, NextDay, venueVars
<1>2. /\ WholeDay(bars, Day(p), servedShort) /\ ~AtRest(p) /\ back[p] > 0 /\ bars \in SUBSET Bars
      /\ WalkTypesOK
  BY <1>1 DEF LiveBarsInv, WalkIsClean, WalkTypesOK
<1>3. Day(p) \in Days /\ Day(p) < Current(p) /\ back[p] >= 0
  BY <1>2, WalkFacts
<1>4. WalkTypesOK' /\ got'[p] = got[p] \cup bars /\ back'[p] = back[p] - 1 /\ fetched'[p] = {}
  BY <1>1, <1>2 DEF WalkTypesOK
<1>5. WalkIsClean(p)'
  BY <1>1, <1>2, <1>3, <1>4, NextDayStaysClean
<1>6. cache' \in [Days -> SUBSET Bars]
  BY <1>1, <1>2 DEF LiveBarsInv
<1>7. \A d \in Days : cache'[d] \in {{}, cache[d]} \/ WholeDay(cache'[d], d, servedShort)
  BY <1>1, <1>2, <1>3 DEF LiveBarsInv
<1>8. CacheHoldsWholeDays'
  BY <1>1, <1>6, <1>7, CacheStaysClean
<1> QED
  BY <1>1, <1>4, <1>5, <1>6, <1>8, OneWalkMoves DEF LiveBarsInv, WalkTypesOK

(* A walk that ends, by giving up or by returning its bars and pruning.    *)
LEMMA EndOfWalkKeepsInv ==
    ASSUME LiveBarsInv, NEW p \in Walkers, AbandonWalk(p) \/ ReturnBars(p)
    PROVE  LiveBarsInv'
<1>1. Rest(p) /\ UNCHANGED <<venueVars, servedShort>>
  BY DEF AbandonWalk, ReturnBars
<1>2. /\ WalkTypesOK' /\ now'[p] = 0 /\ back'[p] = 0 /\ got'[p] = {} /\ fetched'[p] = {}
      /\ \A q \in Walkers \ {p} :
            /\ now'[q] = now[q] /\ back'[q] = back[q] /\ got'[q] = got[q]
            /\ fetched'[q] = fetched[q] /\ empty'[q] = empty[q]
  BY <1>1 DEF LiveBarsInv, WalkTypesOK, Rest
<1>3. AtRest(p)' /\ hour' \in Nat
  BY <1>1, <1>2 DEF AtRest, venueVars, LiveBarsInv, VenueInv
<1>4. WalkIsClean(p)'
  BY <1>2, <1>3, LiveBarsAssumption DEF WalkIsClean
<1>5. /\ cache' \in [Days -> SUBSET Bars]
      /\ \A d \in Days : cache'[d] \in {{}, cache[d]}
  BY DEF AbandonWalk, ReturnBars, LiveBarsInv
<1>6. CacheHoldsWholeDays'
  BY <1>1, <1>5, CacheStaysClean
<1> QED
  BY <1>1, <1>2, <1>4, <1>5, <1>6, OneWalkMoves

LEMMA VenueMovesKeepsInv ==
    ASSUME LiveBarsInv, VenueMoves
    PROVE  LiveBarsInv'
<1>1. VenueInv' /\ hour <= hour' /\ UNCHANGED <<cache, walkVars, servedShort>>
  BY VenueKeepsInv DEF VenueMoves, LiveBarsInv
<1>2. ASSUME NEW p \in Walkers PROVE WalkIsClean(p)'
  BY <1>1, RestingWalksStayClean DEF VenueInv, walkVars
<1>3. WalkTypesOK' /\ CacheHoldsWholeDays' /\ cache' \in [Days -> SUBSET Bars]
  BY <1>1 DEF LiveBarsInv, WalkTypesOK, CacheHoldsWholeDays, WholeDay, walkVars
<1> QED
  BY <1>1, <1>2, <1>3 DEF LiveBarsInv

LEMMA LiveBarsStepKeepsInv == LiveBarsInv /\ [LiveBarsNext]_liveBarsVars => LiveBarsInv'
<1> SUFFICES ASSUME LiveBarsInv, [LiveBarsNext]_liveBarsVars PROVE LiveBarsInv'
  OBVIOUS
<1>1. ASSUME NEW p \in Walkers, WalkStep(p) PROVE LiveBarsInv'
  BY <1>1, StartWalkKeepsInv, ReadCacheKeepsInv, FetchDayKeepsInv, WriteCacheKeepsInv,
     EndOfWalkKeepsInv DEF WalkStep
<1>2. CASE VenueMoves
  BY <1>2, VenueMovesKeepsInv
<1>3. CASE UNCHANGED liveBarsVars
  <2>1. \A p \in Walkers : WalkIsClean(p)'
    BY <1>3, RestingWalksStayClean
    DEF LiveBarsInv, VenueInv, liveBarsVars, venueVars, walkVars
  <2> QED
    BY <1>3, <2>1
    DEF LiveBarsInv, VenueInv, WalkTypesOK, CacheHoldsWholeDays, WholeDay, liveBarsVars,
        venueVars, walkVars
<1> QED
  BY <1>1, <1>2, <1>3 DEF LiveBarsNext

LEMMA LiveBarsSafe == LiveBarsSpec => []LiveBarsInv
<1>1. VenueInit /\ LiveBarsInit => LiveBarsInv
  BY LiveBarsInitInv
<1>2. LiveBarsInv /\ [LiveBarsNext]_liveBarsVars => LiveBarsInv'
  BY LiveBarsStepKeepsInv
<1> QED
  BY <1>1, <1>2, PTL DEF LiveBarsSpec

(* No bar that was still forming is cached or returned, for any number of  *)
(* walks side by side and any length of a day.                             *)
THEOREM BarsAreClosed == LiveBarsSpec => []OnlyClosedBars
<1>1. LiveBarsInv => OnlyClosedBars
  <2> SUFFICES ASSUME LiveBarsInv PROVE OnlyClosedBars
    OBVIOUS
  <2>1. \A d \in Days : \A b \in cache[d] : b.closed
    BY DEF LiveBarsInv, CacheHoldsWholeDays, WholeDay
  <2>2. \A p \in Walkers : Returns(p) => \A b \in Returned(p) : b.closed
    BY DEF LiveBarsInv, WalkIsClean, Returns, Returned
  <2> QED
    BY <2>1, <2>2 DEF OnlyClosedBars
<1> QED
  BY <1>1, LiveBarsSafe, PTL

(* A bar is missing from what a walk returns only when the venue did not   *)
(* give it.                                                                *)
THEOREM WalksMissNothing == LiveBarsSpec => []GapsAreTheVenues
<1>1. LiveBarsInv => GapsAreTheVenues
  <2> SUFFICES ASSUME LiveBarsInv, NEW p \in Walkers, Returns(p), NEW b \in Returned(p),
                      NEW h \in (Current(p) - WindowDays) * DayLen .. b.hour
               PROVE  h \in Hours(Returned(p)) \/ DayOf(h) \in empty[p] \cup servedShort
    BY DEF GapsAreTheVenues
  <2> DEFINE today == Current(p)
             first == today - WindowDays
  <2>1. /\ WalkIsClean(p) /\ ~AtRest(p) /\ back[p] = -1 /\ today \in Int /\ now[p] \in Int
        /\ today = DayOf(now[p]) /\ Day(p) = today + 1 /\ WindowDays \in Int
    BY WalkFacts, LiveBarsAssumption DEF Returns, WalkIsClean
  <2>2. b \in got[p] /\ b.hour < now[p] /\ b.hour \in Int /\ h \in Int /\ h <= b.hour
    BY <2>1, LengthIsPositive DEF Returned, WalkIsClean
  <2>3. /\ DayOf(h) \in Int /\ DayOf(b.hour) \in Int
        /\ DayOf(h) <= DayOf(b.hour) /\ DayOf(b.hour) <= today
    BY <2>1, <2>2, DaysAreOrdered, DaysAreNumbers
  <2>4. first <= DayOf(h)
    <3>1. first \in Int /\ first * DayLen \in Int /\ first * DayLen <= h /\ DayLen \in Nat \ {0}
      BY <2>1, <2>2, LengthIsPositive
    <3>2. first * DayLen \in Bucket(first)
      BY <3>1 DEF Bucket
    <3>3. DayOf(first * DayLen) = first
      BY <3>1, <3>2, BucketsAreDays
    <3> QED
      BY <2>2, <3>1, <3>3, DaysAreOrdered
  <2>5. h \in Hours(got[p]) => h \in Hours(Returned(p))
    BY <2>1, <2>2 DEF Hours, Returned
  <2>6. CASE DayOf(h) < today
    <3>1. HasDay(p, DayOf(h))
      BY <2>1, <2>3, <2>4, <2>6 DEF WalkIsClean
    <3> QED
      BY <2>2, <2>5, <3>1, DaysAreNumbers DEF HasDay
  <2>7. CASE DayOf(h) = today
    <3>1. h \in Bucket(today) /\ b.hour \in Bucket(today)
      BY <2>1, <2>2, <2>3, <2>7, BucketsAreDays
    <3> QED
      BY <2>1, <2>2, <2>5, <3>1 DEF WalkIsClean, HasNoHoleToday
  <2> QED
    BY <2>1, <2>3, <2>6, <2>7
<1> QED
  BY <1>1, LiveBarsSafe, PTL

(***************************************************************************)
(* The import.                                                             *)
(***************************************************************************)

(* How a bar is stored that was served when the venue had published pub    *)
(* and its clock said at.                                                  *)
StoredAs(h, at) == IF h < at THEN "closed" ELSE "forming"

HoldsSnapshot(d, pub, at) ==
    \A h \in Bucket(d) \cap 0 .. MaxHour :
        table[h] = IF h > pub THEN "none" ELSE StoredAs(h, at)

(* What is stored of a day is what the venue served of it at one moment.   *)
IsSnapshot(d) == \E pub \in -1 .. published, at \in 0 .. hour : HoldsSnapshot(d, pub, at)
                                                               /\ pub <= at

(* A day that the import went over: it was over when it was served, or     *)
(* enough of it was stored.                                                *)
IsFrozenWell(d) ==
    \E pub \in -1 .. published, at \in 0 .. hour :
        /\ pub <= at /\ HoldsSnapshot(d, pub, at)
        /\ \/ (d + 1) * DayLen <= at /\ (d + 1) * DayLen - 1 - MaxLag <= pub
           \/ skipExisting /\ d * DayLen + Enough - 1 <= pub

Answer(d, pub, at) == { [hour |-> h, closed |-> h < at] : h \in { b \in Bucket(d) : b <= pub } }

(* The reply to be upserted is no older than what is stored of its day.    *)
ReplyIsFresh ==
    \E pub \in -1 .. published, at \in 0 .. hour :
        /\ pub <= at /\ at <= pub + MaxLag + 1 /\ began <= at
        /\ reply = Answer(day, pub, at)
        /\ \E old \in -1 .. pub, then \in 0 .. hour : HoldsSnapshot(day, old, then)

ExtentOK ==
    /\ stage \in {"idle", "day", "upsert", "end"} /\ skipExisting \in BOOLEAN
    /\ {firstDay, day, lastDay} \subseteq Nat /\ began \in 0 .. hour
    /\ stage \in {"day", "upsert"} => lastDay \in Days /\ firstDay <= day /\ day <= lastDay
    /\ stage = "end" => day = lastDay + 1

GoneOverWell ==
    \A d \in firstDay .. day - 1 :
        (d + 1) * DayLen <= began /\ d \notin emptyDays => IsFrozenWell(d)

ImportInv ==
    /\ VenueInv /\ ExtentOK /\ GoneOverWell
    /\ table \in [0 .. MaxHour -> {"none", "forming", "closed"}]
    /\ \A d \in Days : IsSnapshot(d)
    /\ stage = "upsert" => ReplyIsFresh

LEMMA BucketBounds ==
    ASSUME NEW d \in Int
    PROVE  /\ Bucket(d) = d * DayLen .. (d + 1) * DayLen - 1
           /\ d * DayLen \in Int /\ (d + 1) * DayLen = d * DayLen + DayLen
           /\ Bucket(d) \subseteq Int
<1>1. d * DayLen \in Int /\ (d + 1) * DayLen = d * DayLen + DayLen /\ DayLen \in Nat
  BY LengthIsPositive
<1> QED
  BY <1>1 DEF Bucket

LEMMA ImportConstants ==
    /\ Shift \in Nat /\ Enough \in Nat /\ Shift < Enough /\ Enough <= DayLen
    /\ MaxLag <= DayLen - Enough + 1
  BY GmoImportAssumption, LengthIsPositive

(* A calendar day has enough bars only when its own bucket has: of the     *)
(* next bucket it counts no more than the shift.                           *)
LEMMA EnoughOfTheDay ==
    ASSUME VenueInv, DOMAIN table = 0 .. MaxHour, NEW d \in Days,
           NEW pub \in -1 .. published, NEW at \in 0 .. hour,
           HoldsSnapshot(d, pub, at), DayBarCount(d) >= Enough
    PROVE  d * DayLen + Enough - 1 <= pub
<1> DEFINE counted == { h \in DOMAIN table \cap CalendarDay(d) : table[h] # "none" }
           first == d * DayLen
           ours == first + Shift .. pub
           theirs == first + DayLen .. first + DayLen + Shift - 1
<1>1. /\ d \in Int /\ first \in Int /\ DayLen \in Nat /\ Bucket(d) = first .. first + DayLen - 1
      /\ pub \in Int
  BY LengthIsPositive, BucketBounds, DivisionFacts DEF Days, VenueInv, Bucket
<1>2. SUFFICES ASSUME pub < first + Enough - 1 PROVE FALSE
  BY <1>1, ImportConstants
<1>3. ASSUME NEW h \in counted PROVE h \in ours \cup theirs
  <2>1. h \in 0 .. MaxHour /\ h \in first + Shift .. first + DayLen + Shift - 1
    <3>1. PICK g \in Bucket(d) : h = g + Shift
      BY DEF CalendarDay
    <3> QED
      BY <1>1, <3>1, ImportConstants
  <2>2. CASE h \in Bucket(d)
    <3>1. h <= pub
      BY <1>1, <2>1, <2>2 DEF HoldsSnapshot, StoredAs
    <3> QED
      BY <1>1, <2>1, <3>1, ImportConstants
  <2>3. CASE h \notin Bucket(d)
    BY <1>1, <2>1, <2>3, ImportConstants
  <2> QED
    BY <2>2, <2>3
<1>4. /\ IsFiniteSet(ours) /\ IsFiniteSet(theirs)
      /\ Cardinality(ours) <= IF first + Shift > pub THEN 0 ELSE pub - (first + Shift) + 1
      /\ Cardinality(theirs) <= Shift
  <2>1. ASSUME NEW a \in Int, NEW b \in Int
        PROVE  IsFiniteSet(a .. b) /\ Cardinality(a .. b) = IF a > b THEN 0 ELSE b - a + 1
    BY FS_Interval
  <2>2. /\ first + Shift \in Int /\ first + DayLen \in Int /\ first + DayLen + Shift - 1 \in Int
    BY <1>1, ImportConstants
  <2>3. /\ IsFiniteSet(ours)
        /\ Cardinality(ours) = IF first + Shift > pub THEN 0 ELSE pub - (first + Shift) + 1
    BY <1>1, <2>1, <2>2
  <2>4. /\ IsFiniteSet(theirs)
        /\ Cardinality(theirs) =
              IF first + DayLen > first + DayLen + Shift - 1 THEN 0
              ELSE (first + DayLen + Shift - 1) - (first + DayLen) + 1
    BY <2>1, <2>2
  <2>5. Cardinality(theirs) <= Shift
    BY <1>1, <2>4, ImportConstants
  <2> QED
    BY <1>1, <2>3, <2>4, <2>5, ImportConstants
<1>5. Cardinality(ours) + Cardinality(theirs) < Enough
  <2>1. Cardinality(ours) \in Nat /\ Cardinality(theirs) \in Nat
    BY <1>4, FS_CardinalityType
  <2> HIDE DEF ours, theirs, first
  <2> QED
    BY <1>1, <1>2, <1>4, <2>1, ImportConstants
<1> HIDE DEF ours, theirs
<1>6. /\ IsFiniteSet(ours \cup theirs)
      /\ Cardinality(ours \cup theirs) <= Cardinality(ours) + Cardinality(theirs)
  <2>1. IsFiniteSet(ours) /\ IsFiniteSet(theirs) /\ ours \cap theirs \in SUBSET ours
    BY <1>4
  <2>2. IsFiniteSet(ours \cap theirs)
    BY <2>1, FS_Subset
  <2>3. /\ Cardinality(ours) \in Nat /\ Cardinality(theirs) \in Nat
        /\ Cardinality(ours \cap theirs) \in Nat
    BY <2>1, <2>2, FS_CardinalityType
  <2>4. /\ IsFiniteSet(ours \cup theirs)
        /\ Cardinality(ours \cup theirs)
              = Cardinality(ours) + Cardinality(theirs) - Cardinality(ours \cap theirs)
    BY <2>1, FS_Union
  <2> QED
    BY <2>3, <2>4
<1>7. counted \in SUBSET (ours \cup theirs)
  BY <1>3
<1> HIDE DEF counted
<1>8. Cardinality(counted) <= Cardinality(ours \cup theirs) /\ Cardinality(counted) \in Nat
  BY <1>6, <1>7, FS_Subset, FS_CardinalityType
<1>9. DayBarCount(d) = Cardinality(counted)
  BY DEF DayBarCount, counted
<1> QED
  BY <1>4, <1>5, <1>6, <1>8, <1>9, FS_CardinalityType, ImportConstants

LEMMA ImportInitInv == VenueInit /\ ImportInit => ImportInv
<1> SUFFICES ASSUME VenueInit, ImportInit PROVE ImportInv
  OBVIOUS
<1>1. VenueInv /\ ExtentOK /\ GoneOverWell
  BY DEF VenueInit, VenueInv, ImportInit, ExtentOK, GoneOverWell
<1>2. ASSUME NEW d \in Days PROVE IsSnapshot(d)
  <2>1. HoldsSnapshot(d, -1, 0)
    BY DEF HoldsSnapshot, ImportInit
  <2> QED
    BY <1>1, <2>1 DEF IsSnapshot, VenueInv
<1> QED
  BY <1>1, <1>2 DEF ImportInit, ImportInv

(* What is stored of a day says the same later, as long as the table says  *)
(* the same of it.                                                         *)
LEMMA SnapshotsLast ==
    ASSUME VenueInv, VenueInv', hour <= hour', published <= published',
           NEW d, \A h \in Bucket(d) \cap 0 .. MaxHour : table'[h] = table[h]
    PROVE  /\ \A pub, at : HoldsSnapshot(d, pub, at) => HoldsSnapshot(d, pub, at)'
           /\ IsSnapshot(d) => IsSnapshot(d)'
           /\ IsFrozenWell(d) /\ (skipExisting => skipExisting') => IsFrozenWell(d)'
<1>1. \A pub, at : HoldsSnapshot(d, pub, at) => HoldsSnapshot(d, pub, at)'
  BY DEF HoldsSnapshot
<1>2. -1 .. published \subseteq -1 .. published' /\ 0 .. hour \subseteq 0 .. hour'
  BY DEF VenueInv
<1>3. IsSnapshot(d) => IsSnapshot(d)'
  BY <1>1, <1>2 DEF IsSnapshot
<1>4. IsFrozenWell(d) /\ (skipExisting => skipExisting') => IsFrozenWell(d)'
  BY <1>1, <1>2 DEF IsFrozenWell
<1> QED
  BY <1>1, <1>3, <1>4

LEMMA VenueMovesOnKeepsInv ==
    ASSUME ImportInv, VenueInv', hour <= hour', published <= published',
           UNCHANGED <<table, stage, day, extent, reply, emptyDays>>
    PROVE  ImportInv'
<1>1. ASSUME NEW d
      PROVE  /\ \A pub, at : HoldsSnapshot(d, pub, at) => HoldsSnapshot(d, pub, at)'
             /\ IsSnapshot(d) => IsSnapshot(d)' /\ (IsFrozenWell(d) => IsFrozenWell(d)')
  BY SnapshotsLast DEF ImportInv, extent
<1>2. ExtentOK'
  BY DEF ImportInv, ExtentOK, VenueInv, extent
<1>3. GoneOverWell'
  <2> SUFFICES ASSUME NEW d \in firstDay .. day - 1, (d + 1) * DayLen <= began, d \notin emptyDays
               PROVE  IsFrozenWell(d)'
    BY DEF GoneOverWell, extent
  <2>1. IsFrozenWell(d)
    BY DEF ImportInv, GoneOverWell
  <2>2. \A h \in Bucket(d) \cap 0 .. MaxHour : table'[h] = table[h]
    OBVIOUS
  <2> QED
    BY <2>1, <2>2, SnapshotsLast DEF ImportInv, extent
<1>4. ASSUME stage = "upsert" PROVE ReplyIsFresh'
  <2>1. ReplyIsFresh
    BY <1>4 DEF ImportInv
  <2>2. PICK pub \in -1 .. published, at \in 0 .. hour :
          /\ pub <= at /\ at <= pub + MaxLag + 1 /\ began <= at
          /\ reply = Answer(day, pub, at)
          /\ \E old \in -1 .. pub, then \in 0 .. hour : HoldsSnapshot(day, old, then)
    BY <2>1 DEF ReplyIsFresh
  <2>3. PICK old \in -1 .. pub, then \in 0 .. hour : HoldsSnapshot(day, old, then)
    BY <2>2
  <2>4. HoldsSnapshot(day, old, then)'
    BY <2>3 DEF HoldsSnapshot
  <2>5. pub \in -1 .. published' /\ at \in 0 .. hour' /\ then \in 0 .. hour'
    BY DEF ImportInv, VenueInv
  <2> QED
    BY <2>2, <2>3, <2>4, <2>5 DEF ReplyIsFresh, Answer, extent
<1> QED
  BY <1>1, <1>2, <1>3, <1>4 DEF ImportInv, extent

(* A step of the import that leaves the venue and the table alone.         *)
LEMMA ImportMoves ==
    ASSUME ImportInv, UNCHANGED <<venueVars, table>>, ExtentOK', GoneOverWell',
           stage' = "upsert" => ReplyIsFresh'
    PROVE  ImportInv'
<1>1. VenueInv'
  BY DEF ImportInv, VenueInv, venueVars
<1>2. ASSUME NEW d \in Days PROVE IsSnapshot(d)'
  BY <1>1, SnapshotsLast DEF ImportInv, VenueInv, venueVars
<1> QED
  BY <1>1, <1>2 DEF ImportInv

(* Where the loop stands.                                                  *)
LEMMA LoopFacts ==
    ASSUME ImportInv, stage \in {"day", "upsert"}
    PROVE  /\ day \in Days /\ day \in Nat /\ firstDay \in Nat /\ lastDay \in Days
           /\ firstDay <= day /\ day <= lastDay
  BY LengthIsPositive, DivisionFacts DEF ImportInv, ExtentOK, Days

(* When the loop goes on to the next day, the days behind stay as they     *)
(* are, and the day it leaves joins them.                                  *)
LEMMA LoopGoesOn ==
    ASSUME ImportInv, VenueInv', stage \in {"day", "upsert"}, NextImportDay,
           UNCHANGED <<venueVars, extent>>, emptyDays \subseteq emptyDays',
           \A d \in firstDay .. day - 1 :
              \A h \in Bucket(d) \cap 0 .. MaxHour : table'[h] = table[h],
           \A d : d = day /\ (d + 1) * DayLen <= began /\ d \notin emptyDays' => IsFrozenWell(d)'
    PROVE  ExtentOK' /\ GoneOverWell'
<1>1. /\ day \in Days /\ day \in Nat /\ firstDay \in Nat /\ lastDay \in Days
      /\ firstDay <= day /\ day <= lastDay /\ day' = day + 1 /\ lastDay \in Nat
      /\ stage' = IF day = lastDay THEN "end" ELSE "day"
  BY LoopFacts DEF NextImportDay, ImportInv, ExtentOK
<1>2. ExtentOK'
  BY <1>1 DEF ImportInv, ExtentOK, extent, venueVars
<1>3. GoneOverWell'
  <2> SUFFICES ASSUME NEW d \in firstDay .. day, (d + 1) * DayLen <= began, d \notin emptyDays'
               PROVE  IsFrozenWell(d)'
    BY <1>1 DEF GoneOverWell, extent
  <2>1. CASE d = day
    BY <2>1
  <2>2. CASE d \in firstDay .. day - 1
    <3>1. IsFrozenWell(d)
      BY <2>2 DEF ImportInv, GoneOverWell
    <3>2. \A h \in Bucket(d) \cap 0 .. MaxHour : table'[h] = table[h]
      BY <2>2
    <3>3. VenueInv /\ hour <= hour' /\ published <= published' /\ skipExisting' = skipExisting
      BY DEF ImportInv, VenueInv, venueVars, extent
    <3> QED
      BY <3>1, <3>2, <3>3, SnapshotsLast
  <2> QED
    BY <1>1, <2>1, <2>2
<1> QED
  BY <1>2, <1>3

LEMMA BeginImportKeepsInv ==
    ASSUME ImportInv, BeginImport
    PROVE  ImportInv'
<1>1. PICK from \in Days, to \in Days, skip \in BOOLEAN :
         from <= to /\ firstDay' = from /\ day' = from /\ lastDay' = to /\ skipExisting' = skip
  BY DEF BeginImport
<1>2. began' = hour /\ emptyDays' = {} /\ stage' = "day" /\ UNCHANGED <<venueVars, table, reply>>
  BY DEF BeginImport
<1>3. from \in Nat /\ to \in Nat
  BY LengthIsPositive, DivisionFacts DEF Days
<1>4. ExtentOK'
  BY <1>1, <1>2, <1>3 DEF ImportInv, VenueInv, ExtentOK, venueVars
<1>5. GoneOverWell'
  BY <1>1, <1>3 DEF GoneOverWell
<1> QED
  BY <1>2, <1>4, <1>5, ImportMoves

LEMMA SkipDayKeepsInv ==
    ASSUME ImportInv, SkipDay
    PROVE  ImportInv'
<1>1. /\ stage = "day" /\ Skips /\ NextImportDay
      /\ UNCHANGED <<venueVars, table, extent, reply, emptyDays>>
  BY DEF SkipDay
<1>2. day \in Days /\ VenueInv /\ VenueInv' /\ DOMAIN table = 0 .. MaxHour
  BY <1>1, LoopFacts DEF ImportInv, VenueInv, venueVars
<1>3. PICK pub \in -1 .. published, at \in 0 .. hour : HoldsSnapshot(day, pub, at) /\ pub <= at
  BY <1>2 DEF ImportInv, IsSnapshot
<1>4. day * DayLen + Enough - 1 <= pub
  BY <1>1, <1>2, <1>3, EnoughOfTheDay DEF Skips
<1>5. ASSUME NEW d, d = day PROVE IsFrozenWell(d)'
  <2>1. IsFrozenWell(d)
    BY <1>1, <1>3, <1>4, <1>5 DEF IsFrozenWell, Skips
  <2> QED
    BY <1>1, <1>2, <2>1, SnapshotsLast DEF VenueInv, venueVars, extent
<1>6. ExtentOK' /\ GoneOverWell'
  BY <1>1, <1>2, <1>5, LoopGoesOn
<1>7. stage' # "upsert"
  BY <1>1 DEF NextImportDay
<1> QED
  BY <1>1, <1>6, <1>7, ImportMoves

LEMMA RequestDayKeepsInv ==
    ASSUME ImportInv, RequestDay
    PROVE  ImportInv'
<1>1. PICK answer \in Answers(day) :
         /\ reply' = answer
         /\ IF answer = {}
            THEN emptyDays' = emptyDays \cup {day} /\ NextImportDay
            ELSE stage' = "upsert" /\ UNCHANGED <<emptyDays, day>>
  BY DEF RequestDay
<1>2. stage = "day" /\ UNCHANGED <<venueVars, table, extent>>
  BY DEF RequestDay
<1>3. day \in Days /\ VenueInv /\ VenueInv'
  BY <1>2, LoopFacts DEF ImportInv, VenueInv, venueVars
<1>4. CASE answer = {}
  <2>1. emptyDays' = emptyDays \cup {day} /\ NextImportDay
    BY <1>1, <1>4
  <2>2. ExtentOK' /\ GoneOverWell'
    BY <1>2, <1>3, <2>1, LoopGoesOn
  <2>3. stage' # "upsert"
    BY <2>1 DEF NextImportDay
  <2> QED
    BY <1>2, <2>2, <2>3, ImportMoves
<1>5. CASE answer # {}
  <2>1. stage' = "upsert" /\ UNCHANGED <<emptyDays, day>> /\ reply' = Records(day)
    BY <1>1, <1>5 DEF Answers
  <2>2. ExtentOK'
    BY <1>2, <2>1 DEF ImportInv, ExtentOK, extent, venueVars
  <2>3. GoneOverWell'
    <3> SUFFICES ASSUME NEW d \in firstDay .. day - 1, (d + 1) * DayLen <= began, d \notin emptyDays
                 PROVE  IsFrozenWell(d)'
      BY <1>2, <2>1 DEF GoneOverWell, extent
    <3>1. IsFrozenWell(d)
      BY DEF ImportInv, GoneOverWell
    <3> QED
      BY <1>2, <1>3, <3>1, SnapshotsLast DEF VenueInv, venueVars, extent
  <2>4. ReplyIsFresh'
    <3>1. PICK old \in -1 .. published, then \in 0 .. hour : HoldsSnapshot(day, old, then)
      BY <1>3 DEF ImportInv, IsSnapshot
    <3>2. HoldsSnapshot(day, old, then)'
      BY <1>2, <2>1, <3>1 DEF HoldsSnapshot
    <3>3. /\ published \in -1 .. published /\ hour \in 0 .. hour /\ published <= hour
          /\ hour <= published + MaxLag + 1 /\ began <= hour
      BY <1>3 DEF VenueInv, ImportInv, ExtentOK
    <3>4. reply' = Answer(day, published, hour)
      BY <2>1 DEF Records, Answer
    <3>5. hour' = hour /\ published' = published /\ began' = began /\ day' = day
      BY <1>2, <2>1 DEF venueVars, extent
    <3> QED
      BY <3>1, <3>2, <3>3, <3>4, <3>5 DEF ReplyIsFresh, Answer
  <2> QED
    BY <1>2, <2>1, <2>2, <2>3, <2>4, ImportMoves
<1> QED
  BY <1>4, <1>5

(* The bars of the reply take the place of what was stored of their day,   *)
(* and no other day changes.                                               *)
LEMMA UpsertFacts ==
    ASSUME ImportInv, UpsertDay
    PROVE  /\ \A d \in Int : d # day =>
                 \A h \in Bucket(d) \cap 0 .. MaxHour : table'[h] = table[h]
           /\ \E pub \in -1 .. published, at \in 0 .. hour :
                 /\ pub <= at /\ at <= pub + MaxLag + 1 /\ began <= at
                 /\ \A h \in Bucket(day) \cap 0 .. MaxHour :
                       table'[h] = IF h > pub THEN "none" ELSE StoredAs(h, at)
<1>1. PICK pub \in -1 .. published, at \in 0 .. hour :
        /\ pub <= at /\ at <= pub + MaxLag + 1 /\ began <= at
        /\ reply = Answer(day, pub, at)
        /\ \E old \in -1 .. pub, then \in 0 .. hour : HoldsSnapshot(day, old, then)
  BY DEF UpsertDay, ImportInv, ReplyIsFresh
<1>2. PICK old \in -1 .. pub, then \in 0 .. hour : HoldsSnapshot(day, old, then)
  BY <1>1
<1>3. /\ day \in Int /\ DOMAIN table = 0 .. MaxHour /\ pub \in Int /\ old \in Int
      /\ Bucket(day) \subseteq Int
  <2>1. stage = "upsert" /\ DOMAIN table = 0 .. MaxHour
    BY DEF UpsertDay, ImportInv
  <2>2. day \in Int
    BY <2>1, LoopFacts
  <2> QED
    BY <2>1, <2>2, BucketBounds
<1> DEFINE bar(g) == [hour |-> g, closed |-> g < at]
           out == { g \in Bucket(day) : g <= pub }
<1>4. reply = { bar(g) : g \in out }
  BY <1>1 DEF Answer
<1>5. \A g \in out : bar(g).hour = g /\ (bar(g).closed <=> g < at)
  OBVIOUS
<1>6. ASSUME NEW h \in 0 .. MaxHour
      PROVE  table'[h] = IF \E b \in reply : b.hour = h
                         THEN IF (CHOOSE r \in reply : r.hour = h).closed
                              THEN "closed" ELSE "forming"
                         ELSE table[h]
  BY <1>3 DEF UpsertDay
<1> HIDE DEF bar
<1>7. ASSUME NEW h \in 0 .. MaxHour, h \notin out PROVE table'[h] = table[h]
  <2>1. ~ \E b \in reply : b.hour = h
    BY <1>4, <1>5, <1>7
  <2> QED
    BY <1>6, <2>1
<1>8. ASSUME NEW h \in 0 .. MaxHour, h \in out PROVE table'[h] = StoredAs(h, at)
  <2>1. bar(h) \in reply /\ bar(h).hour = h
    BY <1>4, <1>5, <1>8
  <2>2. (CHOOSE r \in reply : r.hour = h) \in { r \in reply : r.hour = h }
    BY <2>1
  <2>3. (CHOOSE r \in reply : r.hour = h) = bar(h)
    BY <1>4, <1>5, <2>2
  <2> QED
    BY <1>5, <1>6, <1>8, <2>1, <2>3 DEF StoredAs
<1>9. ASSUME NEW d \in Int, d # day, NEW h \in Bucket(d) \cap 0 .. MaxHour
      PROVE  table'[h] = table[h]
  <2>1. h \notin Bucket(day)
    BY <1>3, <1>9, BucketsAreDays
  <2> QED
    BY <1>7, <2>1
<1>10. ASSUME NEW h \in Bucket(day) \cap 0 .. MaxHour
       PROVE  table'[h] = IF h > pub THEN "none" ELSE StoredAs(h, at)
  <2>1. CASE h > pub
    BY <1>2, <1>3, <1>7, <2>1 DEF HoldsSnapshot
  <2>2. CASE ~(h > pub)
    BY <1>3, <1>8, <2>2
  <2> QED
    BY <2>1, <2>2
<1> QED
  BY <1>1, <1>9, <1>10

LEMMA UpsertDayKeepsInv ==
    ASSUME ImportInv, UpsertDay
    PROVE  ImportInv'
<1>1. stage = "upsert" /\ NextImportDay /\ UNCHANGED <<venueVars, extent, emptyDays>>
  BY DEF UpsertDay
<1>2. /\ day \in Days /\ day \in Nat /\ firstDay \in Nat /\ VenueInv /\ VenueInv'
      /\ hour' = hour /\ published' = published
  BY <1>1, LoopFacts DEF ImportInv, VenueInv, venueVars
<1>3. PICK pub \in -1 .. published, at \in 0 .. hour :
        /\ pub <= at /\ at <= pub + MaxLag + 1 /\ began <= at
        /\ \A h \in Bucket(day) \cap 0 .. MaxHour :
              table'[h] = IF h > pub THEN "none" ELSE StoredAs(h, at)
  BY UpsertFacts
<1>4. ASSUME NEW d, d = day PROVE HoldsSnapshot(d, pub, at)'
  BY <1>3, <1>4 DEF HoldsSnapshot
<1>5. ASSUME NEW d \in Days PROVE IsSnapshot(d)'
  <2>1. CASE d = day
    BY <1>2, <1>3, <1>4, <2>1 DEF IsSnapshot
  <2>2. CASE d # day
    <3>1. d \in Int /\ \A h \in Bucket(d) \cap 0 .. MaxHour : table'[h] = table[h]
      BY <2>2, UpsertFacts, LengthIsPositive, DivisionFacts DEF Days
    <3>2. IsSnapshot(d)
      BY DEF ImportInv
    <3>3. hour <= hour' /\ published <= published'
      BY <1>2 DEF VenueInv
    <3> QED
      BY <1>2, <3>1, <3>2, <3>3, SnapshotsLast
  <2> QED
    BY <2>1, <2>2
<1>6. ASSUME NEW d, d = day, (d + 1) * DayLen <= began PROVE IsFrozenWell(d)'
  <2>1. (d + 1) * DayLen \in Int /\ began \in Int /\ MaxLag \in Int
    BY <1>2, <1>6, LengthIsPositive DEF ImportInv, ExtentOK
  <2>2. (d + 1) * DayLen <= at /\ (d + 1) * DayLen - 1 - MaxLag <= pub
    BY <1>2, <1>3, <1>6, <2>1 DEF VenueInv
  <2>3. HoldsSnapshot(d, pub, at)'
    BY <1>4, <1>6
  <2> QED
    BY <1>2, <1>3, <2>2, <2>3 DEF IsFrozenWell
<1>7. ASSUME NEW d \in firstDay .. day - 1, NEW h \in Bucket(d) \cap 0 .. MaxHour
      PROVE  table'[h] = table[h]
  BY <1>2, UpsertFacts
<1>8. ExtentOK' /\ GoneOverWell'
  BY <1>1, <1>2, <1>6, <1>7, LoopGoesOn
<1>9. table' \in [0 .. MaxHour -> {"none", "forming", "closed"}]
  BY DEF UpsertDay, ImportInv
<1>10. stage' # "upsert"
  BY <1>1 DEF NextImportDay
<1> QED
  BY <1>2, <1>5, <1>8, <1>9, <1>10 DEF ImportInv

LEMMA EndOfImportKeepsInv ==
    ASSUME ImportInv, EndImport \/ AbortImport
    PROVE  ImportInv'
<1>1. /\ stage' = "idle" /\ day' = 0 /\ lastDay' = 0 /\ firstDay' = 0 /\ began' = 0
      /\ skipExisting' = TRUE /\ UNCHANGED <<venueVars, table>>
  BY DEF EndImport, AbortImport
<1>2. ExtentOK' /\ GoneOverWell'
  BY <1>1 DEF ExtentOK, GoneOverWell, ImportInv, VenueInv, venueVars
<1> QED
  BY <1>1, <1>2, ImportMoves

LEMMA ImportStepKeepsInv == ImportInv /\ [ImportNext]_importVars => ImportInv'
<1> SUFFICES ASSUME ImportInv, [ImportNext]_importVars PROVE ImportInv'
  OBVIOUS
<1>1. CASE VenueMovesOn
  <2>1. VenueInv' /\ hour <= hour' /\ published <= published'
    BY <1>1, VenueKeepsInv DEF VenueMovesOn, ImportInv
  <2> QED
    BY <1>1, <2>1, VenueMovesOnKeepsInv DEF VenueMovesOn
<1>2. CASE UNCHANGED importVars
  <2>1. VenueInv' /\ hour <= hour' /\ published <= published'
    BY <1>2 DEF ImportInv, VenueInv, importVars, venueVars
  <2> QED
    BY <1>2, <2>1, VenueMovesOnKeepsInv DEF importVars, extent
<1> QED
  BY <1>1, <1>2, BeginImportKeepsInv, SkipDayKeepsInv, RequestDayKeepsInv, UpsertDayKeepsInv,
     EndOfImportKeepsInv DEF ImportNext

(* How many bars of a snapshot can be missing or forming.                   *)
LEMMA FewAreNotFinal ==
    ASSUME ImportInv, NEW d \in Int, NEW pub \in Int, NEW at \in Int, pub <= at,
           Bucket(d) \subseteq 0 .. MaxHour, HoldsSnapshot(d, pub, at)
    PROVE  /\ (d + 1) * DayLen <= at /\ (d + 1) * DayLen - 1 - MaxLag <= pub
              => Cardinality(NotFinal(d)) <= MaxLag
           /\ d * DayLen + Enough - 1 <= pub => Cardinality(NotFinal(d)) <= DayLen - Enough + 1
<1> DEFINE end == (d + 1) * DayLen
<1>1. /\ Bucket(d) = d * DayLen .. end - 1 /\ end \in Int /\ d * DayLen \in Int
      /\ end = d * DayLen + DayLen /\ DayLen \in Nat /\ MaxLag \in Nat
      /\ Enough \in Nat /\ Enough <= DayLen
  BY BucketBounds, LengthIsPositive, ImportConstants
<1> HIDE DEF end
<1>2. \A h \in NotFinal(d) : h \in Bucket(d) /\ (h > pub \/ ~(h < at))
  BY DEF NotFinal, HoldsSnapshot, StoredAs
<1>3. ASSUME NEW first \in Int, NEW count \in Nat, end - count <= first,
             \A h \in NotFinal(d) : first <= h
      PROVE  Cardinality(NotFinal(d)) <= count
  <2>1. NotFinal(d) \in SUBSET (first .. end - 1)
    BY <1>1, <1>2, <1>3
  <2>2. /\ IsFiniteSet(first .. end - 1)
        /\ Cardinality(first .. end - 1) = IF first > end - 1 THEN 0 ELSE end - 1 - first + 1
    <3>1. end - 1 \in Int
      BY <1>1
    <3> QED
      BY <3>1, FS_Interval
  <2>3. Cardinality(first .. end - 1) <= count
    BY <1>1, <1>3, <2>2
  <2>4. /\ Cardinality(NotFinal(d)) <= Cardinality(first .. end - 1)
        /\ Cardinality(NotFinal(d)) \in Nat /\ Cardinality(first .. end - 1) \in Nat
    BY <2>1, <2>2, FS_Subset, FS_CardinalityType
  <2> QED
    BY <2>3, <2>4
<1>4. ASSUME end <= at, end - 1 - MaxLag <= pub PROVE Cardinality(NotFinal(d)) <= MaxLag
  <2>1. \A h \in NotFinal(d) : pub + 1 <= h
    BY <1>1, <1>2, <1>4
  <2> QED
    BY <1>1, <1>3, <1>4, <2>1
<1>5. ASSUME d * DayLen + Enough - 1 <= pub
      PROVE  Cardinality(NotFinal(d)) <= DayLen - Enough + 1
  <2>1. \A h \in NotFinal(d) : pub <= h
    BY <1>1, <1>2
  <2>2. DayLen - Enough + 1 \in Nat /\ end - (DayLen - Enough + 1) <= pub
    BY <1>1, <1>5
  <2> QED
    BY <1>3, <2>1, <2>2
<1> QED
  BY <1>4, <1>5 DEF end

(* A finished import leaves at most the forgiven bars and one half formed  *)
(* of a past day, whatever was imported before, for any length of a day,   *)
(* any shift of the two kinds of day below the least coverage and any lag  *)
(* of the venue that a day can make up for.                                *)
THEOREM ImportFreezesLittle == ImportSpec => []FreezeIsBounded
<1>1. VenueInit /\ ImportInit => ImportInv
  BY ImportInitInv
<1>2. ImportInv /\ [ImportNext]_importVars => ImportInv'
  BY ImportStepKeepsInv
<1>3. ImportInv => FreezeIsBounded
  <2> SUFFICES ASSUME ImportInv, stage = "end", NEW d \in Imported
               PROVE  Cardinality(NotFinal(d))
                         <= IF skipExisting THEN DayLen - Enough + 1 ELSE MaxLag
    BY DEF FreezeIsBounded
  <2>1. /\ d \in firstDay .. day - 1 /\ d \in Nat /\ (d + 1) * DayLen <= began
        /\ d \notin emptyDays /\ began \in 0 .. hour /\ hour \in 0 .. MaxHour
        /\ published \in -1 .. hour
    BY DEF Imported, ImportInv, ExtentOK, VenueInv
  <2>2. PICK pub \in -1 .. published, at \in 0 .. hour :
          /\ pub <= at /\ HoldsSnapshot(d, pub, at)
          /\ \/ (d + 1) * DayLen <= at /\ (d + 1) * DayLen - 1 - MaxLag <= pub
             \/ skipExisting /\ d * DayLen + Enough - 1 <= pub
    BY <2>1 DEF ImportInv, GoneOverWell, IsFrozenWell
  <2>3. Bucket(d) \subseteq 0 .. MaxHour
    <3>1. /\ Bucket(d) = d * DayLen .. (d + 1) * DayLen - 1
          /\ d * DayLen \in Int /\ (d + 1) * DayLen \in Int
      BY <2>1, BucketBounds, LengthIsPositive
    <3>2. 0 <= d * DayLen
      BY <2>1, LengthIsPositive
    <3> QED
      BY <2>1, <3>1, <3>2, LengthIsPositive
  <2>4. /\ (d + 1) * DayLen <= at /\ (d + 1) * DayLen - 1 - MaxLag <= pub
           => Cardinality(NotFinal(d)) <= MaxLag
        /\ d * DayLen + Enough - 1 <= pub => Cardinality(NotFinal(d)) <= DayLen - Enough + 1
    BY <2>1, <2>2, <2>3, FewAreNotFinal
  <2>5. Cardinality(NotFinal(d)) \in Nat
    <3>1. IsFiniteSet(Bucket(d)) /\ NotFinal(d) \in SUBSET Bucket(d)
      <4>1. d * DayLen \in Int /\ (d + 1) * DayLen - 1 \in Int
        BY <2>1, BucketBounds, LengthIsPositive
      <4> QED
        BY <2>1, <4>1, BucketBounds, FS_Interval DEF NotFinal
    <3> QED
      BY <3>1, FS_Subset, FS_CardinalityType
  <2> QED
    BY <2>2, <2>4, <2>5, ImportConstants, LengthIsPositive
<1> QED
  BY <1>1, <1>2, <1>3, PTL DEF ImportSpec
=============================================================================
