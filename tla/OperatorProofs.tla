--------------------------- MODULE OperatorProofs ---------------------------
(***************************************************************************)
(* Theorems about what the operator relies on, for every value of the      *)
(* constants: the hourly run's ping and heartbeat rows (AutoTrader), the   *)
(* self-check (Preflight), the trade commands (Commands), and the pages of *)
(* src/viz/app.py, the live tab of LiveTab and the chart and backtest tabs *)
(* of Dashboard.                                                           *)
(***************************************************************************)
EXTENDS AutoTrader, Preflight, Commands, LiveTab, Dashboard, Arithmetic,
        FiniteSetTheorems, SequenceTheorems

(***************************************************************************)
(* The hourly run.  The ping is the last thing a run does, so what it      *)
(* promises has to hold all through the run: while no problem has been     *)
(* met, every book that may be traded has been tended this hour or is      *)
(* still to come, and no row of the hour says stale or halted.             *)
(***************************************************************************)
RowType == [stale : BOOLEAN, halted : BOOLEAN, counts : BooksListed \cup {Unread}]

TraderTypes ==
    /\ cap \in Nat \ {0} /\ entry \in [BooksListed -> Nat \cup {Omitted, Malformed}]
    /\ clock \in Nat \ {0} /\ pinged \in 0 .. clock
    /\ tended \in [BooksListed -> Nat]
    /\ due \in BOOLEAN /\ running \in BOOLEAN /\ problems \in BOOLEAN
    /\ toRun \in SUBSET DOMAIN Listed
    /\ row \in [BooksListed -> RowType]
    /\ sync \in [line : RowType, replayed : BOOLEAN, over : BOOLEAN]

Bad(line) == line.stale \/ line.halted

(* The row in the making is the one of the book in turn, and a bad one is  *)
(* a problem.                                                              *)
SyncIsInTurn ==
    \/ sync = Unknown
    \/ /\ running /\ toRun # {} /\ sync.over
       /\ sync.line.counts \in {Unread, InTurn}
       /\ Bad(sync.line) => problems

RowsAreOwn == \A b \in BooksListed : row[b].counts \in {Unread, b}

NoBadRow == \A b \in BooksListed : ~Bad(row[b])

(* Between two runs there is nothing left over; an hour not yet run has no *)
(* row and no ping.                                                        *)
HoursAreApart ==
    /\ ~running => toRun = {} /\ sync = Unknown /\ ~problems
    /\ due => ~running /\ pinged < clock /\ \A b \in BooksListed : row[b] = NoRow
    /\ running => pinged < clock
    /\ (running /\ ~problems) \/ pinged = clock => NoBadRow

(* The book is still to be gone over by this run.                          *)
ToCome(b) == \E i \in toRun : Listed[i] = b /\ ~(sync.over /\ i = Place)

TendedOrToCome ==
    running /\ ~problems =>
        \A b \in BooksListed : Authorised(b) => tended[b] = clock \/ ToCome(b)

TraderInv ==
    /\ TraderTypes /\ SyncIsInTurn /\ RowsAreOwn /\ HoursAreApart
    /\ SilenceCoversNeglect /\ TendedOrToCome

LEMMA ListedFacts ==
    /\ DOMAIN Listed \subseteq Nat
    /\ \A i \in DOMAIN Listed : Listed[i] \in BooksListed /\ Listed[i] \in Nat \ {0}
    /\ \A b \in BooksListed : \E i \in DOMAIN Listed : Listed[i] = b
  BY AutoTraderAssumption DEF BooksListed

(* A book above the cap may not be traded.                                 *)
LEMMA AboveTheCap ==
    ASSUME TraderInv, NEW b \in BooksListed, BookSlots(b) > cap
    PROVE  ~Authorised(b)
<1>1. Parsed(b) => BookSlots(b) \in Nat
  BY AutoTraderAssumption DEF Parsed, BookSlots, TraderInv, TraderTypes
<1> QED
  BY <1>1 DEF Authorised, TraderInv, TraderTypes

(* The book in turn is a listed one, and nothing is known of it until it   *)
(* is gone over.                                                           *)
LEMMA InTurnFacts ==
    ASSUME TraderInv, toRun # {}
    PROVE  /\ Place \in toRun /\ InTurn \in BooksListed
           /\ ~sync.over => sync = Unknown
<1>1. toRun \in SUBSET Nat
  BY ListedFacts DEF TraderInv, TraderTypes
<1>2. Place \in toRun
  BY <1>1, MinIsLeast DEF Place
<1> QED
  BY <1>2, ListedFacts DEF TraderInv, TraderTypes, SyncIsInTurn, InTurn

LEMMA RowTypes == NoRow \in RowType /\ Unknown.line = NoRow /\ ~Bad(NoRow) /\ ~Unknown.over
  BY DEF NoRow, RowType, Unknown, Unread, Bad

LEMMA TraderInitInv == TraderInit => TraderInv
<1> SUFFICES ASSUME TraderInit PROVE TraderInv
  OBVIOUS
<1> USE DEF TraderInit
<1>1. TraderTypes
  <2>1. row \in [BooksListed -> RowType]
    BY RowTypes
  <2>2. sync \in [line : RowType, replayed : BOOLEAN, over : BOOLEAN]
    BY RowTypes DEF Unknown
  <2>3. clock \in Nat \ {0} /\ pinged \in 0 .. clock /\ tended \in [BooksListed -> Nat]
    OBVIOUS
  <2>4. toRun \in SUBSET DOMAIN Listed
    OBVIOUS
  <2>5. cap \in Nat \ {0} /\ entry \in [BooksListed -> Nat \cup {Omitted, Malformed}]
    BY AutoTraderAssumption
  <2> QED
    BY <2>1, <2>2, <2>3, <2>4, <2>5 DEF TraderTypes
<1>2. RowsAreOwn /\ HoursAreApart
  BY RowTypes DEF RowsAreOwn, HoursAreApart, NoBadRow, NoRow
<1>3. SilenceCoversNeglect /\ SyncIsInTurn /\ TendedOrToCome
  BY DEF SilenceCoversNeglect, SyncIsInTurn, TendedOrToCome
<1> QED
  BY <1>1, <1>2, <1>3 DEF TraderInv

(* Between runs: the environment changes, the hour passes, a run starts.   *)
LEMMA EditKeepsInv == TraderInv /\ EditEnvironment => TraderInv'
<1> SUFFICES ASSUME TraderInv, EditEnvironment PROVE TraderInv'
  OBVIOUS
<1> USE DEF EditEnvironment, TraderInv, TraderTypes, loop
<1>1. TraderTypes'
  <2>1. cap' \in Nat \ {0}
    BY AutoTraderAssumption
  <2>2. entry' \in [BooksListed -> Nat \cup {Omitted, Malformed}]
    BY AutoTraderAssumption
  <2>3. tended' \in [BooksListed -> Nat]
    OBVIOUS
  <2> QED
    BY <2>1, <2>2, <2>3
<1>2. SyncIsInTurn'
  BY DEF SyncIsInTurn, HoursAreApart
<1>3. RowsAreOwn' /\ HoursAreApart'
  BY DEF RowsAreOwn, HoursAreApart, NoBadRow
<1>4. SilenceCoversNeglect'
  <2> SUFFICES ASSUME NEW b \in BooksListed, Authorised(b)' PROVE pinged' <= tended'[b]
    BY DEF SilenceCoversNeglect
  <2>1. CASE Authorised(b)
    BY <2>1 DEF SilenceCoversNeglect
  <2>2. CASE ~Authorised(b)
    BY <2>2
  <2> QED
    BY <2>1, <2>2
<1>5. TendedOrToCome'
  BY DEF TendedOrToCome
<1> QED
  BY <1>1, <1>2, <1>3, <1>4, <1>5

LEMMA SameAuthority ==
    ASSUME UNCHANGED config
    PROVE  \A b \in BooksListed : Authorised(b)' = Authorised(b)
  BY DEF config, Authorised, Parsed, BookSlots

LEMMA NextHourKeepsInv == TraderInv /\ NextHour => TraderInv'
<1> SUFFICES ASSUME TraderInv, NextHour PROVE TraderInv'
  OBVIOUS
<1> USE DEF NextHour, TraderInv, TraderTypes, loop
<1>1. TraderTypes'
  BY RowTypes DEF config
<1>2. SyncIsInTurn'
  BY DEF SyncIsInTurn, HoursAreApart
<1>3. RowsAreOwn' /\ HoursAreApart'
  BY RowTypes DEF RowsAreOwn, HoursAreApart, NoBadRow, NoRow
<1>4. SilenceCoversNeglect'
  <2> SUFFICES ASSUME NEW b \in BooksListed, Authorised(b)' PROVE pinged' <= tended'[b]
    BY DEF SilenceCoversNeglect
  <2>1. Authorised(b)
    BY SameAuthority
  <2> QED
    BY <2>1 DEF SilenceCoversNeglect
<1>5. TendedOrToCome'
  BY DEF TendedOrToCome
<1> QED
  BY <1>1, <1>2, <1>3, <1>4, <1>5

LEMMA StartRunKeepsInv == TraderInv /\ StartRun => TraderInv'
<1> SUFFICES ASSUME TraderInv, StartRun PROVE TraderInv'
  OBVIOUS
<1> USE DEF StartRun, TraderInv, TraderTypes
<1>1. TraderTypes'
  BY DEF Books, config
<1>2. sync = Unknown /\ ~problems /\ toRun = {} /\ pinged < clock
  BY DEF HoursAreApart
<1>3. SyncIsInTurn' /\ RowsAreOwn'
  BY <1>2 DEF SyncIsInTurn, RowsAreOwn
<1>4. HoursAreApart'
  BY <1>2, RowTypes DEF HoursAreApart, NoBadRow
<1>5. SilenceCoversNeglect'
  BY SameAuthority DEF SilenceCoversNeglect
<1>6. TendedOrToCome'
  <2> SUFFICES ASSUME NEW b \in BooksListed, Authorised(b)' PROVE ToCome(b)'
    BY DEF TendedOrToCome
  <2>1. Parsed(b)
    BY SameAuthority DEF Authorised
  <2>2. PICK i \in DOMAIN Listed : Listed[i] = b
    BY ListedFacts
  <2>3. i \in toRun' /\ ~sync'.over
    BY <1>2, <2>1, <2>2, RowTypes DEF Books
  <2> QED
    BY <2>2, <2>3 DEF ToCome
<1> QED
  BY <1>1, <1>3, <1>4, <1>5, <1>6

(* A book's turn comes to its end.  The row it leaves is of its own        *)
(* counts, a problem is remembered, and a book that may be traded counts   *)
(* as gone over only when it was tended or the run has a problem.          *)
LEMMA TurnKeepsInv ==
    ASSUME TraderInv, AtBook(InTurn), NEW problem \in BOOLEAN,
           NEW known \in [line : RowType, replayed : BOOLEAN, over : BOOLEAN],
           BookDone(problem, known),
           known.line.counts \in {Unread, InTurn}, Bad(known.line) => problem,
           \/ tended' = tended
           \/ tended' = [tended EXCEPT ![InTurn] = clock],
           Authorised(InTurn) => problem \/ tended'[InTurn] = clock
    PROVE  TraderInv'
<1> USE DEF AtBook, BookDone, TraderInv, TraderTypes
<1>1. Place \in toRun /\ InTurn \in BooksListed /\ Place' = Place /\ InTurn' = InTurn
  BY InTurnFacts DEF Place, InTurn
<1>2. sync' \in [line : RowType, replayed : BOOLEAN, over : BOOLEAN]
      /\ sync'.line = known.line /\ sync'.over
  OBVIOUS
<1>3. TraderTypes'
  BY <1>1, <1>2 DEF config
<1>4. SyncIsInTurn'
  BY <1>1, <1>2 DEF SyncIsInTurn, Bad
<1>5. RowsAreOwn' /\ HoursAreApart'
  BY DEF RowsAreOwn, HoursAreApart, NoBadRow
<1>6. \A b \in BooksListed : Authorised(b)' = Authorised(b)
  BY SameAuthority
<1>7. \A b \in BooksListed : tended'[b] \in {tended[b], clock} /\ (b # InTurn => tended'[b] = tended[b])
  BY <1>1
<1>8. SilenceCoversNeglect'
  BY <1>6, <1>7 DEF SilenceCoversNeglect
<1>9. TendedOrToCome'
  <2> SUFFICES ASSUME running, ~problems, ~problem, NEW b \in BooksListed, Authorised(b)
               PROVE  tended'[b] = clock \/ ToCome(b)'
    BY <1>6 DEF TendedOrToCome
  <2>1. CASE b = InTurn
    BY <2>1
  <2>2. CASE b # InTurn /\ tended[b] = clock
    BY <2>2, <1>7
  <2>3. CASE b # InTurn /\ ToCome(b)
    <3>1. PICK i \in toRun : Listed[i] = b
      BY <2>3 DEF ToCome
    <3>2. i # Place
      BY <2>3, <3>1 DEF InTurn
    <3> QED
      BY <1>1, <3>1, <3>2 DEF ToCome
  <2> QED
    BY <2>1, <2>2, <2>3 DEF TendedOrToCome
<1> QED
  BY <1>3, <1>4, <1>5, <1>8, <1>9

Containing ==
    ReplayFails \/ SkipStale \/ ReportOnly \/ Reconcile

(* What the turn of a book may end with.                                   *)
LEMMA KnownIsTyped ==
    ASSUME TraderInv, toRun # {}, ~sync.over
    PROVE  LET Typed(known) ==
                 /\ known \in [line : RowType, replayed : BOOLEAN, over : BOOLEAN]
                 /\ known.line.counts \in {Unread, InTurn}
           IN  /\ Typed(sync) /\ ~Bad(sync.line)
               /\ Typed(ReplayDone) /\ ~Bad(ReplayDone.line)
               /\ Typed([ReplayDone EXCEPT !.line.stale = TRUE])
               /\ Typed(WithCounts(InTurn)) /\ ~Bad(WithCounts(InTurn).line)
               /\ \A halted \in BOOLEAN :
                    LET known == [WithCounts(InTurn) EXCEPT !.line.halted = halted]
                    IN  Typed(known) /\ Bad(known.line) = halted
<1>1. sync = Unknown /\ InTurn \in BooksListed
  BY InTurnFacts
<1> QED
  BY <1>1 DEF Unknown, NoRow, RowType, ReplayDone, WithCounts, Bad, Unread

LEMMA TurnsKeepInv == TraderInv /\ Containing => TraderInv'
<1> SUFFICES ASSUME TraderInv, Containing PROVE TraderInv'
  OBVIOUS
<1>1. toRun # {} /\ ~sync.over /\ AtBook(InTurn) /\ InTurn \in BooksListed
  <2>1. \E b \in BooksListed : AtBook(b)
    BY DEF Containing, ReplayFails, SkipStale, ReportOnly, Reconcile
  <2> QED
    BY <2>1 DEF AtBook
<1>2. Authorised(InTurn) => live /\ trades /\ BookSlots(InTurn) <= cap
  BY DEF Authorised
<1>3. CASE ReplayFails
  BY <1>1, <1>3, KnownIsTyped, TurnKeepsInv DEF ReplayFails
<1>4. CASE SkipStale
  BY <1>1, <1>4, KnownIsTyped, TurnKeepsInv DEF SkipStale
<1>5. CASE ReportOnly
  <2>1. PICK raises \in BOOLEAN :
          /\ ~live \/ BookSlots(InTurn) > cap
          /\ BookDone(raises, IF live /\ ~raises THEN WithCounts(InTurn) ELSE ReplayDone)
    BY <1>5 DEF ReportOnly, AtBook
  <2>2. ~Authorised(InTurn) /\ tended' = tended
    BY <1>1, <1>2, <1>5, <2>1, AboveTheCap DEF ReportOnly
  <2>3. CASE live /\ ~raises
    <3>1. BookDone(raises, WithCounts(InTurn))
      BY <2>1, <2>3
    <3> QED
      BY <1>1, <2>2, <3>1, KnownIsTyped, TurnKeepsInv
  <2>4. CASE ~(live /\ ~raises)
    <3>1. BookDone(raises, ReplayDone)
      BY <2>1, <2>4
    <3> QED
      BY <1>1, <2>2, <3>1, KnownIsTyped, TurnKeepsInv
  <2> QED
    BY <2>3, <2>4
<1>6. CASE Reconcile
  <2>1. PICK ends \in {"done", "halted", "raised"} :
          /\ \/ BookDone(ends # "done", [WithCounts(InTurn) EXCEPT !.line.halted = (ends = "halted")])
             \/ ends = "raised" /\ BookDone(TRUE, ReplayDone)
          /\ tended' = IF trades /\ ends = "done" THEN [tended EXCEPT ![InTurn] = clock] ELSE tended
    BY <1>6 DEF Reconcile, AtBook
  <2>2. Authorised(InTurn) => ends # "done" \/ tended'[InTurn] = clock
    BY <1>1, <1>2, <2>1 DEF TraderInv, TraderTypes
  <2>3. tended' = tended \/ tended' = [tended EXCEPT ![InTurn] = clock]
    BY <2>1
  <2>4. CASE BookDone(ends # "done", [WithCounts(InTurn) EXCEPT !.line.halted = (ends = "halted")])
    <3> DEFINE halted == ends = "halted"
               known == [WithCounts(InTurn) EXCEPT !.line.halted = halted]
    <3>1. halted \in BOOLEAN
      OBVIOUS
    <3>2. /\ known \in [line : RowType, replayed : BOOLEAN, over : BOOLEAN]
          /\ known.line.counts \in {Unread, InTurn} /\ Bad(known.line) = halted
      BY <1>1, <3>1, KnownIsTyped
    <3>3. BookDone(ends # "done", known)
      BY <2>4
    <3> HIDE DEF known
    <3>4. Bad(known.line) => ends # "done"
      BY <3>2
    <3> QED
      BY <1>1, <2>2, <2>3, <3>2, <3>3, <3>4, TurnKeepsInv
  <2>5. CASE ends = "raised" /\ BookDone(TRUE, ReplayDone)
    BY <1>1, <2>2, <2>3, <2>5, KnownIsTyped, TurnKeepsInv
  <2> QED
    BY <2>1, <2>4, <2>5
<1> QED
  BY <1>3, <1>4, <1>5, <1>6 DEF Containing

(* The row is written, or its write fails, and the next book has its turn. *)
LEMMA LeaveBookKeepsInv == TraderInv /\ LeaveBook => TraderInv'
<1> SUFFICES ASSUME TraderInv, LeaveBook PROVE TraderInv'
  OBVIOUS
<1>1. /\ running /\ sync.over /\ toRun' = toRun \ {Place} /\ sync' = Unknown
      /\ row' = row \/ row' = [row EXCEPT ![InTurn] = sync.line]
      /\ UNCHANGED <<config, clock, due, problems, running, tended, pinged>>
  BY DEF LeaveBook, NextSync
<1>2. /\ toRun # {} /\ sync.line.counts \in {Unread, InTurn}
      /\ Bad(sync.line) => problems
  BY <1>1, RowTypes DEF TraderInv, SyncIsInTurn
<1>3. Place \in toRun /\ InTurn \in BooksListed
  BY <1>2, InTurnFacts
<1>4. \A b \in BooksListed : row'[b] = row[b] \/ (b = InTurn /\ row'[b] = sync.line)
  BY <1>1, <1>3 DEF TraderInv, TraderTypes
<1>5. TraderTypes'
  <2>1. row' \in [BooksListed -> RowType]
    BY <1>1, <1>3 DEF TraderInv, TraderTypes
  <2>2. sync' \in [line : RowType, replayed : BOOLEAN, over : BOOLEAN]
    BY <1>1, RowTypes DEF Unknown
  <2> QED
    BY <1>1, <2>1, <2>2 DEF TraderInv, TraderTypes, config
<1>6. SyncIsInTurn'
  BY <1>1 DEF SyncIsInTurn
<1>7. RowsAreOwn'
  BY <1>2, <1>4 DEF TraderInv, RowsAreOwn
<1>8. HoursAreApart'
  BY <1>1, <1>2, <1>4 DEF TraderInv, TraderTypes, HoursAreApart, NoBadRow
<1>9. SilenceCoversNeglect'
  BY <1>1, SameAuthority DEF TraderInv, SilenceCoversNeglect
<1>10. TendedOrToCome'
  <2> SUFFICES ASSUME running, ~problems, NEW b \in BooksListed, Authorised(b), ToCome(b)
               PROVE  ToCome(b)'
    BY <1>1, SameAuthority DEF TraderInv, TendedOrToCome
  <2>1. PICK i \in toRun : Listed[i] = b /\ i # Place
    BY <1>1 DEF ToCome
  <2> QED
    BY <1>1, <2>1, RowTypes DEF ToCome
<1> QED
  BY <1>5, <1>6, <1>7, <1>8, <1>9, <1>10 DEF TraderInv

(* The run ends: with the ping, when every book has been gone over and     *)
(* none was a problem, or killed at any time.                              *)
LEMMA EndOfRunKeepsInv == TraderInv /\ (FinishRun \/ RunDies) => TraderInv'
<1> SUFFICES ASSUME TraderInv, FinishRun \/ RunDies PROVE TraderInv'
  OBVIOUS
<1>1. /\ running /\ ~running' /\ ~problems' /\ toRun' = {} /\ sync' = Unknown
      /\ UNCHANGED <<config, clock, due, row, tended>>
  BY RowTypes DEF TraderInv, SyncIsInTurn, FinishRun, RunDies
<1>2. \/ pinged' = pinged
      \/ pinged' = clock /\ toRun = {} /\ ~problems
  BY DEF FinishRun, RunDies, Pinged
<1>3. TraderTypes'
  <2>1. sync' \in [line : RowType, replayed : BOOLEAN, over : BOOLEAN]
    BY <1>1, RowTypes DEF Unknown
  <2>2. running' \in BOOLEAN /\ problems' \in BOOLEAN
    BY DEF FinishRun, RunDies
  <2> QED
    BY <1>1, <1>2, <2>1, <2>2 DEF TraderInv, TraderTypes, config
<1>4. SyncIsInTurn' /\ RowsAreOwn' /\ TendedOrToCome'
  BY <1>1 DEF TraderInv, SyncIsInTurn, RowsAreOwn, TendedOrToCome
<1>5. HoursAreApart'
  <2>1. pinged' = clock => NoBadRow
    BY <1>1, <1>2 DEF TraderInv, HoursAreApart
  <2>2. ~due
    BY <1>1 DEF TraderInv, HoursAreApart
  <2> QED
    BY <1>1, <2>1, <2>2 DEF HoursAreApart, NoBadRow
<1>6. SilenceCoversNeglect'
  <2> SUFFICES ASSUME NEW b \in BooksListed, Authorised(b) PROVE pinged' <= tended[b]
    BY <1>1, SameAuthority DEF SilenceCoversNeglect
  <2>1. CASE pinged' = pinged
    BY <2>1 DEF TraderInv, SilenceCoversNeglect
  <2>2. CASE pinged' = clock /\ toRun = {} /\ ~problems
    BY <1>1, <2>2 DEF TraderInv, TraderTypes, TendedOrToCome, ToCome
  <2> QED
    BY <1>2, <2>1, <2>2
<1> QED
  BY <1>3, <1>4, <1>5, <1>6 DEF TraderInv

LEMMA TraderStepKeepsInv == TraderInv /\ [TraderNext]_traderVars => TraderInv'
<1> SUFFICES ASSUME TraderInv, [TraderNext]_traderVars PROVE TraderInv'
  OBVIOUS
<1>1. CASE UNCHANGED traderVars
  <2>1. /\ UNCHANGED <<config, clock, due, toRun, problems, running, sync, row, tended, pinged>>
        /\ Place' = Place /\ InTurn' = InTurn
    BY <1>1 DEF traderVars, loop, Place, InTurn
  <2>2. TraderTypes' /\ SyncIsInTurn' /\ RowsAreOwn' /\ HoursAreApart'
    BY <2>1 DEF TraderInv, TraderTypes, config, SyncIsInTurn, RowsAreOwn, HoursAreApart, NoBadRow
  <2>3. SilenceCoversNeglect' /\ TendedOrToCome'
    BY <2>1, SameAuthority DEF TraderInv, SilenceCoversNeglect, TendedOrToCome, ToCome
  <2> QED
    BY <2>2, <2>3 DEF TraderInv
<1> QED
  BY <1>1, EditKeepsInv, NextHourKeepsInv, StartRunKeepsInv, TurnsKeepInv, LeaveBookKeepsInv,
     EndOfRunKeepsInv DEF TraderNext, Containing

LEMMA TraderSafe == TraderSpec => []TraderInv
  BY TraderInitInv, TraderStepKeepsInv, PTL DEF TraderSpec

(* The monitor is silent for at least as long as any book the process may  *)
(* trade goes unmanaged, no ping covers up a stale or halted book, and no  *)
(* row shows another book's counts: for every list of books, every cap and *)
(* every history of edits, failures and crashes.                           *)
THEOREM TheOperatorIsTold == TraderSpec => []OperatorIsTold
<1>1. TraderInv => OperatorIsTold
  <2> SUFFICES ASSUME TraderInv PROVE RowsTellTheTruth
    BY DEF OperatorIsTold, TraderInv
  <2> QED
    BY DEF TraderInv, RowsAreOwn, HoursAreApart, NoBadRow, Bad, RowsTellTheTruth
<1> QED
  BY <1>1, TraderSafe, PTL

(* A book of AUTO_BOOKS is traded with the slots of its entry or with one. *)
THEOREM SizesAreWrittenDown == TraderSpec => SizeIsNeverTheDefault
<1> DEFINE Sizes == DOMAIN sized = BooksListed
           Step == \A b \in BooksListed : sized'[b] # sized[b] => unset \/ sized'[b] \in {1, entry[b]}
<1>1. TraderInit => Sizes
  BY DEF TraderInit
<1>2. Sizes /\ [TraderNext]_traderVars => Sizes'
  BY DEF traderVars, TraderNext, EditEnvironment, NextHour, StartRun, ReplayFails, SkipStale,
         ReportOnly, Reconcile, LeaveBook, FinishRun, RunDies
<1>3. Sizes /\ TraderInv /\ [TraderNext]_traderVars => [Step]_traderVars
  <2> SUFFICES ASSUME Sizes, TraderInv, [TraderNext]_traderVars, NEW b \in BooksListed, sized'[b] # sized[b],
                      ~unset
               PROVE  sized'[b] \in {1, entry[b]}
    BY DEF Step
  <2>1. Reconcile
    BY DEF traderVars, TraderNext, EditEnvironment, NextHour, StartRun, ReplayFails, SkipStale,
           ReportOnly, LeaveBook, FinishRun, RunDies
  <2>2. sized'[b] = BookSlots(b) /\ BookSlots(b) <= cap
    BY <2>1 DEF Reconcile
  <2>3. CASE entry[b] = Omitted /\ cap > 1
    BY <2>2, <2>3 DEF BookSlots
  <2>4. CASE entry[b] = Omitted /\ ~(cap > 1)
    <3>1. BookSlots(b) = DefaultSlots
      BY <2>4 DEF BookSlots
    <3>2. DefaultSlots = 1
      BY <2>2, <2>4, <3>1, AutoTraderAssumption DEF TraderInv, TraderTypes
    <3> QED
      BY <2>2, <3>1, <3>2
  <2>5. CASE entry[b] # Omitted
    BY <2>2, <2>5 DEF BookSlots
  <2> QED
    BY <2>3, <2>4, <2>5
<1> QED
  BY <1>1, <1>2, <1>3, TraderSafe, PTL DEF TraderSpec, SizeIsNeverTheDefault

(***************************************************************************)
(* The self-check.  It looks at all books at full occupancy at once, the   *)
(* cycles at one book and at what is left of the margin: that what it saw  *)
(* is enough has to be carried along as the books fill and empty.          *)
(***************************************************************************)
FullSlots == [b \in Deployed |-> b.slots]

(* The deposit covers every book at full occupancy with the headroom.      *)
DepositSuffices ==
    deposit * Leverage * Headroom[2] >= AllNotional(FullSlots) * Headroom[1]

PreflightInv ==
    /\ priceOf \in PriceTables /\ deposit \in Nat
    /\ occupied \in [Deployed -> Nat] /\ \A b \in Deployed : occupied[b] <= b.slots
    /\ green \in BOOLEAN
    /\ green => DepositSuffices /\ \A b \in Deployed :
                    WithinCap(b) /\ lotAt[b.symbol] = OurLots[b.symbol]

(* What a slot of a book takes.                                            *)
LEMMA SlotFacts ==
    ASSUME priceOf \in PriceTables, NEW b \in Deployed
    PROVE  /\ Notional(b, 1) \in Nat \ {0}
           /\ \A n \in Nat : Notional(b, n) = n * Notional(b, 1) /\ Notional(b, n) \in Nat
<1> DEFINE lot == OurLots[b.symbol]
           price == priceOf[b.symbol]
<1>1. lot \in Nat \ {0} /\ price \in Nat \ {0}
  BY PreflightAssumption
<1> HIDE DEF lot, price
<1>2. lot * price \in Nat \ {0}
  BY <1>1
<1>3. \A n \in Nat : n * lot * price = n * (lot * price) /\ n * (lot * price) \in Nat
  BY <1>1
<1>4. 1 * lot * price = lot * price
  BY <1>1
<1>5. \A n \in Nat : Notional(b, n) = n * lot * price
  BY DEF Notional, lot, price
<1> QED
  BY <1>2, <1>3, <1>4, <1>5

(* The more slots, the more they take.                                     *)
LEMMA NotionalGrows ==
    ASSUME priceOf \in PriceTables, NEW few \in [Deployed -> Nat], NEW many \in [Deployed -> Nat],
           \A b \in Deployed : few[b] <= many[b]
    PROVE  /\ AllNotional(few) \in Nat /\ AllNotional(many) \in Nat
           /\ \A b \in Deployed :
                (many[b] - few[b]) * Notional(b, 1) <= AllNotional(many) - AllNotional(few)
<1> DEFINE f == [b \in Deployed |-> Notional(b, few[b])]
           g == [b \in Deployed |-> Notional(b, many[b])]
<1>1. \A b \in Deployed : /\ f[b] = few[b] * Notional(b, 1) /\ f[b] \in Nat
                          /\ g[b] = many[b] * Notional(b, 1) /\ g[b] \in Nat
  BY SlotFacts
<1>2. \A b \in Deployed : /\ g[b] - f[b] = (many[b] - few[b]) * Notional(b, 1)
                          /\ f[b] <= g[b]
  <2>1. TAKE b \in Deployed
  <2> DEFINE one == Notional(b, 1)
             n == few[b]
             m == many[b]
  <2>2. one \in Nat /\ n \in Nat /\ m \in Nat /\ n <= m
    BY SlotFacts
  <2>3. f[b] = n * one /\ g[b] = m * one
    BY <1>1
  <2> HIDE DEF one, n, m, f, g
  <2>4. n * one <= m * one
    BY <2>2, ProductsAreOrdered
  <2>5. m * one - n * one = (m - n) * one
    BY <2>2
  <2>6. g[b] - f[b] = (m - n) * one /\ f[b] <= g[b]
    BY <2>3, <2>4, <2>5
  <2> QED
    BY <2>6 DEF one, n, m
<1>3. DOMAIN f = Deployed /\ DOMAIN g = Deployed
  OBVIOUS
<1>4. AllNotional(few) = SumFunctionOnSet(f, Deployed) /\ AllNotional(many) = SumFunctionOnSet(g, Deployed)
  BY DEF AllNotional, SumFunction
<1>5. f \in [Deployed -> Int] /\ g \in [Deployed -> Int] /\ \A b \in Deployed : f[b] >= 0
  BY <1>1
<1> HIDE DEF f, g
<1>6. IsFiniteSet(Deployed)
  BY PreflightAssumption
<1>7. /\ SumFunctionOnSet(f, Deployed) \in Int /\ SumFunctionOnSet(g, Deployed) \in Int
      /\ SumFunctionOnSet(f, Deployed) <= SumFunctionOnSet(g, Deployed)
      /\ \A b \in Deployed : g[b] - f[b] <= SumFunctionOnSet(g, Deployed) - SumFunctionOnSet(f, Deployed)
      /\ (\A x \in Deployed : f[x] >= 0) => SumFunctionOnSet(f, Deployed) >= 0
  BY <1>2, <1>5, <1>6, SumsCompare
<1> QED
  BY <1>2, <1>4, <1>5, <1>7

(* No more is granted than is free.                                        *)
LEMMA BudgetIsBounded ==
    ASSUME PreflightInv, NEW b \in Deployed, NEW free \in Nat, NEW readable \in BOOLEAN
    PROVE  EntryBudget(b, free, readable) \in Int /\ EntryBudget(b, free, readable) <= free
<1> DEFINE affordable == (Available * Headroom[2]) \div (Notional(b, 1) * Headroom[1])
           least == Min({free, affordable})
<1>1. affordable \in Int
  <2>1. Available * Headroom[2] \in Int
    <3>1. AllNotional(occupied) \in Nat
      BY NotionalGrows DEF PreflightInv
    <3>2. deposit \in Nat /\ Leverage \in Nat /\ Headroom[2] \in Nat
      BY PreflightAssumption DEF PreflightInv
    <3> QED
      BY <3>1, <3>2 DEF Available
  <2>2. Notional(b, 1) * Headroom[1] \in Nat \ {0}
    BY SlotFacts, PreflightAssumption DEF PreflightInv
  <2> QED
    BY <2>1, <2>2, DivisionFacts
<1> HIDE DEF affordable
<1>2. least \in Int /\ least <= free
  BY <1>1, MinOfTwo
<1> HIDE DEF least
<1>3. Max({0, least}) \in Int /\ Max({0, least}) <= free
  BY <1>2, MaxOfTwo
<1> QED
  BY <1>3 DEF EntryBudget, affordable, least

(* While the deposit suffices, what is left of it suffices for every free  *)
(* slot of a book.                                                         *)
LEMMA EveryFreeSlotIsGranted ==
    ASSUME PreflightInv, DepositSuffices, NEW b \in Deployed, ~RatioTooLow
    PROVE  EntryBudget(b, b.slots - occupied[b], TRUE) = b.slots - occupied[b]
<1> DEFINE free == b.slots - occupied[b]
           one == Notional(b, 1)
           all == AllNotional(FullSlots)
           lots == AllNotional(occupied)
           money == deposit * Leverage
           left == money - lots
           h1 == Headroom[1]
           h2 == Headroom[2]
           affordable == (left * h2) \div (one * h1)
<1>1. free \in Nat
  <2>1. b.slots \in Nat /\ occupied[b] \in Nat /\ occupied[b] <= b.slots
    BY PreflightAssumption DEF PreflightInv
  <2> QED
    BY <2>1
<1>2. one \in Nat \ {0}
  BY SlotFacts DEF PreflightInv
<1>3. h1 \in Nat \ {0} /\ h2 \in Nat \ {0} /\ h2 <= h1 /\ money \in Nat
  <2>1. deposit \in Nat /\ Leverage \in Nat
    BY PreflightAssumption DEF PreflightInv
  <2> QED
    BY <2>1, PreflightAssumption
<1>4. all \in Nat /\ lots \in Nat /\ free * one <= all - lots
  <2>1. FullSlots \in [Deployed -> Nat] /\ \A x \in Deployed : occupied[x] <= FullSlots[x]
    BY PreflightAssumption DEF FullSlots, PreflightInv
  <2>2. FullSlots[b] = b.slots
    BY DEF FullSlots
  <2> QED
    BY <2>1, <2>2, NotionalGrows DEF PreflightInv
<1>5. money * h2 >= all * h1
  BY DEF DepositSuffices
<1> HIDE DEF free, one, all, lots, money, h1, h2
<1>6. left * h2 = money * h2 - lots * h2
  BY <1>3, <1>4
<1>7. lots * h2 <= lots * h1
  <2>1. h2 * lots <= h1 * lots
    BY <1>3, <1>4, ProductsAreOrdered
  <2> QED
    BY <1>3, <1>4, <2>1
<1>8. (free * one) * h1 <= (all - lots) * h1
  <2>1. free * one \in Int /\ all - lots \in Int /\ h1 \in Nat
    BY <1>1, <1>2, <1>3, <1>4
  <2> QED
    BY <2>1, <1>4, ProductsAreOrdered
<1>9. (all - lots) * h1 = all * h1 - lots * h1
  BY <1>3, <1>4
<1>10. /\ money * h2 \in Int /\ lots * h2 \in Int /\ lots * h1 \in Int /\ all * h1 \in Int
       /\ (free * one) * h1 \in Int
  BY <1>1, <1>2, <1>3, <1>4
<1>11. (free * one) * h1 <= left * h2
  BY <1>5, <1>6, <1>7, <1>8, <1>9, <1>10
<1>12. (free * one) * h1 = free * (one * h1)
  BY <1>1, <1>2, <1>3
<1>13. one * h1 \in Nat \ {0} /\ left * h2 \in Int
  BY <1>2, <1>3, <1>4
<1>14. affordable \in Int /\ free <= affordable
  <2> DEFINE a == left * h2
             d == one * h1
  <2>1. a \in Int /\ d \in Nat \ {0} /\ free * d <= a
    BY <1>11, <1>12, <1>13
  <2> HIDE DEF a, d
  <2>2. (a \div d) \in Int /\ (a \div d) * d <= a /\ a < (a \div d) * d + d
    BY <2>1, DivisionFacts
  <2> DEFINE q == a \div d
  <2>3. q \in Int /\ a < q * d + d
    BY <2>2
  <2>4. affordable = q
    BY DEF a, d
  <2> HIDE DEF q, affordable
  <2>5. CASE q + 1 <= free
    <3>1. (q + 1) * d <= free * d
      BY <1>1, <2>1, <2>3, <2>5, ProductsAreOrdered
    <3>2. (q + 1) * d = q * d + d /\ q * d \in Int /\ free * d \in Int
      BY <1>1, <2>1, <2>3
    <3> QED
      BY <2>1, <2>3, <3>1, <3>2
  <2>6. CASE free <= q
    BY <2>3, <2>4, <2>6
  <2> QED
    BY <1>1, <2>3, <2>5, <2>6
<1> HIDE DEF affordable
<1>15. Min({free, affordable}) = free
  BY <1>1, <1>14, MinOfTwo
<1>16. Max({0, free}) = free
  BY <1>1, MaxOfTwo
<1>17. EntryBudget(b, free, TRUE) = IF free = 0 THEN 0 ELSE Max({0, Min({free, affordable})})
  BY DEF EntryBudget, affordable, left, Available, money, lots, one, h1, h2
<1>18. EntryBudget(b, free, TRUE) = free
  BY <1>15, <1>16, <1>17
<1> QED
  BY <1>18 DEF free

LEMMA PreflightInitInv == PreflightInit => PreflightInv
<1> SUFFICES ASSUME PreflightInit PROVE PreflightInv
  OBVIOUS
<1>1. \A b \in Deployed : occupied[b] = 0 /\ b.slots \in Nat
  BY PreflightAssumption DEF PreflightInit
<1>2. occupied \in [Deployed -> Nat] /\ \A b \in Deployed : occupied[b] <= b.slots
  BY <1>1 DEF PreflightInit
<1>3. priceOf \in PriceTables /\ deposit \in Nat /\ green = FALSE
  BY PreflightAssumption DEF PreflightInit
<1> QED
  BY <1>2, <1>3 DEF PreflightInv

LEMMA PreflightStepInv == PreflightInv /\ [PreflightNext]_preflightVars => PreflightInv'
<1> SUFFICES ASSUME PreflightInv, [PreflightNext]_preflightVars PROVE PreflightInv'
  OBVIOUS
<1>1. CASE SelfCheck
  <2>1. PICK failed \in SUBSET Probes, useLive \in BOOLEAN :
           /\ green' = (( /\ failed \subseteq (IF useLive THEN {} ELSE {"private"})
                          /\ Drifted = {} /\ ExposureFits(useLive)) /\ useLive)
           /\ UNCHANGED <<lotAt, priceOf, deposit, notionalCap, occupied, moves>>
    BY <1>1 DEF SelfCheck
  <2>2. green' => Drifted = {} /\ (\A b \in Deployed : WithinCap(b)) /\ MarginSuffices
    BY <2>1 DEF ExposureFits
  <2>3. ASSUME MarginSuffices PROVE DepositSuffices
    <3> DEFINE all == AllNotional(FullSlots)
               lots == AllNotional(occupied)
               money == deposit * Leverage
               h1 == Headroom[1]
               h2 == Headroom[2]
    <3>1. lots \in Nat /\ all \in Nat
      <4>1. FullSlots \in [Deployed -> Nat]
        BY PreflightAssumption DEF FullSlots
      <4>2. \A b \in Deployed : occupied[b] <= FullSlots[b]
        BY DEF FullSlots, PreflightInv
      <4> QED
        BY <4>1, <4>2, NotionalGrows DEF PreflightInv
    <3>2. h1 \in Nat /\ h2 \in Nat /\ money \in Nat
      <4>1. deposit \in Nat /\ Leverage \in Nat
        BY PreflightAssumption DEF PreflightInv
      <4> QED
        BY <4>1, PreflightAssumption
    <3>3. (money - lots) * h2 >= all * h1
      BY <2>3 DEF MarginSuffices, Available, FullSlots
    <3> HIDE DEF all, lots, money, h1, h2
    <3>4. (money - lots) * h2 = money * h2 - lots * h2 /\ lots * h2 \in Nat /\ money * h2 \in Nat
          /\ all * h1 \in Nat
      BY <3>1, <3>2
    <3>5. money * h2 >= all * h1
      BY <3>3, <3>4
    <3> QED
      BY <3>5 DEF DepositSuffices, all, money, h1, h2
  <2>4. Drifted = {} => \A b \in Deployed : lotAt[b.symbol] = OurLots[b.symbol]
    BY PreflightAssumption DEF Drifted
  <2>5. (\A b \in Deployed : WithinCap(b)') <=> (\A b \in Deployed : WithinCap(b))
    BY <2>1 DEF WithinCap, Notional
  <2>6. DepositSuffices' <=> DepositSuffices
    BY <2>1 DEF DepositSuffices, AllNotional, Notional
  <2>7. (priceOf \in PriceTables /\ deposit \in Nat /\ occupied \in [Deployed -> Nat]
           /\ \A b \in Deployed : occupied[b] <= b.slots)'
    BY <2>1 DEF PreflightInv
  <2>8. green' \in BOOLEAN
    BY <2>1
  <2>9. green' => \A b \in Deployed : lotAt'[b.symbol] = OurLots[b.symbol]
    BY <2>1, <2>2, <2>4
  <2> QED
    BY <2>2, <2>3, <2>5, <2>6, <2>7, <2>8, <2>9 DEF PreflightInv
<1>2. CASE ThingsChange
  <2>1. green' = FALSE /\ occupied' = occupied
    BY <1>2 DEF ThingsChange
  <2>2. priceOf' \in PriceTables /\ deposit' \in Nat
    <3>1. \/ priceOf' \in PriceTables /\ deposit' \in Deposits
          \/ UNCHANGED <<priceOf, deposit>>
      BY <1>2 DEF ThingsChange
    <3> QED
      BY <3>1, PreflightAssumption DEF PreflightInv
  <2> QED
    BY <2>1, <2>2 DEF PreflightInv
<1>3. ASSUME NEW b \in Deployed, EnterBook(b) \/ ExitBook(b) PROVE PreflightInv'
  <2>1. UNCHANGED <<lotAt, priceOf, deposit, notionalCap, green, moves>>
    BY <1>3 DEF EnterBook, ExitBook
  <2>2. occupied' \in [Deployed -> Nat] /\ \A x \in Deployed : occupied'[x] <= x.slots
    <3>1. \A x \in Deployed : x.slots \in Nat /\ occupied[x] \in Nat /\ occupied[x] <= x.slots
      BY PreflightAssumption DEF PreflightInv
    <3>2. CASE EnterBook(b)
      <4>1. PICK readable \in BOOLEAN :
              \E n \in 1 .. EntryBudget(b, b.slots - occupied[b], readable) :
                occupied' = [occupied EXCEPT ![b] = @ + n]
        BY <3>2 DEF EnterBook
      <4> DEFINE free == b.slots - occupied[b]
                 budget == EntryBudget(b, free, readable)
      <4>2. PICK n \in 1 .. budget : occupied' = [occupied EXCEPT ![b] = @ + n]
        BY <4>1
      <4>3. free \in Nat
        BY <3>1
      <4>4. budget \in Int /\ budget <= free
        BY <4>3, BudgetIsBounded
      <4> HIDE DEF budget, free
      <4>5. n \in Nat /\ n <= free
        BY <4>2, <4>3, <4>4
      <4>6. occupied[b] + n \in Nat /\ occupied[b] + n <= b.slots
        BY <3>1, <4>5 DEF free
      <4> QED
        BY <3>1, <4>2, <4>6 DEF PreflightInv
    <3>3. CASE ExitBook(b)
      <4>1. occupied[b] > 0 /\ occupied' = [occupied EXCEPT ![b] = @ - 1]
        BY <3>3 DEF ExitBook
      <4>2. occupied[b] - 1 \in Nat /\ occupied[b] - 1 <= b.slots
        BY <3>1, <4>1
      <4> QED
        BY <3>1, <4>1, <4>2 DEF PreflightInv
    <3> QED
      BY <1>3, <3>2, <3>3
  <2>3. \A x \in Deployed : WithinCap(x)' <=> WithinCap(x)
    BY <2>1 DEF WithinCap, Notional
  <2>4. DepositSuffices' <=> DepositSuffices
    BY <2>1 DEF DepositSuffices, AllNotional, Notional
  <2> QED
    BY <2>1, <2>2, <2>3, <2>4 DEF PreflightInv
<1>4. CASE UNCHANGED preflightVars
  <2>1. UNCHANGED <<lotAt, priceOf, deposit, notionalCap, occupied, green>>
    BY <1>4 DEF preflightVars
  <2>2. \A x \in Deployed : WithinCap(x)' <=> WithinCap(x)
    BY <2>1 DEF WithinCap, Notional
  <2>3. DepositSuffices' <=> DepositSuffices
    BY <2>1 DEF DepositSuffices, AllNotional, Notional
  <2> QED
    BY <2>1, <2>2, <2>3 DEF PreflightInv
<1> QED
  BY <1>1, <1>2, <1>3, <1>4 DEF PreflightNext

(* After a self-check that passed, and until prices, the deposit, GMO's    *)
(* sizes or the cap move, every free slot of every book is granted in      *)
(* whatever order the books fill and empty (selfcheck.py's probes against  *)
(* risk.py's entry_budget).                                                *)
THEOREM GreenIsEnough == PreflightSpec => []GreenMeansRoom
<1>1. PreflightInv => GreenMeansRoom
  <2> SUFFICES ASSUME PreflightInv, green, NEW b \in Deployed
               PROVE  /\ WithinCap(b) /\ lotAt[b.symbol] = OurLots[b.symbol]
                      /\ ~RatioTooLow =>
                           EntryBudget(b, b.slots - occupied[b], TRUE) = b.slots - occupied[b]
    BY DEF GreenMeansRoom
  <2>1. DepositSuffices /\ WithinCap(b) /\ lotAt[b.symbol] = OurLots[b.symbol]
    BY DEF PreflightInv
  <2> QED
    BY <2>1, EveryFreeSlotIsGranted
<1> QED
  BY <1>1, PreflightInitInv, PreflightStepInv, PTL DEF PreflightSpec

-----------------------------------------------------------------------------
(***************************************************************************)
(* The trade commands.                                                     *)
(***************************************************************************)
Pos == [side : Sides, size : Nat \ {0}]

(* k sums the sizes of positions from the first on.                        *)
Running(ps, k) ==
    /\ k \in [0..Len(ps) -> Nat] /\ k[0] = 0
    /\ \A i \in 1..Len(ps) : k[i] = k[i - 1] + ps[i].size

LEMMA PosFacts ==
    ASSUME NEW p \in Pos
    PROVE  p.size \in Nat /\ p.size > 0 /\ p.side \in Sides
  BY DEF Pos

LEMMA PosAt ==
    ASSUME NEW ps \in Seq(Pos), NEW i \in 1..Len(ps)
    PROVE  ps[i] \in Pos /\ ps[i].size \in Nat /\ ps[i].size > 0 /\ ps[i].side \in Sides
<1>1. ps[i] \in Pos
  OBVIOUS
<1> QED
  BY <1>1, PosFacts

LEMMA UnitsRun ==
    ASSUME NEW ps \in Seq(Pos)
    PROVE  \E k : Running(ps, k) /\ Units(ps) = k[Len(ps)]
<1> DEFINE N == Len(ps)
           o == [a \in Nat \X Pos |-> a[1] + a[2].size]
           Sums(h) == h = [s \in SUBSET DOMAIN ps |->
                             IF s = {} THEN 0 ELSE h[s \ {Max(s)}] + ps[Max(s)].size]
<1>1. o \in [Nat \X Pos -> Nat]
  BY DEF Pos
<1>2. PICK h \in [SUBSET (1..N) -> Nat] : Folding(o, 0, ps, h)
  <2> HIDE DEF o
  <2> QED
    BY <1>1, FoldsExist
<1>3. DOMAIN ps = 1..N /\ N \in Nat
  OBVIOUS
<1>4. Sums(h)
  <2>1. ASSUME NEW s \in SUBSET (1..N), s # {}
        PROVE  h[s] = h[s \ {Max(s)}] + ps[Max(s)].size
    <3> DEFINE m == Max(s)
               r == s \ {m}
    <3>1. m \in 1..N
      BY <1>3, <2>1, MaxIsGreatest
    <3>2. h[s] = o[h[r], ps[m]]
      BY <1>2, <2>1 DEF Folding
    <3> HIDE DEF m
    <3>3. h[r] \in Nat /\ ps[m] \in Pos
      <4>1. r \in SUBSET (1..N)
        OBVIOUS
      <4>2. ps[m] \in Pos
        BY <3>1
      <4> HIDE DEF r, N
      <4> QED
        BY <4>1, <4>2
    <3>4. h[s] = h[r] + ps[m].size
      BY <3>2, <3>3
    <3> QED
      BY <3>4 DEF m
  <2>2. h[{}] = 0
    <3>1. {} \in SUBSET (1..N)
      OBVIOUS
    <3> QED
      BY <1>2, <3>1 DEF Folding
  <2>3. h = [s \in SUBSET (1..N) |-> h[s]]
    OBVIOUS
  <2> QED
    BY <1>3, <2>1, <2>2, <2>3
<1> DEFINE g == CHOOSE f : Sums(f)
<1>5. Sums(g)
  BY <1>4
<1>6. Units(ps) = g[1..N]
  BY <1>3 DEF Units, FoldLeft, MapThenFoldSet
<1> DEFINE k == [i \in 0..N |-> g[1..i]]
<1> HIDE DEF g
<1>7. k[0] = 0
  <2>1. 1..0 = {} /\ {} \in SUBSET DOMAIN ps
    OBVIOUS
  <2>2. g[{}] = 0
    BY <1>5, <2>1
  <2> QED
    BY <1>3, <2>1, <2>2
<1>8. \A i \in 1..N : k[i] = k[i - 1] + ps[i].size
  <2>1. TAKE i \in 1..N
  <2>2. 1..i \in SUBSET DOMAIN ps /\ i \in Nat \ {0} /\ i - 1 \in 0..N /\ i \in 0..N
    BY <1>3
  <2>3. 1..i # {} /\ Max(1..i) = i /\ (1..i) \ {i} = 1..(i - 1)
    BY <2>2, PrefixOfPlaces
  <2>4. g[1..i] = g[1..(i - 1)] + ps[i].size
    BY <1>5, <2>2, <2>3
  <2> QED
    BY <2>2, <2>4
<1>9. k \in [0..N -> Nat]
  <2> DEFINE T == { i \in Nat : i <= N => k[i] \in Nat }
  <2>1. 0 \in T
    BY <1>7
  <2>2. ASSUME NEW i \in Nat, i \in T PROVE i + 1 \in T
    <3>1. CASE i + 1 <= N
      <4>1. i + 1 \in 1..N /\ k[i] \in Nat
        BY <1>3, <2>2, <3>1
      <4>2. k[i + 1] = k[i] + ps[i + 1].size
        <5>1. k[i + 1] = k[(i + 1) - 1] + ps[i + 1].size
          BY <1>8, <4>1
        <5>2. (i + 1) - 1 = i
          OBVIOUS
        <5> QED
          BY <5>1, <5>2
      <4>3. ps[i + 1].size \in Nat
        BY <4>1, PosAt
      <4> HIDE DEF k
      <4>4. k[i + 1] \in Nat
        BY <4>1, <4>2, <4>3
      <4> QED
        BY <4>4
    <3>2. CASE ~ (i + 1 <= N)
      BY <3>2
    <3> QED
      BY <3>1, <3>2
  <2>3. Nat \subseteq T
    <3> HIDE DEF T
    <3> QED
      BY <2>1, <2>2, NatFromZero
  <2>4. \A i \in 0..N : k[i] \in Nat
    <3>1. TAKE i \in 0..N
    <3>2. i \in Nat /\ i <= N
      BY <1>3
    <3>3. i \in T
      BY <2>3, <3>2
    <3> HIDE DEF k
    <3> QED
      BY <3>2, <3>3
  <2> HIDE DEF T
  <2>5. k = [i \in 0..N |-> k[i]]
    OBVIOUS
  <2> HIDE DEF k
  <2> QED
    BY <2>4, <2>5
<1>10. Units(ps) = k[N]
  BY <1>3, <1>6
<1> HIDE DEF k
<1>11. Running(ps, k)
  BY <1>7, <1>8, <1>9 DEF Running
<1> QED
  BY <1>10, <1>11

(* Two sequences with the same beginning have the same sums of it.         *)
LEMMA RunsAreEqual ==
    ASSUME NEW ps, NEW qs, NEW k, NEW l, Running(ps, k), Running(qs, l),
           NEW n \in Nat, n <= Len(ps), n <= Len(qs), Len(ps) \in Nat, Len(qs) \in Nat,
           \A i \in 1..n : ps[i] = qs[i]
    PROVE  k[n] = l[n]
<1> DEFINE T == { i \in Nat : i <= n => k[i] = l[i] }
<1>1. 0 \in T
  BY DEF Running
<1>2. ASSUME NEW i \in Nat, i \in T PROVE i + 1 \in T
  <2>1. CASE i + 1 <= n
    <3>1. i + 1 \in 1..n /\ i + 1 \in 1..Len(ps) /\ i + 1 \in 1..Len(qs)
      BY <2>1
    <3>2. k[i + 1] = k[(i + 1) - 1] + ps[i + 1].size /\ l[i + 1] = l[(i + 1) - 1] + qs[i + 1].size
      BY <3>1 DEF Running
    <3>3. (i + 1) - 1 = i /\ k[i] = l[i]
      BY <1>2, <2>1
    <3>4. k[i + 1] = l[i + 1]
      BY <3>1, <3>2, <3>3
    <3> QED
      BY <3>4
  <2> QED
    BY <2>1
<1>3. Nat \subseteq T
  <2> HIDE DEF T
  <2> QED
    BY <1>1, <1>2, NatFromZero
<1> QED
  BY <1>3

LEMMA UnitsOfNone == Units(<<>>) = 0
<1>1. <<>> \in Seq(Pos) /\ Len(<<>>) = 0
  OBVIOUS
<1>2. PICK k : Running(<<>>, k) /\ Units(<<>>) = k[Len(<<>>)]
  BY <1>1, UnitsRun
<1> QED
  BY <1>1, <1>2 DEF Running

LEMMA UnitsAreNat ==
    ASSUME NEW ps \in Seq(Pos)
    PROVE  Units(ps) \in Nat
<1>1. PICK k : Running(ps, k) /\ Units(ps) = k[Len(ps)]
  BY UnitsRun
<1> QED
  BY <1>1 DEF Running

LEMMA UnitsOfAppend ==
    ASSUME NEW ps \in Seq(Pos), NEW p \in Pos
    PROVE  Units(Append(ps, p)) = Units(ps) + p.size
<1> DEFINE qs == Append(ps, p)
           N == Len(ps)
<1>1. /\ qs \in Seq(Pos) /\ Len(qs) = N + 1 /\ qs[N + 1] = p
      /\ \A i \in 1..N : ps[i] = qs[i]
  BY AppendProperties
<1>2. N \in Nat
  OBVIOUS
<1> HIDE DEF qs
<1>3. PICK k : Running(ps, k) /\ Units(ps) = k[N]
  BY UnitsRun
<1>4. PICK l : Running(qs, l) /\ Units(qs) = l[N + 1]
  BY <1>1, UnitsRun
<1> HIDE DEF N
<1>5. k[N] = l[N]
  BY <1>1, <1>2, <1>3, <1>4, RunsAreEqual DEF N
<1>6. N + 1 \in 1..Len(qs) /\ (N + 1) - 1 = N
  BY <1>1, <1>2
<1>7. l[N + 1] = l[(N + 1) - 1] + qs[N + 1].size
  BY <1>4, <1>6 DEF Running
<1> QED
  BY <1>1, <1>3, <1>4, <1>5, <1>6, <1>7 DEF qs

LEMMA UnitsOfTail ==
    ASSUME NEW ps \in Seq(Pos), ps # <<>>
    PROVE  Units(ps) = Head(ps).size + Units(Tail(ps))
<1> DEFINE qs == Tail(ps)
           N == Len(qs)
           first == ps[1].size
<1>1. /\ qs \in Seq(Pos) /\ Len(ps) = N + 1 /\ N \in Nat /\ Head(ps) = ps[1]
      /\ \A i \in 1..N : qs[i] = ps[i + 1]
  BY HeadTailProperties
<1>2. first \in Nat
  <2>1. 1 \in 1..Len(ps)
    BY <1>1
  <2> QED
    BY <2>1, PosAt
<1> HIDE DEF qs
<1>3. PICK k : Running(ps, k) /\ Units(ps) = k[N + 1]
  BY <1>1, UnitsRun
<1>4. PICK l : Running(qs, l) /\ Units(qs) = l[N]
  BY <1>1, UnitsRun
<1> HIDE DEF N, first
<1> DEFINE T == { i \in Nat : i <= N => k[i + 1] = first + l[i] }
<1>5. 0 \in T
  <2>1. 1 \in 1..Len(ps) /\ 1 - 1 = 0 /\ 0 + 1 = 1
    BY <1>1
  <2>2. k[1] = k[1 - 1] + ps[1].size
    BY <1>3, <2>1 DEF Running
  <2>3. k[0] = 0 /\ l[0] = 0
    BY <1>3, <1>4 DEF Running
  <2>4. k[1] = first + l[0]
    BY <1>2, <2>1, <2>2, <2>3 DEF first
  <2> QED
    BY <2>1, <2>4
<1>6. ASSUME NEW i \in Nat, i \in T PROVE i + 1 \in T
  <2>1. CASE i + 1 <= N
    <3>1. i + 1 \in 1..N /\ (i + 1) + 1 \in 1..Len(ps) /\ Len(qs) = N /\ i \in 0..N
      BY <1>1, <2>1 DEF N
    <3>2. /\ k[(i + 1) + 1] = k[((i + 1) + 1) - 1] + ps[(i + 1) + 1].size
          /\ l[i + 1] = l[(i + 1) - 1] + qs[i + 1].size
      BY <1>3, <1>4, <3>1 DEF Running
    <3>3. ((i + 1) + 1) - 1 = i + 1 /\ (i + 1) - 1 = i /\ k[i + 1] = first + l[i]
      BY <1>6, <2>1, <1>1
    <3>4. qs[i + 1] = ps[(i + 1) + 1] /\ qs[i + 1].size \in Nat /\ l[i] \in Nat
      <4>1. qs[i + 1] = ps[(i + 1) + 1]
        BY <1>1, <3>1 DEF N
      <4>2. qs[i + 1].size \in Nat
        BY <1>1, <3>1, PosAt
      <4>3. l[i] \in Nat
        BY <1>4, <3>1 DEF Running
      <4> QED
        BY <4>1, <4>2, <4>3
    <3>5. k[(i + 1) + 1] = first + l[i + 1]
      BY <1>2, <3>2, <3>3, <3>4
    <3> QED
      BY <3>5
  <2> QED
    BY <2>1
<1>7. Nat \subseteq T
  <2> HIDE DEF T
  <2> QED
    BY <1>5, <1>6, NatFromZero
<1>8. k[N + 1] = first + l[N]
  BY <1>1, <1>7
<1> QED
  BY <1>1, <1>3, <1>4, <1>8 DEF first, qs

(* What netting has left after every position.                             *)
Nets == [left : Nat, kept : Seq(Pos)]

Netting(ps, size, a) ==
    /\ a \in [0..Len(ps) -> Nets] /\ a[0] = [left |-> size, kept |-> <<>>]
    /\ \A i \in 1..Len(ps) : a[i] = NetOne(a[i - 1], ps[i])

LEMMA NetOneTyped ==
    ASSUME NEW acc \in Nets, NEW p \in Pos
    PROVE  NetOne(acc, p) \in Nets
<1>1. acc.left \in Nat /\ acc.kept \in Seq(Pos) /\ p.size \in Nat
  BY PosFacts DEF Nets
<1>2. CASE acc.left >= p.size
  <2>1. acc.left - p.size \in Nat
    BY <1>1, <1>2
  <2> QED
    BY <1>1, <1>2, <2>1 DEF NetOne, Nets
<1>3. CASE ~ (acc.left >= p.size)
  <2> DEFINE rest == [p EXCEPT !.size = @ - acc.left]
  <2>1. p.size - acc.left \in Nat \ {0}
    BY <1>1, <1>3
  <2>2. rest \in Pos
    BY <2>1 DEF Pos
  <2> HIDE DEF rest
  <2>3. Append(acc.kept, rest) \in Seq(Pos)
    BY <1>1, <2>2
  <2>4. NetOne(acc, p) = [left |-> 0, kept |-> Append(acc.kept, rest)]
    BY <1>3 DEF NetOne, rest
  <2> QED
    BY <2>3, <2>4 DEF Nets
<1> QED
  BY <1>2, <1>3

LEMMA NettingRuns ==
    ASSUME NEW ps \in Seq(Pos), NEW size \in Nat
    PROVE  \E a : Netting(ps, size, a) /\ Netted(ps, size) = a[Len(ps)]
<1> DEFINE N == Len(ps)
           base == [left |-> size, kept |-> <<>>]
           o == [v \in Nets \X Pos |-> NetOne(v[1], v[2])]
           Nettings(h) == h = [s \in SUBSET DOMAIN ps |->
                             IF s = {} THEN base ELSE NetOne(h[s \ {Max(s)}], ps[Max(s)])]
<1>1. o \in [Nets \X Pos -> Nets] /\ base \in Nets
  <2>1. \A v \in Nets \X Pos : NetOne(v[1], v[2]) \in Nets
    BY NetOneTyped
  <2>2. base \in Nets
    BY DEF Nets
  <2> QED
    BY <2>1, <2>2
<1>2. DOMAIN ps = 1..N /\ N \in Nat
  OBVIOUS
<1> HIDE DEF base
<1>3. PICK h \in [SUBSET (1..N) -> Nets] : Folding(o, base, ps, h)
  <2> HIDE DEF o
  <2> QED
    BY <1>1, FoldsExist
<1>4. Nettings(h)
  <2>1. ASSUME NEW s \in SUBSET (1..N), s # {}
        PROVE  h[s] = NetOne(h[s \ {Max(s)}], ps[Max(s)])
    <3> DEFINE m == Max(s)
               r == s \ {m}
    <3>1. m \in 1..N
      BY <1>2, <2>1, MaxIsGreatest
    <3>2. h[s] = o[h[r], ps[m]]
      BY <1>3, <2>1 DEF Folding
    <3> HIDE DEF m
    <3>3. h[r] \in Nets /\ ps[m] \in Pos
      <4>1. r \in SUBSET (1..N)
        OBVIOUS
      <4>2. ps[m] \in Pos
        BY <3>1
      <4> HIDE DEF r, N
      <4> QED
        BY <4>1, <4>2
    <3> HIDE DEF r
    <3>4. h[s] = NetOne(h[r], ps[m])
      BY <3>2, <3>3
    <3> QED
      BY <3>4 DEF m, r
  <2>2. h[{}] = base
    <3>1. {} \in SUBSET (1..N)
      OBVIOUS
    <3> QED
      BY <1>3, <3>1 DEF Folding
  <2>3. h = [s \in SUBSET (1..N) |-> h[s]]
    OBVIOUS
  <2> QED
    BY <1>2, <2>1, <2>2, <2>3
<1> DEFINE g == CHOOSE f : Nettings(f)
<1>5. Nettings(g)
  BY <1>4
<1>6. Netted(ps, size) = g[1..N]
  BY <1>2 DEF Netted, FoldLeft, MapThenFoldSet, base
<1> DEFINE a == [i \in 0..N |-> g[1..i]]
<1> HIDE DEF g
<1>7. a[0] = base
  <2>1. 1..0 = {} /\ {} \in SUBSET DOMAIN ps
    OBVIOUS
  <2>2. g[{}] = base
    BY <1>5, <2>1
  <2> QED
    BY <1>2, <2>1, <2>2
<1>8. \A i \in 1..N : a[i] = NetOne(a[i - 1], ps[i])
  <2>1. TAKE i \in 1..N
  <2>2. 1..i \in SUBSET DOMAIN ps /\ i \in Nat \ {0} /\ i - 1 \in 0..N /\ i \in 0..N
    BY <1>2
  <2>3. 1..i # {} /\ Max(1..i) = i /\ (1..i) \ {i} = 1..(i - 1)
    BY <2>2, PrefixOfPlaces
  <2>4. g[1..i] = NetOne(g[1..(i - 1)], ps[i])
    BY <1>5, <2>2, <2>3
  <2> QED
    BY <2>2, <2>4
<1>9. a \in [0..N -> Nets]
  <2> DEFINE T == { i \in Nat : i <= N => a[i] \in Nets }
  <2>1. 0 \in T
    BY <1>1, <1>7
  <2>2. ASSUME NEW i \in Nat, i \in T PROVE i + 1 \in T
    <3>1. CASE i + 1 <= N
      <4>1. i + 1 \in 1..N /\ a[i] \in Nets
        BY <1>2, <2>2, <3>1
      <4>2. (i + 1) - 1 = i
        OBVIOUS
      <4>3. ps[i + 1] \in Pos
        BY <4>1
      <4>4. a[i + 1] = NetOne(a[i], ps[i + 1])
        BY <1>8, <4>1, <4>2
      <4> HIDE DEF a
      <4>5. a[i + 1] \in Nets
        BY <4>1, <4>3, <4>4, NetOneTyped
      <4> QED
        BY <4>5
    <3>2. CASE ~ (i + 1 <= N)
      BY <3>2
    <3> QED
      BY <3>1, <3>2
  <2>3. Nat \subseteq T
    <3> HIDE DEF T
    <3> QED
      BY <2>1, <2>2, NatFromZero
  <2>4. \A i \in 0..N : a[i] \in Nets
    <3>1. TAKE i \in 0..N
    <3>2. i \in Nat /\ i <= N
      BY <1>2
    <3>3. i \in T
      BY <2>3, <3>2
    <3> HIDE DEF a
    <3> QED
      BY <3>2, <3>3
  <2> HIDE DEF T
  <2>5. a = [i \in 0..N |-> a[i]]
    OBVIOUS
  <2> HIDE DEF a
  <2> QED
    BY <2>4, <2>5
<1>10. Netted(ps, size) = a[N]
  BY <1>2, <1>6
<1> HIDE DEF a
<1>11. Netting(ps, size, a)
  BY <1>7, <1>8, <1>9 DEF Netting, base
<1> QED
  BY <1>10, <1>11

OneSide(ps) == \A i, j \in DOMAIN ps : ps[i].side = ps[j].side

(* Netting takes the size off the positions, or all of them and the rest   *)
(* of it is left; it turns none.                                           *)
LEMMA NettingTakes ==
    ASSUME NEW ps \in Seq(Pos), NEW side, \A i \in DOMAIN ps : ps[i].side = side,
           NEW size \in Nat
    PROVE  /\ Netted(ps, size) \in Nets
           /\ Units(Netted(ps, size).kept) - Netted(ps, size).left = Units(ps) - size
           /\ Netted(ps, size).left > 0 => Netted(ps, size).kept = <<>>
           /\ \A j \in DOMAIN Netted(ps, size).kept : Netted(ps, size).kept[j].side = side
<1> DEFINE N == Len(ps)
<1>1. PICK a : Netting(ps, size, a) /\ Netted(ps, size) = a[N]
  BY NettingRuns
<1>2. PICK k : Running(ps, k) /\ Units(ps) = k[N]
  BY UnitsRun
<1> DEFINE OK(acc, sum) ==
             /\ Units(acc.kept) - acc.left = sum - size
             /\ acc.left > 0 => acc.kept = <<>>
             /\ \A j \in DOMAIN acc.kept : acc.kept[j].side = side
           T == { i \in Nat : i <= N => OK(a[i], k[i]) }
<1>3. N \in Nat /\ DOMAIN ps = 1..N
  OBVIOUS
<1>4. 0 \in T
  <2>1. a[0].kept = <<>> /\ a[0].left = size /\ k[0] = 0
    BY <1>1, <1>2 DEF Netting, Running
  <2>2. OK(a[0], k[0])
    BY <2>1, UnitsOfNone
  <2> QED
    BY <2>2
<1>5. ASSUME NEW acc \in Nets, NEW sum \in Nat, NEW p \in Pos, p.side = side, OK(acc, sum)
      PROVE  OK(NetOne(acc, p), sum + p.size)
  <2>1. acc.left \in Nat /\ acc.kept \in Seq(Pos) /\ p.size \in Nat
    BY PosFacts DEF Nets
  <2>2. Units(acc.kept) \in Nat
    BY <2>1, UnitsAreNat
  <2>3. CASE acc.left >= p.size
    <3> DEFINE new == NetOne(acc, p)
    <3>1. new.left = acc.left - p.size /\ new.kept = acc.kept
      BY <2>3 DEF NetOne, Nets
    <3> HIDE DEF new
    <3>2. Units(new.kept) - new.left = (sum + p.size) - size
      <4> DEFINE u == Units(acc.kept)
                 l == acc.left
                 z == p.size
      <4>1. u - l = sum - size
        BY <1>5
      <4>2. u \in Nat /\ l \in Nat /\ z \in Nat
        BY <2>1, <2>2
      <4> HIDE DEF u, l, z
      <4>3. u - (l - z) = (sum + z) - size
        BY <4>1, <4>2
      <4> QED
        BY <3>1, <4>3 DEF u, l, z
    <3>3. new.left > 0 => new.kept = <<>>
      BY <1>5, <2>1, <2>3, <3>1, PosFacts
    <3> QED
      BY <1>5, <3>1, <3>2, <3>3 DEF new
  <2>4. CASE ~ (acc.left >= p.size)
    <3> DEFINE new == NetOne(acc, p)
               rest == [p EXCEPT !.size = @ - acc.left]
    <3>1. rest \in Pos /\ rest.size = p.size - acc.left /\ rest.side = side
      <4>1. p.size - acc.left \in Nat \ {0}
        BY <2>1, <2>4
      <4> QED
        BY <1>5, <4>1 DEF Pos
    <3>2. new.left = 0 /\ new.kept = Append(acc.kept, rest)
      BY <2>4 DEF NetOne
    <3> HIDE DEF new, rest
    <3>3. Units(new.kept) = Units(acc.kept) + rest.size
      BY <2>1, <3>1, <3>2, UnitsOfAppend
    <3>4. Units(new.kept) - new.left = (sum + p.size) - size
      <4> DEFINE u == Units(acc.kept)
                 l == acc.left
                 z == p.size
      <4>1. u - l = sum - size
        BY <1>5
      <4>2. u \in Nat /\ l \in Nat /\ z \in Nat
        BY <2>1, <2>2
      <4> HIDE DEF u, l, z
      <4>3. (u + (z - l)) - 0 = (sum + z) - size
        BY <4>1, <4>2
      <4> QED
        BY <3>1, <3>2, <3>3, <4>3 DEF u, l, z
    <3>5. \A j \in DOMAIN new.kept : new.kept[j].side = side
      <4> DEFINE L == Len(acc.kept)
      <4>1. /\ DOMAIN new.kept = 1..(L + 1) /\ new.kept[L + 1] = rest /\ L \in Nat
            /\ DOMAIN acc.kept = 1..L
            /\ \A j \in 1..L : new.kept[j] = acc.kept[j]
        BY <2>1, <3>1, <3>2, AppendProperties
      <4> HIDE DEF L
      <4>2. \A j \in 1..(L + 1) : j \in 1..L \/ j = L + 1
        BY <4>1
      <4> QED
        BY <1>5, <3>1, <4>1, <4>2
    <3> QED
      BY <3>2, <3>4, <3>5 DEF new
  <2> QED
    BY <2>3, <2>4
<1> HIDE DEF OK
<1>6. ASSUME NEW i \in Nat, i \in T PROVE i + 1 \in T
  <2>1. CASE i + 1 <= N
    <3>1. i + 1 \in 1..N /\ i \in 0..N /\ OK(a[i], k[i]) /\ (i + 1) - 1 = i
      BY <1>3, <1>6, <2>1
    <3>2. a[i + 1] = NetOne(a[i], ps[i + 1]) /\ k[i + 1] = k[i] + ps[i + 1].size
      BY <1>1, <1>2, <3>1 DEF Netting, Running
    <3>3. a[i] \in Nets /\ k[i] \in Nat /\ ps[i + 1] \in Pos /\ ps[i + 1].side = side
      <4>1. a[i] \in Nets
        BY <1>1, <3>1 DEF Netting
      <4>2. k[i] \in Nat
        BY <1>2, <3>1 DEF Running
      <4>3. ps[i + 1] \in Pos /\ ps[i + 1].side = side
        BY <3>1, <1>3
      <4> QED
        BY <4>1, <4>2, <4>3
    <3>4. OK(a[i + 1], k[i + 1])
      BY <1>5, <3>1, <3>2, <3>3
    <3> QED
      BY <3>4
  <2> QED
    BY <2>1
<1>7. OK(a[N], k[N])
  <2>1. Nat \subseteq T
    <3> HIDE DEF T
    <3> QED
      BY <1>4, <1>6, NatFromZero
  <2> QED
    BY <1>3, <2>1
<1>8. a[N] \in Nets
  BY <1>1, <1>3 DEF Netting
<1> QED
  BY <1>1, <1>2, <1>7, <1>8 DEF OK

LEMMA FlyerStaysOneSided ==
    ASSUME NEW ps \in Seq(Pos), OneSide(ps), NEW side \in Sides, NEW size \in Nat \ {0}
    PROVE  FlyerAfter(ps, side, size) \in Seq(Pos) /\ OneSide(FlyerAfter(ps, side, size))
<1> DEFINE p == [side |-> side, size |-> size]
           qs == Append(ps, p)
           N == Len(ps)
<1>1. p \in Pos /\ p.side = side
  BY DEF Pos
<1>2. N \in Nat /\ DOMAIN ps = 1..N
  OBVIOUS
<1> HIDE DEF p
<1>3. /\ qs \in Seq(Pos) /\ DOMAIN qs = 1..(N + 1) /\ qs[N + 1] = p
      /\ \A i \in 1..N : qs[i] = ps[i]
  BY <1>1, AppendProperties
<1>4. CASE ps = <<>> \/ Head(ps).side = side
  <2>1. FlyerAfter(ps, side, size) = qs
    BY <1>4 DEF FlyerAfter, p
  <2>2. \A i \in 1..N : ps[i].side = side
    <3>1. TAKE i \in 1..N
    <3>2. ps # <<>> /\ 1 \in 1..N
      BY <1>2
    <3>3. ps[i].side = ps[1].side /\ Head(ps) = ps[1]
      BY <1>2, <3>2, HeadTailProperties DEF OneSide
    <3> QED
      BY <1>4, <3>2, <3>3
  <2> HIDE DEF qs
  <2>3. \A i \in 1..(N + 1) : qs[i].side = side
    <3>1. TAKE i \in 1..(N + 1)
    <3>2. i \in 1..N \/ i = N + 1
      BY <1>2
    <3> QED
      BY <1>1, <1>3, <2>2, <3>2
  <2>4. OneSide(qs)
    BY <1>3, <2>3 DEF OneSide
  <2> QED
    BY <1>3, <2>1, <2>4
<1>5. CASE ~ (ps = <<>> \/ Head(ps).side = side)
  <2> DEFINE net == Netted(ps, size)
             sd == Head(ps).side
  <2>1. \A i \in DOMAIN ps : ps[i].side = sd
    <3>1. 1 \in DOMAIN ps /\ Head(ps) = ps[1]
      BY <1>5, <1>2, HeadTailProperties
    <3> QED
      BY <3>1 DEF OneSide
  <2> HIDE DEF sd
  <2>2. net \in Nets /\ \A j \in DOMAIN net.kept : net.kept[j].side = sd
    BY <2>1, NettingTakes
  <2>3. FlyerAfter(ps, side, size) =
          IF net.left = 0 THEN net.kept ELSE <<[side |-> side, size |-> net.left]>>
    BY <1>5 DEF FlyerAfter
  <2> HIDE DEF net
  <2>4. CASE net.left = 0
    <3>1. net.kept \in Seq(Pos) /\ OneSide(net.kept)
      BY <2>2 DEF Nets, OneSide
    <3> QED
      BY <2>3, <2>4, <3>1
  <2>5. CASE net.left # 0
    <3> DEFINE r == [side |-> side, size |-> net.left]
    <3>1. r \in Pos
      BY <2>2, <2>5 DEF Pos, Nets
    <3> HIDE DEF r
    <3>2. <<r>> \in Seq(Pos) /\ OneSide(<<r>>)
      BY <3>1 DEF OneSide
    <3> QED
      BY <2>3, <2>5, <3>2 DEF r
  <2> QED
    BY <2>4, <2>5
<1> QED
  BY <1>4, <1>5

(* An order of the other side that is no larger than what is held only     *)
(* takes from it.                                                          *)
LEMMA FlyerClosesOnly ==
    ASSUME NEW ps \in Seq(Pos), NEW side \in Sides, \A i \in DOMAIN ps : ps[i].side = side,
           NEW size \in Nat \ {0}, size <= Units(ps)
    PROVE  /\ FlyerAfter(ps, Opposite(side), size) \in Seq(Pos)
           /\ Units(FlyerAfter(ps, Opposite(side), size)) = Units(ps) - size
           /\ \A j \in DOMAIN FlyerAfter(ps, Opposite(side), size) :
                FlyerAfter(ps, Opposite(side), size)[j].side = side
<1> DEFINE net == Netted(ps, size)
<1>1. ps # <<>> /\ Units(ps) \in Nat
  BY UnitsOfNone, UnitsAreNat
<1>2. Head(ps).side = side /\ side # Opposite(side)
  <2>1. 1 \in DOMAIN ps /\ Head(ps) = ps[1]
    BY <1>1, HeadTailProperties
  <2> QED
    BY <2>1 DEF Opposite, Sides
<1>3. /\ net \in Nets /\ Units(net.kept) - net.left = Units(ps) - size
      /\ net.left > 0 => net.kept = <<>>
      /\ \A j \in DOMAIN net.kept : net.kept[j].side = side
  BY NettingTakes
<1>4. FlyerAfter(ps, Opposite(side), size) =
        IF net.left = 0 THEN net.kept ELSE <<[side |-> Opposite(side), size |-> net.left]>>
  BY <1>1, <1>2 DEF FlyerAfter
<1> HIDE DEF net
<1>5. net.left \in Nat /\ net.kept \in Seq(Pos)
  BY <1>3 DEF Nets
<1>6. net.left = 0
  <2>1. CASE net.left > 0
    <3>1. Units(net.kept) = 0
      BY <1>3, <2>1, UnitsOfNone
    <3> QED
      BY <1>1, <1>3, <1>5, <2>1, <3>1
  <2> QED
    BY <1>5, <2>1
<1>7. Units(net.kept) = Units(ps) - size
  <2>1. Units(net.kept) \in Nat
    BY <1>5, UnitsAreNat
  <2> QED
    BY <1>1, <1>3, <1>6, <2>1
<1> QED
  BY <1>3, <1>4, <1>5, <1>6, <1>7

-----------------------------------------------------------------------------
Listing == [id : Nat, p : [side : Sides, size : Nat]]
GmoPos  == [side : Sides, size : Int]

ShellOK(c) ==
    /\ c \in [doing : {"nothing", "flyer close", "gmo close"}, execute : BOOLEAN,
              todo : Seq(Pos) \cup Seq(Listing), alone : BOOLEAN, kept : Nat]
    /\ c.doing = "flyer close" => c.todo \in Seq(Pos)
    /\ c.doing = "gmo close" => c.todo \in Seq(Listing)

(* A close that is alone is exactly as far as the account.                 *)
Apace(lots, todo, kept) ==
    /\ Units(lots) = Units(todo) + kept
    /\ \A i \in DOMAIN todo, j \in DOMAIN lots : lots[j].side = todo[i].side

KeepsPace(lots, c) ==
    c.doing = "flyer close" /\ c.execute /\ c.alone => Apace(lots, c.todo, c.kept)

CommandsInv ==
    /\ flyer \in Seq(Pos) /\ OneSide(flyer)
    /\ gmo \in Seq(GmoPos)
    /\ \A o \in gmoRests : o.size \in Int /\ o.side \in Sides
    /\ DOMAIN shell = Shells
    /\ \A s \in Shells : ShellOK(shell[s]) /\ KeepsPace(flyer, shell[s])

LEMMA CommandsInitInv == CommandsInit => CommandsInv
<1> SUFFICES ASSUME CommandsInit PROVE CommandsInv
  OBVIOUS
<1>1. flyer = <<>> /\ gmo = <<>> /\ gmoRests = {} /\ shell = [s \in Shells |-> Idle]
  BY DEF CommandsInit
<1>2. <<>> \in Seq(Pos) /\ <<>> \in Seq(GmoPos) /\ <<>> \in Seq(Listing) /\ OneSide(<<>>)
  BY DEF OneSide
<1>3. Idle.doing = "nothing"
  BY DEF Idle
<1>4. ShellOK(Idle) /\ KeepsPace(flyer, Idle)
  BY <1>2, <1>3 DEF ShellOK, KeepsPace, Idle
<1> QED
  BY <1>1, <1>2, <1>4 DEF CommandsInv

LEMMA DisturbedFacts ==
    ASSUME NEW s \in Shells, DOMAIN shell = Shells
    PROVE  /\ DOMAIN Disturbed(s) = Shells /\ Disturbed(s)[s] = shell[s]
           /\ \A t \in Shells \ {s} : Disturbed(s)[t] = [shell[t] EXCEPT !.alone = FALSE]
  BY DEF Disturbed

(* What GMO does with an order leaves positions.                           *)
LEMMA GmoAfterTyped ==
    ASSUME gmo \in Seq(GmoPos), NEW order, order.size \in Int, order.side \in Sides
    PROVE  GmoAfter(order) \in Seq(GmoPos)
<1>1. CASE order.kind = "open"
  <2> DEFINE p == [side |-> order.side, size |-> order.size]
  <2>1. p \in GmoPos
    BY DEF GmoPos
  <2> HIDE DEF p
  <2>2. Append(gmo, p) \in Seq(GmoPos)
    BY <2>1
  <2> QED
    BY <1>1, <2>2 DEF GmoAfter, p
<1>2. CASE order.kind # "open"
  <2>1. gmo \in [1..Len(gmo) -> GmoPos] /\ Len(gmo) \in Nat
    OBVIOUS
  <2> DEFINE new == [gmo EXCEPT ![order.id].size = @ - order.size]
  <2>2. \A i \in 1..Len(gmo) : gmo[i] \in GmoPos
    BY <2>1
  <2>3. \A i \in 1..Len(gmo) : new[i] \in GmoPos
    BY <2>1, <2>2 DEF GmoPos
  <2>4. DOMAIN new = 1..Len(gmo)
    BY <2>1
  <2>5. new = [i \in 1..Len(gmo) |-> new[i]]
    BY <2>1
  <2> HIDE DEF new
  <2>6. new \in Seq(GmoPos)
    BY <2>1, <2>3, <2>5
  <2> QED
    BY <1>2, <2>6 DEF GmoAfter, new
<1> QED
  BY <1>1, <1>2

LEMMA GmoHeldTyped ==
    ASSUME gmo \in Seq(GmoPos)
    PROVE  GmoHeld \in Seq(Listing)
<1> DEFINE ids == { i \in DOMAIN gmo : gmo[i].size > 0 }
           S == { [id |-> id, p |-> gmo[id]] : id \in ids }
<1>1. DOMAIN gmo = 1..Len(gmo) /\ Len(gmo) \in Nat
  OBVIOUS
<1>2. IsFiniteSet(ids)
  <2>1. IsFiniteSet(DOMAIN gmo)
    BY <1>1, FS_Interval
  <2>2. ids \subseteq DOMAIN gmo
    OBVIOUS
  <2> QED
    BY <2>1, <2>2, FS_Subset
<1>3. IsFiniteSet(S)
  <2> DEFINE f == [i \in ids |-> [id |-> i, p |-> gmo[i]]]
  <2> HIDE DEF ids
  <2>1. f \in Surjection(ids, S)
    BY DEF Surjection
  <2> HIDE DEF f, S
  <2> QED
    BY <1>2, <2>1, FS_Surjection
<1>4. S \subseteq Listing
  <2>1. ASSUME NEW i \in ids PROVE [id |-> i, p |-> gmo[i]] \in Listing
    <3>1. i \in Nat /\ gmo[i] \in GmoPos /\ gmo[i].size > 0
      BY <1>1
    <3>2. gmo[i] \in [side : Sides, size : Nat]
      BY <3>1 DEF GmoPos
    <3> QED
      BY <3>1, <3>2 DEF Listing
  <2> QED
    BY <2>1
<1> HIDE DEF S
<1>5. SetToSeq(S) \in Seq(S)
  BY <1>3, ListedOnce
<1>6. SetToSeq(S) \in Seq(Listing)
  <2> DEFINE q == SetToSeq(S)
  <2>1. q \in [1..Len(q) -> S] /\ Len(q) \in Nat
    BY <1>5
  <2> HIDE DEF q
  <2>2. q \in [1..Len(q) -> Listing]
    BY <1>4, <2>1
  <2>3. q \in Seq(Listing)
    BY <2>1, <2>2
  <2> QED
    BY <2>3 DEF q
<1> QED
  BY <1>6 DEF GmoHeld, S

(* A step that leaves a terminal alone or interrupts it.                   *)
Interrupts ==
    /\ DOMAIN shell' = Shells
    /\ \A t \in Shells :
         \/ shell'[t] = [shell[t] EXCEPT !.alone = FALSE]
         \/ shell'[t] = shell[t] /\ (flyer' = flyer \/ shell[t].doing # "flyer close")

LEMMA InterruptsKeeps ==
    ASSUME CommandsInv, Interrupts, flyer' \in Seq(Pos), OneSide(flyer)', gmo' \in Seq(GmoPos),
           \A o \in gmoRests' : o.size \in Int /\ o.side \in Sides
    PROVE  CommandsInv'
<1>1. ASSUME NEW t \in Shells PROVE ShellOK(shell'[t]) /\ KeepsPace(flyer', shell'[t])
  <2>1. ShellOK(shell[t]) /\ KeepsPace(flyer, shell[t])
    BY DEF CommandsInv
  <2> DEFINE d == shell'[t]
  <2>2. \/ d = [shell[t] EXCEPT !.alone = FALSE]
        \/ d = shell[t] /\ (flyer' = flyer \/ shell[t].doing # "flyer close")
    BY DEF Interrupts
  <2> HIDE DEF d
  <2>3. ShellOK(d) /\ KeepsPace(flyer', d)
    <3>1. CASE d = [shell[t] EXCEPT !.alone = FALSE]
      <4>1. ShellOK(d) /\ ~ d.alone
        BY <2>1, <3>1 DEF ShellOK
      <4> QED
        BY <4>1 DEF KeepsPace
    <3>2. CASE d = shell[t] /\ flyer' = flyer
      BY <2>1, <3>2
    <3>3. CASE d = shell[t] /\ shell[t].doing # "flyer close"
      BY <2>1, <3>3 DEF KeepsPace
    <3> QED
      BY <2>2, <3>1, <3>2, <3>3
  <2> QED
    BY <2>3 DEF d
<1> QED
  BY <1>1 DEF CommandsInv, Interrupts, OneSide

LEMMA MinLot ==
    ASSUME NEW p \in Pos
    PROVE  /\ Min({p.size, Lot}) \in Nat \ {0} /\ Min({p.size, Lot}) <= p.size
<1>1. p.size \in Nat \ {0} /\ Lot \in Nat \ {0}
  BY PosFacts, CommandsAssumption
<1>2. Min({p.size, Lot}) = IF p.size <= Lot THEN p.size ELSE Lot
  BY <1>1, MinOfTwo
<1> QED
  BY <1>1, <1>2

(* The order of the first position on the list, sent alone.                *)
LEMMA FirstOrder ==
    ASSUME NEW q \in Seq(Pos), q # <<>>
    PROVE  /\ Head(q) = q[1] /\ Head(q) \in Pos /\ Tail(q) \in Seq(Pos) /\ 1 \in DOMAIN q
           /\ \A i \in DOMAIN Tail(q) : i + 1 \in DOMAIN q /\ Tail(q)[i] = q[i + 1]
           /\ Units(q) = Head(q).size + Units(Tail(q)) /\ Units(Tail(q)) \in Nat
<1>1. /\ Head(q) = q[1] /\ Tail(q) \in Seq(Pos) /\ 1 \in DOMAIN q
      /\ \A i \in DOMAIN Tail(q) : i + 1 \in DOMAIN q /\ Tail(q)[i] = q[i + 1]
  BY HeadTailProperties
<1>2. q[1] \in Pos
  BY <1>1
<1>3. Units(q) = Head(q).size + Units(Tail(q))
  BY UnitsOfTail
<1>4. Units(Tail(q)) \in Nat
  BY <1>1, UnitsAreNat
<1> QED
  BY <1>1, <1>2, <1>3, <1>4

LEMMA LoneOrder ==
    ASSUME NEW lots \in Seq(Pos), NEW q \in Seq(Pos), q # <<>>, NEW k \in Nat,
           Apace(lots, q, k),
           NEW size \in Nat \ {0}, size <= Head(q).size,
           NEW after, after = FlyerAfter(lots, Opposite(Head(q).side), size)
    PROVE  Apace(after, Tail(q), k + Head(q).size - size)
<1>1. PICK p : p = Head(q)
  OBVIOUS
<1>2. PICK rest : rest = Tail(q)
  OBVIOUS
<1>3. PICK n : n = Units(rest)
  OBVIOUS
<1>4. PICK u : u = Units(lots)
  OBVIOUS
<1>5. PICK m : m = p.size
  OBVIOUS
<1>0. /\ Units(lots) = Units(q) + k
      /\ \A i \in DOMAIN q, j \in DOMAIN lots : lots[j].side = q[i].side
  BY DEF Apace
<1>6. /\ p = q[1] /\ p \in Pos /\ 1 \in DOMAIN q /\ n \in Nat /\ u = m + n + k
      /\ \A i \in DOMAIN rest : i + 1 \in DOMAIN q /\ rest[i] = q[i + 1]
  <2>1. Units(q) = m + n
    BY <1>1, <1>2, <1>3, <1>5, FirstOrder
  <2> QED
    BY <1>0, <1>1, <1>2, <1>3, <1>4, <2>1, FirstOrder
<1>7. m \in Nat \ {0} /\ p.side \in Sides
  BY <1>5, <1>6, PosFacts
<1>8. size <= m
  BY <1>1, <1>5
<1>9. size <= u
  BY <1>6, <1>7, <1>8
<1>10. \A j \in DOMAIN lots : lots[j].side = p.side
  BY <1>0, <1>6
<1>11. /\ Units(after) = Units(lots) - size /\ \A j \in DOMAIN after : after[j].side = p.side
  <2>1. size <= Units(lots)
    BY <1>4, <1>9
  <2>2. after = FlyerAfter(lots, Opposite(p.side), size)
    BY <1>1
  <2> QED
    BY <1>7, <1>10, <2>1, <2>2, FlyerClosesOnly
<1>12. Units(after) = n + (k + m - size)
  <2>1. Units(after) = u - size
    BY <1>4, <1>11
  <2> QED
    BY <1>6, <1>7, <2>1
<1>13. ASSUME NEW i \in DOMAIN rest, NEW j \in DOMAIN after PROVE after[j].side = rest[i].side
  <2>1. lots # <<>>
    <3>1. ASSUME lots = <<>> PROVE FALSE
      <4>1. Units(lots) = 0
        BY <3>1, UnitsOfNone
      <4> QED
        BY <1>4, <1>9, <4>1
    <3> QED
      BY <3>1
  <2>2. 1 \in DOMAIN lots
    BY <2>1
  <2>3. i + 1 \in DOMAIN q /\ rest[i] = q[i + 1]
    BY <1>6, <1>13
  <2>4. lots[1].side = rest[i].side /\ lots[1].side = p.side
    BY <1>0, <1>10, <2>2, <2>3
  <2>5. after[j].side = p.side
    BY <1>11, <1>13
  <2> QED
    BY <2>4, <2>5
<1>14. k + Head(q).size - size = k + m - size
  BY <1>1, <1>5
<1> QED
  BY <1>2, <1>3, <1>12, <1>13, <1>14 DEF Apace

LEMMA LessLeft ==
    ASSUME NEW k \in Nat, NEW m \in Nat, NEW size \in Nat, size <= m
    PROVE  k + m - size \in Nat
  OBVIOUS

Advanced(c, rest, kept) == [c EXCEPT !.todo = rest, !.kept = kept]

(* A close that is alone takes the next position's order in its stride.    *)
LEMMA CloseAdvances ==
    ASSUME NEW lots \in Seq(Pos), NEW c, ShellOK(c), KeepsPace(lots, c),
           c.doing = "flyer close", c.execute, c.todo # <<>>,
           NEW size \in Nat \ {0}, size <= Head(c.todo).size,
           NEW d, d = Advanced(c, Tail(c.todo), c.kept + Head(c.todo).size - size)
    PROVE  ShellOK(d) /\ KeepsPace(FlyerAfter(lots, Opposite(Head(c.todo).side), size), d)
<1>1. PICK q : q = c.todo
  OBVIOUS
<1>2. PICK k : k = c.kept
  OBVIOUS
<1>3. PICK m : m = Head(q).size
  OBVIOUS
<1>4. PICK rest : rest = Tail(q)
  OBVIOUS
<1>5. PICK after : after = FlyerAfter(lots, Opposite(Head(q).side), size)
  OBVIOUS
<1>6. q \in Seq(Pos) /\ q # <<>> /\ k \in Nat
  BY <1>1, <1>2 DEF ShellOK
<1>7. Head(q) \in Pos /\ rest \in Seq(Pos)
  BY <1>4, <1>6, FirstOrder
<1>8. m \in Nat
  BY <1>3, <1>7, PosFacts
<1>9. k + m - size \in Nat
  <2>1. size <= m
    BY <1>1, <1>3
  <2> QED
    BY <1>6, <1>8, <2>1, LessLeft
<1>10. PICK z : z = k + m - size
  OBVIOUS
<1>11. d = Advanced(c, rest, z)
  BY <1>1, <1>2, <1>3, <1>4, <1>10
<1>12. c \in [doing : {"nothing", "flyer close", "gmo close"}, execute : BOOLEAN,
              todo : Seq(Pos) \cup Seq(Listing), alone : BOOLEAN, kept : Nat]
  BY DEF ShellOK
<1>13. z \in Nat
  BY <1>9, <1>10
<1>14. /\ d.doing = "flyer close" /\ d.execute = c.execute /\ d.alone = c.alone
       /\ d.todo = rest /\ d.kept = z /\ ShellOK(d)
  BY <1>7, <1>11, <1>12, <1>13 DEF ShellOK, Advanced
<1>15. ASSUME d.alone PROVE Apace(after, rest, z)
  <2>1. Apace(lots, q, k)
    BY <1>1, <1>2, <1>14, <1>15 DEF KeepsPace
  <2>2. size <= Head(q).size
    BY <1>1
  <2>3. Apace(after, Tail(q), k + Head(q).size - size)
    BY <1>5, <1>6, <2>1, <2>2, LoneOrder
  <2> QED
    BY <1>3, <1>4, <1>10, <2>3
<1>16. KeepsPace(after, d)
  <2>1. CASE d.alone
    <3>1. Apace(after, d.todo, d.kept)
      BY <1>14, <1>15, <2>1
    <3> QED
      BY <3>1 DEF KeepsPace
  <2>2. CASE ~ d.alone
    BY <2>2 DEF KeepsPace
  <2> QED
    BY <2>1, <2>2
<1> QED
  BY <1>1, <1>5, <1>14, <1>16

(* Others' terminals, after a step of one of them.                         *)
OthersKeep(s) ==
    \A t \in Shells \ {s} : \/ shell'[t] = [shell[t] EXCEPT !.alone = FALSE]
                            \/ shell'[t] = shell[t] /\ flyer' = flyer

LEMMA OneShellMoves ==
    ASSUME CommandsInv, NEW s \in Shells, DOMAIN shell' = Shells, OthersKeep(s),
           ShellOK(shell'[s]), KeepsPace(flyer', shell'[s]),
           flyer' \in Seq(Pos), OneSide(flyer'), gmo' \in Seq(GmoPos), gmoRests' = gmoRests
    PROVE  CommandsInv'
<1>1. \A t \in Shells : ShellOK(shell[t]) /\ KeepsPace(flyer, shell[t])
  BY DEF CommandsInv
<1>2. ASSUME NEW t \in Shells PROVE ShellOK(shell'[t]) /\ KeepsPace(flyer', shell'[t])
  <2>1. CASE t = s
    BY <2>1
  <2>2. CASE t # s
    <3> DEFINE d == shell'[t]
    <3>1. \/ d = [shell[t] EXCEPT !.alone = FALSE]
          \/ d = shell[t] /\ flyer' = flyer
      BY <2>2 DEF OthersKeep
    <3> HIDE DEF d
    <3>2. CASE d = [shell[t] EXCEPT !.alone = FALSE]
      <4>1. ShellOK(d) /\ ~ d.alone
        BY <1>1, <3>2 DEF ShellOK
      <4> QED
        BY <4>1 DEF KeepsPace, d
    <3>3. CASE d = shell[t] /\ flyer' = flyer
      BY <1>1, <3>3 DEF d
    <3> QED
      BY <3>1, <3>2, <3>3
  <2> QED
    BY <2>1, <2>2
<1> QED
  BY <1>2 DEF CommandsInv, OneSide

LEMMA NothingKeepsPace ==
    ASSUME NEW lots, NEW c, c.doing # "flyer close" \/ c.execute = FALSE
    PROVE  KeepsPace(lots, c)
  BY DEF KeepsPace

LEMMA IdleIsFine == ShellOK(Idle) /\ \A lots : KeepsPace(lots, Idle)
<1>1. Idle.doing = "nothing" /\ <<>> \in Seq(Pos)
  BY DEF Idle
<1>2. ShellOK(Idle)
  BY <1>1 DEF ShellOK, Idle
<1> QED
  BY <1>1, <1>2, NothingKeepsPace

(* What a close on its way holds, from the invariant.                      *)
LEMMA ShellFacts ==
    ASSUME CommandsInv, NEW s \in Shells
    PROVE  /\ DOMAIN shell = Shells /\ ShellOK(shell[s]) /\ KeepsPace(flyer, shell[s])
           /\ flyer \in Seq(Pos) /\ OneSide(flyer) /\ gmo \in Seq(GmoPos)
           /\ shell[s].doing = "flyer close" => shell[s].todo \in Seq(Pos)
           /\ shell[s].doing = "gmo close" => shell[s].todo \in Seq(Listing)
<1>1. ShellOK(shell[s]) /\ KeepsPace(flyer, shell[s])
  BY DEF CommandsInv
<1> QED
  BY <1>1 DEF CommandsInv, ShellOK

(* An entry of a terminal that loses the head of its list.                 *)
LEMMA ShorterList ==
    ASSUME NEW c, ShellOK(c), c.todo # <<>>,
           c.doing = "gmo close" \/ (c.doing = "flyer close" /\ c.execute = FALSE),
           NEW d, d = [c EXCEPT !.todo = Tail(@)]
    PROVE  ShellOK(d) /\ \A lots : KeepsPace(lots, d)
<1>1. PICK rest : rest = Tail(c.todo)
  OBVIOUS
<1>2. c \in [doing : {"nothing", "flyer close", "gmo close"}, execute : BOOLEAN,
             todo : Seq(Pos) \cup Seq(Listing), alone : BOOLEAN, kept : Nat]
  BY DEF ShellOK
<1>3. /\ c.doing = "flyer close" => rest \in Seq(Pos)
      /\ c.doing = "gmo close" => rest \in Seq(Listing)
  <2>1. PICK q : q = c.todo
    OBVIOUS
  <2>2. q # <<>> /\ rest = Tail(q)
    BY <1>1, <2>1
  <2>3. c.doing = "flyer close" => rest \in Seq(Pos)
    <3>1. SUFFICES ASSUME c.doing = "flyer close" PROVE rest \in Seq(Pos)
      OBVIOUS
    <3>2. q \in Seq(Pos)
      BY <2>1, <3>1 DEF ShellOK
    <3> QED
      BY <2>2, <3>2, HeadTailProperties
  <2>4. c.doing = "gmo close" => rest \in Seq(Listing)
    <3>1. SUFFICES ASSUME c.doing = "gmo close" PROVE rest \in Seq(Listing)
      OBVIOUS
    <3>2. q \in Seq(Listing)
      BY <2>1, <3>1 DEF ShellOK
    <3> QED
      BY <2>2, <3>2, HeadTailProperties
  <2> QED
    BY <2>3, <2>4
<1>5. d = [c EXCEPT !.todo = rest]
  BY <1>1, <1>2
<1>6. d.doing = c.doing /\ d.execute = c.execute /\ ShellOK(d)
  BY <1>2, <1>3, <1>5 DEF ShellOK
<1>7. \A lots : KeepsPace(lots, d)
  BY <1>6, NothingKeepsPace
<1> QED
  BY <1>6, <1>7

(* One order of a close at bitFlyer, or the end of it.                     *)
LEMMA FlyerCloseSendsInv ==
    ASSUME CommandsInv, NEW s \in Shells, FlyerCloseSends(s)
    PROVE  CommandsInv'
<1>1. PICK c : c = shell[s]
  OBVIOUS
<1>2. PICK p : p = Head(c.todo)
  OBVIOUS
<1>3. PICK size : size = Min({p.size, Lot})
  OBVIOUS
<1>4. PICK order : order = FlyerCloseOrder(p)
  OBVIOUS
<1>5. order.side = Opposite(p.side) /\ order.size = size
  BY <1>3, <1>4 DEF FlyerCloseOrder
<1>6. /\ c.doing = "flyer close" /\ c.todo # <<>> /\ gmo' = gmo /\ gmoRests' = gmoRests
      /\ \/ /\ c.execute /\ flyer' = FlyerAfter(flyer, order.side, order.size)
            /\ shell' = [Disturbed(s) EXCEPT ![s].todo = Tail(@),
                                             ![s].kept = @ + p.size - order.size]
         \/ /\ c.execute /\ shell' = [shell EXCEPT ![s] = Idle] /\ flyer' = flyer
         \/ /\ ~c.execute /\ flyer' = flyer
            /\ shell' = [shell EXCEPT ![s].todo = Tail(@)]
  <2>1. /\ shell[s].doing = "flyer close" /\ shell[s].todo # <<>>
        /\ gmo' = gmo /\ gmoRests' = gmoRests
    BY DEF FlyerCloseSends
  <2>2. DOMAIN shell = Shells
    BY ShellFacts
  <2>3. \/ /\ shell[s].execute /\ flyer' = FlyerAfter(flyer, order.side, order.size)
           /\ shell' = [Disturbed(s) EXCEPT ![s].todo = Tail(@),
                                            ![s].kept = @ + p.size - order.size]
        \/ /\ shell' = IF shell[s].execute THEN [shell EXCEPT ![s] = Idle]
                       ELSE [shell EXCEPT ![s].todo = Tail(@)]
           /\ flyer' = flyer
    BY <1>1, <1>2, <1>4, Zenon DEF FlyerCloseSends
  <2> QED
    BY <1>1, <2>1, <2>3
<1>7. /\ ShellOK(c) /\ KeepsPace(flyer, c) /\ c.todo \in Seq(Pos) /\ DOMAIN shell = Shells
      /\ flyer \in Seq(Pos) /\ OneSide(flyer) /\ gmo \in Seq(GmoPos)
  BY <1>1, <1>6, ShellFacts
<1>8. p \in Pos
  BY <1>2, <1>6, <1>7, FirstOrder
<1>9. size \in Nat \ {0} /\ size <= p.size
  BY <1>3, <1>8, MinLot
<1>10. p.side \in Sides /\ Opposite(p.side) \in Sides
  BY <1>8, PosFacts DEF Opposite, Sides
<1>11. CASE /\ c.execute /\ flyer' = FlyerAfter(flyer, order.side, order.size)
            /\ shell' = [Disturbed(s) EXCEPT ![s].todo = Tail(@),
                                             ![s].kept = @ + p.size - order.size]
  <2>1. PICK others : others = Disturbed(s)
    OBVIOUS
  <2>2. /\ DOMAIN others = Shells /\ others[s] = c
        /\ \A t \in Shells \ {s} : others[t] = [shell[t] EXCEPT !.alone = FALSE]
    BY <1>1, <1>7, <2>1, DisturbedFacts
  <2>3. PICK z : z = c.kept + p.size - size
    OBVIOUS
  <2>4. shell' = [others EXCEPT ![s].todo = Tail(@), ![s].kept = @ + p.size - order.size]
    BY <1>11, <2>1
  <2>5. /\ DOMAIN shell' = Shells /\ shell'[s] = Advanced(c, Tail(c.todo), z)
        /\ \A t \in Shells \ {s} : shell'[t] = [shell[t] EXCEPT !.alone = FALSE]
    <3>1. c \in [doing : {"nothing", "flyer close", "gmo close"}, execute : BOOLEAN,
                 todo : Seq(Pos) \cup Seq(Listing), alone : BOOLEAN, kept : Nat]
      BY <1>7 DEF ShellOK
    <3>2. DOMAIN shell' = Shells /\ \A t \in Shells \ {s} : shell'[t] = others[t]
      BY <2>2, <2>4
    <3>3. shell'[s] = [[others[s] EXCEPT !.todo = Tail(@)] EXCEPT !.kept = @ + p.size - order.size]
      BY <2>2, <2>4
    <3>4. PICK e : e = [c EXCEPT !.todo = Tail(@)]
      OBVIOUS
    <3>5. shell'[s] = [e EXCEPT !.kept = @ + p.size - size]
      BY <1>5, <2>2, <3>3, <3>4
    <3>6. e.kept = c.kept
      BY <3>1, <3>4
    <3>7. shell'[s] = [e EXCEPT !.kept = z]
      BY <2>3, <3>1, <3>4, <3>5, <3>6
    <3>8. [e EXCEPT !.kept = z] = [c EXCEPT !.todo = Tail(c.todo), !.kept = z]
      BY <3>1, <3>4
    <3> QED
      BY <2>2, <3>2, <3>7, <3>8 DEF Advanced
  <2>6. flyer' = FlyerAfter(flyer, Opposite(p.side), size)
    BY <1>5, <1>11
  <2>7. flyer' \in Seq(Pos) /\ OneSide(flyer')
    BY <1>7, <1>9, <1>10, <2>6, FlyerStaysOneSided
  <2>8. ShellOK(shell'[s]) /\ KeepsPace(flyer', shell'[s])
    <3>1. PICK d : d = Advanced(c, Tail(c.todo), z)
      OBVIOUS
    <3>2. d = Advanced(c, Tail(c.todo), c.kept + Head(c.todo).size - size)
      BY <1>2, <2>3, <3>1
    <3>3. size <= Head(c.todo).size /\ c.execute
      BY <1>2, <1>9, <1>11
    <3>4. ShellOK(d) /\ KeepsPace(FlyerAfter(flyer, Opposite(Head(c.todo).side), size), d)
      BY <1>6, <1>7, <1>9, <3>2, <3>3, CloseAdvances
    <3> QED
      BY <1>2, <2>5, <2>6, <3>1, <3>4
  <2>9. OthersKeep(s)
    BY <2>5 DEF OthersKeep
  <2> QED
    BY <1>6, <1>7, <2>5, <2>7, <2>8, <2>9, OneShellMoves
<1>12. CASE c.execute /\ shell' = [shell EXCEPT ![s] = Idle] /\ flyer' = flyer
  <2>1. DOMAIN shell' = Shells /\ shell'[s] = Idle /\ \A t \in Shells \ {s} : shell'[t] = shell[t]
    BY <1>7, <1>12
  <2>2. OthersKeep(s)
    BY <1>12, <2>1 DEF OthersKeep
  <2> QED
    BY <1>6, <1>7, <1>12, <2>1, <2>2, IdleIsFine, OneShellMoves
<1>13. CASE /\ ~c.execute /\ flyer' = flyer
            /\ shell' = [shell EXCEPT ![s].todo = Tail(@)]
  <2>1. /\ DOMAIN shell' = Shells /\ shell'[s] = [c EXCEPT !.todo = Tail(@)]
        /\ \A t \in Shells \ {s} : shell'[t] = shell[t]
    BY <1>1, <1>7, <1>13
  <2>2. OthersKeep(s)
    BY <1>13, <2>1 DEF OthersKeep
  <2>3. c.execute = FALSE
    BY <1>7, <1>13 DEF ShellOK
  <2>4. ShellOK(shell'[s]) /\ KeepsPace(flyer', shell'[s])
    BY <1>6, <1>7, <2>1, <2>3, ShorterList
  <2> QED
    BY <1>6, <1>7, <1>13, <2>1, <2>2, <2>4, OneShellMoves
<1> QED
  BY <1>6, <1>11, <1>12, <1>13

LEMMA PositionsFacts ==
    ASSUME CommandsInv
    PROVE  /\ flyer \in Seq(Pos) /\ OneSide(flyer) /\ gmo \in Seq(GmoPos)
           /\ DOMAIN shell = Shells
           /\ \A o \in gmoRests : o.size \in Int /\ o.side \in Sides
           /\ Lot \in Nat \ {0} /\ HandSizes \subseteq Nat \ {0}
  BY CommandsAssumption DEF CommandsInv

(* An order of a lot, or of a hand, at bitFlyer.                           *)
LEMMA FlyerMovesInv ==
    ASSUME CommandsInv, NEW side \in Sides, NEW size \in Nat \ {0},
           flyer' = FlyerAfter(flyer, side, size), DOMAIN shell' = Shells,
           \A t \in Shells : \/ shell'[t] = [shell[t] EXCEPT !.alone = FALSE]
                             \/ shell'[t] = shell[t] /\ shell[t].doing = "nothing",
           gmo' = gmo, gmoRests' = gmoRests
    PROVE  CommandsInv'
<1>1. flyer' \in Seq(Pos) /\ OneSide(flyer')
  BY PositionsFacts, FlyerStaysOneSided
<1>2. OneSide(flyer)'
  BY <1>1 DEF OneSide
<1>3. Interrupts
  BY DEF Interrupts
<1>4. gmo' \in Seq(GmoPos) /\ \A o \in gmoRests' : o.size \in Int /\ o.side \in Sides
  BY PositionsFacts
<1> QED
  BY <1>1, <1>2, <1>3, <1>4, InterruptsKeeps

(* A step that leaves bitFlyer and the terminals as they are.              *)
LEMMA GmoMovesInv ==
    ASSUME CommandsInv, flyer' = flyer, shell' = shell, gmo' \in Seq(GmoPos),
           \A o \in gmoRests' : o.size \in Int /\ o.side \in Sides
    PROVE  CommandsInv'
<1>1. flyer' \in Seq(Pos) /\ OneSide(flyer)'
  BY PositionsFacts DEF OneSide
<1>2. Interrupts
  BY PositionsFacts DEF Interrupts
<1> QED
  BY <1>1, <1>2, InterruptsKeeps

(* A terminal that turns to something else, with no order of bitFlyer.     *)
LEMMA ShellTurnsInv ==
    ASSUME CommandsInv, NEW s \in Shells, NEW d, ShellOK(d), KeepsPace(flyer, d),
           shell' = [shell EXCEPT ![s] = d], flyer' = flyer, gmo' \in Seq(GmoPos),
           gmoRests' = gmoRests
    PROVE  CommandsInv'
<1>1. /\ DOMAIN shell' = Shells /\ shell'[s] = d
      /\ \A t \in Shells \ {s} : shell'[t] = shell[t]
  BY PositionsFacts
<1>2. OthersKeep(s)
  BY <1>1 DEF OthersKeep
<1>3. flyer' \in Seq(Pos) /\ OneSide(flyer')
  BY PositionsFacts
<1> QED
  BY <1>1, <1>2, <1>3, OneShellMoves

LEMMA FlyerOrderInv ==
    ASSUME CommandsInv, NEW s \in Shells, NEW side \in Sides, NEW limit, FlyerOrder(s, side, limit)
    PROVE  CommandsInv'
<1>1. /\ shell[s].doing = "nothing" /\ shell' = Disturbed(s) /\ gmo' = gmo /\ gmoRests' = gmoRests
      /\ flyer' = FlyerAfter(flyer, side, Lot) \/ flyer' = flyer
  BY DEF FlyerOrder
<1>2. DOMAIN shell' = Shells
  BY <1>1, PositionsFacts, DisturbedFacts
<1>3. /\ \A t \in Shells \ {s} : shell'[t] = [shell[t] EXCEPT !.alone = FALSE]
      /\ shell'[s] = shell[s]
  BY <1>1, PositionsFacts, DisturbedFacts
<1>4. CASE flyer' = FlyerAfter(flyer, side, Lot)
  BY <1>1, <1>2, <1>3, <1>4, PositionsFacts, FlyerMovesInv
<1>5. CASE flyer' = flyer
  <2>1. Interrupts
    BY <1>2, <1>3, <1>5 DEF Interrupts
  <2>2. /\ flyer' \in Seq(Pos) /\ OneSide(flyer)' /\ gmo' \in Seq(GmoPos)
        /\ \A o \in gmoRests' : o.size \in Int /\ o.side \in Sides
    BY <1>1, <1>5, PositionsFacts DEF OneSide
  <2> QED
    BY <2>1, <2>2, InterruptsKeeps
<1> QED
  BY <1>1, <1>4, <1>5

LEMMA FlyerCloseReadsInv ==
    ASSUME CommandsInv, NEW s \in Shells, NEW execute \in BOOLEAN, FlyerCloseReads(s, execute)
    PROVE  CommandsInv'
<1>1. PICK d : d = Closing("flyer close", execute, flyer)
  OBVIOUS
<1>2. /\ shell' = [shell EXCEPT ![s] = d] /\ flyer' = flyer /\ gmo' = gmo /\ gmoRests' = gmoRests
  BY <1>1 DEF FlyerCloseReads
<1>3. /\ d.doing = "flyer close" /\ d.execute = execute /\ d.todo = flyer /\ d.kept = 0 /\ ShellOK(d)
  <2>1. flyer \in Seq(Pos)
    BY PositionsFacts
  <2> QED
    BY <1>1, <2>1 DEF Closing, Idle, ShellOK
<1>4. KeepsPace(flyer, d)
  <2>1. Units(flyer) = Units(flyer) + 0
    BY PositionsFacts, UnitsAreNat
  <2>2. Apace(flyer, flyer, 0)
    BY <2>1, PositionsFacts DEF Apace, OneSide
  <2> QED
    BY <1>3, <2>2 DEF KeepsPace
<1> QED
  BY <1>2, <1>3, <1>4, PositionsFacts, ShellTurnsInv

LEMMA GmoCloseReadsInv ==
    ASSUME CommandsInv, NEW s \in Shells, NEW execute \in BOOLEAN, GmoCloseReads(s, execute)
    PROVE  CommandsInv'
<1>1. PICK d : d = Closing("gmo close", execute, GmoHeld)
  OBVIOUS
<1>2. /\ shell' = [shell EXCEPT ![s] = d] /\ flyer' = flyer /\ gmo' = gmo /\ gmoRests' = gmoRests
  BY <1>1 DEF GmoCloseReads
<1>3. d.doing = "gmo close" /\ ShellOK(d)
  <2>1. GmoHeld \in Seq(Listing)
    BY PositionsFacts, GmoHeldTyped
  <2> QED
    BY <1>1, <2>1 DEF Closing, Idle, ShellOK
<1>4. KeepsPace(flyer, d)
  BY <1>3, NothingKeepsPace
<1> QED
  BY <1>2, <1>3, <1>4, PositionsFacts, ShellTurnsInv

(* What a close of GMO does in one step.                                   *)
LEMMA GmoCloseSendsFacts ==
    ASSUME CommandsInv, NEW s \in Shells, GmoCloseSends(s)
    PROVE  /\ shell[s].doing = "gmo close" /\ shell[s].todo # <<>>
           /\ flyer' = flyer /\ gmoRests' = gmoRests
           /\ \/ shell' = [shell EXCEPT ![s].todo = Tail(@)]
              \/ shell' = [shell EXCEPT ![s] = Idle]
           /\ \/ gmo' = gmo
              \/ \E lots \in Listing : /\ GmoAccepts(GmoSettles(lots.id, lots.p))
                                       /\ gmo' = GmoAfter(GmoSettles(lots.id, lots.p))
<1>1. PICK order : order = GmoCloseOrder(Head(shell[s].todo))
  OBVIOUS
<1>2. /\ shell[s].doing = "gmo close" /\ shell[s].todo # <<>>
      /\ flyer' = flyer /\ gmoRests' = gmoRests
  BY DEF GmoCloseSends
<1>3. /\ \/ shell' = [shell EXCEPT ![s].todo = Tail(@)]
         \/ shell' = [shell EXCEPT ![s] = Idle]
      /\ \/ gmo' = gmo
         \/ GmoAccepts(order) /\ gmo' = GmoAfter(order)
  BY <1>1, Zenon DEF GmoCloseSends
<1>4. PICK q : q = shell[s].todo
  OBVIOUS
<1>5. q \in Seq(Listing) /\ q # <<>>
  BY <1>2, <1>4, ShellFacts
<1>6. Head(q) \in Listing
  BY <1>5
<1>7. order = GmoSettles(Head(q).id, Head(q).p)
  BY <1>1, <1>4 DEF GmoCloseOrder
<1> QED
  BY <1>2, <1>3, <1>6, <1>7

LEMMA SettlementTyped ==
    ASSUME NEW lots \in Listing
    PROVE  /\ GmoSettles(lots.id, lots.p).size \in Nat /\ GmoSettles(lots.id, lots.p).side \in Sides
           /\ GmoSettles(lots.id, lots.p).kind = "settle" /\ GmoSettles(lots.id, lots.p).id = lots.id
  BY DEF GmoSettles, Listing, Opposite, Sides

LEMMA GmoCloseSendsInv ==
    ASSUME CommandsInv, NEW s \in Shells, GmoCloseSends(s)
    PROVE  CommandsInv'
<1>1. gmo' \in Seq(GmoPos)
  <2>1. CASE gmo' = gmo
    BY <2>1, PositionsFacts
  <2>2. ASSUME NEW lots \in Listing, gmo' = GmoAfter(GmoSettles(lots.id, lots.p))
        PROVE  gmo' \in Seq(GmoPos)
    <3>1. PICK order : order = GmoSettles(lots.id, lots.p)
      OBVIOUS
    <3>2. order.size \in Int /\ order.side \in Sides
      BY <3>1, SettlementTyped
    <3>3. GmoAfter(order) \in Seq(GmoPos)
      BY <3>2, PositionsFacts, GmoAfterTyped
    <3> QED
      BY <2>2, <3>1, <3>3
  <2> QED
    BY <2>1, <2>2, GmoCloseSendsFacts
<1>2. CASE shell' = [shell EXCEPT ![s] = Idle]
  BY <1>1, <1>2, GmoCloseSendsFacts, IdleIsFine, ShellTurnsInv
<1>3. CASE shell' = [shell EXCEPT ![s].todo = Tail(@)]
  <2>1. PICK c : c = shell[s]
    OBVIOUS
  <2>2. PICK d : d = [c EXCEPT !.todo = Tail(@)]
    OBVIOUS
  <2>3. shell' = [shell EXCEPT ![s] = d]
    BY <1>3, <2>1, <2>2, PositionsFacts
  <2>4. ShellOK(d) /\ KeepsPace(flyer, d)
    BY <2>1, <2>2, GmoCloseSendsFacts, ShellFacts, ShorterList
  <2> QED
    BY <1>1, <2>3, <2>4, GmoCloseSendsFacts, ShellTurnsInv
<1> QED
  BY <1>2, <1>3, GmoCloseSendsFacts

LEMMA CommandEndsInv ==
    ASSUME CommandsInv, NEW s \in Shells, CommandEnds(s)
    PROVE  CommandsInv'
<1>1. shell' = [shell EXCEPT ![s] = Idle] /\ flyer' = flyer /\ gmo' = gmo /\ gmoRests' = gmoRests
  BY DEF CommandEnds
<1> QED
  BY <1>1, PositionsFacts, IdleIsFine, ShellTurnsInv

LEMMA FlyerTradesInv ==
    ASSUME CommandsInv, NEW side \in Sides, NEW size \in HandSizes, FlyerTrades(side, size)
    PROVE  CommandsInv'
<1>1. /\ flyer' = FlyerAfter(flyer, side, size) /\ gmo' = gmo /\ gmoRests' = gmoRests
      /\ shell' = [s \in Shells |-> [shell[s] EXCEPT !.alone = FALSE]]
  BY DEF FlyerTrades
<1>2. DOMAIN shell' = Shells /\ \A t \in Shells : shell'[t] = [shell[t] EXCEPT !.alone = FALSE]
  BY <1>1
<1>3. size \in Nat \ {0}
  BY PositionsFacts
<1> QED
  BY <1>1, <1>2, <1>3, FlyerMovesInv

LEMMA FlyerLimitEndsInv ==
    ASSUME CommandsInv, NEW side \in Sides, FlyerLimitEnds(side)
    PROVE  CommandsInv'
<1>1. gmo' = gmo /\ gmoRests' = gmoRests
  BY DEF FlyerLimitEnds
<1>2. \/ /\ flyer' = FlyerAfter(flyer, side, Lot)
         /\ shell' = [s \in Shells |-> [shell[s] EXCEPT !.alone = FALSE]]
      \/ flyer' = flyer /\ shell' = shell
  BY DEF FlyerLimitEnds
<1>3. CASE /\ flyer' = FlyerAfter(flyer, side, Lot)
           /\ shell' = [s \in Shells |-> [shell[s] EXCEPT !.alone = FALSE]]
  <2>1. DOMAIN shell' = Shells /\ \A t \in Shells : shell'[t] = [shell[t] EXCEPT !.alone = FALSE]
    BY <1>3
  <2> QED
    BY <1>1, <1>3, <2>1, PositionsFacts, FlyerMovesInv
<1>4. CASE flyer' = flyer /\ shell' = shell
  BY <1>1, <1>4, PositionsFacts, GmoMovesInv
<1> QED
  BY <1>2, <1>3, <1>4

LEMMA FlyerCancelAllInv ==
    ASSUME CommandsInv, NEW s, FlyerCancelAll(s)
    PROVE  CommandsInv'
<1>1. flyer' = flyer /\ shell' = shell /\ gmo' = gmo /\ gmoRests' = gmoRests
  BY DEF FlyerCancelAll
<1> QED
  BY <1>1, PositionsFacts, GmoMovesInv

LEMMA GmoCancelAllInv ==
    ASSUME CommandsInv, NEW s, GmoCancelAll(s)
    PROVE  CommandsInv'
<1>1. flyer' = flyer /\ shell' = shell /\ gmo' = gmo /\ gmoRests' = {}
  BY DEF GmoCancelAll
<1> QED
  BY <1>1, PositionsFacts, GmoMovesInv

LEMMA GmoOrderInv ==
    ASSUME CommandsInv, NEW s, NEW side \in Sides, NEW limit, GmoOrder(s, side, limit)
    PROVE  CommandsInv'
<1>1. PICK order : order = GmoOpens(side)
  OBVIOUS
<1>2. order.size \in Int /\ order.side \in Sides
  BY <1>1, PositionsFacts DEF GmoOpens
<1>3. /\ flyer' = flyer /\ shell' = shell
      /\ \/ gmoRests' = gmoRests \union {order} /\ gmo' = gmo
         \/ gmo' = GmoAfter(order) /\ gmoRests' = gmoRests
  BY <1>1 DEF GmoOrder
<1>4. GmoAfter(order) \in Seq(GmoPos)
  BY <1>2, PositionsFacts, GmoAfterTyped
<1>5. gmo' \in Seq(GmoPos) /\ \A o \in gmoRests' : o.size \in Int /\ o.side \in Sides
  BY <1>2, <1>3, <1>4, PositionsFacts
<1> QED
  BY <1>3, <1>5, GmoMovesInv

LEMMA GmoTradesInv ==
    ASSUME CommandsInv, NEW side \in Sides, NEW size \in HandSizes, GmoTrades(side, size)
    PROVE  CommandsInv'
<1>1. flyer' = flyer /\ shell' = shell
  BY DEF GmoTrades
<1>2. CASE gmo' = Append(gmo, [side |-> side, size |-> size]) /\ gmoRests' = gmoRests
  <2>1. PICK p : p = [side |-> side, size |-> size]
    OBVIOUS
  <2>2. p \in GmoPos
    BY <2>1, PositionsFacts DEF GmoPos
  <2>3. Append(gmo, p) \in Seq(GmoPos)
    BY <2>2, PositionsFacts
  <2> QED
    BY <1>1, <1>2, <2>1, <2>3, PositionsFacts, GmoMovesInv
<1>3. ASSUME NEW id \in DOMAIN gmo,
             \/ gmoRests' = gmoRests \union {GmoSettles(id, gmo[id])} /\ gmo' = gmo
             \/ gmo' = GmoAfter(GmoSettles(id, gmo[id])) /\ gmoRests' = gmoRests
      PROVE  CommandsInv'
  <2>1. PICK order : order = GmoSettles(id, gmo[id])
    OBVIOUS
  <2>2. gmo[id] \in GmoPos
    BY PositionsFacts
  <2>3. order.size \in Int /\ order.side \in Sides
    BY <2>1, <2>2 DEF GmoSettles, GmoPos, Opposite, Sides
  <2>4. GmoAfter(order) \in Seq(GmoPos)
    BY <2>3, PositionsFacts, GmoAfterTyped
  <2>5. gmo' \in Seq(GmoPos) /\ \A o \in gmoRests' : o.size \in Int /\ o.side \in Sides
    BY <1>3, <2>1, <2>3, <2>4, PositionsFacts
  <2> QED
    BY <1>1, <2>5, GmoMovesInv
<1>4. \/ gmo' = Append(gmo, [side |-> side, size |-> size]) /\ gmoRests' = gmoRests
      \/ \E id \in DOMAIN gmo :
            \/ gmoRests' = gmoRests \union {GmoSettles(id, gmo[id])} /\ gmo' = gmo
            \/ gmo' = GmoAfter(GmoSettles(id, gmo[id])) /\ gmoRests' = gmoRests
  BY Zenon DEF GmoTrades
<1> QED
  BY <1>2, <1>3, <1>4

LEMMA GmoRestingExecutesInv ==
    ASSUME CommandsInv, NEW order \in gmoRests, GmoRestingExecutes(order)
    PROVE  CommandsInv'
<1>1. /\ flyer' = flyer /\ shell' = shell /\ gmo' = GmoAfter(order)
      /\ gmoRests' = gmoRests \ {order}
  BY DEF GmoRestingExecutes
<1>2. order.size \in Int /\ order.side \in Sides
  BY PositionsFacts
<1>3. GmoAfter(order) \in Seq(GmoPos)
  BY <1>2, PositionsFacts, GmoAfterTyped
<1>4. gmo' \in Seq(GmoPos) /\ \A o \in gmoRests' : o.size \in Int /\ o.side \in Sides
  BY <1>1, <1>3, PositionsFacts
<1> QED
  BY <1>1, <1>4, GmoMovesInv

LEMMA CommandsStepInv == CommandsInv /\ [CommandsNext]_commandVars => CommandsInv'
<1> SUFFICES ASSUME CommandsInv, [CommandsNext]_commandVars PROVE CommandsInv'
  OBVIOUS
<1>1. CASE FlyerNext
  BY <1>1, FlyerOrderInv, FlyerCloseReadsInv, FlyerCloseSendsInv, FlyerCancelAllInv,
     CommandEndsInv, FlyerLimitEndsInv, FlyerTradesInv DEF FlyerNext
<1>2. CASE GmoNext
  BY <1>2, GmoOrderInv, GmoCloseReadsInv, GmoCloseSendsInv, GmoCancelAllInv, CommandEndsInv,
     GmoTradesInv, GmoRestingExecutesInv DEF GmoNext
<1>3. CASE UNCHANGED commandVars
  <2>1. flyer' = flyer /\ shell' = shell /\ gmo' = gmo /\ gmoRests' = gmoRests
    BY <1>3 DEF commandVars
  <2> QED
    BY <2>1, PositionsFacts, GmoMovesInv
<1> QED
  BY <1>1, <1>2, <1>3 DEF CommandsNext

(* A close of bitFlyer that is alone is as far as the account.             *)
THEOREM CloseKeepsPace == CommandsSpec => []LoneCloseKeepsPace
<1>1. CommandsInv => LoneCloseKeepsPace
  BY DEF CommandsInv, LoneCloseKeepsPace, KeepsPace, Apace
<1> QED
  BY <1>1, CommandsInitInv, CommandsStepInv, PTL DEF CommandsSpec

(* A settlement that GMO accepts takes from one position.                  *)
LEMMA SettlementsTake ==
    ASSUME CommandsInv, NEW lots \in Listing, GmoAccepts(GmoSettles(lots.id, lots.p)),
           gmo' = GmoAfter(GmoSettles(lots.id, lots.p)), NEW side \in Sides
    PROVE  GmoExposure(side)' <= GmoExposure(side)
<1>1. PICK order : order = GmoSettles(lots.id, lots.p)
  OBVIOUS
<1>2. order.kind = "settle" /\ order.size \in Nat
  BY <1>1, SettlementTyped
<1>3. order.id \in DOMAIN gmo /\ gmo' = [gmo EXCEPT ![order.id].size = @ - order.size]
  BY <1>1, <1>2 DEF GmoAccepts, GmoAfter
<1>4. PICK id : id = order.id
  OBVIOUS
<1>5. PICK sz : sz = order.size
  OBVIOUS
<1>6. gmo \in [1..Len(gmo) -> GmoPos] /\ Len(gmo) \in Nat
  BY PositionsFacts
<1>7. /\ DOMAIN gmo' = DOMAIN gmo
      /\ \A i \in DOMAIN gmo : /\ gmo[i] \in GmoPos /\ gmo'[i].side = gmo[i].side
                               /\ gmo'[i].size = IF i = id THEN gmo[i].size - sz ELSE gmo[i].size
  <2>1. \A i \in DOMAIN gmo : gmo[i] \in GmoPos
    BY <1>6
  <2> QED
    BY <1>3, <1>4, <1>5, <2>1 DEF GmoPos
<1>8. PICK S : S = { i \in DOMAIN gmo : gmo[i].side = side }
  OBVIOUS
<1>9. IsFiniteSet(S)
  <2>1. IsFiniteSet(DOMAIN gmo)
    BY <1>6, FS_Interval
  <2> QED
    BY <1>8, <2>1, FS_Subset
<1>10. PICK f : f = [i \in S |-> gmo'[i].size]
  OBVIOUS
<1>11. PICK g : g = [i \in S |-> gmo[i].size]
  OBVIOUS
<1>12. f \in [S -> Int] /\ g \in [S -> Int] /\ \A i \in S : f[i] <= g[i]
  <2>1. \A i \in S : /\ gmo[i].size \in Int /\ sz \in Nat
                     /\ gmo'[i].size = IF i = id THEN gmo[i].size - sz ELSE gmo[i].size
    BY <1>2, <1>5, <1>7, <1>8 DEF GmoPos
  <2>2. \A i \in S : gmo'[i].size \in Int /\ gmo'[i].size <= gmo[i].size
    BY <2>1
  <2> QED
    BY <1>10, <1>11, <2>1, <2>2
<1>13. SumFunctionOnSet(f, S) <= SumFunctionOnSet(g, S)
  BY <1>9, <1>12, SumsCompare
<1>14. GmoExposure(side) = SumFunctionOnSet(g, S)
  BY <1>8, <1>11 DEF GmoExposure, SumFunction
<1>15. GmoExposure(side)' = SumFunctionOnSet(f, S)
  <2>1. { i \in DOMAIN gmo' : gmo'[i].side = side } = S
    BY <1>7, <1>8
  <2> QED
    BY <1>10, <2>1 DEF GmoExposure, SumFunction
<1> QED
  BY <1>13, <1>14, <1>15

LEMMA ExposureTyped ==
    ASSUME CommandsInv, NEW side \in Sides
    PROVE  GmoExposure(side) \in Int
<1>1. PICK S : S = { i \in DOMAIN gmo : gmo[i].side = side }
  OBVIOUS
<1>2. gmo \in [1..Len(gmo) -> GmoPos] /\ Len(gmo) \in Nat
  BY PositionsFacts
<1>3. IsFiniteSet(S)
  <2>1. IsFiniteSet(DOMAIN gmo)
    BY <1>2, FS_Interval
  <2> QED
    BY <1>1, <2>1, FS_Subset
<1>4. PICK g : g = [i \in S |-> gmo[i].size]
  OBVIOUS
<1>5. g \in [S -> Int] /\ \A i \in S : g[i] <= g[i]
  <2>1. \A i \in S : gmo[i].size \in Int
    BY <1>1, <1>2 DEF GmoPos
  <2> QED
    BY <1>4, <2>1
<1>6. SumFunctionOnSet(g, S) \in Int
  BY <1>3, <1>5, SumsCompare
<1> QED
  BY <1>1, <1>4, <1>6 DEF GmoExposure, SumFunction

(* Who changes the account of GMO: nobody, a close that settles, or a step *)
(* in which no terminal does anything.                                     *)
LEMMA WhoTradesAtGmo ==
    ASSUME CommandsInv, [CommandsNext]_commandVars
    PROVE  \/ shell' = shell
           \/ gmo' = gmo
           \/ \E lots \in Listing : /\ GmoAccepts(GmoSettles(lots.id, lots.p))
                                    /\ gmo' = GmoAfter(GmoSettles(lots.id, lots.p))
<1>1. CASE FlyerNext
  <2>1. gmo' = gmo
    BY <1>1 DEF FlyerNext, FlyerOrder, FlyerCloseReads, FlyerCloseSends, FlyerCancelAll,
                CommandEnds, FlyerLimitEnds, FlyerTrades
  <2> QED
    BY <2>1
<1>2. CASE GmoNext
  <2>1. ASSUME NEW s \in Shells, GmoCloseSends(s)
        PROVE  gmo' = gmo \/ \E lots \in Listing :
                                 /\ GmoAccepts(GmoSettles(lots.id, lots.p))
                                 /\ gmo' = GmoAfter(GmoSettles(lots.id, lots.p))
    BY <2>1, GmoCloseSendsFacts
  <2>2. ASSUME NEW s \in Shells, NEW execute, GmoCloseReads(s, execute) PROVE gmo' = gmo
    BY <2>2 DEF GmoCloseReads
  <2>3. ASSUME NEW s \in Shells, CommandEnds(s) PROVE gmo' = gmo
    BY <2>3 DEF CommandEnds
  <2>4. ASSUME NEW s \in Shells, NEW side, NEW limit, GmoOrder(s, side, limit) PROVE shell' = shell
    BY <2>4 DEF GmoOrder
  <2>5. ASSUME NEW s \in Shells, GmoCancelAll(s) PROVE shell' = shell
    BY <2>5 DEF GmoCancelAll
  <2>6. ASSUME NEW side, NEW size, GmoTrades(side, size) PROVE shell' = shell
    BY <2>6 DEF GmoTrades
  <2>7. ASSUME NEW order, GmoRestingExecutes(order) PROVE shell' = shell
    BY <2>7 DEF GmoRestingExecutes
  <2> QED
    BY <1>2, <2>1, <2>2, <2>3, <2>4, <2>5, <2>6, <2>7 DEF GmoNext
<1>3. CASE UNCHANGED commandVars
  BY <1>3 DEF commandVars
<1> QED
  BY <1>1, <1>2, <1>3 DEF CommandsNext

(* A close of GMO never adds to a side.                                    *)
THEOREM SettlingNeverOpens == CommandsSpec => GmoCloseNeverOpens
<1>1. ASSUME CommandsInv, [CommandsNext]_commandVars,
             NEW s \in Shells, shell[s].doing = "gmo close", shell'[s] # shell[s],
             NEW side \in Sides
      PROVE  GmoExposure(side)' <= GmoExposure(side)
  <2>1. CASE gmo' = gmo
    <3>1. GmoExposure(side)' = GmoExposure(side)
      BY <2>1 DEF GmoExposure
    <3>2. GmoExposure(side) \in Int
      BY <1>1, ExposureTyped
    <3>3. PICK e : e = GmoExposure(side)
      OBVIOUS
    <3>4. e \in Int /\ e <= e
      BY <3>2, <3>3
    <3> QED
      BY <3>1, <3>3, <3>4
  <2>2. CASE \E lots \in Listing : /\ GmoAccepts(GmoSettles(lots.id, lots.p))
                                   /\ gmo' = GmoAfter(GmoSettles(lots.id, lots.p))
    BY <1>1, <2>2, SettlementsTake
  <2> QED
    BY <1>1, <2>1, <2>2, WhoTradesAtGmo
<1>2. CommandsInv /\ [CommandsNext]_commandVars =>
        [ (\E s \in Shells : shell[s].doing = "gmo close" /\ shell'[s] # shell[s])
          => \A side \in Sides : GmoExposure(side)' <= GmoExposure(side) ]_commandVars
  BY <1>1
<1> QED
  BY <1>2, CommandsInitInv, CommandsStepInv, PTL DEF CommandsSpec, GmoCloseNeverOpens

(***************************************************************************)
(* The live tab.                                                           *)
(***************************************************************************)

(* An answer of the venue, an entry of a cache, and what a callback took.  *)
Answers == [read : Nat, ok : BOOLEAN]
Entries == [stamp : Nat, data : Answers]
Taken   == [data : Answers, when : Nat]

ViewType ==
    [at : {"idle", "look", "ask", "keep", "shown"}, source : Sources, force : BOOLEAN,
     asked : Nat, now : Nat, answer : Answers \union {Nothing},
     took : [Sources -> Taken \union {Nothing}]]

LiveTabTypeOK ==
    /\ monotonic \in Nat
    /\ held \in [Sources -> Entries \union {Nothing}]
    /\ view \in [Viewers -> ViewType]

(* An entry is stamped no later than its read was answered, and no read is *)
(* answered in the future.                                                 *)
StampsComeFirst ==
    \A s \in Sources : held[s] # Nothing =>
        held[s].stamp <= held[s].data.read /\ held[s].data.read <= monotonic

(* What callback c took of source s is recent, and a refresh read it.       *)
TookWell(c, s) ==
    LET took == c.took[s]
    IN  /\ took \in Taken
        /\ took.when = took.data.read \/ took.when - took.data.read < Ttl[s]
        /\ c.force => took.data.read >= c.asked

(* The moments of a callback come in the order of its steps, up to now.     *)
MomentsAreOrdered(c, now) ==
    /\ c.asked <= now
    /\ c.at \in {"ask", "keep"} => c.asked <= c.now /\ c.now <= now
    /\ c.at = "keep" => c.answer \in Answers /\ c.now <= c.answer.read /\ c.answer.read <= now

(* The bars are taken before the account.                                  *)
TookInTurn(c) ==
    /\ c.at \in {"look", "ask", "keep"} /\ c.source = "account" => TookWell(c, "bars")
    /\ c.at = "shown" => \A s \in Sources : TookWell(c, s)

LiveTabInv ==
    /\ LiveTabTypeOK /\ StampsComeFirst
    /\ \A v \in Viewers : MomentsAreOrdered(view[v], monotonic) /\ TookInTurn(view[v])

LEMMA LiveTabInitInv == LiveTabInit => LiveTabInv
  BY LiveTabAssumption
  DEF LiveTabInit, LiveTabInv, LiveTabTypeOK, StampsComeFirst, MomentsAreOrdered, TookInTurn,
      NoView, ViewType, Sources

(* A step of one callback leaves the others as they are.                   *)
LEMMA OneCallbackMoves ==
    ASSUME LiveTabInv, NEW v \in Viewers, NEW c \in ViewType,
           MomentsAreOrdered(c, monotonic), TookInTurn(c),
           view' = [view EXCEPT ![v] = c], UNCHANGED <<monotonic, held>>
    PROVE  LiveTabInv'
<1>1. LiveTabTypeOK' /\ StampsComeFirst'
  BY DEF LiveTabInv, LiveTabTypeOK, StampsComeFirst
<1>2. ASSUME NEW w \in Viewers
      PROVE  MomentsAreOrdered(view[w], monotonic)' /\ TookInTurn(view[w])'
  <2>1. view'[w] = IF w = v THEN c ELSE view[w]
    BY DEF LiveTabInv, LiveTabTypeOK
  <2>2. MomentsAreOrdered(view'[w], monotonic) /\ TookInTurn(view'[w])
    BY <2>1 DEF LiveTabInv
  <2> QED
    BY <2>2
<1> QED
  BY <1>1, <1>2 DEF LiveTabInv

(* A source that was taken well is noted so, and the callback goes on to   *)
(* the next source or shows what it has.                                   *)
LEMMA TakingNotes ==
    ASSUME LiveTabInv, NEW v \in Viewers, view[v].at \in {"look", "keep"},
           NEW data \in Answers, NEW when \in Nat,
           when = data.read \/ when - data.read < Ttl[view[v].source],
           view[v].force => data.read >= view[v].asked
    PROVE  /\ Took(v, data, when) \in ViewType
           /\ MomentsAreOrdered(Took(v, data, when), monotonic)
           /\ TookInTurn(Took(v, data, when))
<1> DEFINE s == view[v].source
           c == Took(v, data, when)
           taken == [data |-> data, when |-> when]
<1>1. view[v] \in ViewType /\ s \in Sources /\ taken \in Taken
  BY DEF LiveTabInv, LiveTabTypeOK, ViewType, Taken
<1>2. /\ c.at = (IF s = "bars" THEN "look" ELSE "shown")
      /\ c.source = "account" /\ c.force = view[v].force /\ c.asked = view[v].asked
      /\ c.took = [view[v].took EXCEPT ![s] = taken]
      /\ c \in ViewType
  BY <1>1 DEF Took, ViewType, Sources
<1>3. MomentsAreOrdered(c, monotonic)
  BY <1>2 DEF MomentsAreOrdered, LiveTabInv
<1>4. TookWell(c, s)
  <2>1. c.took[s] = taken
    BY <1>1, <1>2 DEF ViewType
  <2> HIDE DEF c
  <2> QED
    BY <1>1, <1>2, <2>1 DEF TookWell, Taken
<1>5. ASSUME s = "account" PROVE TookWell(c, "bars")
  <2>1. TookWell(view[v], "bars")
    BY <1>5 DEF LiveTabInv, TookInTurn
  <2>2. c.took["bars"] = view[v].took["bars"]
    BY <1>1, <1>2, <1>5 DEF ViewType, Sources
  <2> HIDE DEF c
  <2> QED
    BY <1>2, <2>1, <2>2 DEF TookWell
<1>6. TookInTurn(c)
  <2> HIDE DEF c
  <2> QED
    BY <1>1, <1>2, <1>4, <1>5 DEF TookInTurn, Sources
<1> QED
  BY <1>2, <1>3, <1>6

LEMMA OpenTabKeepsInv ==
    ASSUME LiveTabInv, NEW v \in Viewers, NEW force \in BOOLEAN, OpenTab(v, force)
    PROVE  LiveTabInv'
<1> DEFINE c == [NoView EXCEPT !.at = "look", !.force = force, !.asked = monotonic]
<1>1. c \in ViewType /\ c.at = "look" /\ c.source = "bars" /\ c.asked = monotonic
  BY DEF LiveTabInv, LiveTabTypeOK, NoView, ViewType, Sources
<1>2. MomentsAreOrdered(c, monotonic) /\ TookInTurn(c)
  <2> HIDE DEF c
  <2> QED
    BY <1>1 DEF LiveTabInv, LiveTabTypeOK, MomentsAreOrdered, TookInTurn
<1> QED
  BY <1>1, <1>2, OneCallbackMoves DEF OpenTab

LEMMA LookAtHeldKeepsInv ==
    ASSUME LiveTabInv, NEW v \in Viewers, LookAtHeld(v)
    PROVE  LiveTabInv'
<1> DEFINE s == view[v].source
           hit == held[s]
<1>1. view[v] \in ViewType /\ s \in Sources /\ monotonic \in Nat /\ view[v].at = "look"
  BY DEF LiveTabInv, LiveTabTypeOK, ViewType, LookAtHeld
<1>2. CASE MayReuse(v) /\ hit # Nothing /\ monotonic - hit.stamp < Ttl[s]
  <2>1. /\ hit \in Entries /\ hit.data \in Answers
        /\ monotonic - hit.data.read < Ttl[s]
    BY <1>1, <1>2, LiveTabAssumption
    DEF LiveTabInv, LiveTabTypeOK, StampsComeFirst, Entries, Answers
  <2>2. view' = [view EXCEPT ![v] = Took(v, hit.data, monotonic)]
    BY <1>2 DEF LookAtHeld
  <2> QED
    BY <1>1, <1>2, <2>1, <2>2, TakingNotes, OneCallbackMoves DEF LookAtHeld, MayReuse
<1>3. CASE ~(MayReuse(v) /\ hit # Nothing /\ monotonic - hit.stamp < Ttl[s])
  <2> DEFINE c == [view[v] EXCEPT !.at = "ask", !.now = monotonic]
  <2>1. c \in ViewType
    BY <1>1 DEF ViewType
  <2>2. MomentsAreOrdered(c, monotonic) /\ TookInTurn(c)
    BY <1>1 DEF LiveTabInv, ViewType, MomentsAreOrdered, TookInTurn, TookWell
  <2>3. view' = [view EXCEPT ![v] = c]
    BY <1>3 DEF LookAtHeld
  <2> QED
    BY <2>1, <2>2, <2>3, OneCallbackMoves DEF LookAtHeld
<1> QED
  BY <1>2, <1>3

LEMMA AskKeepsInv ==
    ASSUME LiveTabInv, NEW v \in Viewers, Ask(v)
    PROVE  LiveTabInv'
<1> DEFINE answered(ok) == [view[v] EXCEPT !.at = "keep",
                                           !.answer = [read |-> monotonic, ok |-> ok]]
<1>1. view[v] \in ViewType /\ monotonic \in Nat /\ view[v].at = "ask"
  BY DEF LiveTabInv, LiveTabTypeOK, Ask
<1>2. PICK ok \in BOOLEAN :
         view' = [view EXCEPT ![v] = IF ok \/ view[v].source = "account"
                                     THEN answered(ok) ELSE NoView]
  BY DEF Ask
<1>3. CASE ok \/ view[v].source = "account"
  <2>1. answered(ok) \in ViewType
    BY <1>1 DEF ViewType, Answers
  <2>2. MomentsAreOrdered(answered(ok), monotonic) /\ TookInTurn(answered(ok))
    BY <1>1 DEF LiveTabInv, ViewType, MomentsAreOrdered, TookInTurn, TookWell, Answers
  <2> QED
    BY <1>2, <1>3, <2>1, <2>2, OneCallbackMoves DEF Ask
<1>4. CASE ~(ok \/ view[v].source = "account")
  <2>1. NoView \in ViewType /\ MomentsAreOrdered(NoView, monotonic) /\ TookInTurn(NoView)
    BY <1>1 DEF NoView, ViewType, MomentsAreOrdered, TookInTurn, Sources
  <2> QED
    BY <1>2, <1>4, <2>1, OneCallbackMoves DEF Ask
<1> QED
  BY <1>3, <1>4

(* The entry of one source is replaced, the other stays.                   *)
LEMMA KeepKeepsInv ==
    ASSUME LiveTabInv, NEW v \in Viewers, Keep(v)
    PROVE  LiveTabInv'
<1> DEFINE s == view[v].source
           answer == view[v].answer
           fresh == [stamp |-> view[v].now, data |-> answer]
           c == Took(v, answer, answer.read)
<1>1. /\ view[v] \in ViewType /\ s \in Sources /\ monotonic \in Nat /\ view[v].at = "keep"
      /\ view[v].asked \in Nat /\ view[v].now \in Nat
  BY DEF LiveTabInv, LiveTabTypeOK, ViewType, Keep
<1>2. /\ answer \in Answers /\ answer.read \in Nat
      /\ view[v].asked <= view[v].now /\ view[v].now <= answer.read /\ answer.read <= monotonic
  BY <1>1 DEF LiveTabInv, MomentsAreOrdered, Answers
<1>3. c \in ViewType /\ MomentsAreOrdered(c, monotonic) /\ TookInTurn(c)
  BY <1>1, <1>2, TakingNotes
<1>4. held' = [held EXCEPT ![s] = fresh] /\ fresh \in Entries
  BY <1>1, <1>2 DEF Keep, Stamp, Entries
<1>5. LiveTabTypeOK'
  BY <1>3, <1>4 DEF LiveTabInv, LiveTabTypeOK, Keep
<1>6. StampsComeFirst'
  BY <1>2, <1>4 DEF LiveTabInv, LiveTabTypeOK, StampsComeFirst, Keep
<1>7. ASSUME NEW w \in Viewers
      PROVE  MomentsAreOrdered(view[w], monotonic)' /\ TookInTurn(view[w])'
  <2>1. view'[w] = IF w = v THEN c ELSE view[w]
    BY DEF LiveTabInv, LiveTabTypeOK, Keep
  <2>2. MomentsAreOrdered(view'[w], monotonic) /\ TookInTurn(view'[w])
    BY <1>3, <2>1 DEF LiveTabInv
  <2> QED
    BY <2>2 DEF Keep
<1> QED
  BY <1>5, <1>6, <1>7 DEF LiveTabInv

LEMMA TickKeepsInv ==
    ASSUME LiveTabInv, Tick
    PROVE  LiveTabInv'
<1>1. LiveTabTypeOK' /\ monotonic \in Nat /\ monotonic' = monotonic + 1
  BY DEF LiveTabInv, LiveTabTypeOK, Tick
<1>2. StampsComeFirst'
  BY <1>1 DEF LiveTabInv, LiveTabTypeOK, StampsComeFirst, Tick, Entries, Answers
<1>3. ASSUME NEW w \in Viewers
      PROVE  MomentsAreOrdered(view[w], monotonic)' /\ TookInTurn(view[w])'
  <2>1. view[w] \in ViewType /\ MomentsAreOrdered(view[w], monotonic) /\ TookInTurn(view[w])
    BY DEF LiveTabInv, LiveTabTypeOK
  <2>2. MomentsAreOrdered(view[w], monotonic + 1)
    BY <1>1, <2>1 DEF MomentsAreOrdered, ViewType, Answers
  <2> QED
    BY <1>1, <2>1, <2>2 DEF Tick
<1> QED
  BY <1>1, <1>2, <1>3 DEF LiveTabInv

(* What the live tab shows is no older than its time to live when it is    *)
(* taken, and after Refresh it was read after the click, for any number of *)
(* threads and any times to live.                                          *)
THEOREM LiveTabStaysCurrent == LiveTabSpec => []LiveTabIsCurrent
<1>1. LiveTabInit => LiveTabInv
  BY LiveTabInitInv
<1>2. LiveTabInv /\ [LiveTabNext]_liveTabVars => LiveTabInv'
  <2> SUFFICES ASSUME LiveTabInv, [LiveTabNext]_liveTabVars PROVE LiveTabInv'
    OBVIOUS
  <2>1. ASSUME NEW v \in Viewers, NEW force \in BOOLEAN, OpenTab(v, force) PROVE LiveTabInv'
    BY <2>1, OpenTabKeepsInv
  <2>2. ASSUME NEW v \in Viewers, LookAtHeld(v) PROVE LiveTabInv'
    BY <2>2, LookAtHeldKeepsInv
  <2>3. ASSUME NEW v \in Viewers, Ask(v) PROVE LiveTabInv'
    BY <2>3, AskKeepsInv
  <2>4. ASSUME NEW v \in Viewers, Keep(v) PROVE LiveTabInv'
    BY <2>4, KeepKeepsInv
  <2>5. CASE Tick
    BY <2>5, TickKeepsInv
  <2>6. CASE UNCHANGED liveTabVars
    BY <2>6 DEF liveTabVars, LiveTabInv, LiveTabTypeOK, StampsComeFirst
  <2> QED
    BY <2>1, <2>2, <2>3, <2>4, <2>5, <2>6 DEF LiveTabNext
<1>3. LiveTabInv => LiveTabIsCurrent
  BY DEF LiveTabInv, TookInTurn, TookWell, LiveTabIsCurrent, ShownIsRecent, RefreshReadsBoth, Shown
<1> QED
  BY <1>1, <1>2, <1>3, PTL DEF LiveTabSpec

(***************************************************************************)
(* The results on the backtest tab.                                        *)
(***************************************************************************)

CallType ==
    [at : {"idle", "cache", "store", "take", "render", "read", "run", "open", "dump", "shown",
           "check", "start"},
     kind : {"none", "chart", "backtest", "previous", "next", "maintenance"}, force : BOOLEAN,
     asked : Data \union {Absent}, frame : Data \union {Absent},
     result : Data \union {Absent} \union SUBSET Nat, shared : BOOLEAN]

DashboardTypeOK ==
    /\ db \in Data /\ frames \in Data \union {Absent}
    /\ memo \in [Fingerprints -> Data \union {Absent}]
    /\ disk \in [Fingerprints -> Data \union {Absent, Torn}]
    /\ call \in [Calls -> CallType]

(* Data that was read before now.                                          *)
Seen(data, now) == data \in Data /\ data.rows <= now.rows /\ data.rewrites <= now.rewrites

FrameStands == Seen(frames, db)

(* What is kept for a number of bars has seen as many, in the memo and in  *)
(* the files; and once a call has found the cache of bars filled, it stays *)
(* filled.                                                                 *)
KeptHaveSeenTheirBars ==
    /\ frames # Absent => FrameStands
    /\ \A f \in Fingerprints :
          /\ memo[f] # Absent => memo[f] \in Data /\ memo[f].rows >= f
          /\ Usable(disk[f]) => disk[f] \in Data /\ disk[f].rows >= f

(* The result of call c is whole, has seen the bars of its chart, and when *)
(* the run was forced all there was at the click.                          *)
ResultIsGood(c) ==
    /\ c.frame \in Data /\ c.asked \in Data
    /\ c.result \in Data /\ c.result.rows >= c.frame.rows
    /\ c.force => c.result.rows >= c.asked.rows /\ c.result.rewrites >= c.asked.rewrites

(* A call reads first and shows afterwards, and a forced one does not read *)
(* what is kept.                                                           *)
CallIsInOrder(c, now) ==
    /\ c.at # "idle" => Seen(c.asked, now)
    /\ c.at \in {"store", "render", "read", "run", "open", "dump"} => Seen(c.frame, now)
    /\ c.at = "read" => ~c.force
    /\ c.at \in {"open", "dump"} => ResultIsGood(c)
    /\ c.at = "shown" /\ c.kind = "backtest" => ResultIsGood(c)

CallsAreInOrder ==
    \A c \in Calls : /\ CallIsInOrder(call[c], db)
                     /\ call[c].at = "take" => FrameStands

DashboardInv == DashboardTypeOK /\ KeptHaveSeenTheirBars /\ CallsAreInOrder

LEMMA DashboardInitInv == DashboardInit => DashboardInv
<1> SUFFICES ASSUME DashboardInit PROVE DashboardInv
  OBVIOUS
<1>1. db \in Data
  <2>1. db \in [rows : FirstRows, rewrites : {0}] /\ MaxRewrites \in Nat
    BY DashboardAssumption DEF DashboardInit
  <2>2. FirstRows \subseteq 0 .. MaxRows /\ {0} \subseteq 0 .. MaxRewrites
    BY <2>1, DashboardAssumption
  <2> QED
    BY <2>1, <2>2 DEF Data
<1>2. /\ frames = Absent
      /\ memo = [f \in Fingerprints |-> Absent] /\ disk = [f \in Fingerprints |-> Absent]
      /\ call = [c \in Calls |-> NoCall]
  BY DEF DashboardInit
<1>3. NoCall \in CallType /\ NoCall.at = "idle"
  BY DEF NoCall, CallType
<1>4. DashboardTypeOK
  BY <1>1, <1>2, <1>3 DEF DashboardTypeOK
<1>5. KeptHaveSeenTheirBars
  BY <1>2 DEF KeptHaveSeenTheirBars, Usable
<1>6. CallsAreInOrder
  BY <1>2, <1>3 DEF CallsAreInOrder, CallIsInOrder
<1> QED
  BY <1>4, <1>5, <1>6 DEF DashboardInv

(* Data is what it is read with.                                           *)
LEMMA DataParts ==
    ASSUME NEW data \in Data
    PROVE  /\ data.rows \in Nat /\ data.rewrites \in Nat
           /\ data.rows \in Fingerprints /\ Fingerprint(data) = data.rows
  BY DashboardAssumption DEF Data, Fingerprints, Fingerprint

(* A step of one call, whatever it stores.                                 *)
LEMMA OneCallMoves ==
    ASSUME DashboardInv, NEW c \in Calls, NEW new \in CallType,
           CallIsInOrder(new, db), new.at = "take" => FrameStands,
           call' = [call EXCEPT ![c] = new], UNCHANGED <<db, frames>>
    PROVE  call' \in [Calls -> CallType] /\ CallsAreInOrder'
<1>1. call' \in [Calls -> CallType]
  BY DEF DashboardInv, DashboardTypeOK
<1>2. ASSUME NEW w \in Calls
      PROVE  CallIsInOrder(call[w], db)' /\ (call'[w].at = "take" => FrameStands')
  <2>1. call'[w] = IF w = c THEN new ELSE call[w]
    BY DEF DashboardInv, DashboardTypeOK
  <2>2. CallIsInOrder(call'[w], db) /\ (call'[w].at = "take" => FrameStands)
    BY <2>1 DEF DashboardInv, CallsAreInOrder
  <2>3. FrameStands' = FrameStands
    BY DEF FrameStands
  <2> QED
    BY <2>2, <2>3
<1> QED
  BY <1>1, <1>2 DEF CallsAreInOrder

(* A step of one call that stores nothing.                                 *)
LEMMA OneCallMovesAlone ==
    ASSUME DashboardInv, NEW c \in Calls, NEW new \in CallType,
           CallIsInOrder(new, db), new.at = "take" => FrameStands,
           call' = [call EXCEPT ![c] = new], UNCHANGED <<db, frames, memo, disk>>
    PROVE  DashboardInv'
<1>1. call' \in [Calls -> CallType] /\ CallsAreInOrder'
  BY OneCallMoves
<1>2. DashboardTypeOK' /\ KeptHaveSeenTheirBars'
  BY <1>1 DEF DashboardInv, DashboardTypeOK, KeptHaveSeenTheirBars, FrameStands
<1> QED
  BY <1>1, <1>2 DEF DashboardInv

(* What is known of a call.                                                *)
LEMMA CallFacts ==
    ASSUME DashboardInv, NEW c \in Calls
    PROVE  /\ call[c] \in CallType /\ CallIsInOrder(call[c], db)
           /\ call[c].at = "take" => FrameStands
           /\ db \in Data
  BY DEF DashboardInv, DashboardTypeOK, CallsAreInOrder

LEMMA ClickKeepsInv ==
    ASSUME DashboardInv, NEW c \in Calls,
           NEW kind \in {"chart", "backtest", "previous", "next", "maintenance"},
           NEW force \in BOOLEAN, Click(c, kind, force)
    PROVE  DashboardInv'
<1> DEFINE new == [NoCall EXCEPT !.at = IF kind = "maintenance" THEN "check" ELSE "cache",
                                 !.kind = kind, !.force = force, !.asked = db]
<1>1. db \in Data /\ Seen(db, db)
  BY CallFacts, DataParts DEF Seen
<1>2. new \in CallType /\ new.at \in {"check", "cache"} /\ new.asked = db
  BY <1>1 DEF NoCall, CallType
<1>3. CallIsInOrder(new, db)
  <2> HIDE DEF new
  <2> QED
    BY <1>1, <1>2 DEF CallIsInOrder
<1>4. call' = [call EXCEPT ![c] = new]
  BY DEF Click
<1>5. UNCHANGED <<db, frames, memo, disk>>
  BY DEF Click
<1> HIDE DEF new
<1> QED
  BY <1>2, <1>3, <1>4, <1>5, OneCallMovesAlone

(* A call that goes on with what it has, and one that finishes.            *)
LEMMA GoingOn ==
    ASSUME DashboardInv, NEW c \in Calls, NEW where, NEW new,
           new = [call[c] EXCEPT !.at = where], call[c].at # "idle",
           \/ where \in {"take", "check", "start"}
           \/ where = "run" /\ call[c].at \in {"render", "read"}
           \/ where = "read" /\ call[c].at = "render" /\ ~call[c].force
           \/ where = "shown" /\ call[c].at = "dump"
    PROVE  new \in CallType /\ CallIsInOrder(new, db)
<1>1. call[c] \in CallType /\ CallIsInOrder(call[c], db)
  BY CallFacts
<1>2. /\ new \in CallType /\ new.at = where /\ new.kind = call[c].kind
      /\ new.force = call[c].force /\ new.asked = call[c].asked
      /\ new.frame = call[c].frame /\ new.result = call[c].result
  BY <1>1 DEF CallType
<1>3. ResultIsGood(call[c]) => ResultIsGood(new)
  BY <1>2 DEF ResultIsGood
<1> QED
  BY <1>1, <1>2, <1>3 DEF CallIsInOrder

LEMMA Finished == NoCall \in CallType /\ CallIsInOrder(NoCall, db) /\ NoCall.at = "idle"
  BY DEF NoCall, CallType, CallIsInOrder

LEMMA LookInCacheKeepsInv ==
    ASSUME DashboardInv, NEW c \in Calls, LookInCache(c)
    PROVE  DashboardInv'
<1>1. /\ call[c] \in CallType /\ CallIsInOrder(call[c], db) /\ db \in Data /\ call[c].at = "cache"
      /\ UNCHANGED <<db, frames, memo, disk>>
  BY CallFacts DEF LookInCache, StandsAt
<1>2. CASE frames = Absent
  <2> DEFINE new == [call[c] EXCEPT !.at = "store", !.frame = db]
  <2>1. /\ new \in CallType /\ new.at = "store" /\ new.asked = call[c].asked /\ new.frame = db
    BY <1>1 DEF CallType
  <2>2. CallIsInOrder(new, db)
    <3> HIDE DEF new
    <3> QED
      BY <1>1, <2>1, DataParts DEF CallIsInOrder, Seen
  <2>3. call' = [call EXCEPT ![c] = new]
    BY <1>1, <1>2 DEF LookInCache, DashboardInv, DashboardTypeOK
  <2> HIDE DEF new
  <2> QED
    BY <1>1, <2>1, <2>2, <2>3, OneCallMovesAlone
<1>3. CASE frames # Absent
  <2> DEFINE new == [call[c] EXCEPT !.at = "take"]
  <2>1. new \in CallType /\ CallIsInOrder(new, db)
    BY <1>1, GoingOn
  <2>2. FrameStands
    BY <1>3 DEF DashboardInv, KeptHaveSeenTheirBars
  <2>3. call' = [call EXCEPT ![c] = new]
    BY <1>1, <1>3 DEF LookInCache, Goes, DashboardInv, DashboardTypeOK
  <2> HIDE DEF new
  <2> QED
    BY <1>1, <2>1, <2>2, <2>3, OneCallMovesAlone
<1> QED
  BY <1>2, <1>3

LEMMA StoreInCacheKeepsInv ==
    ASSUME DashboardInv, NEW c \in Calls, StoreInCache(c)
    PROVE  DashboardInv'
<1> DEFINE new == [call[c] EXCEPT !.at = "take"]
<1>1. /\ call[c] \in CallType /\ CallIsInOrder(call[c], db) /\ call[c].at = "store"
      /\ UNCHANGED <<db, memo, disk>> /\ frames' = call[c].frame
      /\ call' = [call EXCEPT ![c] = new]
  BY CallFacts DEF StoreInCache, StandsAt, Goes, DashboardInv, DashboardTypeOK
<1>2. new \in CallType /\ CallIsInOrder(new, db)
  BY <1>1, GoingOn
<1>3. FrameStands'
  BY <1>1 DEF CallIsInOrder, FrameStands
<1>4. DashboardTypeOK' /\ KeptHaveSeenTheirBars'
  BY <1>1, <1>2, <1>3
  DEF DashboardInv, DashboardTypeOK, KeptHaveSeenTheirBars, FrameStands, Seen
<1>5. ASSUME NEW w \in Calls PROVE CallIsInOrder(call[w], db)'
  <2>1. call'[w] = IF w = c THEN new ELSE call[w]
    BY <1>1 DEF DashboardInv, DashboardTypeOK
  <2>2. CallIsInOrder(call'[w], db)
    BY <1>2, <2>1, CallFacts
  <2> QED
    BY <1>1, <2>2
<1> QED
  BY <1>3, <1>4, <1>5 DEF DashboardInv, CallsAreInOrder

LEMMA TakeFromCacheKeepsInv ==
    ASSUME DashboardInv, NEW c \in Calls, TakeFromCache(c)
    PROVE  DashboardInv'
<1> DEFINE new == [call[c] EXCEPT !.at = "render", !.frame = frames]
<1>1. /\ call[c] \in CallType /\ CallIsInOrder(call[c], db) /\ call[c].at = "take" /\ FrameStands
      /\ UNCHANGED <<db, frames, memo, disk>> /\ call' = [call EXCEPT ![c] = new]
  BY CallFacts DEF TakeFromCache, StandsAt, DashboardInv, DashboardTypeOK
<1>2. new \in CallType /\ new.at = "render" /\ new.asked = call[c].asked /\ new.frame = frames
  BY <1>1 DEF CallType, FrameStands, Seen
<1> HIDE DEF new
<1>3. CallIsInOrder(new, db)
  BY <1>1, <1>2 DEF CallIsInOrder, FrameStands
<1> QED
  BY <1>1, <1>2, <1>3, OneCallMovesAlone

(* A call shows a result, or a chart.                                      *)
LEMMA Showing ==
    ASSUME DashboardInv, NEW c \in Calls, call[c].at # "idle",
           NEW result \in Data \union {Absent} \union SUBSET Nat, NEW new,
           new = [call[c] EXCEPT !.at = "shown", !.result = result],
           call[c].kind = "backtest" =>
              /\ call[c].frame \in Data /\ result \in Data
              /\ result.rows >= call[c].frame.rows
              /\ ~call[c].force
    PROVE  new \in CallType /\ CallIsInOrder(new, db) /\ new.at = "shown"
<1>1. call[c] \in CallType /\ CallIsInOrder(call[c], db)
  BY CallFacts
<1>2. /\ new \in CallType /\ new.at = "shown" /\ new.kind = call[c].kind
      /\ new.force = call[c].force /\ new.asked = call[c].asked
      /\ new.frame = call[c].frame /\ new.result = result
  BY <1>1 DEF CallType
<1> QED
  BY <1>1, <1>2 DEF CallIsInOrder, ResultIsGood, Seen

LEMMA DrawChartKeepsInv ==
    ASSUME DashboardInv, NEW c \in Calls, NEW start, NEW end, DrawChart(c, start, end)
    PROVE  DashboardInv'
<1> DEFINE slice == ChartSlice(call[c].frame.rows, start, end)
           new == [call[c] EXCEPT !.at = "shown", !.result = slice]
<1>1. /\ call[c].at = "render" /\ call[c].kind = "chart"
      /\ UNCHANGED <<db, frames, memo, disk>> /\ call' = [call EXCEPT ![c] = new]
  BY DEF DrawChart, Shows, StandsAt, DashboardInv, DashboardTypeOK
<1>2. slice \in SUBSET Nat
  <2>1. call[c].frame \in Data
    BY <1>1, CallFacts DEF CallIsInOrder, Seen
  <2> QED
    BY <2>1, DataParts DEF ChartSlice, NewestOf
<1> HIDE DEF slice
<1>3. new \in CallType /\ CallIsInOrder(new, db) /\ new.at = "shown"
  BY <1>1, <1>2, Showing
<1> HIDE DEF new
<1> QED
  BY <1>1, <1>3, OneCallMovesAlone

(* The steps that end a call or start a task.                              *)
LEMMA SmallStepsKeepInv ==
    ASSUME DashboardInv, NEW c \in Calls, Turn(c) \/ CheckTask(c) \/ StartTask(c)
    PROVE  DashboardInv'
<1>1. UNCHANGED <<db, frames, memo, disk>>
  BY DEF Turn, CheckTask, StartTask
<1>2. CASE Finishes(c)
  BY <1>1, <1>2, Finished, OneCallMovesAlone DEF Finishes
<1>3. CASE CheckTask(c) /\ Goes(c, "start")
  <2> DEFINE new == [call[c] EXCEPT !.at = "start"]
  <2>1. new \in CallType /\ CallIsInOrder(new, db)
    BY <1>3, GoingOn DEF CheckTask, StandsAt
  <2>2. call' = [call EXCEPT ![c] = new] /\ new.at = "start"
    BY <1>3, CallFacts DEF Goes, DashboardInv, DashboardTypeOK, CallType
  <2> HIDE DEF new
  <2> QED
    BY <1>1, <2>1, <2>2, OneCallMovesAlone
<1> QED
  BY <1>2, <1>3 DEF Turn, CheckTask, StartTask

(* What is kept for a frame answers a call that is not forced.             *)
LEMMA LookInMemoKeepsInv ==
    ASSUME DashboardInv, NEW c \in Calls, LookInMemo(c)
    PROVE  DashboardInv'
<1> DEFINE frame == call[c].frame
           kept == memo[Fingerprint(frame)]
           goes(where) == [call[c] EXCEPT !.at = where]
           shows == [call[c] EXCEPT !.at = "shown", !.result = kept]
<1>1. /\ call[c].at = "render" /\ UNCHANGED <<db, frames, memo, disk>>
      /\ frame \in Data /\ call[c] \in CallType
  BY CallFacts DEF LookInMemo, StandsAt, CallIsInOrder, Seen
<1>2. CASE Finishes(c)
  BY <1>1, <1>2, Finished, OneCallMovesAlone DEF Finishes
<1>3. ASSUME NEW where \in {"run", "read"}, Goes(c, where), where = "read" => ~call[c].force
      PROVE  DashboardInv'
  <2>1. goes(where) \in CallType /\ CallIsInOrder(goes(where), db)
    BY <1>1, <1>3, GoingOn
  <2>2. call' = [call EXCEPT ![c] = goes(where)] /\ goes(where).at = where
    BY <1>1, <1>3 DEF Goes, DashboardInv, DashboardTypeOK, CallType
  <2> HIDE DEF goes
  <2> QED
    BY <1>1, <2>1, <2>2, OneCallMovesAlone
<1>4. CASE kept # Absent /\ ~call[c].force /\ Shows(c, kept)
  <2>1. kept \in Data /\ kept.rows >= frame.rows
    BY <1>1, <1>4, DataParts DEF DashboardInv, KeptHaveSeenTheirBars
  <2>2. call' = [call EXCEPT ![c] = shows]
    BY <1>4 DEF Shows, DashboardInv, DashboardTypeOK
  <2> HIDE DEF kept
  <2>3. shows \in CallType /\ CallIsInOrder(shows, db) /\ shows.at = "shown"
    BY <1>1, <1>4, <2>1, Showing
  <2> HIDE DEF shows
  <2> QED
    BY <1>1, <2>2, <2>3, OneCallMovesAlone
<1> QED
  BY <1>2, <1>3, <1>4 DEF LookInMemo

(* A file that holds a result is shown and noted in the memo.              *)
LEMMA ReadPickleKeepsInv ==
    ASSUME DashboardInv, NEW c \in Calls, ReadPickle(c)
    PROVE  DashboardInv'
<1> DEFINE frame == call[c].frame
           f == Fingerprint(frame)
           file == disk[f]
           goes == [call[c] EXCEPT !.at = "run"]
           shows == [call[c] EXCEPT !.at = "shown", !.result = file]
<1>1. /\ call[c].at = "read" /\ ~call[c].force /\ UNCHANGED <<db, frames, disk>>
      /\ frame \in Data /\ call[c] \in CallType
      /\ f \in Fingerprints /\ f = frame.rows
  BY CallFacts, DataParts DEF ReadPickle, StandsAt, CallIsInOrder, Seen
<1>2. CASE Usable(file)
  <2>1. file \in Data /\ file.rows >= f
    BY <1>1, <1>2 DEF DashboardInv, KeptHaveSeenTheirBars
  <2>2. memo' = [memo EXCEPT ![f] = file] /\ call' = [call EXCEPT ![c] = shows]
    BY <1>2 DEF ReadPickle, Shows, DashboardInv, DashboardTypeOK
  <2> HIDE DEF file, f
  <2>3. shows \in CallType /\ CallIsInOrder(shows, db) /\ shows.at = "shown"
    BY <1>1, <2>1, Showing
  <2> HIDE DEF shows
  <2>4. call' \in [Calls -> CallType] /\ CallsAreInOrder'
    BY <1>1, <2>2, <2>3, OneCallMoves
  <2>5. DashboardTypeOK' /\ KeptHaveSeenTheirBars'
    BY <1>1, <2>1, <2>2, <2>4
    DEF DashboardInv, DashboardTypeOK, KeptHaveSeenTheirBars, FrameStands, Usable
  <2> QED
    BY <2>4, <2>5 DEF DashboardInv
<1>3. CASE ~Usable(file)
  <2>1. UNCHANGED memo /\ call' = [call EXCEPT ![c] = goes]
    BY <1>3 DEF ReadPickle, Goes, DashboardInv, DashboardTypeOK
  <2>2. goes \in CallType /\ CallIsInOrder(goes, db) /\ goes.at = "run"
    BY <1>1, GoingOn DEF CallType
  <2> HIDE DEF goes
  <2> QED
    BY <1>1, <2>1, <2>2, OneCallMovesAlone
<1> QED
  BY <1>2, <1>3

(* A run sees all the data there is, which is no less than its frame and   *)
(* than what there was at the click.                                       *)
LEMMA RunCycleKeepsInv ==
    ASSUME DashboardInv, NEW c \in Calls, RunCycle(c)
    PROVE  DashboardInv'
<1> DEFINE new == [call[c] EXCEPT !.at = "open", !.result = db]
<1>1. /\ call[c].at = "run" /\ UNCHANGED <<db, frames, memo, disk>>
      /\ call' = [call EXCEPT ![c] = new]
      /\ call[c] \in CallType /\ db \in Data
      /\ Seen(call[c].frame, db) /\ Seen(call[c].asked, db)
  BY CallFacts DEF RunCycle, RunData, StandsAt, CallIsInOrder, DashboardInv, DashboardTypeOK
<1>2. /\ new \in CallType /\ new.at = "open" /\ new.result = db
      /\ new.frame = call[c].frame /\ new.asked = call[c].asked
  BY <1>1 DEF CallType
<1> HIDE DEF new
<1>3. ResultIsGood(new)
  BY <1>1, <1>2, DataParts DEF ResultIsGood, Seen
<1>4. CallIsInOrder(new, db)
  BY <1>1, <1>2, <1>3 DEF CallIsInOrder
<1> QED
  BY <1>1, <1>2, <1>4, OneCallMovesAlone

(* The other writers of a file only learn that they share it.              *)
LEMMA OpenPickleKeepsInv ==
    ASSUME DashboardInv, NEW c \in Calls, OpenPickle(c)
    PROVE  DashboardInv'
<1> DEFINE f == Fingerprint(call[c].frame)
           dumps == [call[c] EXCEPT !.at = "dump", !.shared = Writers(f) # {}]
           shares(w) == [call[w] EXCEPT !.shared = @ \/ w \in Writers(f)]
<1>1. /\ call[c].at = "open" /\ UNCHANGED <<db, frames, memo>>
      /\ disk' = [disk EXCEPT ![f] = Torn]
      /\ call' = [w \in Calls |-> IF w = c THEN dumps ELSE shares(w)]
      /\ f \in Fingerprints
  BY CallFacts, DataParts DEF OpenPickle, StandsAt, CallIsInOrder, Seen
<1>2. dumps \in CallType /\ CallIsInOrder(dumps, db) /\ dumps.at = "dump"
  <2>1. /\ dumps \in CallType /\ dumps.at = "dump" /\ dumps.frame = call[c].frame
        /\ dumps.asked = call[c].asked /\ dumps.result = call[c].result
        /\ dumps.force = call[c].force /\ dumps.kind = call[c].kind
    BY CallFacts DEF CallType
  <2> HIDE DEF dumps
  <2> QED
    BY <1>1, <2>1, CallFacts DEF CallIsInOrder, ResultIsGood
<1>3. ASSUME NEW w \in Calls
      PROVE  /\ shares(w) \in CallType /\ CallIsInOrder(shares(w), db)
             /\ shares(w).at = "take" => FrameStands
  <2>1. (call[w].shared \/ w \in Writers(f)) \in BOOLEAN
    OBVIOUS
  <2>2. /\ shares(w) \in CallType /\ shares(w).at = call[w].at
        /\ shares(w).frame = call[w].frame /\ shares(w).kind = call[w].kind
        /\ shares(w).asked = call[w].asked /\ shares(w).result = call[w].result
        /\ shares(w).force = call[w].force
    BY <2>1, CallFacts DEF CallType
  <2> HIDE DEF shares
  <2> QED
    BY <2>2, CallFacts DEF CallIsInOrder, ResultIsGood
<1> HIDE DEF dumps, shares, f
<1>4. call' \in [Calls -> CallType]
  BY <1>1, <1>2, <1>3
<1>5. CallsAreInOrder'
  <2>1. FrameStands' = FrameStands
    BY <1>1 DEF FrameStands
  <2>2. ASSUME NEW w \in Calls
        PROVE  CallIsInOrder(call'[w], db) /\ (call'[w].at = "take" => FrameStands)
    BY <1>1, <1>2, <1>3
  <2> QED
    BY <1>1, <2>1, <2>2 DEF CallsAreInOrder
<1>6. DashboardTypeOK' /\ KeptHaveSeenTheirBars'
  BY <1>1, <1>4
  DEF DashboardInv, DashboardTypeOK, KeptHaveSeenTheirBars, FrameStands, Usable
<1> QED
  BY <1>5, <1>6 DEF DashboardInv

(* Whatever two writers leave of a file, it is no result of fewer bars.    *)
LEMMA DumpPickleKeepsInv ==
    ASSUME DashboardInv, NEW c \in Calls, DumpPickle(c)
    PROVE  DashboardInv'
<1> DEFINE f == Fingerprint(call[c].frame)
           result == call[c].result
           new == [call[c] EXCEPT !.at = "shown"]
<1>1. /\ call[c].at = "dump" /\ UNCHANGED <<db, frames>>
      /\ memo' = [memo EXCEPT ![f] = result]
      /\ call' = [call EXCEPT ![c] = new]
      /\ call[c] \in CallType
  BY CallFacts DEF DumpPickle, Goes, StandsAt, DashboardInv, DashboardTypeOK
<1>2. /\ f \in Fingerprints /\ f = call[c].frame.rows
      /\ result \in Data /\ result.rows >= f
  BY <1>1, CallFacts, DataParts DEF CallIsInOrder, ResultIsGood
<1>3. PICK left \in {result, Torn} : disk' = [disk EXCEPT ![f] = left]
  BY DEF DumpPickle
<1>4. new \in CallType /\ CallIsInOrder(new, db) /\ new.at = "shown"
  BY <1>1, GoingOn DEF CallType
<1> HIDE DEF new, f, result
<1>5. call' \in [Calls -> CallType] /\ CallsAreInOrder'
  BY <1>1, <1>4, OneCallMoves
<1>6. DashboardTypeOK' /\ KeptHaveSeenTheirBars'
  BY <1>1, <1>2, <1>3, <1>5
  DEF DashboardInv, DashboardTypeOK, KeptHaveSeenTheirBars, FrameStands, Usable
<1> QED
  BY <1>5, <1>6 DEF DashboardInv

LEMMA BarsArriveKeepsInv ==
    ASSUME DashboardInv, BarsArrive
    PROVE  DashboardInv'
<1>1. db \in Data /\ db' \in Data /\ db.rows <= db'.rows /\ db.rewrites <= db'.rewrites
  <2>1. db \in Data
    BY CallFacts DEF DashboardInv, DashboardTypeOK
  <2>2. MaxRows \in Nat /\ MaxRewrites \in Nat
    BY DashboardAssumption
  <2> QED
    BY <2>1, <2>2 DEF BarsArrive, Data
<1>2. ASSUME NEW data, Seen(data, db) PROVE Seen(data, db')
  BY <1>1, <1>2, DataParts DEF Seen
<1>3. UNCHANGED <<frames, memo, disk, call>>
  BY DEF BarsArrive
<1>4. FrameStands => FrameStands'
  BY <1>2, <1>3 DEF FrameStands
<1>5. ASSUME NEW w \in Calls PROVE CallIsInOrder(call[w], db)'
  <2>1. CallIsInOrder(call[w], db')
    BY <1>2, CallFacts DEF CallIsInOrder
  <2> QED
    BY <1>3, <2>1
<1>6. CallsAreInOrder'
  BY <1>3, <1>4, <1>5, CallFacts DEF CallsAreInOrder
<1>7. DashboardTypeOK' /\ KeptHaveSeenTheirBars'
  BY <1>1, <1>3, <1>4
  DEF DashboardInv, DashboardTypeOK, KeptHaveSeenTheirBars
<1> QED
  BY <1>6, <1>7 DEF DashboardInv

LEMMA RestartKeepsInv ==
    ASSUME DashboardInv, Restart
    PROVE  DashboardInv'
<1>1. /\ frames' = Absent /\ memo' = [f \in Fingerprints |-> Absent]
      /\ call' = [c \in Calls |-> NoCall] /\ UNCHANGED <<db, disk>>
  BY DEF Restart
<1>2. DashboardTypeOK' /\ KeptHaveSeenTheirBars'
  BY <1>1, Finished DEF DashboardInv, DashboardTypeOK, KeptHaveSeenTheirBars
<1>3. CallsAreInOrder'
  BY <1>1, Finished DEF CallsAreInOrder, CallIsInOrder
<1> QED
  BY <1>2, <1>3 DEF DashboardInv

LEMMA DashboardStepKeepsInv == DashboardInv /\ [DashboardNext]_dashboardVars => DashboardInv'
<1> SUFFICES ASSUME DashboardInv, [DashboardNext]_dashboardVars PROVE DashboardInv'
  OBVIOUS
<1>1. ASSUME NEW c \in Calls, Cached(c) PROVE DashboardInv'
  BY <1>1, LookInCacheKeepsInv, StoreInCacheKeepsInv, TakeFromCacheKeepsInv DEF Cached
<1>2. ASSUME TurnToNewest \/ (\E t \in tasks : TaskEnds(t)) \/ UNCHANGED dashboardVars
      PROVE  DashboardInv'
  <2>1. UNCHANGED <<db, frames, memo, disk, call>>
    BY <1>2 DEF TurnToNewest, TaskEnds, dashboardVars
  <2> QED
    BY <2>1 DEF DashboardInv, DashboardTypeOK, KeptHaveSeenTheirBars, CallsAreInOrder, FrameStands
<1>3. CASE PageNext
  BY <1>1, <1>2, <1>3, ClickKeepsInv, DrawChartKeepsInv, SmallStepsKeepInv,
     BarsArriveKeepsInv, RestartKeepsInv DEF PageNext
<1>4. CASE ResultNext
  BY <1>1, <1>4, ClickKeepsInv, LookInMemoKeepsInv, ReadPickleKeepsInv, RunCycleKeepsInv,
     OpenPickleKeepsInv, DumpPickleKeepsInv, BarsArriveKeepsInv, RestartKeepsInv DEF ResultNext
<1> QED
  BY <1>2, <1>3, <1>4 DEF DashboardNext

LEMMA DashboardSafe == DashboardSpec => []DashboardInv
<1>1. DashboardInit => DashboardInv
  BY DashboardInitInv
<1>2. DashboardInv /\ [DashboardNext]_dashboardVars => DashboardInv'
  BY DashboardStepKeepsInv
<1> QED
  BY <1>1, <1>2, PTL DEF DashboardSpec

(***************************************************************************)
(* The windows of the chart and backtest tabs.                             *)
(***************************************************************************)

(* There are enough windows for n bars, and at least one.                  *)
LEMMA WindowsSuffice ==
    ASSUME NEW n \in Nat
    PROVE  /\ Windows(n) \in Nat \ {0}
           /\ n <= Windows(n) * MaxViewBars
<1> DEFINE M == MaxViewBars
           q == (n + M - 1) \div M
<1>1. M \in Nat \ {0}
  BY DashboardAssumption
<1>2. q \in Int /\ n + M - 1 < q * M + M
  BY <1>1, DivisionFacts
<1>3. Windows(n) = IF 1 >= q THEN 1 ELSE q
  BY <1>2, MaxOfTwo DEF Windows, Ceiling
<1>4. q * M <= Windows(n) * M
  BY <1>1, <1>2, <1>3, ProductsAreOrdered
<1> HIDE DEF q
<1> QED
  BY <1>1, <1>2, <1>3, <1>4

(* Window o, in range, is not clamped.                                     *)
LEMMA WindowBars ==
    ASSUME NEW n \in Nat, NEW o \in 0 .. Windows(n) - 1, NEW i \in 1 .. n
    PROVE  i \in WindowSlice(n, o) <=> /\ o * MaxViewBars <= n - i
                                       /\ n - i < o * MaxViewBars + MaxViewBars
<1>1. MaxViewBars \in Nat \ {0} /\ Windows(n) \in Nat \ {0}
  BY DashboardAssumption, WindowsSuffice
<1>2. Min({o, Windows(n) - 1}) = o
  BY <1>1, MinOfTwo
<1>3. Clamped(o, n) = o
  BY <1>1, <1>2, MaxOfTwo DEF Clamped
<1> DEFINE end == n - o * MaxViewBars
<1>4. end \in Int
  BY <1>1
<1>5. WindowSlice(n, o) = Max({1, end - MaxViewBars + 1}) .. end
  BY <1>3 DEF WindowSlice
<1> HIDE DEF end
<1>6. i \in WindowSlice(n, o) <=> i <= end /\ end - MaxViewBars < i
  BY <1>1, <1>4, <1>5, MaxOfTwo
<1> QED
  BY <1>1, <1>6 DEF end

(* Every bar of a chart is in exactly one window.                          *)
LEMMA OneWindowPerBar ==
    ASSUME NEW n \in Nat, NEW i \in 1 .. n
    PROVE  Cardinality({ o \in 0 .. Windows(n) - 1 : i \in WindowSlice(n, o) }) = 1
<1> DEFINE M == MaxViewBars
           q == (n - i) \div M
           W == Windows(n)
<1>1. M \in Nat \ {0} /\ W \in Nat \ {0} /\ n <= W * M
  BY DashboardAssumption, WindowsSuffice
<1>2. q \in Int /\ q * M <= n - i /\ n - i < q * M + M
  BY <1>1, DivisionFacts
<1> HIDE DEF q, W
<1>3. 0 <= q
  <2>1. SUFFICES ASSUME q + 1 <= 0 PROVE FALSE
    BY <1>2
  <2>2. (q + 1) * M <= 0 * M
    BY <1>1, <1>2, <2>1, ProductsAreOrdered
  <2> QED
    BY <1>1, <1>2, <2>2
<1>4. q <= W - 1
  <2>1. SUFFICES ASSUME W <= q PROVE FALSE
    BY <1>1, <1>2
  <2>2. W * M <= q * M
    BY <1>1, <1>2, <2>1, ProductsAreOrdered
  <2> QED
    BY <1>1, <1>2, <2>2
<1>5. ASSUME NEW o \in 0 .. W - 1, i \in WindowSlice(n, o) PROVE o = q
  <2>1. o \in Int /\ o * M <= n - i /\ n - i < o * M + M
    BY <1>5, WindowBars DEF W
  <2>2. CASE o + 1 <= q
    <3>1. (o + 1) * M <= q * M
      BY <1>1, <1>2, <2>1, <2>2, ProductsAreOrdered
    <3> QED
      BY <1>1, <1>2, <2>1, <3>1
  <2>3. CASE q + 1 <= o
    <3>1. (q + 1) * M <= o * M
      BY <1>1, <1>2, <2>1, <2>3, ProductsAreOrdered
    <3> QED
      BY <1>1, <1>2, <2>1, <3>1
  <2> QED
    BY <1>2, <2>1, <2>2, <2>3
<1>6. q \in 0 .. W - 1 /\ i \in WindowSlice(n, q)
  BY <1>1, <1>2, <1>3, <1>4, WindowBars DEF W
<1>7. { o \in 0 .. W - 1 : i \in WindowSlice(n, o) } = {q}
  BY <1>5, <1>6
<1> QED
  BY <1>7, FS_Singleton DEF W

(* The newest window holds the bars the chart tab shows.                   *)
LEMMA NewestWindowIsTheChart ==
    ASSUME NEW n \in Nat
    PROVE  WindowSlice(n, 0) = ChartSlice(n, Absent, Absent)
<1> DEFINE M == MaxViewBars
<1>1. M \in Nat \ {0} /\ Windows(n) \in Nat \ {0}
  BY DashboardAssumption, WindowsSuffice
<1>2. ChartSlice(n, Absent, Absent) = { i \in 1 .. n : Cardinality({ j \in 1 .. n : j > i }) < M }
  BY DEF ChartSlice, NewestOf
<1>3. ASSUME NEW i \in 1 .. n PROVE Cardinality({ j \in 1 .. n : j > i }) = n - i
  <2>1. { j \in 1 .. n : j > i } = (i + 1) .. n
    OBVIOUS
  <2>2. i + 1 \in Int /\ n \in Int
    OBVIOUS
  <2>3. Cardinality((i + 1) .. n) = IF i + 1 > n THEN 0 ELSE n - (i + 1) + 1
    BY <2>2, FS_Interval
  <2>4. (IF i + 1 > n THEN 0 ELSE n - (i + 1) + 1) = n - i
    OBVIOUS
  <2> QED
    BY <2>1, <2>3, <2>4, Zenon
<1>4. ASSUME NEW i \in 1 .. n
      PROVE  i \in WindowSlice(n, 0) <=> i \in ChartSlice(n, Absent, Absent)
  BY <1>1, <1>2, <1>3, WindowBars
<1>5. WindowSlice(n, 0) \subseteq 1 .. n
  <2>1. Min({0, Windows(n) - 1}) = 0
    BY <1>1, MinOfTwo
  <2>2. Clamped(0, n) = 0
    BY <2>1, MaxOfTwo DEF Clamped
  <2>3. n - 0 * M = n
    BY <1>1
  <2>4. WindowSlice(n, 0) = Max({1, n - M + 1}) .. n
    BY <2>2, <2>3 DEF WindowSlice
  <2> QED
    BY <1>1, <2>4, MaxOfTwo
<1> QED
  BY <1>2, <1>4, <1>5

LEMMA BarsAreSharedOut ==
    ASSUME DashboardInv
    PROVE  WindowsShareOutTheBars
<1>1. db.rows \in Nat
  BY DataParts DEF DashboardInv, DashboardTypeOK
<1> QED
  BY <1>1, OneWindowPerBar, NewestWindowIsTheChart DEF WindowsShareOutTheBars

(* A result on the page is a whole one, for any number of threads, of bars *)
(* and of servers stopped while they wrote.                                *)
THEOREM ResultsAreWhole == DashboardSpec => []ShownResultsAreWhole
<1>1. DashboardInv => ShownResultsAreWhole
  BY DEF DashboardInv, CallsAreInOrder, CallIsInOrder, ResultIsGood, ShownResultsAreWhole,
         ShowsResult, StandsAt
<1> QED
  BY <1>1, DashboardSafe, PTL

(* A result has seen every bar of its chart, a forced one all there was at *)
(* the click, and the windows one can turn to share out the bars, for any  *)
(* size of a window.                                                       *)
THEOREM PagesStayCurrent == DashboardSpec => []PagesAreCurrent
<1>1. DashboardInv => ResultsCoverTheChart /\ ForcedRunsAreFresh
  BY DEF DashboardInv, CallsAreInOrder, CallIsInOrder, ResultIsGood, ResultsCoverTheChart,
         ForcedRunsAreFresh, ShowsResult, StandsAt
<1>2. DashboardInv => PagesAreCurrent
  BY <1>1, BarsAreSharedOut DEF PagesAreCurrent
<1> QED
  BY <1>2, DashboardSafe, PTL
=============================================================================
