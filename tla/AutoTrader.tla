----------------------------- MODULE AutoTrader -----------------------------
(***************************************************************************)
(* The hourly run over the listed books (execution/auto_trader.py) and the *)
(* dead man's switch (execution/healthcheck.py): each book is replayed on  *)
(* its bars and reconciled, one book's failure is contained, and the ping  *)
(* at the end is withheld when something went wrong.  A row of every book  *)
(* it has replayed goes to the heartbeat file.  The reconcile of a book is *)
(* LiveExecutor; here it ends, halts or raises.                            *)
(***************************************************************************)
EXTENDS Integers, Sequences, SequencesExt

CONSTANTS
    Listed,         \* the books a deployment lists, in order
    Defaults,       \* DEFAULT_BOOKS: those of them run without AUTO_BOOKS
    Malformed,      \* an entry without name and symbol, or a slot count that
                    \* is no number: a model value
    Omitted,        \* an entry without a slot count: a model value
    SlotCounts,     \* the slot counts an entry may give
    DefaultSlots,   \* max_slots of the strategy class
    Caps,           \* the values of EXEC_MAX_SLOTS
    MaxAge,         \* bars the newest bar may be behind: MAX_BAR_AGE_MIN
    MaxBehind,      \* bound: bars a feed falls behind
    LastHour,       \* bound: hours
    MaxEdits        \* bound: edits of the environment

ASSUME AutoTraderAssumption ==
    /\ Listed \in Seq(Nat \ {0}) /\ IsInjective(Listed) /\ Defaults \subseteq Nat
    /\ SlotCounts \subseteq Nat /\ DefaultSlots \in Nat \ {0}
    /\ Caps \subseteq Nat \ {0}
    /\ {MaxAge, MaxBehind, LastHour, MaxEdits} \subseteq Nat

VARIABLES
    unset,          \* AUTO_BOOKS is not given
    entry,          \* its entries: book -> slot count, Omitted or Malformed
    cap,            \* EXEC_MAX_SLOTS
    live,           \* USE_LIVE_API
    trades,         \* --execute and ALLOW_ORDERS
    clock,          \* the hour
    due,            \* this hour's run has not been started
    toRun,          \* places in Listed of the books still to go over
    problems,       \* the run has had a problem
    running,
    sync,           \* what the book in turn is known to be
    row,            \* book -> its line of this hour in heartbeat.jsonl
    edits,
    tended,         \* book -> ghost: the last hour it was reconciled to the
                    \* end, or was not a book this process may trade
    sized,          \* book -> ghost: the slots it was last traded with, 0
    pinged          \* the hour of the last ping the monitor got

config == <<unset, entry, cap, live, trades>>
loop == <<toRun, problems, running, sync>>
traderVars == <<config, clock, due, loop, row, edits, tended, sized, pinged>>

BooksListed == { Listed[i] : i \in DOMAIN Listed }

Parsed(b) == IF unset THEN b \in Defaults ELSE entry[b] \notin {Malformed, 0}

(* Mutant: an omitted count is left to the strategy.                       *)
MutBookSlots(b) ==
    IF ~unset /\ entry[b] # Omitted THEN entry[b] ELSE DefaultSlots

(* The slots a parsed book is replayed with: an omitted count is clamped   *)
(* to one when more are authorised, that of a default book is not.         *)
BookSlots(b) ==
    CASE unset -> DefaultSlots
      [] ~unset /\ entry[b] # Omitted -> entry[b]
      [] ~unset /\ entry[b] = Omitted /\ cap > 1 -> 1
      [] OTHER -> DefaultSlots

(* The places of the parsed books, and the first of those left: the book   *)
(* whose turn it is.                                                       *)
Books == { i \in DOMAIN Listed : Parsed(Listed[i]) }
Place == Min(toRun)
InTurn == Listed[Place]

(* The fields of a row before anything is known: no read of the exchange   *)
(* is distinct from a read that found nothing.  Counts are named by the    *)
(* book they were read for.                                                *)
Unread == 0
NoRow == [stale |-> FALSE, halted |-> FALSE, counts |-> Unread]
Unknown == [line |-> NoRow, replayed |-> FALSE, over |-> FALSE]

Authorised(b) == Parsed(b) /\ live /\ trades /\ BookSlots(b) <= cap

TraderInit ==
    /\ unset \in BOOLEAN /\ entry \in [BooksListed -> {1, Omitted}] /\ cap \in Caps
    /\ live = TRUE /\ trades = TRUE
    /\ clock = 1 /\ due = TRUE
    /\ toRun = {} /\ problems = FALSE /\ running = FALSE /\ sync = Unknown /\ edits = 0
    /\ row = [b \in BooksListed |-> NoRow]
    /\ tended = [b \in BooksListed |-> 1] /\ sized = [b \in BooksListed |-> 0]
    /\ pinged = 0

---------------------------------------------------------------------------
(* The environment file is edited; a run reads it once, when it starts.    *)
EditEnvironment ==
    /\ ~running /\ edits < MaxEdits /\ edits' = edits + 1
    /\ \/ \E b \in BooksListed, e \in SlotCounts \cup {Omitted, Malformed} :
            entry' = [entry EXCEPT ![b] = e] /\ UNCHANGED <<unset, cap, live, trades>>
       \/ cap' \in Caps /\ UNCHANGED <<unset, entry, live, trades>>
       \/ live' = ~live /\ UNCHANGED <<unset, entry, cap, trades>>
       \/ unset' = ~unset /\ UNCHANGED <<entry, cap, live, trades>>
       \/ trades' = ~trades /\ UNCHANGED <<unset, entry, cap, live>>
    /\ tended' = [b \in BooksListed |->
                    IF Authorised(b) /\ Authorised(b)' THEN tended[b] ELSE clock]
    /\ UNCHANGED <<clock, due, loop, row, sized, pinged>>

(* The hour passes, its run done or, the box being down, never started.    *)
NextHour ==
    /\ ~running /\ clock < LastHour
    /\ clock' = clock + 1 /\ due' = TRUE
    /\ tended' = [b \in BooksListed |-> IF Authorised(b) THEN tended[b] ELSE clock + 1]
    /\ row' = [b \in BooksListed |-> NoRow]
    /\ UNCHANGED <<config, loop, edits, sized, pinged>>

StartRun ==
    /\ ~running /\ due
    /\ running' = TRUE /\ due' = FALSE
    /\ toRun' = Books /\ problems' = (Books = {})
    /\ UNCHANGED <<config, clock, sync, row, edits, tended, sized, pinged>>

(* What there is to do for the book in turn is done, or has raised.        *)
BookDone(problem, known) ==
    /\ problems' = (problems \/ problem)
    /\ sync' = [known EXCEPT !.over = TRUE]
    /\ UNCHANGED <<config, clock, due, toRun, running, row, edits, pinged>>

AtBook(b) == running /\ toRun # {} /\ b = InTurn /\ ~sync.over

ReplayDone == [sync EXCEPT !.replayed = TRUE]
WithCounts(b) == [ReplayDone EXCEPT !.line.counts = b]

(* The feed raises or has no bars, or the strategy is unknown: the         *)
(* exception is contained and the next book gets its turn.                 *)
ReplayFails ==
    /\ \E b \in BooksListed : AtBook(b)
    /\ BookDone(TRUE, sync)
    /\ UNCHANGED <<tended, sized>>

Stale(behind) == behind > MaxAge

(* The newest bar is too old: the exchange is left alone.                  *)
SkipStale ==
    /\ \E b \in BooksListed, behind \in 0 .. MaxBehind : AtBook(b) /\ Stale(behind)
    /\ BookDone(TRUE, [ReplayDone EXCEPT !.line.stale = TRUE])
    /\ UNCHANGED <<tended, sized>>

(* Without the live API, or above EXEC_MAX_SLOTS, the book is reported;    *)
(* the reads of the report may raise.                                      *)
ReportOnly ==
    /\ \E b \in BooksListed, raises \in BOOLEAN :
          /\ AtBook(b) /\ (~live \/ BookSlots(b) > cap) /\ (raises => live)
          /\ BookDone(raises, IF live /\ ~raises THEN WithCounts(b) ELSE ReplayDone)
    /\ UNCHANGED <<tended, sized>>

(* reconcile runs to its end, every request sent or its failure contained; *)
(* or it halts, on an anomaly or the kill switch; or a read raises, with   *)
(* the counts of the reads before it or none.                              *)
Reconcile ==
    \E b \in BooksListed, ends \in {"done", "halted", "raised"} :
      /\ AtBook(b) /\ live /\ BookSlots(b) <= cap
      /\ \/ BookDone(ends # "done", [WithCounts(b) EXCEPT !.line.halted = (ends = "halted")])
         \/ ends = "raised" /\ BookDone(TRUE, ReplayDone)
      /\ tended' = IF trades /\ ends = "done" THEN [tended EXCEPT ![b] = clock] ELSE tended
      /\ sized' = IF trades THEN [sized EXCEPT ![b] = BookSlots(b)] ELSE sized

(* Mutant: one sync for all books.                                         *)
MutNextSync == [sync EXCEPT !.over = FALSE]

(* Every book begins with nothing known.                                   *)
NextSync == Unknown

(* The finally clause: a book that was replayed leaves a row, unless the   *)
(* write fails, and the next one gets its turn.                            *)
LeaveBook ==
    /\ running /\ sync.over
    /\ \/ sync.replayed /\ row' = [row EXCEPT ![InTurn] = sync.line]
       \/ UNCHANGED row
    /\ toRun' = toRun \ {Place} /\ sync' = NextSync
    /\ UNCHANGED <<config, clock, due, problems, running, edits, tended, sized, pinged>>

(* The monitor after a ping, which the network may swallow and an unset    *)
(* URL leaves out.                                                         *)
Pinged == {pinged, clock}

FinishRun ==
    /\ running /\ toRun = {}
    /\ running' = FALSE
    /\ problems' = FALSE
    /\ pinged' \in IF problems THEN {pinged} ELSE Pinged
    /\ UNCHANGED <<config, clock, due, toRun, sync, row, edits, tended, sized>>

(* The process is killed, or the box goes down.                            *)
RunDies ==
    /\ running
    /\ running' = FALSE /\ toRun' = {} /\ problems' = FALSE /\ sync' = Unknown
    /\ UNCHANGED <<config, clock, due, row, edits, tended, sized, pinged>>

TraderNext ==
    \/ EditEnvironment \/ NextHour \/ StartRun
    \/ ReplayFails \/ SkipStale \/ ReportOnly \/ Reconcile
    \/ LeaveBook \/ FinishRun \/ RunDies

TraderSpec == TraderInit /\ [][TraderNext]_traderVars

---------------------------------------------------------------------------
(* The monitor is silent for at least as long as any book this process may *)
(* trade goes unmanaged, whatever fails, dies or is edited, and in         *)
(* whichever of the books: a ping never covers up a stale, failed or       *)
(* halted book ("the absence of pings is the alert", healthcheck.py).      *)
SilenceCoversNeglect ==
    \A b \in BooksListed : Authorised(b) => pinged <= tended[b]

(* A row never shows counts that were not read for its book in its hour,   *)
(* and no book of an hour with a ping has a stale or halted row (the       *)
(* comments of _heartbeat_fields: None is "distinct from 0").              *)
RowsTellTheTruth ==
    \A b \in BooksListed :
        /\ row[b].counts \in {Unread, b}
        /\ pinged = clock => ~row[b].stale /\ ~row[b].halted

(* What the operator sees: the monitor and the heartbeat file.             *)
OperatorIsTold == SilenceCoversNeglect /\ RowsTellTheTruth

(* A book of AUTO_BOOKS is never traded with a size nobody wrote down: it  *)
(* has the slots of its entry, or one, however the entry and the cap are   *)
(* edited in turn (_books: the strategy default "must never decide a live  *)
(* book's size").  Without AUTO_BOOKS the default does decide it, once     *)
(* EXEC_MAX_SLOTS allows that many.                                        *)
SizeIsNeverTheDefault ==
    [][\A b \in BooksListed : sized'[b] # sized[b] =>
         unset \/ sized'[b] \in {1, entry[b]}]_traderVars
=============================================================================
