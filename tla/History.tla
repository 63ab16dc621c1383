------------------------------- MODULE History -------------------------------
(***************************************************************************)
(* The resumable collector of executions (data/history.py) over the pages  *)
(* of the public feed (data/feed.py), the bars it rebuilds and the bars    *)
(* the one-shot collector (data/collect.py) writes into the same table.    *)
(*                                                                         *)
(* An execution is its id; ids ascend with time.  A bar is the set of the  *)
(* executions it was aggregated from.  A run is the sequence of its jobs:  *)
(* "forward" and "back" extend the raw set, "rebuild" and "collect" write  *)
(* bars.                                                                   *)
(***************************************************************************)
EXTENDS Integers, Sequences, FiniteSetsExt

CONSTANTS
    PageSize,       \* _PAGE_SIZE: executions per request
    MaxTicks,       \* max_ticks of a walk
    BarWidth,       \* executions whose time falls into one bar
    HandRuns,       \* the runs a person starts, sequences of jobs
    MayReset,       \* --reset is used
    MaxId,          \* bound: executions ever published
    Retained,       \* the feed may forget all but this many executions
    MaxFaults,      \* bound: runs that die of an error or a crash
    MaxHand         \* bound: runs started, and resets made, by hand

NoId == 0

ASSUME HistoryAssumption ==
    /\ PageSize \in Nat \ {0} /\ MaxTicks \in Nat \ {0} /\ BarWidth \in Nat \ {0}
    /\ MaxId \in Nat /\ Retained \in Nat /\ MaxFaults \in Nat /\ MaxHand \in Nat
    /\ HandRuns \subseteq Seq({"forward", "back", "rebuild", "collect"})
    /\ MayReset \in BOOLEAN

VARIABLES
    issued,         \* ids 1 .. issued exist at the exchange
    forgotten,      \* ids up to this one are past the retention window
    stored,         \* table execution
    oldest, newest, \* table collection_checkpoint, NoId when it has no row
    ohlcv,          \* table ohlcv: bucket -> the executions its bar is built from
    mixed,          \* a collect run has written bars since the last reset
    jobs,           \* what the run has still to do, the current job first
    step,           \* "idle", "next", "page", "store" or "mark"
    rows,           \* executions the walk has in memory
    start, cursor,  \* the ``before`` of the walk and of its next page
    stop,           \* stop_at_id
    left,           \* remaining
    joined,         \* the walk ended at stop_at_id
    faults, byHand

tables == <<stored, oldest, newest, ohlcv, mixed>>
walk == <<rows, start, cursor, stop, left, joined>>
historyVars == <<issued, forgotten, tables, jobs, step, walk, faults, byHand>>

Least(S) == IF S = {} THEN NoId ELSE Min(S)
Greatest(S) == IF S = {} THEN NoId ELSE Max(S)

Buckets == 0 .. (MaxId - 1) \div BarWidth
InBucket(S, b) == { i \in S : (i - 1) \div BarWidth = b }

Served == forgotten + 1 .. issued

HistoryInit ==
    /\ issued \in 0 .. MaxId \div 2 /\ forgotten = 0
    /\ stored = {} /\ oldest = NoId /\ newest = NoId
    /\ ohlcv = [b \in Buckets |-> {}] /\ mixed = FALSE
    /\ jobs = <<>> /\ step = "idle"
    /\ rows = {} /\ start = NoId /\ cursor = NoId /\ stop = NoId /\ left = 0
    /\ joined = FALSE /\ faults = 0 /\ byHand = 0

---------------------------------------------------------------------------
(* The exchange: executions appear, old ones leave the retention window.   *)
Publish ==
    /\ issued < MaxId
    /\ issued' = issued + 1
    /\ UNCHANGED <<forgotten, tables, jobs, step, walk, faults, byHand>>

Forget ==
    /\ forgotten + Retained < issued
    /\ forgotten' = forgotten + 1
    /\ UNCHANGED <<issued, tables, jobs, step, walk, faults, byHand>>

---------------------------------------------------------------------------
(* A run by cron, behind its lock, or by a person when none is active.     *)
CronRun ==
    /\ step = "idle"
    /\ jobs' = <<"forward", "back", "rebuild">> /\ step' = "next"
    /\ UNCHANGED <<issued, forgotten, tables, walk, faults, byHand>>

HandRun ==
    /\ step = "idle" /\ byHand < MaxHand
    /\ jobs' \in HandRuns /\ step' = "next"
    /\ byHand' = byHand + 1
    /\ UNCHANGED <<issued, forgotten, tables, walk, faults>>

(* Mutant: the checkpoint row survives the reset.                          *)
MutResetHistory ==
    /\ MayReset /\ step = "idle" /\ byHand < MaxHand
    /\ stored' = {} /\ ohlcv' = [b \in Buckets |-> {}] /\ mixed' = FALSE
    /\ byHand' = byHand + 1
    /\ UNCHANGED <<issued, forgotten, oldest, newest, jobs, step, walk, faults>>

(* --reset: the raw set, its cursors and its bars go in one transaction.   *)
ResetHistory ==
    /\ MayReset /\ step = "idle" /\ byHand < MaxHand
    /\ stored' = {} /\ oldest' = NoId /\ newest' = NoId
    /\ ohlcv' = [b \in Buckets |-> {}] /\ mixed' = FALSE
    /\ byHand' = byHand + 1
    /\ UNCHANGED <<issued, forgotten, jobs, step, walk, faults>>

EndRun ==
    /\ step = "next" /\ jobs = <<>>
    /\ step' = "idle"
    /\ UNCHANGED <<issued, forgotten, tables, jobs, walk, faults, byHand>>

---------------------------------------------------------------------------
(* Where a walk starts and which known id ends it.                         *)
Before(job) == IF job = "back" THEN oldest ELSE NoId
StopAt(job) == IF job = "forward" THEN newest ELSE NoId

BeginWalk ==
    /\ step = "next" /\ jobs # <<>> /\ Head(jobs) # "rebuild"
    /\ start' = Before(Head(jobs)) /\ cursor' = Before(Head(jobs))
    /\ stop' = StopAt(Head(jobs))
    /\ rows' = {} /\ left' = MaxTicks /\ joined' = FALSE
    /\ step' = "page"
    /\ UNCHANGED <<issued, forgotten, tables, jobs, faults, byHand>>

(* One request: the newest executions below the cursor, at most count.  A  *)
(* cursor past the retention window is answered 400, the end of history.   *)
Count == IF left < PageSize THEN left ELSE PageSize

Page ==
    LET below == { i \in Served : cursor # NoId => i < cursor }
    IN { i \in below : i > Greatest(below) - Count }

(* Mutant: the exclusive bound is taken one too low.                       *)
MutNextCursor(page) == Min(page) - 1

NextCursor(page) == Min(page)

GetPage ==
    /\ step = "page"
    /\ LET fresh == { i \in Page : i > stop }
           reached == fresh # Page
           goesOn == /\ Page # {} /\ ~reached
                     /\ Cardinality(Page) = Count
                     /\ left > Cardinality(fresh)
       IN /\ rows' = rows \cup fresh
          /\ left' = left - Cardinality(fresh)
          /\ cursor' = IF Page = {} THEN cursor ELSE NextCursor(Page)
          /\ joined' = reached
          /\ step' = IF goesOn THEN "page" ELSE "store"
    /\ UNCHANGED <<issued, forgotten, tables, jobs, start, stop, faults, byHand>>

(* A walk's executions are stored at once, what is already there is kept,  *)
(* and the cursors follow in a second transaction.                         *)
StoreExecutions ==
    /\ step = "store" /\ Head(jobs) # "collect"
    /\ stored' = stored \cup rows
    /\ step' = "mark"
    /\ UNCHANGED <<issued, forgotten, oldest, newest, ohlcv, mixed, jobs, walk,
                   faults, byHand>>

(* Mutant: only the forward cursor is kept up to date.                     *)
MutMarkedOldest == oldest

MarkedOldest == Least(stored)

MarkedNewest == Greatest(stored)

RefreshCheckpoint ==
    /\ step = "mark"
    /\ oldest' = MarkedOldest /\ newest' = MarkedNewest
    /\ jobs' = Tail(jobs) /\ step' = "next"
    /\ UNCHANGED <<issued, forgotten, stored, ohlcv, mixed, walk, faults, byHand>>

(* Bars are upserted: a bucket without executions keeps what it had.       *)
Upserted(S) ==
    [b \in Buckets |-> IF InBucket(S, b) = {} THEN ohlcv[b] ELSE InBucket(S, b)]

(* Mutant: the bars are built from what this run fetched.                  *)
MutRebuildSource == rows

RebuildSource == stored

RebuildOhlcv ==
    /\ step = "next" /\ jobs # <<>> /\ Head(jobs) = "rebuild"
    /\ ohlcv' = Upserted(RebuildSource)
    /\ jobs' = Tail(jobs)
    /\ UNCHANGED <<issued, forgotten, stored, oldest, newest, mixed, step, walk,
                   faults, byHand>>

Collect ==
    /\ step = "store" /\ Head(jobs) = "collect"
    /\ ohlcv' = Upserted(rows) /\ mixed' = TRUE
    /\ jobs' = Tail(jobs) /\ step' = "next"
    /\ UNCHANGED <<issued, forgotten, stored, oldest, newest, walk, faults, byHand>>

(* A failed request, a database error or a kill ends the run where it is.  *)
Die ==
    /\ step # "idle" /\ faults < MaxFaults
    /\ step' = "idle" /\ jobs' = <<>>
    /\ faults' = faults + 1
    /\ UNCHANGED <<issued, forgotten, tables, walk, byHand>>

Work == \/ BeginWalk \/ GetPage \/ StoreExecutions \/ RefreshCheckpoint
        \/ RebuildOhlcv \/ Collect \/ EndRun

HistoryNext ==
    \/ Publish \/ Forget
    \/ CronRun \/ HandRun \/ ResetHistory
    \/ Work \/ Die

HistorySpec == HistoryInit /\ [][HistoryNext]_historyVars

(* Cron keeps starting runs, and a run that is started makes its steps.    *)
HistoryFair == WF_historyVars(CronRun) /\ WF_historyVars(Work)

---------------------------------------------------------------------------
HistoryTypeOK ==
    /\ issued \in 0 .. MaxId /\ forgotten \in 0 .. MaxId
    /\ stored \subseteq 1 .. MaxId /\ rows \subseteq 1 .. MaxId
    /\ {oldest, newest, start, cursor, stop} \subseteq 0 .. MaxId
    /\ ohlcv \in [Buckets -> SUBSET (1 .. MaxId)] /\ mixed \in BOOLEAN
    /\ jobs \in Seq({"forward", "back", "rebuild", "collect"})
    /\ step \in {"idle", "next", "page", "store", "mark"}
    /\ left \in 0 .. MaxTicks /\ joined \in BOOLEAN
    /\ faults \in 0 .. MaxFaults /\ byHand \in 0 .. MaxHand

Contiguous(S) == \A i, j \in S : i .. j \subseteq S

(* A cursor is always an execution the table holds, whatever dies between  *)
(* the two transactions of extend_history and whoever resets: the next     *)
(* walk starts from, or stops at, something that is really there.          *)
CursorsAreStored == {oldest, newest} \ {NoId} \subseteq stored

(* A walk that hangs on to the stored set -- a back walk from the oldest   *)
(* id, a forward walk that met the newest -- leaves no hole in a set that  *)
(* had none, although the feed grows and forgets between its pages and a   *)
(* crash may have left the cursors behind ("the complete contiguous raw    *)
(* set", docstring of history.py).                                         *)
JoinedWalksLeaveNoHole ==
    [][StoreExecutions /\ (joined \/ start # NoId) /\ Contiguous(stored)
         => Contiguous(stored')]_historyVars

(* As long as only this collector writes the bars, a rebuild never takes   *)
(* an execution out of a bar: the bars at the boundary of two walks only   *)
(* grow towards the whole ("boundary bars are always correct across        *)
(* separately fetched ranges").                                            *)
BoundaryBarsGrow ==
    [][RebuildOhlcv /\ ~mixed => \A b \in Buckets : ohlcv[b] \subseteq ohlcv'[b]]_historyVars

(* Once the exchange is quiet, repeated runs store its newest execution    *)
(* and everything below the oldest that the feed still serves, through     *)
(* crashes and resets: a run is never stuck on what it has already.        *)
HistoryDeepens ==
    <>[](Served # {} => issued \in stored /\ forgotten + 1 .. Min(stored) \subseteq stored)

(* What the docstring says of the raw set: it has no hole.                 *)
RawSetIsContiguous == Contiguous(stored)
=============================================================================
