----------------------------- MODULE Dashboard -----------------------------
(***************************************************************************)
(* The chart, backtest and maintenance tabs of src/viz/app.py: callbacks   *)
(* that threads of one server run side by side, the cache of bars and the  *)
(* memo of results they share, the results kept on disk between servers,   *)
(* and the background tasks of src/viz/tasks.py.                           *)
(*                                                                         *)
(* Bars are only appended to the table, and the newest one is rewritten    *)
(* while its hour lasts, so data is how many bars there are and how often  *)
(* a bar was rewritten.  The result of a run is the data it has read.      *)
(***************************************************************************)
EXTENDS Integers, FiniteSetsExt

CONSTANTS
    Calls,       \* the threads that serve callbacks
    MaxViewBars, \* _MAX_VIEW_BARS
    BarsPerDate, \* bars of a calendar day
    FirstRows,   \* the numbers of bars at the start
    MaxRows,     \* bound: bars
    MaxAppends,  \* bound: bars appended
    MaxRewrites, \* bound: rewrites of a newest bar
    MaxCalls,    \* bound: callbacks
    Absent, Torn \* no entry, and a pickle cut short

ASSUME DashboardAssumption ==
    /\ {MaxViewBars, BarsPerDate} \subseteq Nat \ {0}
    /\ FirstRows \subseteq 0 .. MaxRows
    /\ {MaxRows, MaxAppends, MaxRewrites, MaxCalls} \subseteq Nat

VARIABLES
    db,       \* the ohlcv table
    appends,  \* bars appended
    frames,   \* _DATA_CACHE, for the product and timeframe shown
    memo,     \* _CYCLE_MEMO, by fingerprint
    disk,     \* the files of _CYCLE_DIR, by fingerprint
    period,   \* bt-period: windows back from the newest, kept in the page
    call,     \* what each thread is doing
    calls,    \* callbacks so far
    current,  \* tasks._current: the task started last
    tasks     \* history: the tasks that run

dashboardVars == <<db, appends, frames, memo, disk, period, call, calls, current, tasks>>

Data == [rows : 0 .. MaxRows, rewrites : 0 .. MaxRewrites]

(* Mutant: results are kept without the fingerprint of their bars.         *)
MutFingerprint(data) == 0

(* _data_fingerprint: the number of bars and the time of the last one,     *)
(* which is the same thing as long as bars are appended.                   *)
Fingerprint(data) == data.rows

Fingerprints == 0 .. MaxRows

NoCall == [at |-> "idle", kind |-> "none", force |-> FALSE, asked |-> Absent,
           frame |-> Absent, result |-> Absent, shared |-> FALSE]

DashboardInit ==
    /\ db \in [rows : FirstRows, rewrites : {0}] /\ appends = 0
    /\ frames = Absent
    /\ memo = [f \in Fingerprints |-> Absent] /\ disk = [f \in Fingerprints |-> Absent]
    /\ period = 0
    /\ call = [c \in Calls |-> NoCall] /\ calls = 0
    /\ current = 0 /\ tasks = {}

-----------------------------------------------------------------------------
(* The windows of _MAX_VIEW_BARS bars, counted back from the newest bar.   *)
Ceiling(n, d) == (n + d - 1) \div d

Windows(n) == Max({1, Ceiling(n, MaxViewBars)})

(* max(0, min(offset, n_windows - 1)).                                     *)
Clamped(offset, n) == Max({0, Min({offset, Windows(n) - 1})})

(* _window_slice: the bars of window offset, of n bars.                    *)
WindowSlice(n, offset) ==
    LET end == n - Clamped(offset, n) * MaxViewBars
    IN  Max({1, end - MaxViewBars + 1}) .. end

(* The last count of the bars in span.                                     *)
NewestOf(span, count) == { i \in span : Cardinality({ j \in span : j > i }) < count }

(* The calendar day of bar i.                                              *)
DateOf(i) == (i - 1) \div BarsPerDate

Dates == 0 .. DateOf(MaxRows)

(* _slice_window and the cap of the chart: the newest bars of the days     *)
(* chosen, both days included; Absent is no choice.                        *)
ChartSlice(n, start, end) ==
    NewestOf({ i \in 1 .. n : /\ start # Absent => DateOf(i) >= start
                          /\ end # Absent => DateOf(i) <= end }, MaxViewBars)

-----------------------------------------------------------------------------
StandsAt(c, where) == call[c].at = where

Goes(c, where) == call' = [call EXCEPT ![c].at = where]

Finishes(c) == call' = [call EXCEPT ![c] = NoCall]

Shows(c, result) == call' = [call EXCEPT ![c].at = "shown", ![c].result = result]

(* The page calls: a reload or other days of the chart, a click on the     *)
(* backtest tab (force: on its run button), on previous or next.           *)
Click(c, kind, force) ==
    /\ call[c].at \in {"idle", "shown"} /\ calls < MaxCalls
    /\ force => kind = "backtest"
    /\ calls' = calls + 1
    /\ call' = [call EXCEPT ![c] =
          [NoCall EXCEPT !.at = IF kind = "maintenance" THEN "check" ELSE "cache",
                         !.kind = kind, !.force = force, !.asked = db]]
    /\ UNCHANGED <<db, appends, frames, memo, disk, period, current, tasks>>

(* _load_cache_cached: the bars of the first call, for all that follow.    *)
LookInCache(c) ==
    /\ StandsAt(c, "cache")
    /\ IF frames = Absent
       THEN call' = [call EXCEPT ![c].at = "store", ![c].frame = db]
       ELSE Goes(c, "take")
    /\ UNCHANGED <<db, appends, frames, memo, disk, period, calls, current, tasks>>

StoreInCache(c) ==
    /\ StandsAt(c, "store")
    /\ frames' = call[c].frame
    /\ Goes(c, "take")
    /\ UNCHANGED <<db, appends, memo, disk, period, calls, current, tasks>>

TakeFromCache(c) ==
    /\ StandsAt(c, "take")
    /\ call' = [call EXCEPT ![c].at = "render", ![c].frame = frames]
    /\ UNCHANGED <<db, appends, frames, memo, disk, period, calls, current, tasks>>

(* _update_chart.                                                          *)
DrawChart(c, start, end) ==
    /\ StandsAt(c, "render") /\ call[c].kind = "chart"
    /\ Shows(c, ChartSlice(call[c].frame.rows, start, end))
    /\ UNCHANGED <<db, appends, frames, memo, disk, period, calls, current, tasks>>

(* _bt_period_nav.                                                         *)
Turn(c) ==
    /\ StandsAt(c, "render") /\ call[c].kind \in {"previous", "next"}
    /\ period' = Clamped(period + (IF call[c].kind = "previous" THEN 1 ELSE -1),
                         call[c].frame.rows)
    /\ Finishes(c)
    /\ UNCHANGED <<db, appends, frames, memo, disk, calls, current, tasks>>

(* Another timeframe or product was chosen and this one again.             *)
TurnToNewest ==
    /\ period # 0 /\ period' = 0
    /\ UNCHANGED <<db, appends, frames, memo, disk, call, calls, current, tasks>>

-----------------------------------------------------------------------------
(* _backtest_tab_cb and _run_cycle_cached: without bars there is nothing   *)
(* to show; else the memo answers unless the run was forced ...            *)
LookInMemo(c) ==
    /\ StandsAt(c, "render") /\ call[c].kind = "backtest"
    /\ LET kept == memo[Fingerprint(call[c].frame)]
       IN  IF call[c].frame.rows = 0 THEN Finishes(c)
           ELSE IF call[c].force THEN Goes(c, "run")
           ELSE IF kept # Absent THEN Shows(c, kept)
           ELSE Goes(c, "read")
    /\ UNCHANGED <<db, appends, frames, memo, disk, period, calls, current, tasks>>

(* Mutant: any file that is there is taken for a result.                   *)
MutUsable(file) == file # Absent

(* ... then the file, if it is there and holds a result ...                *)
Usable(file) == file \notin {Absent, Torn}

ReadPickle(c) ==
    /\ StandsAt(c, "read")
    /\ LET f == Fingerprint(call[c].frame)
       IN  IF Usable(disk[f])
           THEN memo' = [memo EXCEPT ![f] = disk[f]] /\ Shows(c, disk[f])
           ELSE Goes(c, "run") /\ UNCHANGED memo
    /\ UNCHANGED <<db, appends, frames, disk, period, calls, current, tasks>>

(* ... else run_cycle, which loads the bars itself ...                     *)
RunData(c) == db

RunCycle(c) ==
    /\ StandsAt(c, "run")
    /\ call' = [call EXCEPT ![c].at = "open", ![c].result = RunData(c)]
    /\ UNCHANGED <<db, appends, frames, memo, disk, period, calls, current, tasks>>

(* ... and its result is written in place: the file is empty at first.     *)
Writers(f) == { w \in Calls : StandsAt(w, "dump") /\ Fingerprint(call[w].frame) = f }

OpenPickle(c) ==
    /\ StandsAt(c, "open")
    /\ LET f == Fingerprint(call[c].frame)
       IN  /\ disk' = [disk EXCEPT ![f] = Torn]
           /\ call' = [w \in Calls |->
                 IF w = c THEN [call[c] EXCEPT !.at = "dump", !.shared = Writers(f) # {}]
                 ELSE [call[w] EXCEPT !.shared = @ \/ w \in Writers(f)]]
    /\ UNCHANGED <<db, appends, frames, memo, period, calls, current, tasks>>

(* Two writers of one file may leave neither's result.                     *)
DumpPickle(c) ==
    /\ StandsAt(c, "dump")
    /\ LET f == Fingerprint(call[c].frame)
       IN  /\ \E left \in {call[c].result} \union (IF call[c].shared THEN {Torn} ELSE {}) :
                 disk' = [disk EXCEPT ![f] = left]
           /\ memo' = [memo EXCEPT ![f] = call[c].result]
    /\ Goes(c, "shown")
    /\ UNCHANGED <<db, appends, frames, period, calls, current, tasks>>

-----------------------------------------------------------------------------
(* tasks.is_running.                                                       *)
IsRunning == current \in tasks

(* _maintenance and tasks.run_async: the check ...                         *)
CheckTask(c) ==
    /\ StandsAt(c, "check")
    /\ IF IsRunning THEN Finishes(c) ELSE Goes(c, "start")
    /\ UNCHANGED <<db, appends, frames, memo, disk, period, calls, current, tasks>>

(* ... and the start, with nothing held in between.                        *)
StartTask(c) ==
    /\ StandsAt(c, "start")
    /\ current' = current + 1 /\ tasks' = tasks \union {current'}
    /\ Finishes(c)
    /\ UNCHANGED <<db, appends, frames, memo, disk, period, calls>>

TaskEnds(t) ==
    /\ tasks' = tasks \ {t}
    /\ UNCHANGED <<db, appends, frames, memo, disk, period, call, calls, current>>

(* collect, by a task of this server or by cron: bars are appended, or the *)
(* newest one is rewritten.                                                *)
BarsArrive ==
    /\ \/ /\ db.rows < MaxRows /\ appends < MaxAppends
          /\ db' = [db EXCEPT !.rows = @ + 1] /\ appends' = appends + 1
       \/ /\ db.rows > 0 /\ db.rewrites < MaxRewrites
          /\ db' = [db EXCEPT !.rewrites = @ + 1] /\ UNCHANGED appends
    /\ UNCHANGED <<frames, memo, disk, period, call, calls, current, tasks>>

(* The server is stopped at any point and started again: the files stay    *)
(* as they are, and the page keeps its window.                             *)
Restart ==
    /\ frames' = Absent
    /\ memo' = [f \in Fingerprints |-> Absent]
    /\ call' = [c \in Calls |-> NoCall] /\ tasks' = {}
    /\ (frames # Absent \/ \E c \in Calls : ~StandsAt(c, "idle"))
    /\ UNCHANGED <<db, appends, disk, period, calls, current>>

Cached(c) == LookInCache(c) \/ StoreInCache(c) \/ TakeFromCache(c)

PageNext ==
    \/ \E c \in Calls :
          \/ \E kind \in {"chart", "previous", "next", "maintenance"} : Click(c, kind, FALSE)
          \/ Cached(c) \/ Turn(c) \/ CheckTask(c) \/ StartTask(c)
          \/ \E start, end \in Dates \union {Absent} : DrawChart(c, start, end)
    \/ \E t \in tasks : TaskEnds(t)
    \/ TurnToNewest \/ BarsArrive \/ Restart

ResultNext ==
    \/ \E c \in Calls :
          \/ \E force \in BOOLEAN : Click(c, "backtest", force)
          \/ Cached(c) \/ LookInMemo(c) \/ ReadPickle(c) \/ RunCycle(c)
          \/ OpenPickle(c) \/ DumpPickle(c)
    \/ BarsArrive \/ Restart

DashboardNext == PageNext \/ ResultNext

DashboardSpec == DashboardInit /\ [][DashboardNext]_dashboardVars

-----------------------------------------------------------------------------
ShowsResult(c) == StandsAt(c, "shown") /\ call[c].kind = "backtest"

(* A result on the page is a whole one, whatever two writers of a file or  *)
(* a server stopped while writing left on disk.                            *)
ShownResultsAreWhole == \A c \in Calls : ShowsResult(c) => call[c].result \in Data

(* The result on the page has seen every bar of the chart it is drawn      *)
(* over, also when it comes from a file of an earlier server.              *)
ResultsCoverTheChart ==
    \A c \in Calls : ShowsResult(c) /\ call[c].result \in Data
                     => call[c].result.rows >= call[c].frame.rows

(* A click on Run backtest shows a result of all the data there was at the *)
(* click, although the chart under it is of the first call of the server.  *)
ForcedRunsAreFresh ==
    \A c \in Calls : ShowsResult(c) /\ call[c].force /\ call[c].result \in Data
                     => /\ call[c].result.rows >= call[c].asked.rows
                        /\ call[c].result.rewrites >= call[c].asked.rewrites

(* Every bar of a chart is in exactly one of the windows one can turn to,  *)
(* and the newest window is what the chart tab shows.                      *)
WindowsShareOutTheBars ==
    LET n == db.rows IN
        /\ \A i \in 1 .. n :
              Cardinality({ o \in 0 .. Windows(n) - 1 : i \in WindowSlice(n, o) }) = 1
        /\ WindowSlice(n, 0) = ChartSlice(n, Absent, Absent)

(* Results, charts and windows agree on the bars there are.                *)
PagesAreCurrent == ResultsCoverTheChart /\ ForcedRunsAreFresh /\ WindowsShareOutTheBars
=============================================================================
