# TLA+ models of cld_bittrade

`cld_bittrade` trades leverage books on GMO Coin. Once an hour a timer starts a
Python process that replays a strategy over the closed hourly bars and makes
the exchange account look like the result. Around that run stand the collection
of bars, the strategies, back-tests, a dashboard and a few commands. This
directory holds TLA+ models of that system, TLC configurations that check them on
small instances, and machine-checked proofs about them. `src/` below is the
repository's root, so the Python package is `src/src/`.

Contents: 1 the system, 2 the plan, 3 the modules, 4 the runs, 5 bounds and
fairness, 6 the proofs, 7 what the models found, 8 what is not modelled.

## 1. The system

### Inventory

| component | state | operations | hard behaviour | what makes it correct |
|---|---|---|---|---|
| live executor (`execution/live_executor.py`) | none of its own: two snapshots per run | `reconcile`: read positions, read orders, kill / halt / drain, pair, attribute exits, maintain exits, close, cancel orphans, cancel stale entries, place entries | the account moves while the run works; any call may fail; exits do not name their position | exits stay on their own positions, exposure keeps to the slots, the account converges |
| order log (`execution/order_log.py`) | `orders.jsonl`, `heartbeat.jsonl`, append only | `record`, `snapshot`, `settle_order_owners` | lines are lost; answers are lost | a recorded owner is the true one |
| GMO client (`execution/gmo_client.py`) | HTTP session | `send_order`, `close_position`, `cancel_orders`, `cancel_bulk`, reads | batch cancel falls back to single cancels and swallows failures | requests have their effect or raise |
| risk, self-check (`execution/risk.py`, `execution/selfcheck.py`) | none | `entry_budget`, `book_within_notional_cap`, the probes | fails closed; margin shrinks as books fill | a deployment that passes the check gets its entries |
| auto trader (`execution/auto_trader.py`) | environment settings | `main`: one pass over the books | crash, stale bars, edited `AUTO_BOOKS`, health ping | a failing book never stops the others; silence means trouble |
| health check (`execution/healthcheck.py`) | none | `ping` | the alarm is the absence of a ping | a ping means every book is managed |
| live bars (`execution/live_bars.py`) | one file per closed day | `recent_bars` | short or empty days, the clock rolls over, the window slides | the replay sees every closed bar of the window |
| replay (`simulator/multi_simulator.py`) | book, pending, working, swap | `_simulate`, `live_state`, `run` | order of the steps within a bar | never more trades than slots, causal fills, money booked once |
| single-position simulator (`simulator/simulator.py`) | one position | `run` | as above | causal trades; the curve ends at the book |
| ratchet (`strategy/random_hedge.py`) | `_stop`, `_last_recalc`, by entry bar and side | `dynamic_exit` | prior-bar stop against this bar's range | a stop never loosens |
| exit rules (`exit/`) | favourable extreme | `evaluate_exit`, `tp_sl_levels`, `ZsTpSl` | precedence within a bar | pessimistic order |
| signs and strategies (`signs/`, `strategy/`, `indicators/`) | a bounded buffer of bars | `detect`, `push` / `on_bar`, `precompute_multi` | what is knowable on a bar; buffers; sliding windows | the live signal is the benchmarked one and is not taken back |
| history (`data/history.py`, `data/feed.py`) | executions, checkpoint | `extend_history`, `rebuild_ohlcv`, `reset_history` | a walk that ends early leaves a hole; a crash between two transactions | stored ids are contiguous |
| GMO import (`data/import_gmo.py`) | bars per day | `import_range` | partial days, resumption | a skipped day is complete |
| collection, aggregation (`data/collect.py`, `data/ohlcv.py`, `data/cache.py`) | bars | `collect`, `aggregate_ticks`, `load` | boundary bars | bars equal the aggregate of all their ticks |
| dashboard (`viz/app.py`, `viz/tasks.py`) | caches and memo of the server, result files, one thread | callbacks, `run_async`, `is_running` | callbacks run side by side; check, then act | what is shown is whole and current |
| trade commands (`execution/trade.py`, `execution/gmo_trade.py`, the bitFlyer client) | none | orders, close, cancel, behind two gates | others trade between read and order | a close closes |
| evaluation (`backtest/`) | `sign_fire`, `sign_benchmark_run`, frozen boundaries | benchmark, multi-year, calibration, cycle, paper forward | the store grows at both ends between two studies | out of sample stays unseen |
| portfolio register | one table of positions | `open_position`, `list_open_positions` | none | none |
| charts, analysis probes, mock exchange, migrations, scripts | static, or printed once | | none a model checker settles | |

### How they interact

Per bar and book, `auto_trader.main` calls `_desired` (`recent_bars`, then
`MultiSimulator.live_state`, which asks the strategy's `precompute_multi`) and
hands the result to `reconcile`. `reconcile` reads the account through the GMO
client, reads the order log for the owners of resting exits, asks `entry_budget`
how many entries margin allows, and sends its requests one by one; each result is
appended to the order log. Between any two of these calls the exchange may fill a
resting order. The only memory from one run to the next is the exchange's
account, the order log and the day cache of klines.

Back-tests read another store: `history`, `collect` and `import_gmo` write the
table `ohlcv`, the evaluation and the dashboard read it while it grows. The
commands and the dashboard share the account, and nothing else, with the bot.

### Hazards

`PROJECT.json` lists every hazard at the line where it bites. The largest are:
the two reads are not one snapshot; a settle order rests without naming its
position and reserves the whole of it; a ratchet is a cancel followed by a
placement; the desired book and the live book may differ in both directions
(phantoms, strays), and pairing them wrongly closes a good position; the answer
to an accepted request, or its log line, may be lost; the window of bars slides
under open positions; what is computed on a window must not change when the same
bars are seen again; and one ping has to speak for all books.

## 2. The plan

1. **Core (done).** `BestFirst`, `TradeBook`, `SettleVenue`, `LiveExecutor`,
   their checks, and the theorems in `LiveExecutorProofs`.
2. **Replay (done).** `Replay`: the loop of `MultiSimulator._simulate`, shown to
   implement `TradeBook`; `Simulator` and `MultiBook` for the money.
3. **Auto trader (done).** `AutoTrader`, `Preflight`, and a further run within a bar
   in `LiveExecutor`.
4. **Market data (done).** `KlineVenue`, `LiveBars`, `GmoImport`, `History` and the
   theorems in `MarketDataProofs`.
5. **Signals (done).** `Indicators`, `Signs`, `Rides`.
6. **What people use (done).** `Commands`, `Dashboard`, `LiveTab`, `Benchmark`, `Cycle`.
7. **Proofs (done).** `LiveExecutorProofs` for the executor; `ReplayProofs` for the loop
   and its refinement of `TradeBook`; `MarketDataProofs` for the collector, the bars and
   the import; `OperatorProofs` for the auto trader, the self-check, the commands and
   the pages; `StudyProofs` for the studies of the cached bars; `SignProofs` for the
   detectors and the replayed windows; `ComponentProofs` for the walk of the matchers
   and the money of both simulators; `Arithmetic` for the lemmas they share. Every
   safety property of a passing run is a theorem.
8. **Left, proofs.** Liveness, which the prover cannot take (section 6).
9. **Left, models.** That `Simulator` and `MultiBook` take the same trades on one
   slot is false (section 7) and stays so unless the code changes; the executor run
   on the signals of `Rides` instead of an open `TradeBook`.

## 3. The modules

### The run of one book

**`BestFirst`** is the algorithm both matchers of the executor run: sort the
candidate pairs by (cost, left, right), walk the list, take a pair when both
ends are free. It is stated by its result (`IsBestFirst`), which needs no
recursion and can be reasoned about. `BestFirstMC` writes the walk itself, a fold of
`TakeIfFree` over the `Sorted` pairs, and states that its result is the unique solution:
TLC over every graph of a few ends, `MatchingStaysBestFirst` for all.

**`TradeBook`** is the desired book, `LiveBookState`: which trades the strategy
holds and with which stop, which market entries it wants at the next open, which
limit entries rest. A trade is one number, which stands for its time, its entry
price, its limit and its target. `ReplayBar` is one iteration of the replay loop
seen from outside: exits are arbitrary, fills at the open respect the slots in
order, a limit entry fills only while its life lasts, and a limit the market has
traded through fills in the replay as well. A stop never loosens, unless its
trade takes over the stop of another trade of its side (the ratchet is kept by
entry bar and side, so that two entries of one bar share it). `ReplayAnew` is
what an edit of `AUTO_BOOKS` or a window that slides past an entry does: all
bars are replayed from other premises, so the book may suddenly hold any earlier
trade, a limit that waited may have filled and one that had filled may wait again.
Only what the last bar signalled (`Fresh`, and the pending market entries) is there
whatever the slots, because no slot is consulted for it before the next bar.

**`Replay`** is the loop itself, over integer bars: one `Bar` step is one
iteration of `_simulate`. `Exits` folds `ExitStep` over the open positions in
their order (deferred target, `evaluate_exit` with its favourable extreme as
`Marked`, `dynamic_exit` with the ratchet's dictionaries as `trail`, keyed as in
the code by entry bar and side, which each call enters into or changes as
`Noted`), `FillPending` fills market entries at the open, `Limits` the touched
limits, and `Signals` sorts the signals of the bar into market and limit entries.
Which signals a bar brings is open; limits rest on the far side of the close. Keys
of `trail` that no open position uses are dropped: no later position can have
them. Its `bar`, `closed` and `entered` are read by properties only.
`ImplementsTradeBook` maps it to `TradeBook`: the book, `CurrentStop` as
`live_state` publishes it, pending and resting entries, and the bars a resting
entry has left. `ReplayMC` instantiates it, **`ReplayProofs`** holds its theorems.

**`SettleVenue`** is the exchange as the executor relies on it (external, modelled
from how `gmo_client.py` and `live_executor.py` use it): positions with ids,
resting orders with ids, fills at any moment, and the rule that a settle order
reserves its whole position, so that a second one, or a market close, is refused.
`FilledAt` is where a position was filled as its row reports it, in the measure the
pairing uses: hours plus percent of price on one line, on which the entry of trade
`t` lies at `Span * t` (`EntryOf`) and the fill of position `p` `Drift[p]` further.

**`LiveExecutor`** composes the three and adds the run. The correspondence:

| code | model |
|---|---|
| `client.get_open_positions` (663) | `ReadPositions`: `seen`, `seenReserved` |
| `client.get_active_orders` (664) and everything computed from it | `PlanKill`, `PlanHalt`, `PlanRun`: the plan is a function of the two snapshots, the desired book and the log, so it is computed at once into `todo` |
| `_pair_cost`, `_match_positions` | `PairCost`, `PairEdges`, `MatchPositions` |
| `_assign_close_orders` | `ExitSlots`, `SlotCost`, `SlotEdges`, `AssignCloseOrders` |
| `_maintain_exits` | `MaintainExits` (`Breached`, `CloseRequests`, `StopRequests`, `TargetRequests`) |
| `_entry_plan`, section 5 of `reconcile` | `KeptEntries`, `StaleEntries`, `ToPlace`, `Room`, `FirstToPlace` |
| `_anomaly_reason`, drain | `HardAnomaly`, `OverSlots`, `Halts`, `Draining` |
| `do(label, fn)` | the `Do...` actions: one request at a time, in the order of the code (`at`); a refusal is contained and the run goes on |
| `_replace` | `DoRatchetCancel`, after which the replacement is a request of its own |
| an exception in a call, a lost answer or log line, a swallowed cancel, the end of the process | `CallFails`, `AnswerLost`, `CancelsPartly`, `Crash` |
| `order_log.record` / `settle_order_owners` | `owner` |

Between any two actions of a run `ExitFilled` and `EntryFilled` may happen. Bars
close between runs (`Bar`, `BarQuiet`). A bar has one run (`ran`), unless `RunAgain`
starts a further one that finds the same bars: by hand, or because the newest bar is
published late.
`raced`, `disturbed`, `matched`, `crossed` and `entered` are history variables;
no guard of a run reads them, except that the replay of a bar has to fill the
limits that were `crossed` during it.

**`LiveExecutorMC`** names the small sets the configurations use.
**`LiveExecutorProofs`** holds the theorems about log and matching, then those about a
run from its reads to its last request.

### Around the run

**`AutoTrader`** is `main` over several books: `StartRun` parses `AUTO_BOOKS`
(`Parsed`, `BookSlots`), each book then is replayed and fails, is stale, is only
reported, or is reconciled (`ReplayFails`, `SkipStale`, `ReportOnly`, `Reconcile`),
`LeaveBook` is the `finally` clause with its heartbeat row, `FinishRun` sends or
withholds the ping, `RunDies` is a crash. `toRun` holds the places of the books still to
go over; the least of them is in turn. `EditEnvironment` changes the settings
between runs. `tended`, `sized` and `pinged` record what a property compares.

**`Preflight`** has the arithmetic of `risk.py` (`WithinCap`, `RatioTooLow`,
`EntryBudget`) under two users: the self-check, over all books at once, and the
cycles, slot by slot, while prices, deposits, GMO's minimum sizes and the cap
change.

**`KlineVenue`** (external) serves one day bucket per request, late, short or not at
all. **`LiveBars`** is `recent_bars` for two processes at once over one directory:
the clock is read in `StartWalk`, each day comes from a file (`ReadCache`) or a
request (`FetchDay`, `WriteCache`), `ReturnBars` cuts the forming hour and prunes.
**`GmoImport`** is `import_range`: `SkipDay` counts a calendar day of the table,
`RequestDay` asks for a bucket, `UpsertDay` writes it; an import may be aborted
anywhere and started again over another range.

**`History`** is `extend_history` page by page (`BeginWalk`, `GetPage`), its two
transactions (`StoreExecutions`, `RefreshCheckpoint`), `rebuild_ohlcv`,
`reset_history`, and the one-shot collector that writes the same bars, over an
exchange that publishes and forgets. A run may die at any point.

**`Indicators`** has the pure algorithms on a window of bars: price histograms, value
area, relative band, walls, the next dense node, zigzag peaks, the volatility band
of `ZsTpSl`. **`Signs`** has the detectors and the strategies that are asked bar by
bar through a bounded buffer: `PushBar` appends a bar to the series and to the
buffer and records both what `on_bar` answers and what `detect` says of the whole
series. **`Rides`** has `precompute_multi` of the replayed strategies over the window
`recent_bars` returns: `NextRun` replays everything again, and at a new day the
window slides. Prices are integers chosen such that every bin edge is one,
fractions are pairs, so no rounding separates the model from the code's
comparisons except where the code itself compares floats that are equal in exact
arithmetic.

**`Simulator`** is `Simulator.run`, one bar a step, with the rules of
`exit/rules.py`. **`MultiBook`** is the money of `MultiSimulator.run`: fees, daily swap,
targets deferred to the next open, the close at the end of the data; which
position leaves and why is free there and decided in `Replay`.

**`Commands`** has the commands of `trade.py` at a venue that nets and of
`gmo_trade.py` at one where positions keep their id, each a read followed by single
orders, with other shells and the venue's screens in between. **`Dashboard`** has the
callbacks of the chart, back-test and maintenance tabs as threads that look into a
cache, compute and store in separate steps, result files written in place, restarts
of the server; **`LiveTab`** the two timed caches of the live tab.

**`Benchmark`** has the sign studies (split, phases, outcome of a fire, rows kept) over a
store that grows at both ends; **`Cycle`** adds the evaluation of a strategy, its
decision to ship, and the forward record behind a frozen boundary.

**`ComponentsMC`** instantiates all of these for TLC. A behaviour exercises one part and
the others rest, so that the state space is the sum of the parts; they share no
state in the program either, except through the bars, which each part chooses for
itself. `Parts` says which of them a run exercises: `HistoryHole` has the history only.

The theorems about these modules are in **`MarketDataProofs`** (`History`, `LiveBars`,
`GmoImport`), **`OperatorProofs`** (`AutoTrader`, `Preflight`, `Commands`, `Dashboard`,
`LiveTab`), **`SignProofs`** (`Indicators`, `Signs`, `Rides`), **`StudyProofs`** (`Benchmark`,
`Cycle`) and **`ComponentProofs`** (`BestFirst`, `Simulator`, `MultiBook`). **`Lists`** has the
two operators on lists that several modules use, **`Arithmetic`** the lemmas that several
proofs cite; they model nothing. What is proved of a part holds of its share of
`ComponentsMC`, where the others rest.

A definition whose name begins with `Mut` is a defective variant of the
definition that follows it: replacing the one by the other must break the
property that `PROJECT.json` pairs with it, which shows that the property can
fail.

## 4. The runs

| run | checks | shows |
|---|---|---|
| `Exits` | `RecordedOwnersAreTrue`, `CancelsAreSurgical`, `UndisturbedRunProtects`, `Converges` | two longs, three stop levels, ratchets, breaches, two faults (lost answers, lost log, partial cancels, crashes) |
| `Entries` | `EntriesRespectSlots`, `PairingIsFair`, `DrainWindsDown` | longs and a short, market and limit entries, fills that drift, slot edits under a full book with `LIVE_DRAIN_OK`, phantoms with `LIVE_IGNORE_PHANTOM_SLOTS`, one fault or a further run within a bar |
| `Kill` | `TypeOK`, `UndisturbedRunProtects`, `KillFlattens`, `Converges` | a strategy with take-profits and no stop; kill switch at any moment, stubs, fills, one failing call |
| `Manual` | `OrphansAreOrphans` | cancels, closes and settle orders by hand between the executor's own |
| `ReplayBook` | `ImplementsTradeBook`, `ReachedStopsExit`, `NoLookAhead` | market and limit entries on both sides, two slots, stop, target (immediate or deferred), time stop, invalidation and ratchet: every iteration is a step the executor's model allows, a trade whose published stop was reached is dropped, and a trailing exit uses the stop published before the bar |
| `Components` | 17 invariants, 8 action or liveness properties, below | every part of `ComponentsMC` |
| `ExposureRace`, `LateBar`, `ExpiredEntry`, `DrainFreeze`, `SharedRatchet`, `HistoryHole` | one documented claim each | the code does not do what the text says: section 7 |

What `Components` shows, part by part:

| part | properties |
|---|---|
| history | `CursorsAreStored`: after any crash or reset the cursors name stored executions. `JoinedWalksLeaveNoHole`: a walk that hangs on to the stored set leaves no hole in it. `BoundaryBarsGrow`: a rebuild takes nothing out of a bar. `HistoryDeepens` (liveness): with cron running, the newest execution and all that is served below the oldest are stored in the end. |
| live bars | `OnlyClosedBars`: neither the cache nor a result has a forming bar, however the hour and the day roll over. `GapsAreTheVenues`: a bar is missing only where the venue served nothing or not yet all of it. |
| import | `FreezeIsBounded`: a past day that was gone over lacks at most what the threshold forgives, whatever the earlier imports left. |
| auto trader | `OperatorIsTold`: no ping covers a neglected book, no row shows another book's counts. `SizeIsNeverTheDefault`: a listed book is traded with its written size, or one. |
| pairing | `MatchingIsBestFirst`: the loop of both matchers has the specified result on every weighted graph, leaves nobody out of a complete one and never breaks a genuine pair. |
| signs | `OnBarAgreesWithDetect`: once the buffer is full, the orders of a strategy are those of the benchmark's fires. `FiresAreFinal`: a later bar changes no earlier fire. |
| rides | `ActedEntriesStay`: the entry of a position that may still be held stays in the replay. `RunsAgree`: a later run, also over a window that has slid, signals what the earlier one did. `ConfirmedPeaksAlternate`: peaks that may be used alternate. |
| commands | `LoneCloseKeepsPace`: `trade close` alone neither turns the account over nor leaves more than what exceeds a lot. `GmoCloseNeverOpens`: no order of `gmo_trade close` opens or adds, whoever else trades. |
| dashboard | `ShownResultsAreWhole`: no torn result file is shown. `PagesAreCurrent`: a result covers its chart, a forced run is fresh, the windows share out the bars. `LiveTabIsCurrent`: what is shown is younger than its time to live, and after Refresh than the click. |
| simulators | `BacktestsAddUp`: trades are causal, time stops bound the hold, the curve ends at the book, each swap is paid once. |
| studies | `BenchmarksAreSound`: no fitted bar is tested on later while the store grows forwards, stored fires are accounted for. `CyclesAreSound`: no trade spans the split, the drawdown is the deepest fall. `StudiesAreRepeatable`: confirmed directions and forward verdicts are not taken back. |
| preflight | `GreenMeansRoom`: after a self-check that passed every free slot is granted, unless the margin ratio is under its limit. |

`Exits`, `Entries` and `Kill` check liveness and use `FairSpec`, `Components` uses
`ComponentsFairSpec`; the others check safety only.

## 5. Bounds and fairness

**The executor.** `MaxTrade` (2 or 3) trades, `MaxPos` position ids, `MaxOrd` order ids,
`MaxBar` (3) bars on which the strategy moves, `MaxFault` (0 to 2) faults, a further
run within a bar among them. Deadlock is checked in every `LiveExecutor` run, and the
runs with liveness would stick, and fail, in a state where an id bound stops a run:
the id bounds are large enough for everything the other bounds allow. Two positions
are enough for an exit to be mistaken for another's, three trades for a phantom, a
stray and a held trade to compete, two faults for a lost answer followed by a
failing repair. After `MaxBar` bars the strategy stands still (`BarQuiet`), but bars
keep closing and runs keep starting: that is what convergence is measured against.

**The drift of fills.** `_pair_cost` adds the hours between the fill and the open of
the entry's bar to the percent between the prices. The model has one number for the
two: trades are numbered by time, so the sum grows from trade to trade, and a fill lies
between its own entry and later ones. That is exact where prices move one way and
trades lie equally far apart; a price that turns back makes rivals nearer, which
a larger drift stands for. `Span` is the sum between two neighbouring
trades, `Drift` what lies between an entry and its fill; a position id is issued once,
so that a function of the id is a choice made at every fill, and the theorems hold for
every such function, negative values and values above `Span` included. The runs take
`Span = 5` and, for two ids in three, a drift of 3 (`LateFills`), past half the way to
the next trade: a limit entry that fills 50 minutes into its hour lies nearer the
market entry of the next bar if the prices are within 0.6 %. There a fill is nearer a
trade that is not its own, and rivals tie and cross; with drifts below half the way
that cannot happen (`NearFillsArePaired`).

**The replay.** Three prices and six bars: signal, entry, the bar that starts
the ratchet, the one that moves it, one that reaches it. The prices of
`ReplayBook` (4, 6, 7) let every exit happen: initial stop, moved stop, target,
time stop and a close beyond the invalidation level but not beyond the stop.
`NoLookAhead` speaks of positions that do not share their ratchet; where one is
shared it is false (`SharedRatchet`). `ReachedStopsExit` speaks of immediate
targets, which is what `live_state` uses; a deferred target waits one bar by
design. The loop ends at `MaxBar`, so its configurations do not check deadlock.
Distances between prices are integer; `Scale` keeps relative distances apart.
Two trades differ by more than 0.1% in price, so `Moved` separates them.

**`Components`.** Every part ends at a bound of its own, so deadlock is not checked.

| part | bounds | why they are enough |
|---|---|---|
| history | six executions, pages of two, walks of three, bars of two, four retained; one fault, one run or reset by hand | a walk is longer than a page and shorter than the set, a bar spans two walks, retention passes a cursor |
| live bars, import | days of four bars, nine hours, a lag of one bar, windows and cache of one day, two walkers | two rollovers of the day and one bar too late at each; walk and prune meet |
| auto trader | two books, one of them a default, two hours, one edit | the second book runs after the first failed; a row of the first hour is still there in the second |
| pairing | three left and two right ends, three costs | more ends on one side, ties at every cost |
| signs | windows of three bars, series of sixteen from two openings, five shapes of bar | each of the eight detectors fires; buffers overflow by several bars |
| rides | windows of 16 to 18 bars, series of 24 from three histories, four shapes of bar | each of the fifteen strategies signals and the window slides during a position |
| commands | two shells, two orders, one trade of others, lots of 2 and a position of 3 | two closes interleave; a position is larger than a lot |
| dashboard | two threads and two callbacks, three bars, one rewrite, one restart's worth of files | a second call meets every intermediate state of the first |
| simulators | four bars, two exit configurations; two slots, dates of two bars | a position is carried over a date, deferred, and left at the end |
| studies | seven bars of two markets, two studies, two cycles or forward runs | the store grows at either end between two studies |
| preflight | two books of two and three slots, two price tables, two moves | the last slot of the last book is the tight one |

The openings and histories are not cut for the properties: they bring the buffers and
windows to the length at which they overflow, and every shape may follow them.

**Fairness.** `FairSpec` has weak fairness of the run's own steps and of the two ways a
bar may close. The timer of `docs/deploy.md` starts a run every hour, a run is a
sequential program whose calls return or raise within their time-outs, and time
passes. Nothing is assumed of fills, operators, faults or the kill switch; faults
are finite in number because convergence is about what happens after the last.
`ComponentsFairSpec` has weak fairness of the collector's cron job
(`scripts/install_history_cron.sh`) and of the steps of a run it has started; nothing
is assumed of the exchange, and the other parts have no liveness property.

`Converges` excludes three states in which the executor refuses to act by design:
a stub, an aggregate above 1.5 lots per slot, and too many positions without
`LIVE_DRAIN_OK` (`Frozen`), and the kill switch.

`EntriesRespectSlots` is a statement about steps and excuses a run in which an
entry filled, or a stale entry survived its cancel (`raced`): there the code
really exceeds the slots, which `ExposureRace` shows.

## 6. Proofs

`tlapm` checks the theorems below for all values of the constants, under the modules'
named assumptions, with any number of trades, positions, orders, executions, viewers,
books and faults. Every inductive invariant was an invariant of a TLC run before it was
proved. Most assumptions only give the constants their types. Some say more:

- `GmoImportAssumption`: `Enough`, the bars that make a day good enough to be skipped, is
  above `Shift`, the hours by which a calendar day precedes its bucket. The code's
  `min_coverage` of 0.8 asks for 20 bars of 24, the shift is 3. With fewer than
  `Shift + 1` bars the previous bucket alone could freeze a day that was never fetched,
  and `FreezeIsBounded` is false: `--min-coverage` below an eighth does that.
- `ReplayAssumption`: a price is larger than the distance of the stop, so that no stop is
  at 0 or below. The code's distance is a percentage of the price, a few ATRs, or the
  band of the recent swings.
- `WindowAssumption`: the window of the live books is longer than their warm-up, the life
  of a limit and the longest hold together, and the warm-up longer than the box with its
  accepted bars. In the code the warm-up is 338 bars (`target_window` 336, plus 2), the
  box 168 and the accepted bars 64; the limit rests 6 and the hold ends after 120: 464,
  against the 600 that 25 whole trading days give. `ActedEntriesStay` is false without it.
- `SignsAssumption` and `RidesAssumption`: the lookbacks are finitely many, a price series
  consists of bars, and a run starts with at least one.
- `SimulatorAssumption`, `MultiBookAssumption` and `CycleAssumption`: prices are chosen such that
  fees, swap and returns are whole (multiples of 100, divisors of `Scale`), as everywhere
  in these models: a choice of unit, which sets no bound on them.
- `PreflightAssumption`: prices are positive, the books and price tables are finite,
  and the self-check's headroom is at least 1 (`_HEADROOM` is 1.5).

### The run of one book

`LiveExecutorProofs`:

- `TypeCorrect`: `Spec => []TypeOK`. The type invariant is inductive as it
  stands, because it already says that positions and orders are among the issued
  ones and that each planned request names existing orders.
- `RecordsAreTrue` and `CancelsStaySurgical`: by the invariant
  `LogInv == Issued /\ RecordedOwnersAreTrue /\ CancelsAreSurgical`. `Issued`
  (an order id not yet issued has no owner) is needed because a placement writes
  order and owner of the next id: without it an old owner could meet a new
  order. Every step of the system is one of three kinds (`LogStep`): a run makes
  a new plan, the log is forgotten, or requests are only removed from `todo` while
  the log is left alone, an order rests unrecorded, or an exit rests with its
  record. That a plan is surgical rests on `AttributionHonoursTheLog`: a recorded
  exit is attributed to its owner or to nobody, whatever the other orders and prices
  are.
- `NobodyLeftUnmatched`: after pairing, no desired and live position of one side
  are both unmatched; proved from the characterisation of `BestFirst` alone.
- `PairingStaysFair`: `Spec => PairingIsFair`, for every drift of every fill, from the two
  theorems below.
- `LiveTradesArePaired`: `Spec => HeldTradesArePaired`.
  The pair of a held trade and its own position can only lose to a pair that shares an
  end with it and costs no more, and that is a rival, or a twin of the same trade.
- `NearFillsArePaired`: if every fill lies less than half a `Span` from its entry
  (`DriftsAreSmall`), then `Spec => GenuinePairsHold`: another entry is then more than
  half a span away from the fill, so that nobody has a rival. Without the condition it
  is false (section 7), so this is how far the docstring of `_pair_cost` can be trusted.
- `StrategyExitsAreSurplus`: `Spec => OnlySurplusIsClosed`, from `NobodyLeftUnmatched` and
  from where a plan's closes come from (`PlannedClose`).

About a run under way, between its reads and its last request:

- `OrphansHaveNobody`: `Spec => []OrphansAreOrphans`, by `SnapshotInv`. An orphan is an
  exit order that no position of the snapshot accounts for, so the invariant has to tie
  the log to the snapshot: a position has one resting settle order at most
  (`OneExitEach`), the log knows issued positions only, and whatever it says of a
  position that is still open was so when the run began (`LogIsOld`).
- `OneRunProtects`: `Spec => []UndisturbedRunProtects`. The promise is about the end of a
  run; `RunInv` says what is owed on the way there: each matched position is `Served`,
  that is, its exit is in place, or the one request for it will rest it
  (`WillBeProtected`), or its close is to come, after the cancel of its exits
  (`WillBeClosed`); and no other request touches them (`LeavesAlone`). It needs
  that requests are sent in the order of the code (`InTheirPlace`).
- `SlotsAreRespected`: `Spec => EntriesRespectSlots`, by `EntryInv`: until somebody races,
  the positions held, the entries that are neither cancelled nor to be cancelled and
  the entries to come add up to at most the slots. The counting rests on
  `FirstToPlace(n)` having at most `n` elements.

`ReplayProofs`, all by `ReplayInv == ReplayTypeOK /\ TradedOnce /\ Len(slots) <= MaxSlots`:

- `ReplayIsInOrder`: `Spec => []ReplayInv`. A trade waits for the open, rests as a limit
  or is held, in one of these places and once, trades wait in the order of their signals,
  and the book keeps to its slots. The loop spreads a bar over three folds (exits,
  resting orders, signals). `FoldsMarch` turns each into the values it goes through,
  `a[0]`, `a[1]`, ..., one per element, and what the fold comes to is then shown of every
  prefix (`EveryPrefix`): `StopsKept` and `LeftInOrder` for the exits, `FilledSoFar` and
  `KeptSoFar` for the orders. `BarIsReplayed` puts the parts together, and the theorems
  use nothing else of the loop.
- `ReachedStopsLeave`: `Spec => ReachedStopsExit`. If the ratchet of a position is noted, or
  nobody shares it, its stop never loosens while the positions before it have their
  turn, so `dynamic_exit` sees a breach of the published one. If it is shared and not yet
  noted, a position before it may note another stop; but then the published stop
  is still the initial one, which `evaluate_exit` checks by itself and before
  `dynamic_exit`.
- `ExitsDoNotLookAhead`: `Spec => NoLookAhead`. A ratchet that nobody shares is in
  the turn of its position what it was before the bar. Without `Alone` this is false
  (`SharedRatchet`).
- `LoopImplementsBook`: `Spec => ImplementsTradeBook`. What `BarMoves` leaves open is given
  by the bar: the exits are the positions not kept, the touched limits are those that
  filled or found the book full, a stop that becomes looser is that of a position of the
  same key (`StopsMoveWell`), and each order that rests on has a bar less to live.

### Around the run

`MarketDataProofs`, the collector by `HistoryInv == HistoryTypeOK /\ TablesOK /\ HasJob /\ (AtFeed => WalkOK)`:

- `HistoryTypeCorrect`: every variable keeps its type.
- `CursorsStayStored`: both cursors name stored executions. `TablesOK` says so, and
  that what is stored was issued and that a bar of this collector has stored
  executions only.
- `WalksLeaveNoHole`: `Spec => JoinedWalksLeaveNoHole`. The invariant has to say
  what a walk has in memory while the feed moves on below it: `WalkOK` states that
  the rows are a contiguous set of issued ids above `stop`, that they end right
  below `start` if the walk has one, that the cursor is at or below all of them, and
  that the rows of a walk that reached the stored set begin at `stop + 1`.
  `GetPageKeeps` is the induction step over a page, `AdjacentUnion` the reason why two
  contiguous sets that touch have no hole in their union.
- `BarsOnlyGrow`: `Spec => BoundaryBarsGrow`, since the raw set only grows between two
  resets.
- `BarsAreClosed` and `WalksMissNothing`: `LiveBarsSpec => []OnlyClosedBars` and
  `=> []GapsAreTheVenues`. A walk reads its clock once and then lets time pass, so
  `WalkIsClean` compares what it has with the hour it read and not with the present
  one: a bar older than that hour is closed, a day behind the walk is complete unless
  the venue gave nothing or was late (`HasDay`), and the current day has no hole below
  its newest bar. `CacheHoldsWholeDays` is what makes a second walker's file as good as
  an answer of the venue.
- `ImportFreezesLittle`: `=> []FreezeIsBounded`. `ImportInv` says that what is stored of
  a day is what the venue served of it at one moment (`IsSnapshot`), that the reply in hand is
  no older than the stored one (`ReplyIsFresh`, so an upsert takes no bar back), and of
  each day gone over that it was over when it was served, or had enough
  (`IsFrozenWell`).

`OperatorProofs`:

- `TheOperatorIsTold`: `TraderSpec => []OperatorIsTold`. The ping is the last step of a
  run; `TraderInv` carries what it promises through the loop: while there is no
  problem, every authorised book was tended this hour or is to come
  (`TendedOrToCome`), the row in the making is the one of the book in turn, and an
  hour that is not yet run has neither row nor ping.
- `SizesAreWrittenDown`: `=> SizeIsNeverTheDefault`, from `AboveTheCap`.
- `GreenIsEnough`: `PreflightSpec => []GreenMeansRoom`. The self-check adds up all books
  at full occupancy, a cycle looks at one book and at the margin left by the others:
  `DepositSuffices` is kept while books fill and empty, and with it the quotient
  that `entry_budget` computes is at least what is free (`EveryFreeSlotIsGranted`).
- `CloseKeepsPace` and `SettlingNeverOpens`: `CommandsSpec => []LoneCloseKeepsPace` and
  `=> GmoCloseNeverOpens`. `CommandsInv` says that bitFlyer's positions are all of one
  side. Then an order that is no larger than what is held only takes from it, by
  `NettingTakes`, an induction over the positions that are netted. An order of GMO's close
  names the position it settles, so the sum of no side can grow (`SettlementsTake`).
- `LiveTabStaysCurrent`: `LiveTabSpec => []LiveTabIsCurrent`. `MomentsAreOrdered` and
  `StampsComeFirst` order the click, the look into the cache, the answer and its stamp,
  which are four moments with other callbacks in between.
- `ResultsAreWhole` and `PagesStayCurrent`: `DashboardSpec => []ShownResultsAreWhole` and
  `=> []PagesAreCurrent`. `KeptHaveSeenTheirBars` says of memo and files that what is
  kept for a number of bars has seen as many; `CallIsInOrder` what each callback has
  read by the step it is at. A torn file is not `Usable`, and that is all that is needed
  of it.

### Signals

`SignProofs`. The detectors and the replayed strategies are functions of a list of bars;
their states are `SignsInv` (the buffer is the newest bars of the series, the answers are
theirs) and `RidesInv` (the window and the signals are those of the market, and an entry
that was acted on is `Settled`: an entry of the market at its bar, at which that run was
warm). What there is to prove is what the functions read.

- `PeaksAlternate`: `RidesSpec => []ConfirmedPeaksAlternate`. The peaks are a fold over
  the bars, newest first; `MergeFacts` shows of every merge that no place is taken twice and that
  between two confirmed peaks of one kind lies one of the other. `PeaksFacts` adds what
  the rest needs: the peaks are exactly the bars that `Kind` finds to be one, in their order.
- `FiresStayFinal`: `SignsSpec => FiresAreFinal`. `Kind` of a bar looks `Size` bars either
  side of it (`KindIsLocal`), and of the peaks a detector may use only those that far back:
  the way is clear as far as these bars decide (`ClearAirOfBars`). So a detector finds the
  same in two lists that end alike (`FireShift`), and what comes later does not matter.
- `BothSeeTheSame`: `SignsSpec => []OnBarAgreesWithDetect`, from the same `FireShift` with the
  buffer for one list and the series for the other. `BufferFacts` is the arithmetic: each buffer
  is long enough for what its detector reads, the peaks of the clear-air one included.
- `RunsKeepAgreeing`: `RidesSpec => RunsAgree`. Over a window that starts where it did the
  whole of `Precompute` is causal (`SignalsStay`): ATR, RSI and average are functions of the
  bars so far (`AtrsStay`, `RsiStays`, `TrendStays`), the legs known at a bar depend on the
  bars up to it (`LegsStay`; the list of known peaks is the ascending list of a set
  of places, and there is only one), and so on for every strategy. Over one that has
  slid, the entries of the live books depend on the box and the accepted bars before
  it alone (`LiveEntriesShift`).
- `EntriesStay`: `RidesSpec => []ActedEntriesStay`. `WindowStillWarm`: as long as the window
  starts at the first bar nothing is dropped; once it has moved it holds at least
  `RideDays` whole days, so that by `WindowAssumption` the entry is still behind its warm-up.

### Back-tests, studies and pairing

`ComponentProofs`:

- `MatchingStaysBestFirst`: `[]MatchingIsBestFirst`. Sorting lists every candidate once, the
  earlier first (`SortedFacts`); by induction over the list the walk has taken every
  candidate it has come to, unless one that came before it and was taken shares an end
  (`WalkCollects`). No other assignment is like that (`OnlyOneBestFirst`): the first pair at
  which two of them differ would be decided by the same earlier ones.
- `BacktestsStayExact`: `[]BacktestsAddUp`. `SimInv` follows one position: a signal waits for
  the next bar only, with nothing held; what is held was signalled when the trade before
  it had been left, and its time stop has not come. `MultiInv` follows several: the
  curve, with the swaps debited for what is still open, is what an account holds that pays each
  charge on its day (`SwapIsPaidOnce`). A bar charges what is held over a day's end
  (`ChargesFall`) and splits the positions into those that stay and those that leave, and
  the sum of their swaps with them (`SumsSplit`, `LeavingPays`).

`StudyProofs`:

- `BenchmarkTypeCorrect`, `CycleTypeCorrect`: types, by what the folds return (`Rows`).
- `StudiesAreSound`: `[]BenchmarksAreSound`. Every study is kept with the bars it has read
  (`StudiesFit`), and while the store has only grown forwards the split only moves
  forwards (`OosStaysUnseen`); the events of the stored fires are the total of the pooled
  rows (`PooledInv`).
- `DirectionsNeverTurn`: two measurements of a fire that both see a confirmed swing agree on
  its direction, whatever bars each has read, because the first bar that confirms one
  is the same.
- `CyclesStaySound`: `[]CyclesAreSound`. No trade spans the split, and the drawdown, a fold
  that carries the greatest value so far, is the deepest fall between two points of the curve.
- `StudiesRepeat`: `=> StudiesAreRepeatable`. What a forward run has kept are the scored trades of
  the bars from its beginning to one that the store has passed (`IsRecordOf`), and over
  more bars these only become more.

### What the proofs share, and what stays with TLC

`Arithmetic` has what several of them need: sums over a finite set (`SumRecursion`,
`SumsCompare`), quotients (`QuotientIsUnique`), and folds (`FoldsExist`, `FoldsMarch`).
The library's induction theorems take an operator as a parameter, which the provers
cannot instantiate; `NatFromZero` and `EveryPrefix` state induction as a fact about sets
of numbers instead (from the well-foundedness of `<`: a non-empty set of numbers has a
least one), so that a property of every prefix of a sequence can be shown one element at
a time.

Only model-checked: liveness (`Converges`, `KillFlattens`, `DrainWindsDown`,
`HistoryDeepens`), because fairness and ENABLED are out of the prover's reach. That the
documented claims of the six violated runs fail is TLC's counterexample.

Several proofs needed the model to be written without folds over operators the prover
cannot open. `SelectSeq` is one: the peaks known at a bar are the list of a set of places
(`AtPlaces`). The smoothed averages are scaled bar by bar, by the power that makes each
of them whole, and not by one power for the whole window: only then does a bar more
leave the earlier ones as they are, as it does in the code.

## 7. What the models found

With a run:

- `ExposureRace`: positions and orders are read in two calls; an entry that fills
  in between is in neither list, its slot is filled again. The documentation says
  exposure stays capped at `slots`.
- `LateBar`: a run that sees the same bars as the run before it does not know the
  market entry that one has placed, closes the position as exited and enters again.
  `docs/deploy.md:209` warns of a second run by hand; a bar that is published late
  does the same to the timer's own next run, and so does a limit entry that fills in
  the forming bar.
- `ExpiredEntry`: a limit entry outlives its last eligible bar by one bar, in
  which it can fill.
- `DrainFreeze`: 6 → 2 slots, the example of `docs/deploy.md`, halts in spite of
  `LIVE_DRAIN_OK=1`, because the test on the aggregate size comes first.
- `SharedRatchet`: two entries of one side that fill on the same bar share one
  ratchet. The first position's recomputation moves the stop against which the
  second is checked on the same bar: the look-ahead that `dynamic_exit`'s comment
  rules out. The published stop of the second may also become looser.
- `HistoryHole`: a forward walk that ends at `max_ticks` leaves a hole that no later
  run fetches.

Read while modelling, without a run of their own:

- *Pairing.* A limit that fills late in its bar is nearer the trade of the next bar than
  its own, when their prices are close. If the account has missed that trade (the margin
  left no room, or the call failed) it takes the position and its stop goes there, while
  the trade that was opened counts as not adopted: with `GenuinePairsHold` (in
  `LiveExecutorProofs`) as its property `Entries` would fail. The docstring of
  `_pair_cost` (`live_executor.py:194-197`) says a genuine pair scores about 0 on both
  signals and that either alone identifies it. What holds instead is `PairingIsFair`: the
  position goes to a trade that lies at least as near, and the wrong pair is still a pair,
  so nothing is closed for it.
- *Execution.* Two stops placed by hand at crossed levels are attributed to each
  other's positions for good. The self-check passes with 1.5 times the margin in
  hand, yet the last slots of a large deployment may be refused because the margin
  ratio falls under 200 % (`GreenMeansRoom` excuses it); its probe "logs writable"
  cannot fail, `record` swallows the error (`order_log.py:44-51`). The notional cap
  is per book, so two books of one symbol are checked alone. Without `AUTO_BOOKS`
  the slot count is the strategy's default and is not clamped
  (`auto_trader.py:135`). A replay that raises leaves no heartbeat row at all.
- *Bars.* A cached or imported day may stay short although `live_bars.py:7-9` and
  `weekly_forward_check.sh:12-13` speak of whole ones; what holds is `GapsAreTheVenues`
  and `FreezeIsBounded`. The importer has no lock of its own. Ticks of equal
  `exec_date` are ordered by the database in a rebuild (`history.py:222`) and by id in
  `collect.py:91`.
- *Window.* `recent_bars` reckons its headroom from 232 bars before the first signal
  (`live_bars.py:203-210`), the box and the accepted bars; the longest lookback is the
  `target_window` of 336, two bars more with its warm-up. Reckoned as there, 609 bars
  leave 178 and not 284 beyond a ride of 93; the 126 bars that the parameters allow an
  order and its position fit.
- *Strategies.* `RegimeGatedStrategy` does not forward `dynamic_exit`
  (`regime_gate.py:58-59`), so `density_multi_volgate` never takes the stall exit of
  the strategy it wraps; its mask is open from half the rank window on where the
  bar-by-bar path waits for the whole. A `density_multi` target is mirrored when the
  close is already past the node (`density_multi_breakout.py:210-218`).
  `density_breakout` with `confirm_bars` above 1 counts the breakout bars into the
  profile. The draws of a random entry depend on where the window starts. The
  volatility rank counts the zero ATRs of the warm-up. `ema_cross` may fire on its
  first warm bar.
- *Simulators.* Stop and target exits are booked at their level, also over a gap, while
  `random_hedge.py:338-346` books a gap at the open. `Simulator` looks for no exit on
  the bar of the fill, and its curve is of realised money although its docstring says
  marked to market; at one slot it and `MultiSimulator` take different trades. A time
  stop of n bars leaves after n + 1 (`types.py:129`).
- *Evaluation.* `live_shadow_ledger.py:92` compares the side, which the heartbeat
  writes as a word (`auto_trader.py:215`), with a number, so the ledger fails at the
  first closed position and `weekly_forward_check.sh:71-72` reports that there is no
  log yet. Filling the store backwards moves the 80/20 split, so that bars a study was
  fitted on become out of sample (`OosStaysUnseen` excuses it). `cycle.py:219` speaks
  of an overfit veto, but `_flag_overfit` only warns. A strategy that never trades may
  ship when buy-and-hold falls. A forward run without a product uses the default
  boundary. `backtest/zigzag.py:23-24` and `50-51` say that a fire whose swing is not
  confirmed has direction 0 and is a non-event; the code gives it the direction of the
  larger excursion (lines 88-93) and it is counted, as in the model. The drawdown starts at the first cumulated value. Out-of-sample fires are
  stored again at every run.
- *Dashboard and commands.* `tasks.py:5` promises a single concurrent task, the check
  and the start are two steps. The fingerprint misses a rewritten newest bar
  (`app.py:49-50`), the bars are never loaded again, so a forced run draws newer trades
  over older bars. `trade close` closes at most one lot per position, and two of them
  at once turn the account over; `gmo_trade close` stops at the first refusal, and
  `gmo_trade cancel-all` removes the bot's stops.

## 8. What is not modelled

In the executor: rows with unreadable ids, prices or sides; unknown settle types;
dry-run and monitor-only modes; tick rounding; distinct trades within 0.1% of
each other; the margin check beyond its result (any number of entries up to the
room, and 0; the arithmetic is in `Preflight`). The exchange lists orders and
positions in id order. Every position is one minimum lot or a stub. A position row
without a usable time or price, which `_pair_cost` compares by the other signal or not at
all, is left out. The exchange closes a stub at market when the kill switch asks for it;
`live_executor.py:150-153` expects that to need a human, and then `KillFlattens` would
need the human too.

In the replay: the ATR trailing stop of `ExitConfig` (no replayed book sets it;
`Simulator` has it) and different exit distances for different trades. In
`MultiBook`: which position leaves and which limit is touched are free, the exit
level is taken to be the close, and ATR is left out.

In `Signs` and `Rides`: `ema_cross` and `ema_atr_breakout`, whose exponential averages
reach back to the first bar of whatever they are given, so that `on_bar` over a
truncated buffer and `detect` agree only up to a tolerance; the chop gate, the
confirmation bars of the volatility ride and the other knobs no registered strategy
sets; floating-point rounding. In `Benchmark`: the regime by ATR and the scores, so
that `Calibrate` stands for `calibrate` and for `regime_split`, which read the same fires
and store nothing; a stored bar is a closed one. In `Cycle`: the strategy is a set of signals, costs and
`max_slots` are left out. In `Commands`: signing, HTTP, and what the account listings
print. In `Dashboard`: what figures look like.

Not modelled at all, as `PROJECT.json` says: the database layer, the analysis probes
under `backtest/analysis` with `marginal.py` and `strategy_ab.py` (one-shot statistics over finished replays), the portfolio
register, the mock exchange, migrations, scripts and deployment files.
