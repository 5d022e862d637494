# trading-poc: a TLA+ model of the intraday paper-trading service

The program is a FastAPI service that polls candles for a watchlist, turns them into
signals, passes each signal through an ensemble filter, a language model and a risk
engine, executes it through a (paper) broker, and keeps the trades and an audit trail in
SQLite. Beside it stands a backtester that replays candles through the same strategies.
The service's concurrency is easy to overlook: the scheduler's tick runs on the asyncio
event loop, every `def` endpoint runs in a thread of the thread pool, and both work on
the same table, risk engine and settings objects without locks. The modules here model
that core and the backtester; each definition that stands for code is listed with its
lines in `PROJECT.json` under `map`.

## 1. Inventory

| Component (source under `src/app`) | State | Operations | Hard behaviour | What makes it correct | Module |
|---|---|---|---|---|---|
| Execution service, trade DAL (`services/execution_service.py`, `dal/trade_dal.py`) | tables `trades`, `audit_log`; orders at the broker | execute, close_trade, mark_to_market, force_close_all | a SELECT and its commit are separate; callers on the loop and in threads; death between orders and insert | lifecycle OPEN to CLOSED, row and trail agree, a row only with both legs, bounded closes | `TradeStore`, abstract `TradeLifecycle` |
| Risk engine (`engine/risk_engine.py`) | `DailyStats`, reference to settings | evaluate, record_trade_open, record_trade_close, day reset, Kelly | gate before order, count after it; closes that are never recorded; a restart forgets | caps on trades and open positions, daily loss, kill switch | `RiskLedger`; its gates on a simulated day, `Backtest` |
| Orchestrator (`engine/orchestrator.py`) | settings, run counter, signal buffer, cooldown | run, _process_one | one object, unlocked, for the loop and the analyze threads | votes are recent and the last of their strategy; majority; cooldown; gates before execution | `SignalMemory` (run to the selection), `RiskLedger` (run from the gates) |
| Scheduler (`services/scheduler.py`, `routers/runner_router.py`, `main.py`) | task, stop event, status, day of the square-off | start, stop, _loop, _tick | awaits in the tick, exceptions, settings that cannot be read, cancellation, a clock that moves, restarts | square-off, one trade per symbol, survives errors, stops | `Scheduler` |
| Trade endpoints (`routers/trades_router.py`, `trade_router.py`, `admin_router.py`) | none | close, manual, force-close-all, killswitch | run in threads beside the tick | tell the ledger once | actions of the three modules |
| Settings, singletons (`config.py`, `routers/config_router.py`, `deps.py`) | the cached `Settings`, cached services | patch, reload, reset | objects replaced while others hold or build the old ones; a `.env` that no longer validates | what is cached was built from the settings in force; the kill switch holds | `Singletons`, `RiskLedger` (the switch) |
| Signal service, strategies, indicators (`services/signal_service.py`, `strategies/`, `services/market_data.py`) | none | generate, evaluate | comparisons at crossings, a stop on the wrong side of the price | at most one signal per strategy; its stop and target | `Strategies` (partly: the indicators are external readings) |
| AI validation, LLM client (`services/validation_service.py`, `llm_client.py`) | spend of the day | validate, chat_json | check before, charge after, by several threads; failure degrades | spend cap | `Singletons` (the cap); the verdict is a choice |
| Memory, RAG (`memory/`, `rag/`) | the trades table; a vector store | format_context, query_similar | optional dependency | prompt text only | not modelled |
| Brokers (`services/broker/`) | orders | place_order, cancel_order | rejection is a result, not an exception | one result per leg | `TradeStore`: `PlaceEntry`, `PlaceStop`, `StopRaises` |
| Angel session (`services/angel_session.py`) | login, token cache | ensure_ready, candles, reset | login race, a reset while a login is under way | one login, with the credentials in force | `Singletons`; `Scheduler`: `Login`, `Fetch`; the fetch of `Backtest` |
| WebSocket broadcaster (`services/ws_broadcaster.py`, `routers/ws_router.py`) | bounded queue per client | subscribe, publish, unsubscribe | slow consumers | order; who is dropped | not modelled |
| Optimization jobs (`routers/optimize_router.py`, `src/optimize_all.py`) | job dict, queue, child process and the optimizer it starts, file | run, stream, cancel, load | reader thread, competing streams, cancel race, an optimizer that outlives its parent, overlapping saves, restart | each line once; a final status is final | `OptimizeJobs`, abstract `JobLifecycle` |
| Backtester (`backtest/runner.py`, `batch_backtest.py`) | of a run: one open trade, capital, signal memory; of a batch: position in the list, two CSV files | run_backtest, walk_forward, ensemble, live parity, orchestrator parity; chunked fetch | bar-by-bar boundaries, stop and target in one bar, signals older than the bar, failing fetches, parameter files and appends | bounded loss, honest exit reasons, two accounts that agree, whole data | `Backtest`, `Strategies` |
| Parameter optimizer, comparison scripts (`backtest/optimize.py`, `_*_compare.py`) | a study, a YAML file | objective, tables | | | not modelled |
| Market calendar (`core/market_calendar.py`) | none | is_market_open | boundary minutes | | `Scheduler`: `Hours` |
| Watchlist and parameter files (`routers/watchlist_router.py`, `core/optimized_params.py`) | `Settings.watchlist`, `.env`, YAML | add, remove, persist, save | read-modify-write | | not modelled |
| Reports, audit, signals, ops endpoints; API models; logging; front end | none | queries, formatting | | | not modelled |

How they interact: the scheduler's tick calls `mark_to_market`, `force_close_all` and
`Orchestrator.run` directly; the orchestrator calls the AI validation, the risk engine
and the execution service; the endpoints call the same singletons from threads;
everything meets in the `trades` table, in `RiskEngine.stats` and in the `Settings`
object. A PATCH or reload of the settings drops the singletons, and the next request
builds them again. The optimization endpoints share two things with the trading side:
the event loop, and the default executor of asyncio, in which a stream waits for its
queue and the tick signs in and fetches its candles. A stream waits for a second at most
and then joins the executor's queue again, so that many streams delay a fetch and do not
stop it; `Scheduler` leaves the time a fetch takes open. The backtester runs in a
process of its own and shares its code: the strategies, the vote, the gates and the
sizing, which `Strategies` holds. The hazards that follow from this are listed, at their
lines, in `PROJECT.json`.

## 2. The modules

`TradeLifecycle` is the abstract database: a row is absent, OPEN, CLOSED, in that
order. `TradeStore` is shown to implement it; `RiskLedger` and `Scheduler` extend it
and use its `OpenRow` and `CloseRow` where the code calls the DAL. So the
interleavings inside a database call are explored once, and the layers above are
explored over its promise.

**TradeStore.** `pc[p]` says where process `p` (the event loop or a thread) is in a
call: `stop_order` and `insert` are the places in `execute` after the entry and the
stop order, `visit` is the loop over the listed rows, `commit` is between the SELECT
of `close_with_audit` and its commit. `cur`, `quote`, `todo`, `op` and `reported` are
the locals of that call. `CheckOpen` reads the row, `Commit` writes it without
reading it again: this is the race. The pnl column is written only when it differs
from the loaded 0, as the ORM does. `Crash` ends all calls and keeps the tables. The
database is taken to be up: a raising commit appears as the death of the call's
process only.

**RiskLedger.** `Run` takes the current settings object, `Refresh` stores it into the
shared engine, `CheckDay` and `ResetDay` are `_maybe_reset_day`, `Evaluate` the gates
(as one step: its reads of the counters are consecutive), `Execute` the insert,
`record_trade_open` the count. `RecordCloseRead` and `RecordCloseWrite` split
`max(0, n - 1)`, for a thread switch can happen in the call. Increments (`+= 1`) are
one step: CPython 3.11 switches threads at calls and backward jumps only.
`TickCloses` is every close of the scheduler, which the ledger does not hear of.
Settings objects are numbered; `current` is what `get_settings()` returns, `risk_s`
what the engine holds. `ledger`, `api_closed`, `realized` and `armed` are history
variables: no action reads them.

**Scheduler.** `task` is the program counter of the asyncio task, with one place per
await and per step that an endpoint's thread can interleave with. `tick_at` is the
time the tick read at its start and works with to its end, while `now` moves on.
`RunSymbol` abstracts the whole pipeline to "it may open one trade in this symbol".
`Own` are the scheduler's trades; all others come from endpoints. `TickRaises` is
any exception of a tick, after which the loop goes on to its pause. The pause has two
places: at `interval` the loop asks `get_settings` for its interval, outside the `try` of
the tick, and at `pause` it waits. `readable` says that `get_settings` returns: a reload
with a `.env` that does not validate (`ReloadFails`) has emptied the cache, and every
reader raises until the file is mended (`EnvMended`); then the read at `interval` ends the
loop (`raised`), while one within the tick only ends the tick. `StopCancels` is the
cancellation after the timeout, possible where the
task awaits. `start` from the endpoint runs in a thread and therefore raises at
`create_task`; only the lifespan's start and a restart produce a task.

**SignalMemory.** `Orchestrator.run` up to the selection, cut where another thread can
run: at calls and at the back edges of loops. `Run` generates and counts itself,
`CheckCooldown` compares with the counter as it is then, `Merge` reads the counter once
more, for the stamp, and `AppendSignal`, `Prune`, `Collect` are the three loops over the
shared deque. `Prune` is one step per entry, for its test and its `popleft` have no
switch between them. `Disturbed` is what CPython does to a thread that iterates over a
deque another thread changes: its next step raises, even after the last element.
`Generated` is any set with at most one signal per strategy, and the tie between sides
is left open in `Best`, for the code decides it by the order of the strategies. `Select`
covers `_process_one` only in so far as it may raise; its steps are `RiskLedger`'s. A
tick's symbols are a set, `todo`: their order is left open. `at`, `round`, `spoken`,
`picked` and `ticks` are history. The model is the life of one orchestrator: a PATCH of
the settings, a reload and a restart build a new one, which knows of no signal and no
cooldown. A window of 1 (memory off) is not modelled: nothing is shared then.

**OptimizeJobs.** A job is a child process (`proc`, `optimize_all.py`), an optimizer
that the child starts and waits for (`tuner`; the child runs one after the other, and
they are one here), a reader thread that puts the lines of both, for the optimizer
inherits the child's output, and an end marker into the job's queue, streams that take
from that queue, and callers: threads in `/run` and `/cancel`. The generators of the
streams share the event loop: between two awaits (`Held`, which includes a `wait` for
the process and the save of the file) no other stream takes a step, `LoopFree`; threads
do. `_persist_jobs` is three steps, the copy under the lock, the truncation and the
write, and two callers can be between them; `Write` is then whole or garbled.
`GotMarker`, `Reap`, `Settle` are the end of a stream's loop and `Poll`, `WaitOrKill`,
`Mark`, `NoteCancel` the cancellation: both read the status or the process and write the
status later. A cancellation ends the child alone: an optimizer at work goes on, prints,
and keeps the reader from its end marker (`OutputEnds`); one that is still to come does
not come (`Parentless`). A client that leaves while the executor's thread waits for the
queue leaves that thread behind: `TakeForNobody`. `Crash` is a restart, which kills the
service's processes, all of them, and loads the file. That a save keeps the last 500
lines is not reached by the bound. `had`, `sent`, `clients` and `lost` are history.

**JobLifecycle** is the abstract job: absent, running once, then done, failed or
cancelled, where the end and a cancellation may still contend; a restart shows a status of
the past, a running one as interrupted, or has forgotten the job. `OptimizeJobs` is shown
to implement it.

**Singletons.** `cell` are the `lru_cache`s of `deps.py`, `current` that of
`get_settings`, `session` that of the Angel session. `frames` is the stack of builders a
thread is inside of: `lru_cache` holds no lock while it builds, so others can build, and
clear, at the same time. What `lru_cache` does then is in `Store`: the first to finish is
cached, a build that a `cache_clear` overtook is cached after it (`late`). `Order` is
that of `reset_cached_singletons`; the three controllers that keep no setting, or
that no route asks for, are left out. `seen` is the settings object and its state that a
product was built from. `orchestrator.run` takes the current settings for its own later
use, but not a new strategy list or broker, and it is those that staleness is about.
`LockLogin` to `SignIn` is the double-checked login; `BeginCall` to `Charge` is
`chat_json`, with the language model enabled; that the date is another one than at the
client's last call is a choice of `BeginCall`. Two marks are history: `exact` notes that
calls of a client overlapped or one was billed without an answer, `halfway` that a reload
raised at a malformed `.env`. The process starts with its settings cached.

**Strategies** is the arithmetic: the seven `evaluate` functions, `generate` with its
filters, the vote, the reward-to-risk gate, the position size. Prices are integers and a
confidence is a percentage. What an indicator shows beside a candle is external, any of
a small set of rows, constrained where the code constrains it: the Supertrend recurrence
is translated, and its band is as wide as this bar's range makes it at least; the bands
of the bar before may have crossed, as they do after a gap. The volume, ATR and higher
timeframe filters, switched off, let pass what a favourable market does; with the regime
filter switched off every strategy is asked (`asked`).

**Backtest** is one sequential program: the batch's list, the fetch of each symbol in
chunks, an engine bar by bar, the two appends. Where the code is outside both its `try`
blocks the batch can end early, and each such end has its place: a parameter file that
`--live-parity` or `--use-optimized` (`Optimized`) reads (`ParamsRaise`; a file that
does not parse is caught and counts as none, one that is no mapping of mappings, or that
names an unknown parameter, raises), the vote of an added ensemble (`BatchDies`), an
append (`AppendRaises`). A candle is drawn as the engine comes to it (`NextBar`), which
is the same as a frame drawn before, for no engine looks ahead. The exits are shared, as
in the code; what decides an entry differs (`Engine`): one strategy, the vote
(`live_parity`, or the ensemble that `--ensemble` adds after the mode's own engine), or
the pipeline with its own counter, memory, cooldown and risk engine. `RunPipeline`
stands for `Orchestrator.run` on one signal, with the model's adjusted stop; a malformed
answer raises out of it (`AnswerRaises`) and the symbol is skipped. The risk engine goes
by the host's clock: `today` counts the host's days since the engine was made, while the
candles have days of their own. `max_open_positions` is 1, which is as good as any other
value, for a trade is open or an entry is looked for, never both. The ensemble is
modelled on top of the baseline only, not combined with the other modes; capital of
settings and of the backtest are one constant; slippage is an amount, not a percentage.
`reason` and `entered`, and the fields of a trade from `by` on, are history.

## 3. The runs

| Run | Instance | What it shows |
|---|---|---|
| `TradeStore` | a long and a short trade, the event loop and one thread, prices 1 and 2 around an entry of 2, one death | the invariants below, the refinement and the completion of a forced close |
| `TradeClosedOnce` (violation) | the same | two calls close one trade, see finding 1 |
| `RiskCaps` | four trades, the loop and one thread, two trades a day, one open, two days, one reload, one restart | `TradeCap`, `OpenCap`, the counters, `KillSwitchHolds` |
| `RiskDailyLoss` (violation) | two trades, no threads | finding 2 |
| `RiskSwitchReload` (violation) | one trade, no threads, one reload | finding 3 |
| `Scheduler` | two symbols, two own trades in one symbol, one endpoint trade, two days, one restart, settings that become unreadable and readable again at any time | square-off, one trade per symbol, what ends the loop, liveness of the loop and of stop |
| `SchedulerLateOpen` (violation) | the same | finding 4 |
| `SignalMemory` | one symbol, two strategies, one of which changes sides, the tick and one analyze thread, three runs, window, cooldown and majority 2 | the invariants below under every interleaving on one buffer |
| `SignalMemoryTicks` (violation) | two symbols, no threads, four runs in two ticks | finding 5 |
| `OptimizeJobs` | one job of up to two lines, its optimizer, two clients, one caller, a save at two lines, one restart | lines, statuses, the refinement and the end of a stream |
| `Singletons` | two workers with two requests (analyze, order, readiness), one operator with one PATCH or reload, a cap of 2 and calls of 2 | what is cached is current, one login, the spend cap |
| `Backtest` | two symbols, five modes (`walk_forward` with `--use-optimized`), seven strategies alone and two teams of two, frames of one and four candles of four kinds, two chunks, two attempts, one midnight | exits, losses, the parity accounts, the fetch, the end of the batch |

The properties:

* `AuditMatchesRow`, `ClosesBounded`, `ReportedIsClosed`: what is left of "closed
  once" under the race. A CLOSED row shows the last close's exit price and the pnl of
  some close on its trail; the number of closes is bounded by the number of
  processes that can hold the row between SELECT and commit; nothing is reported as
  closed that is not.
* `AutoCloseAtBreach`: side-dependent comparisons, also after a race.
* `RowAfterOrders`: no row without both legs, whatever dies in between.
* `ImplementsLifecycle`: refinement of `TradeLifecycle`.
* `ForceCloseCompletes`: a begun square-off closes all it listed or the process dies.
* `TradeCap`, `OpenCap`: the caps hold up to one trade per additional pipeline, since
  the gate is checked before the order and counted after it. `OpenCap` is stated for
  a ledger in which no endpoint has recorded a close; after that nothing holds,
  because manual trades are subtracted without having been added, a repeated close
  is subtracted again, and an update can be lost. A scheduler alone keeps both caps
  exactly.
* `KillSwitchHolds`: the switch stops every pipeline that has not passed the gates,
  those that wait for the language model included, in a process that did not reload.
* `FlatAfterSquareOff`: once the day is marked, only trades opened after the listing
  can be open.
* `LateOpensFollowSquareOff`: a tick that began after the square-off time opens
  nothing before that day's square-off is done, also after failed ticks and restarts.
* `OneOwnTradePerSymbol`: the list of symbols in a trade is read once per tick and may
  be stale, and still suffices for the scheduler's own trades.
* `LoopSurvives`, `StopCompletes`, `KeepsTicking`: no exception of a tick ends the loop;
  it ends with a stop, or where it asks for its interval while the settings cannot be read
  (see section 5); a stop returns although ticks raise and a start may clear the event it
  set; and a loop that lives and that nobody stops keeps ticking.
* `MergedRecent`: what a run votes on is younger than the window, although stamps can
  stand in the buffer out of order and pruning looks at the front only. The reason is
  that a stale stamp is pruned too early rather than too late: an entry is never
  stamped newer than its append.
* `LastWordsVote`: the vote is over the last signal of each strategy, and has all that
  are younger than the window, or the iteration raises.
* `Conviction`: a selection has its majority of different strategies; a buffer that
  holds three signals of one strategy is no majority.
* `CooldownKept`: stated per process. Two processes can both pass the check before
  either has selected; the selections of the scheduler alone are always the cooldown
  apart, because its own earlier selection can only have been overwritten by a later
  value of the counter.
* `EachLineOnce`: two clients compete for one queue and take lines from each other, one
  leaves while a line is on its way; still every printed line is in exactly one place: the
  pipe, the queue, one stream's hands, the captured lines, or lost with a client.
* `FinalMeansEnded`: however the end of the child, a cancellation and two streams race
  for the status, a job reported done, failed or cancelled has no child at work, and one
  reported done or failed no optimizer either. Of a cancelled job the optimizer may go on:
  the cancellation ends the child alone.
* `LoneClientGotAll`: a client that is alone gets every line, once and in order, also what
  is printed after the child has ended.
* `ImplementsJobLifecycle`: refinement of `JobLifecycle`, over restarts with a file that
  overlapping saves left truncated, garbled or old.
* `LoneClientIsTold`: such a client is told that its job ended; two clients are not, for
  the end marker reaches one of them, which is why the property is stated for one.
* `CachedIsCurrent`: with no change of the settings under way, everything cached, and
  every part inside it, was built from the settings in force, unless its build was
  overtaken by the clearing; it rests on the order in which the caches are cleared (the
  whole after its parts). The retrieval store is cleared after the orchestrator that
  holds it, keeps no trading setting, and is exempt; so is a process in which a reload
  raised, which clears nothing. The cached Angel session belongs to the credentials in
  force without exception.
* `OneLogin`: threads that find no login sign in once, also when logins fail in between.
* `LoneClientKeepsCap`: the sum is the bill and the bill is under the cap plus one call,
  as long as calls of one client did not overlap and none was billed without an answer.
  Both exceptions are the code's: it checks before, charges after, and locks nothing.
* `LossBounded`: a trade costs at most the share of the capital it was sized for, plus
  the exit's costs, whatever moved its stop. In the pipeline's backtest only for trades
  whose stop the model left alone and whose signal is of the bar they were filled at, and
  with the slippage of the fill on top for a trade that its first bar closes at the end of
  the frame.
* `ExitsExplained`: the recorded reason is what happened, never in the entry's own bar
  but at the end of the frame, and a bar that reaches stop and target is a loss. It names
  the two ways in which a stop can be a profit: a signal remembered from another price,
  and a Supertrend line on the far side of the close.
* `ParityLedger`: the parity backtest's account and its risk engine's agree until the
  host's midnight, and the caps of one day bind for all candle days together.
* `WholeDataOnly`: no engine sees a part of the period because a chunk failed; no symbol
  is written twice, and a symbol's trades only after its summary, which at most the last
  symbol has alone, after an append that raised.
* `BatchKeepsGoing`: whatever a fetch, an engine or the pipeline raises, the batch reaches
  the end of its list. It names the three ends before it, all of them outside the two
  handlers that skip a symbol: the vote of an ensemble added without `--min-confidence`,
  which compares a number with None, a parameter file in the modes that read one, and an
  append.

**Bounds.** Two trades suffice for the store: rows do not influence each other except
through a call's `todo`. The price 2 closes a trade at no profit (the ORM's unwritten
column), 1 is the long's stop and the short's target. With two closers a race needs one
thread beside the loop; three processes only lengthen the trail, which the proof covers.
Four trades let the ledger pass a cap of two by one, and a cap of one by one, with one
trade to spare; closes are at no profit there (a close whose pnl is 0 moves the counters
the same), and the gate on losses is met in `RiskDailyLoss`, where one loss of 1 reaches
the cap of 1, and in the theorems, which leave the outcomes open. `MaxPnl = 0` stops the
endpoints from recording ever more losses of the same trade. One reload is what gives a
process two settings objects. Two days show the square-off's memory cleared and not
cleared; the hours are the four intervals in which the code behaves differently. Buffers
of different symbols meet in the counter only, so one symbol and a counter that other
runs advance suffice; three runs are two that overlap and one before or after them,
which with a window and a cooldown of two reaches both sides of each comparison. The
violation needs two symbols and two ticks. Jobs share nothing but the file, so one job
is enough, with two clients, since a third competes as the second does; two lines are
one sent with a save and one without. Two requests and one change give every overlap of
two builds with one clearing; `analyze` asks for the longest chain of builders, `order`
for one that shares the broker with it. In the backtest, frames of four candles with a
warm-up of one hold an entry, an exit and a second entry, and two windows of
`walk_forward`; a frame of one is no longer than the warm-up. The candles reach a stop,
a target and both, and the capital is the smallest that buys a lot at their distances; a
ledger of one trade a day and one midnight show the cap bind and the reset. Teams of two
make a majority of two, with and against each other.

**Fairness.** `TradeStore`: weak fairness of the steps of a call that has begun (threads
and the event loop are scheduled); none for beginning a call, none for `Crash`.
`Scheduler`: weak fairness of the loop (its awaits have timeouts or return, and the loop
waits at most `run_interval_sec`) and of a stop's return once the task is done. Neither
the operator, the clock nor the endpoints are fair. `OptimizeJobs`: weak fairness of
`Work` as a whole: some step that threads, the loop or an ending process can take is
taken; a child process or an optimizer that never ends would be outside it, and the code
has no timeout for that either. Nothing is assumed of clients, callers, what processes
start and print, or restarts. `Backtest`: weak fairness of its next step, for it is one
sequential program and its requests to Angel are taken to return or raise. `Singletons`
states safety only: a login that never returns would hold its lock.

**Deadlock** is checked for the scheduler and the singletons (a login lock and a stack of
builders are what could block there; `Rest` is the end of the bounded requests). It is
not checked for the store, the ledger, the signal memory, the jobs and the backtest, which
stop for good when all bounded trades, days, runs, clients or symbols are used up.

## 4. What is proved

`TradeStoreProofs`, `RiskLedgerProofs`, `SchedulerProofs`, `SignalMemoryProofs`,
`OptimizeJobsProofs`, `BacktestProofs` and `SingletonsProofs` (over the lemmas of
`SingletonsTypes`) prove with TLAPS, for every set of trades, threads, prices, limits,
symbols and signals that meets the named assumptions (`TermsAssumption`,
`ProcsAssumption`, `PricesAssumption`; `LimitsAssumption`, `LedgerProcsAssumption`,
`LedgerDataAssumption`; `SchedulerAssumption`; `MemoryAssumption`; `JobsAssumption`;
`StrategiesAssumption`, `BacktestAssumption`; `SingletonsAssumption`: finite sets of
threads and of signals where cardinalities are compared, integers for prices and
outcomes, positive caps, a window above 1, a most expensive call of the language model):

* every invariant of the run `TradeStore` and the refinement: `TypeCorrect`,
  `ReportedSafe`, `OrdersFirst`, `AutoCloseSafe`, `AuditSafe`, `ClosesSafe`,
  `LifecycleRefined`;
* every property of the run `RiskCaps`: `LedgerTypeCorrect`,
  `TradeCapSafe`, `OpenCapSafe`, `KillSwitchSafe`;
* every safety property of the run `Scheduler`: `SchedulerTypeCorrect`,
  `SchedulerOneOwnTradePerSymbol`, `SchedulerFlatAfterSquareOff`,
  `SchedulerLateOpensFollowSquareOff`, `SchedulerLoopSurvives`;
* every property of the run `SignalMemory`: `MemoryTypeCorrect`, `MemoryMergedRecent`,
  `MemoryLastWordsVote`, `MemoryConviction`, `MemoryCooldownKept`;
* every safety property of the run `OptimizeJobs` and its refinement of `JobLifecycle`:
  `JobsTypeCorrect`, `FinalJobsEnded`, `LinesKept`, `LoneClientServed`,
  `LifecycleImplemented`;
* every safety property of the run `Backtest`: `BacktestTypeCorrect`, `AccountsAgree`,
  `DataWhole`, `LossesBounded`, `ReasonsTrue`, for each of the engines at once;
* every property of the run `Singletons`: `SingletonsTypeCorrect`, `LoggedInOnce`,
  `LoneClientKept`, `CacheKept`.

The strengthenings:

* `CallsInv` (store): what a call's locals say of its trade. While `execute` is on its
  way the row is absent and the call is the only one for that execution; a row to be
  visited or committed exists. `RowAfterOrders`, `ReportedIsClosed` and the refinement
  rest on it: without it `open_with_audit` could turn a CLOSED row back into OPEN.
* `ClosesInv` (store): for a CLOSED row, the closes on the trail plus the calls that
  hold the row before their commit are at most the processes. The number of such
  calls can only fall once the row is CLOSED, for `CheckOpen` needs an OPEN row.
* `AutoCloseInv`, `AuditInv` (store): the quote of a committing mark-to-market is a
  breach; an absent row has pnl 0.
* `SwitchInv` (ledger): no process holds a settings object newer than the current one,
  so before the first reload all of them hold object 0, on which the switch is set.
* `CapsInv` (ledger): trades counted, plus pipelines that passed the gates, plus
  pipelines that executed and have not recorded, stay within the cap plus the other
  processes; and the ledger's trades are at most those counted plus those about to be.
  Each pipeline moves one unit from "approved" to "executed" to the counter.

* `PendingAreFree` (scheduler): while the pipelines run, a symbol still to come is free
  of the scheduler's trades unless `symbols_in_trade` has it; each pipeline takes its
  symbol off the list as it opens.
* `Listed` (scheduler): between the listing of `force_close_all` and its closes, every
  open trade was listed or opened since, and the day is not marked.
* `LateTickSquaredOff` (scheduler): a tick past the square-off time reaches its
  pipelines only on a day that is marked. `StopIsSet`: a stop that waits for a live
  task has set the event (a start cannot clear it while the task lives), so that the loop's
  end is the stop's, or the one at `interval`.
* `BuffersOrdered`, `FrontRecent` (memory): a buffer is in the order of its appends
  (`at`), every stamp is at most its `at`, and while a run iterates, the front entry was
  appended inside its window; hence all behind it were.
* `WordsKept` (memory): the last entry of a strategy in a buffer is its last word, and a
  last word that is not in the buffer is older than the window.
* `PickedPast`, `ReadLater`, `Waited` (memory): what a process read as the last selection
  is no older than its own last one, which is a cooldown ago once the check has passed.
* `OneVotePerStrategy` (memory): no two entries of a vote have the same strategy, so
  counting entries counts strategies.
* `EndsInv` (jobs): the end marker is in the pipe, in a queue or in a stream's hands only
  after the child has ended (`EndedInv`), a stream or a cancellation past its wait has
  seen that end (`SettleInv`), and the file and every snapshot on its way there hold
  statuses that the job has had (`SavedInv`). The refinement rests on the last part: a
  restart loads whatever overlapping saves left, and none of it may revive an ended job.
* `QuietInv` (jobs): where the end marker of a job that nobody cancelled has come to be,
  in its queue, in a stream's hands or in a status that a stream has written, neither
  child nor optimizer is at work, and none will be (`Quiet`): a status done or failed is
  written only behind a marker, the marker is put only when nobody is left to print, and
  a stopped child starts no optimizer. `FinalMeansEnded` rests on it for the optimizer
  and on `EndsInv` for the child of a cancelled job.
* `LinesInv` (jobs): each line written so far is in exactly one place, named by the
  process's, the reader's and the streams' positions; `EachLineOnce` alone says nothing
  of a line in somebody's hands.
* `ClientsInv` (jobs): while a client has been alone, what it was told, what it holds,
  what is queued and what is still in the pipe is, put together, the job's output in
  order.

* `EvaluationsSaid` (strategies): whatever its indicators show, a strategy names a stop
  behind and a target ahead of the close; the one exception is a Supertrend line on the
  far side, and it is said to be one. One `Bracket` lemma per strategy.
* `PositionSize` (strategies): quantity times stop distance is at most the budget, which
  is where integer division comes in; `TradeInv` (backtest) carries it through the trade's
  life: a stop moves ahead only, and a bar that does not close the trade ends ahead of the
  first stop, so the loss is bounded by the distance it was sized with. Trying this proof
  showed that an earlier form of `LossBounded`, without slippage in its bound, was true
  only in an instance where slippage was 1; it is 2 now.
* `WholeInv` (backtest): every chunk before the current one was answered and the first
  one with candles; the two files name the same symbols but between the two appends,
  and after one that raised.
* `WordsType` (backtest): the memory of a bar holds at most one word per strategy, and
  none of the bar to come.
* `ParityInv` (backtest): the entries so far are at most the cap for each of the host's
  days begun, and those of the day at hand are what the risk engine has counted.
* `TypesInv` (singletons): the stores refer to objects that exist, and the frames of a
  thread are at most two, the upper one a part that the lower one asks for, and what a
  builder has in hand are parts of its own.
* `LockInv` (singletons): a thread is past the second look exactly when it holds the lock
  of its session, and that session has no login; one that fails leaves the lock as it
  goes. `OneLogin` alone does not exclude two threads that are both about to sign in.
* `ClientInv` (singletons): in a client that is still exact at most one thread is in a
  call, what that thread will write is the bill, and it was under the cap when it asked.
* `CurrentInv` (singletons): for each builder, either some change of the settings has yet
  to clear its cache, or its cached object and every build of it under way is up to date
  or late. It rests on the order of the clearing (`PartsFirst`): a change that has a part
  to clear has the whole still to clear, so a whole that picks up an old part is dropped
  later, or is late. An empty cache of the settings has a reload in progress
  (`RereadsInv`: only a reload reads the file again with it).
* `SessionInv` (singletons): a session just made is in nobody else's hands (`Alone`), and
  while no reload is under way whoever signs in to the cached session does so with the
  settings in force (`SignsIn`): a reload drops the session before it ends.

Only model-checked: the liveness properties `ForceCloseCompletes`, `StopCompletes`,
`KeepsTicking`, `LoneClientIsTold` and `BatchKeepsGoing` (TLAPS has no proof rules here
for fairness). `DailyLossStops`, `KillSwitchBlocks`, `ClosedOnce`,
`NoOpensAfterSquareOff` and `MemoryCountsTicks` are false, and shown so.

## 5. Findings

1. `close_with_audit` returns the row where its docstring promises None, and guards
   its UPDATE by its own earlier SELECT only: a trade can be closed twice
   (`ClosedOnce`).
2. The scheduler's closes never reach the risk engine: the daily loss cap does not
   see the losses of stops that were hit (`DailyLossStops`).
3. The kill switch set between `/config/reload` and the next run is lost
   (`KillSwitchBlocks`).
4. The tick after the square-off trades again on the same day
   (`NoOpensAfterSquareOff`).
5. The signal memory is documented in ticks per symbol and counted in runs of any symbol:
   with as many symbols as its window it has forgotten the previous tick's signals
   (`MemoryCountsTicks`). The cooldown, documented as "scheduler ticks to wait per
   symbol", is counted the same way.

Beside these the modelling met the following, which the modules contain as the code has it
and no violation run shows:

* `_loop` reads the interval of its pause outside the `try` that is to let it "never die
  silently" (`scheduler.py:174`, `181`). After a reload with a `.env` that does not validate
  that read raises and ends the loop; `/runner/status` goes on to say that it runs, a stop
  raises what the loop raised, and only a restart with a mended file trades again.
* A cancellation ends `optimize_all.py` alone (`optimize_router.py:288-292`); the optimizer
  that this has started goes on and writes its temporary parameter file.
* At this commit `start_optimize` passes `--metric` (`optimize_router.py:169-170`), which
  the argument parser of `optimize_all.py` refuses: a job started by the endpoint ends with
  return code 2 before any optimizer starts. The module has that run (`Exit` with an error
  and `tuner` still to come) beside those that `optimize_all.py` is written for.
* A parameter file that is no mapping of mappings, or that names an unknown parameter, and
  an append that raises, end a whole batch (`batch_backtest.py:203-220`, `355-356`), where
  a symbol that fails otherwise is skipped.

## 6. What is left

To prove: every invariant, action property and refinement that a passing run checks has
its theorem. Without one are the five liveness properties, which are out of TLAPS's
reach. A next step is a refinement for the components that have no abstract specification
yet, the login and the capped client among them.

Not modelled, and why:

* WebSocket broadcaster: `publish` and `subscribe` run on one event loop without an
  await, so there is nothing to interleave; what a slow client loses is what its
  docstring says, and nothing else reads the queues. Kept as a hazard.
* Watchlist endpoints and parameter files: read-modify-write of a settings string, of
  `.env` and of YAML by one operator at a time. `Scheduler` takes the symbols as a constant.
* Parameter optimizer and the comparison scripts: a search around `run_backtest` and
  printed tables, with no state of the service.
* Memory and retrieval, prompts: text for the language model, whose verdict is a choice
  in every module.
* Metrics of a backtest, reports, audit and signal queries: computed from rows, they
  change no state.
* Indicators other than the Supertrend: moving averages of floating-point columns, out of
  TLC's reach; their readings are external in `Strategies`.
* The Angel client's token cache and conversion of candles, the sample data, command
  lines, data transfer objects, logging, the front end: no behaviour that a property here
  is about.
