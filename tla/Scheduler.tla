---- MODULE Scheduler ----
(* MarketScheduler: one asyncio task ticks until it is told to stop.  A tick     *)
(* awaits the login and the candles, then, without another await, marks to       *)
(* market, squares off or runs the pipeline per symbol; the endpoints open and   *)
(* close trades from thread-pool threads in between.  The table is               *)
(* TradeLifecycle.                                                               *)
EXTENDS Integers, Sequences, TradeLifecycle

CONSTANTS
    Symbols,             \* the watchlist
    Sym,                 \* the symbol of each execution
    Own,                 \* the executions the scheduler's pipeline may make; the
                         \* others are the endpoints'
    MaxDay,              \* bound: days 1 .. MaxDay
    MaxRestarts          \* bound: how often the process is restarted

ASSUME SchedulerAssumption ==
    /\ Sym \in [Trades -> Symbols] /\ Own \subseteq Trades
    /\ MaxDay \in Nat \ {0} /\ MaxRestarts \in Nat

VARIABLES
    now,                 \* the IST day, and where its trading hours are
    running,             \* status.running
    stop_event,          \* _stop_event is set
    squared_off_on,      \* _squared_off_on (0: None)
    task,                \* where _task is
    tick_at,             \* now_ist of the tick
    latest_prices,       \* symbols with candles in this tick
    doomed,              \* force_close_all's rows
    symbols_in_trade,
    stopping,            \* POST /runner/stop awaits the task
    readable,            \* get_settings returns: cached, or .env validates
    restarts,
    \* History, for the properties only:
    attempted,           \* the day of the last square-off that listed the open trades
    opened_since         \* trades opened since

\* The day's trading hours; square_off_time falls between "open" and "late".
Hours == <<"early", "open", "late", "over">>

clock == <<now, restarts>>
history == <<attempted, opened_since>>
tick == <<tick_at, latest_prices, doomed, symbols_in_trade>>
control == <<running, stop_event, stopping, readable>>
vars == <<status, clock, control, squared_off_on, task, tick, history>>

\* lifespan starts the loop (auto_run).
SchedulerInit ==
    /\ Init
    /\ now = [day |-> 1, hour |-> 1]
    /\ running = TRUE /\ stop_event = FALSE /\ stopping = FALSE /\ readable = TRUE
    /\ squared_off_on = 0
    /\ task = "check"
    /\ tick_at = now /\ latest_prices = {} /\ doomed = {} /\ symbols_in_trade = {}
    /\ restarts = 0
    /\ attempted = 0 /\ opened_since = {}

----------------------------------------------------------------------------
(* The loop.                                                                   *)

\* Mutant: the loop asks for the stop event only while it pauses.
LoopCheck_Always ==
    /\ task = "check"
    /\ task' = "tick"
    /\ UNCHANGED <<status, clock, control, squared_off_on, tick, history>>

\* while not self._stop_event.is_set()
LoopCheck ==
    /\ task = "check"
    /\ task' = IF stop_event THEN "done" ELSE "tick"
    /\ UNCHANGED <<status, clock, control, squared_off_on, tick, history>>

\* Mutant: the pause has no timeout.
Pause_UntilStop ==
    /\ task = "pause" /\ stop_event
    /\ task' = "check"
    /\ UNCHANGED <<status, clock, control, squared_off_on, tick, history>>

\* The pause ends with the stop event or after run_interval_sec.
Pause ==
    /\ task = "pause"
    /\ task' = "check"
    /\ UNCHANGED <<status, clock, control, squared_off_on, tick, history>>

\* Places of a tick: what raises there is caught.
InTick == {"tick", "login", "fetch", "mtm", "square", "listed", "in_trade", "run"}

\* Mutant: a tick that raises ends the loop.
TickRaises_Ends ==
    /\ task \in InTick
    /\ task' = "raised"
    /\ UNCHANGED <<status, clock, control, squared_off_on, tick, history>>

\* Whatever a tick raises, the loop goes on to its pause.
TickRaises ==
    /\ task \in InTick
    /\ task' = "interval"
    /\ UNCHANGED <<status, clock, control, squared_off_on, tick, history>>

\* The tick's locals are gone; timeout=get_settings().run_interval_sec: what this
\* raises nobody catches.
ReadInterval ==
    /\ task = "interval"
    /\ task' = IF readable THEN "pause" ELSE "raised"
    /\ latest_prices' = {} /\ doomed' = {} /\ symbols_in_trade' = {}
    /\ UNCHANGED <<status, clock, control, squared_off_on, tick_at, history>>

----------------------------------------------------------------------------
(* _tick.                                                                      *)

\* Mutant: the end of the trading hours is not looked at.
TickStart_Late ==
    /\ task = "tick" /\ readable
    /\ tick_at' = now
    /\ UNCHANGED squared_off_on
    /\ task' = IF Hours[now.hour] = "early" THEN "interval" ELSE "login"
    /\ UNCHANGED <<status, clock, control, latest_prices, doomed, symbols_in_trade, history>>

\* Outside hours only the square-off of an earlier day is forgotten; with an empty
\* watchlist the tick is over.
TickStart ==
    /\ task = "tick" /\ readable
    /\ tick_at' = now
    /\ \/ /\ Hours[now.hour] \in {"early", "over"}
          /\ squared_off_on' = IF squared_off_on # now.day THEN 0 ELSE squared_off_on
          /\ task' = "interval"
       \/ /\ Hours[now.hour] \in {"open", "late"}
          /\ task' \in {"interval", "login"}
          /\ UNCHANGED squared_off_on
    /\ UNCHANGED <<status, clock, control, latest_prices, doomed, symbols_in_trade, history>>

\* await to_thread(session.ensure_ready)
Login ==
    /\ task = "login"
    /\ task' = "fetch"
    /\ UNCHANGED <<status, clock, control, squared_off_on, tick, history>>

\* await gather(...): symbols that fail or have too few candles are left out.
Fetch ==
    /\ task = "fetch"
    /\ latest_prices' \in SUBSET Symbols
    /\ task' = "mtm"
    /\ UNCHANGED <<status, clock, control, squared_off_on, tick_at, doomed,
                   symbols_in_trade, history>>

CloseRows(T) == status' = [t \in Trades |-> IF t \in T THEN "CLOSED" ELSE status[t]]

\* Any of the open trades with a price may be at its stop or its target.
mark_to_market ==
    /\ task = "mtm"
    /\ \E T \in SUBSET {t \in OpenTrades : Sym[t] \in latest_prices} : CloseRows(T)
    /\ task' = "square"
    /\ UNCHANGED <<clock, control, squared_off_on, tick, history>>

SquareOffDue == Hours[tick_at.hour] \in {"late", "over"} /\ squared_off_on # tick_at.day

\* Mutant: what was squared off is remembered forever.
SquareOff_OnlyFirst ==
    /\ task = "square" /\ readable
    /\ IF Hours[tick_at.hour] \in {"late", "over"} /\ squared_off_on = 0
       THEN /\ doomed' = OpenTrades /\ task' = "listed"
            /\ attempted' = tick_at.day /\ opened_since' = {}
       ELSE UNCHANGED <<doomed, history>> /\ task' = "in_trade"
    /\ UNCHANGED <<status, clock, control, squared_off_on, tick_at, latest_prices,
                   symbols_in_trade>>

\* force_close_all lists the open trades...
SquareOff ==
    /\ task = "square" /\ readable
    /\ IF SquareOffDue
       THEN /\ doomed' = OpenTrades /\ task' = "listed"
            /\ attempted' = tick_at.day /\ opened_since' = {}
       ELSE UNCHANGED <<doomed, history>> /\ task' = "in_trade"
    /\ UNCHANGED <<status, clock, control, squared_off_on, tick_at, latest_prices,
                   symbols_in_trade>>

\* Mutant: trades without candles in this tick are left open.
force_close_all_Priced ==
    /\ task = "listed"
    /\ CloseRows({t \in doomed : Sym[t] \in latest_prices})
    /\ squared_off_on' = tick_at.day
    /\ task' = "interval"
    /\ UNCHANGED <<clock, control, tick, history>>

\* ...and closes each at its price or, without one, its entry price; the tick ends.
force_close_all ==
    /\ task = "listed"
    /\ CloseRows(doomed)
    /\ squared_off_on' = tick_at.day
    /\ task' = "interval"
    /\ UNCHANGED <<clock, control, tick, history>>

\* A close on the way raises: the day is not marked, the next tick tries again.
SquareOffRaises ==
    /\ task = "listed"
    /\ \E T \in SUBSET doomed : CloseRows(T)
    /\ task' = "interval"
    /\ UNCHANGED <<clock, control, squared_off_on, tick, history>>

\* list_open_symbols
ListOpenSymbols ==
    /\ task = "in_trade"
    /\ symbols_in_trade' = {Sym[t] : t \in OpenTrades}
    /\ task' = "run"
    /\ UNCHANGED <<status, clock, control, squared_off_on, tick_at, latest_prices,
                   doomed, history>>

\* Mutant: a symbol that is in a trade is run all the same.
RunSymbol_InTrade(s) ==
    /\ task = "run" /\ s \in latest_prices
    /\ latest_prices' = latest_prices \ {s}
    /\ \/ UNCHANGED <<status, opened_since>>
       \/ \E t \in Own : /\ Sym[t] = s
                         /\ OpenRow(t) /\ opened_since' = opened_since \cup {t}
    /\ UNCHANGED <<clock, control, squared_off_on, task, tick_at, doomed, symbols_in_trade,
                   attempted>>

\* The pipeline per symbol with candles, unless it is in a trade: it may open one
\* (RiskLedger has its steps).
RunSymbol(s) ==
    /\ task = "run" /\ s \in latest_prices
    /\ latest_prices' = latest_prices \ {s}
    /\ \/ UNCHANGED <<status, opened_since>>
       \/ \E t \in Own : /\ Sym[t] = s /\ s \notin symbols_in_trade
                         /\ OpenRow(t) /\ opened_since' = opened_since \cup {t}
    /\ UNCHANGED <<clock, control, squared_off_on, task, tick_at, doomed, symbols_in_trade,
                   attempted>>

TickDone ==
    /\ task = "run" /\ latest_prices = {}
    /\ task' = "interval"
    /\ UNCHANGED <<status, clock, control, squared_off_on, tick, history>>

----------------------------------------------------------------------------
(* The endpoints, the clock and the process.                                   *)

Alive == task \notin {"done", "cancelled", "raised"}

\* POST /runner/start in a thread: with a live task it does nothing; otherwise it
\* clears the event, claims to run unless the settings cannot be read, and raises
\* in any case, for a thread has no event loop to create the task in.
start ==
    /\ ~ Alive
    /\ stop_event' = FALSE /\ running' = (running \/ readable)
    /\ UNCHANGED <<status, clock, stopping, readable, squared_off_on, task, tick, history>>

\* POST /runner/stop on the event loop...
stop ==
    /\ ~ stopping
    /\ stop_event' = TRUE /\ stopping' = TRUE
    /\ UNCHANGED <<status, clock, running, readable, squared_off_on, task, tick, history>>

\* ...goes on when the task is done, and raises for one that was cancelled before or
\* that raised: the status goes on to say that it runs...
StopReturns ==
    /\ stopping /\ ~ Alive
    /\ stopping' = FALSE
    /\ running' = (running /\ task # "done")
    /\ UNCHANGED <<status, clock, stop_event, readable, squared_off_on, task, tick, history>>

\* ...or cancels it after five seconds, at one of its awaits.
StopCancels ==
    /\ stopping /\ task \in {"login", "fetch", "pause"}
    /\ task' = "cancelled" /\ stopping' = FALSE /\ running' = FALSE
    /\ UNCHANGED <<status, clock, stop_event, readable, squared_off_on, tick, history>>

\* POST /config/reload with a .env that does not validate empties the cache and
\* raises; every reader raises from then on...
ReloadFails ==
    /\ readable /\ readable' = FALSE
    /\ UNCHANGED <<status, clock, running, stop_event, stopping, squared_off_on, task,
                   tick, history>>

\* ...until the file is mended.
EnvMended ==
    /\ ~ readable /\ readable' = TRUE
    /\ UNCHANGED <<status, clock, running, stop_event, stopping, squared_off_on, task,
                   tick, history>>

\* POST /trade/manual and /analyze...
ApiOpens(t) ==
    /\ t \notin Own /\ OpenRow(t)
    /\ opened_since' = opened_since \cup {t}
    /\ UNCHANGED <<clock, control, squared_off_on, task, tick, attempted>>

\* ...and POST /trades/{id}/close.
ApiCloses(t) ==
    /\ CloseRow(t)
    /\ UNCHANGED <<clock, control, squared_off_on, task, tick, history>>

ClockMoves ==
    /\ \/ now.hour < Len(Hours) /\ now' = [now EXCEPT !.hour = @ + 1]
       \/ now.hour = Len(Hours) /\ now.day < MaxDay /\ now' = [day |-> now.day + 1, hour |-> 1]
    /\ UNCHANGED <<status, restarts, control, squared_off_on, task, tick, history>>

\* systemd restarts the process; lifespan, which needs the settings, starts the loop
\* anew.
Restart ==
    /\ restarts < MaxRestarts /\ readable
    /\ restarts' = restarts + 1
    /\ running' = TRUE /\ stop_event' = FALSE /\ stopping' = FALSE
    /\ squared_off_on' = 0 /\ task' = "check"
    /\ latest_prices' = {} /\ doomed' = {} /\ symbols_in_trade' = {}
    /\ UNCHANGED <<status, now, readable, tick_at, history>>

Loop ==
    \/ LoopCheck \/ TickRaises \/ ReadInterval \/ Pause
    \/ TickStart \/ Login \/ Fetch \/ mark_to_market
    \/ SquareOff \/ force_close_all \/ SquareOffRaises
    \/ ListOpenSymbols \/ (\E s \in Symbols : RunSymbol(s)) \/ TickDone

Stopping == StopReturns \/ StopCancels

SchedulerNext ==
    \/ Loop \/ Stopping
    \/ start \/ stop
    \/ \E t \in Trades : ApiOpens(t) \/ ApiCloses(t)
    \/ ReloadFails \/ EnvMended
    \/ ClockMoves \/ Restart

SchedulerSpec == SchedulerInit /\ [][SchedulerNext]_vars

\* The event loop runs what is ready: the awaits of a tick return or raise (they
\* have timeouts), its other code finishes, and so does a stop.
FairScheduler == SchedulerSpec /\ WF_vars(Loop) /\ WF_vars(StopReturns)

----------------------------------------------------------------------------
(* Properties.                                                                 *)

\* The shape of the state; a tick past its fetch is of trading hours.
SchedulerTypeOK ==
    /\ status \in [Trades -> Statuses]
    /\ now \in [day : 1 .. MaxDay, hour : 1 .. 4]
    /\ tick_at \in [day : 1 .. MaxDay, hour : 1 .. 4]
    /\ {running, stop_event, stopping, readable} \subseteq BOOLEAN
    /\ squared_off_on \in 0 .. MaxDay
    /\ task \in InTick \cup {"check", "interval", "pause", "done", "cancelled", "raised"}
    /\ task \in InTick \ {"tick"} => Hours[tick_at.hour] \in {"open", "late"}
    /\ latest_prices \subseteq Symbols /\ symbols_in_trade \subseteq Symbols
    /\ doomed \subseteq Trades /\ opened_since \subseteq Trades /\ attempted \in 0 .. MaxDay
    /\ restarts \in 0 .. MaxRestarts

\* EOD square-off: once it has marked its day, only trades opened after it listed
\* the open ones can be open, symbols without candles, trades of the endpoints and
\* an earlier attempt that raised included.
FlatAfterSquareOff ==
    squared_off_on # 0 /\ squared_off_on = attempted => OpenTrades \subseteq opened_since

\* A trade opened in a tick that began after the square-off time was opened after
\* the square-off of that very day, whatever ticks failed and whatever the process
\* remembered of the days before.
LateOpensFollowSquareOff ==
    [][\A t \in Own : OpenRow(t) /\ Hours[tick_at.hour] = "late"
                        => squared_off_on = tick_at.day]_vars

\* The scheduler holds at most one trade of its own per symbol: what it read as in
\* trade before the pipelines run can only have been closed since.
OneOwnTradePerSymbol ==
    \A t, u \in OpenTrades \cap Own : Sym[t] = Sym[u] => t = u

\* No exception of a tick ends the loop: it ends with a stop, or where it asks for
\* its interval while a failed reload has left the settings unreadable.
LoopSurvives ==
    [][Alive /\ ~ Alive' => stop_event \/ (task = "interval" /\ ~ readable)]_vars

\* A stop returns, with the loop ended unless the process was restarted, whatever
\* the tick is doing and however often it raises.
StopCompletes == stopping ~> (~ stopping /\ (~ Alive \/ restarts > 0))

\* _loop: a loop that lives and that nobody stops keeps ticking, however its ticks
\* end (what may end it, LoopSurvives says).
KeepsTicking == []<>(task = "tick" \/ stop_event \/ ~ Alive)

\* docs/WORKFLOW.md and the comment in _tick: no trade is opened by the scheduler
\* once the day is squared off.
NoOpensAfterSquareOff ==
    [][\A t \in Own : OpenRow(t) => squared_off_on # tick_at.day]_vars
====
