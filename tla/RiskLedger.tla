---- MODULE RiskLedger ----
(* The RiskEngine's in-memory day ledger beside the trades table: the pipeline   *)
(* (Orchestrator.run on the event loop for the scheduler, in a thread-pool       *)
(* thread for /analyze) gates a signal, executes it and only then records it;    *)
(* the scheduler closes trades without telling the ledger; the close endpoints   *)
(* tell it; the day rolls over and the process restarts.  The table is           *)
(* TradeLifecycle, which TradeStore implements.                                  *)
EXTENDS Integers, FiniteSets, TradeLifecycle

CONSTANTS
    Scheduler,           \* the event loop: the tick's closes and its pipeline runs
    Threads,             \* thread-pool threads: /analyze and the trade endpoints
    MaxTrades,           \* max_trades_per_day
    MaxOpen,             \* max_open_positions
    LossCap,             \* capital_inr * max_daily_loss_pct / 100
    Outcomes,            \* the PnLs a close may realise
    MaxDay,              \* bound: days 1 .. MaxDay
    MaxPnl,              \* bound: endpoints close while |realized_pnl_today| is in it
    MaxReloads,          \* bound: how often a process reloads its settings
    MaxRestarts          \* bound: how often the process is restarted

Procs == Threads \cup {Scheduler}

ASSUME LimitsAssumption == MaxTrades \in Nat \ {0} /\ MaxOpen \in Nat \ {0} /\ LossCap \in Nat
ASSUME LedgerProcsAssumption == IsFiniteSet(Threads) /\ Scheduler \notin Threads
ASSUME LedgerDataAssumption ==
    /\ Outcomes \subseteq Int
    /\ MaxDay \in Nat \ {0} /\ {MaxPnl, MaxReloads, MaxRestarts} \subseteq Nat

VARIABLES
    pnl,                 \* Trade.pnl
    stats,               \* RiskEngine.stats
    today,               \* the IST date
    kill,                \* kill_switch of every settings object of this process
    current,             \* get_settings(): the number of the newest object
    risk_s,              \* RiskEngine.s, by number
    run_s,               \* the object a pipeline run took from get_settings()
    pc,                  \* where each process is
    pending,             \* trades an endpoint has closed and still has to record
    reg,                 \* record_trade_close's max(0, open_positions - 1)
    restarts,
    \* History, for the properties only:
    ledger,              \* trades the pipeline executed since stats was last new
    api_closed,          \* an endpoint has recorded a close since then
    realized,            \* what the trades closed today have realized
    armed                \* the operator's last word since the last reload is kill switch ON

table == <<status, pnl, realized>>
switch == <<kill, current, risk_s, armed>>
calls == <<run_s, pending, reg>>
marks == <<ledger, api_closed>>
vars == <<table, stats, today, switch, pc, calls, restarts, marks>>

----------------------------------------------------------------------------

DailyStats(d) ==
    [trades_today |-> 0, open_positions |-> 0, realized_pnl_today |-> 0, last_reset |-> d]

\* A new process has nothing of the day before in memory, and a kill switch read
\* from an environment that leaves it off.
LedgerInit ==
    /\ Init
    /\ pnl = [t \in Trades |-> 0] /\ realized = 0
    /\ today = 1 /\ restarts = 0
    /\ stats = DailyStats(today)
    /\ kill = [v \in 0 .. MaxReloads |-> FALSE] /\ current = 0 /\ risk_s = 0
    /\ pc = [p \in Procs |-> "idle"]
    /\ run_s = [p \in Procs |-> 0]
    /\ pending = [p \in Procs |-> {}]
    /\ reg = [p \in Procs |-> 0]
    /\ ledger = {} /\ api_closed = FALSE /\ armed = FALSE

\* A restart keeps the table; the ledger, the switch and every call are gone.
Restart ==
    /\ restarts < MaxRestarts
    /\ restarts' = restarts + 1
    /\ stats' = DailyStats(today)
    /\ kill' = [v \in 0 .. MaxReloads |-> FALSE] /\ current' = 0 /\ risk_s' = 0
    /\ pc' = [p \in Procs |-> "idle"]
    /\ run_s' = [p \in Procs |-> 0]
    /\ pending' = [p \in Procs |-> {}]
    /\ reg' = [p \in Procs |-> 0]
    /\ ledger' = {} /\ api_closed' = FALSE /\ armed' = FALSE
    /\ UNCHANGED <<table, today>>

NextDay ==
    /\ today < MaxDay
    /\ today' = today + 1
    /\ realized' = 0
    /\ UNCHANGED <<status, pnl, stats, switch, pc, calls, restarts, marks>>

Goto(p, l) == pc' = [pc EXCEPT ![p] = l]

----------------------------------------------------------------------------
(* The pipeline.                                                               *)

\* Orchestrator.run takes the current settings...
Run(p) ==
    /\ pc[p] = "idle"
    /\ run_s' = [run_s EXCEPT ![p] = current]
    /\ Goto(p, "refresh")
    /\ UNCHANGED <<table, stats, today, switch, pending, reg, restarts, marks>>

\* ...and hands them to the shared risk engine; the strategies and the language
\* model come next.
Refresh(p) ==
    /\ pc[p] = "refresh"
    /\ risk_s' = run_s[p]
    /\ run_s' = [run_s EXCEPT ![p] = 0]
    /\ Goto(p, "validate")
    /\ UNCHANGED <<table, stats, today, kill, current, armed, pending, reg, restarts, marks>>

\* The run ends before the gates (no signal, the cooldown, the ensemble, the AI) or
\* after them, when the order or the insert raises.
Abandon(p) ==
    /\ pc[p] \in {"validate", "approved"}
    /\ Goto(p, "idle")
    /\ UNCHANGED <<table, stats, today, switch, calls, restarts, marks>>

\* evaluate reads the date; _maybe_reset_day compares it...
CheckDay(p) ==
    /\ pc[p] = "validate"
    /\ Goto(p, IF today # stats.last_reset THEN "reset" ELSE "gates")
    /\ UNCHANGED <<table, stats, today, switch, calls, restarts, marks>>

\* ...logs, and replaces stats.
ResetDay(p) ==
    /\ pc[p] = "reset"
    /\ stats' = DailyStats(today)
    /\ ledger' = {} /\ api_closed' = FALSE
    /\ Goto(p, "gates")
    /\ UNCHANGED <<table, today, switch, calls, restarts>>

\* Mutant: the gate on open positions is missing.
Gates_NoOpenCap ==
    /\ ~ kill[risk_s]
    /\ stats.trades_today < MaxTrades
    /\ stats.realized_pnl_today > - LossCap

\* The gates of evaluate that read the ledger; those on the signal itself (expiry,
\* quantity, risk, reward) may reject whatever the ledger says.
Gates ==
    /\ ~ kill[risk_s]
    /\ stats.trades_today < MaxTrades
    /\ stats.open_positions < MaxOpen
    /\ stats.realized_pnl_today > - LossCap

Evaluate(p, approved) ==
    /\ pc[p] = "gates"
    /\ approved => Gates
    /\ Goto(p, IF approved THEN "approved" ELSE "idle")
    /\ UNCHANGED <<table, stats, today, switch, calls, restarts, marks>>

\* ExecutionAgent.execute inserts the row (TradeStore has its steps).
Execute(p, t) ==
    /\ pc[p] = "approved"
    /\ OpenRow(t)
    /\ ledger' = ledger \cup {t}
    /\ Goto(p, "executed")
    /\ UNCHANGED <<pnl, realized, stats, today, switch, calls, restarts, api_closed>>

\* Mutant: the execution is never recorded.
record_trade_open_Skipped(p) ==
    /\ pc[p] = "executed"
    /\ Goto(p, "idle")
    /\ UNCHANGED <<table, stats, today, switch, calls, restarts, marks>>

record_trade_open(p) ==
    /\ pc[p] = "executed"
    /\ stats' = [stats EXCEPT !.trades_today = @ + 1, !.open_positions = @ + 1]
    /\ Goto(p, "idle")
    /\ UNCHANGED <<table, today, switch, calls, restarts, marks>>

----------------------------------------------------------------------------
(* Opening and closing beside the pipeline.                                    *)

\* POST /trade/manual executes without the risk engine.
place_manual(p, t) ==
    /\ p # Scheduler /\ pc[p] = "idle"
    /\ OpenRow(t)
    /\ UNCHANGED <<pnl, realized, stats, today, switch, pc, calls, restarts, marks>>

CloseAt(t, x) ==
    /\ CloseRow(t)
    /\ pnl' = [pnl EXCEPT ![t] = x]
    /\ realized' = realized + x

\* The tick's mark_to_market and square-off: the risk engine is not told.
TickCloses(t, x) ==
    /\ pc[Scheduler] = "idle"
    /\ CloseAt(t, x)
    /\ UNCHANGED <<stats, today, switch, pc, calls, restarts, marks>>

\* POST /trades/{id}/close; a trade that is CLOSED already comes back as it is and
\* is recorded like one this call closed.
close_trade(p, t, x) ==
    /\ p # Scheduler /\ pc[p] = "idle"
    /\ stats.realized_pnl_today \in - MaxPnl .. MaxPnl
    /\ CloseAt(t, x) \/ (status[t] = "CLOSED" /\ UNCHANGED table)
    /\ pending' = [pending EXCEPT ![p] = {t}]
    /\ Goto(p, "record")
    /\ UNCHANGED <<stats, today, switch, run_s, reg, restarts, marks>>

\* POST /admin/force-close-all, once the rows are closed (one by one; TradeStore
\* has the steps).  The angel session has no get_ltp, so that each is closed at its
\* entry price, at no profit or loss.
force_close_all(p) ==
    /\ p # Scheduler /\ pc[p] = "idle"
    /\ OpenTrades # {}
    /\ status' = [t \in Trades |-> IF status[t] = "OPEN" THEN "CLOSED" ELSE status[t]]
    /\ pending' = [pending EXCEPT ![p] = OpenTrades]
    /\ Goto(p, "record")
    /\ UNCHANGED <<pnl, realized, stats, today, switch, run_s, reg, restarts, marks>>

\* Mutant: the floor at zero is missing.
RecordCloseRead_NoFloor(p) ==
    /\ pc[p] = "record"
    /\ reg' = [reg EXCEPT ![p] = stats.open_positions - 1]
    /\ Goto(p, "write")
    /\ UNCHANGED <<table, stats, today, switch, run_s, pending, restarts, marks>>

\* record_trade_close reads open_positions and calls max: the interpreter may
\* switch threads there, before the write.
RecordCloseRead(p) ==
    /\ pc[p] = "record"
    /\ reg' = [reg EXCEPT ![p] =
                  IF stats.open_positions > 0 THEN stats.open_positions - 1 ELSE 0]
    /\ Goto(p, "write")
    /\ UNCHANGED <<table, stats, today, switch, run_s, pending, restarts, marks>>

RecordCloseWrite(p, t) ==
    /\ pc[p] = "write" /\ t \in pending[p]
    /\ stats' = [stats EXCEPT !.open_positions = reg[p], !.realized_pnl_today = @ + pnl[t]]
    /\ api_closed' = TRUE
    /\ pending' = [pending EXCEPT ![p] = @ \ {t}]
    /\ Goto(p, IF pending[p] = {t} THEN "idle" ELSE "record")
    /\ reg' = [reg EXCEPT ![p] = 0]
    /\ UNCHANGED <<table, today, switch, run_s, restarts, ledger>>

----------------------------------------------------------------------------
(* The kill switch and the settings objects.                                   *)

\* Mutant: the endpoint sets a copy of the settings.
killswitch_OnCopy(on) ==
    /\ armed' = on
    /\ UNCHANGED <<table, stats, today, kill, current, risk_s, pc, calls, restarts, marks>>

\* POST /admin/killswitch/{state} sets the switch of RiskEngine.s.
killswitch(on) ==
    /\ kill' = [kill EXCEPT ![risk_s] = on]
    /\ armed' = on
    /\ UNCHANGED <<table, stats, today, current, risk_s, pc, calls, restarts, marks>>

\* PATCH /config sets it on get_settings()'s object, which the risk engine may get
\* to see at the next run only: such a word is not held against this one.
patch_config(on) ==
    /\ kill' = [kill EXCEPT ![current] = on]
    /\ armed' = (on /\ (armed \/ risk_s = current))
    /\ UNCHANGED <<table, stats, today, current, risk_s, pc, calls, restarts, marks>>

\* POST /config/reload has get_settings() build a new object from the environment,
\* where the switch is off; the risk engine keeps the old object.
reload_from_env ==
    /\ current < MaxReloads
    /\ current' = current + 1
    /\ armed' = FALSE
    /\ UNCHANGED <<table, stats, today, kill, risk_s, pc, calls, restarts, marks>>

----------------------------------------------------------------------------

Pipeline(p) ==
    \/ Run(p) \/ Refresh(p) \/ Abandon(p)
    \/ CheckDay(p) \/ ResetDay(p)
    \/ Evaluate(p, TRUE) \/ Evaluate(p, FALSE)
    \/ \E t \in Trades : Execute(p, t)
    \/ record_trade_open(p)

Endpoint(p) ==
    \/ \E t \in Trades : place_manual(p, t)
    \/ \E t \in Trades, x \in Outcomes : close_trade(p, t, x)
    \/ force_close_all(p)
    \/ RecordCloseRead(p)
    \/ \E t \in Trades : RecordCloseWrite(p, t)

LedgerNext ==
    \/ \E p \in Procs : Pipeline(p) \/ Endpoint(p)
    \/ \E t \in Trades, x \in Outcomes : TickCloses(t, x)
    \/ \E on \in BOOLEAN : killswitch(on) \/ patch_config(on)
    \/ reload_from_env \/ NextDay \/ Restart

LedgerSpec == LedgerInit /\ [][LedgerNext]_vars

----------------------------------------------------------------------------
(* Properties.                                                                 *)

\* The shape of the state; the counters of the ledger never go below zero, and an
\* endpoint that is to record a close has a CLOSED trade to record.
LedgerTypeOK ==
    /\ status \in [Trades -> Statuses]
    /\ pnl \in [Trades -> Int]
    /\ realized \in Int
    /\ stats \in [trades_today : Nat, open_positions : Nat, realized_pnl_today : Int,
                  last_reset : 1 .. MaxDay]
    /\ today \in 1 .. MaxDay
    /\ kill \in [0 .. MaxReloads -> BOOLEAN]
    /\ current \in 0 .. MaxReloads /\ risk_s \in 0 .. MaxReloads
    /\ run_s \in [Procs -> 0 .. MaxReloads]
    /\ pc \in [Procs -> {"idle", "refresh", "validate", "reset", "gates",
                         "approved", "executed", "record", "write"}]
    /\ pending \in [Procs -> SUBSET {t \in Trades : status[t] = "CLOSED"}]
    /\ \A p \in Procs : pc[p] \in {"record", "write"} <=> pending[p] # {}
    /\ reg \in [Procs -> Nat]
    /\ restarts \in 0 .. MaxRestarts
    /\ ledger \in SUBSET {t \in Trades : status[t] # "absent"}
    /\ api_closed \in BOOLEAN /\ armed \in BOOLEAN

\* Rule 5 of the risk engine, max_trades_per_day, as far as a gate that is checked
\* before the order and counted after it can keep it: the trades of a day's ledger
\* exceed the cap by at most one per other pipeline, so a lone scheduler keeps it.
TradeCap == Cardinality(ledger) <= MaxTrades + Cardinality(Procs) - 1

\* Rule 4, max_open_positions, as far as the ledger can keep it: while no endpoint
\* has recorded a close, the trades of this ledger that are open exceed the cap by
\* at most one per other pipeline (the tick's closes only make the count too high).
OpenCap ==
    ~ api_closed =>
        Cardinality(ledger \cap OpenTrades) <= MaxOpen + Cardinality(Procs) - 1

Approves(p) == pc[p] # "approved" /\ pc'[p] = "approved"

\* Rule 1: the kill switch, once set, stops every pipeline that has not passed the
\* gates, those already waiting for the language model included, in a process that
\* has not reloaded its settings.
KillSwitchHolds == [][armed /\ current = 0 => \A p \in Procs : ~ Approves(p)]_vars

\* Rule 1 without that condition, as the endpoint's docstring has it (toggle the
\* runtime kill switch): after it was set, no signal is approved.
KillSwitchBlocks == [][armed => \A p \in Procs : ~ Approves(p)]_vars

\* Rule 3, the daily loss cap: no signal is approved once the trades closed today
\* have lost the cap.
DailyLossStops ==
    [][\A p \in Procs : Approves(p) => realized > - LossCap]_vars
====
