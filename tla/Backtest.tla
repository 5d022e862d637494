---- MODULE Backtest ----
(* The batch backtester: batch_backtest.py fetches a symbol's candles in chunks,  *)
(* runs an engine of backtest/runner.py bar by bar, and appends the results to two *)
(* files.  The engines share the walk of a trade through the bars; they differ in  *)
(* what decides an entry: one strategy alone (also in windows, walk_forward), the  *)
(* vote of several, or the live pipeline with a risk engine of its own.            *)
EXTENDS Strategies, Sequences

CONSTANTS
    Bars,                \* the candles that may come
    Modes,               \* of the batch: "baseline", "walk_forward", "live_parity",
                         \* "orchestrator_parity", "ensemble"
    Optimized,           \* those of them that are given --use-optimized
    Soloists, Teams,     \* strategies run alone, sets of strategies run together
    Count,               \* symbols in the list
    Lengths,             \* candles a fetched frame may have
    Warmup, TrainBars, TestBars,
    Memory, Cooldown,    \* signal_memory_ticks, signal_cooldown_ticks
    TrailMult,           \* trailing_atr_mult
    Capital, Slip, Brokerage,
    AdjustedStops,       \* stops a language model may answer with
    MaxTrades, LossCap,  \* the risk engine's caps on a day
    Chunks,              \* of the fetched period
    MaxAttempts,         \* to fetch one of them (5)
    MaxMidnights         \* bound: midnights of the host during a run

ASSUME BacktestAssumption ==
    /\ Bars \subseteq [low : Nat, close : Nat, high : Nat, atr : Nat]
    /\ \A b \in Bars : b.low <= b.close /\ b.close <= b.high
    /\ Optimized \subseteq Modes
    /\ Soloists \subseteq AllStrategies /\ Teams \subseteq SUBSET AllStrategies
    /\ {Count, TestBars, Chunks, MaxAttempts} \subseteq Nat \ {0}
    /\ {Warmup, TrainBars, Memory, Cooldown, TrailMult, Capital, Slip, Brokerage,
        MaxTrades, LossCap, MaxMidnights} \subseteq Nat
    /\ Lengths \subseteq Nat /\ AdjustedStops \subseteq Int

VARIABLES
    pc, mode,
    sure,                \* --min-confidence was given with --ensemble
    symbol,              \* the number of the symbol in the list
    chunk, attempt,      \* of the fetch
    got, blank,          \* chunks with candles, chunks skipped as empty
    n,                   \* candles in the frame
    leg,                 \* the mode's own engine, or the ensemble that --ensemble adds
    team,                \* the strategies
    i, upto,             \* the bar's index, and the end of the frame or window
    bar,                 \* the bar
    trade,               \* open_trade
    tick,                \* the pipeline's counter of runs
    last,                \* last_signal_bar, or the pipeline's last selection
    recent,              \* the signal buffer: the last signal of each strategy
    capital,
    ledger, today,       \* the pipeline's risk engine, the host's days since it started
    summaries, rows,     \* symbols in results.csv and trades.csv
    \* History, for the properties only:
    reason,              \* why the last trade was closed
    entered              \* trades of this engine

fetch == <<chunk, attempt, got, blank>>
frame == <<n, leg, team>>
memory == <<tick, last, recent>>
money == <<capital, ledger>>
files == <<summaries, rows>>
vars == <<pc, mode, sure, symbol, fetch, frame, i, upto, bar, trade, memory, money, today,
          files, reason, entered>>

Flat == [side |-> "none"]
Never == -1
NoBar == [low |-> 0, close |-> 0, high |-> 0, atr |-> 0]
DailyStats(d) == [trades |-> 0, open |-> 0, pnl |-> 0, day |-> d]

Engine ==
    IF leg = "extra" \/ mode = "live_parity" THEN "ensemble"
    ELSE IF mode = "orchestrator_parity" THEN "pipeline" ELSE "single"

\* What generate can return; it is handed no higher timeframe.
Signals == [t \in Teams \cup {{s} : s \in Soloists} |-> [b \in Bars |-> Generated(t, b, {0})]]

BatchInit ==
    /\ mode \in Modes /\ sure \in IF mode = "ensemble" THEN BOOLEAN ELSE {FALSE}
    /\ pc = "fetch" /\ symbol = 1
    /\ chunk = 1 /\ attempt = 0 /\ got = {} /\ blank = {}
    /\ n = 0 /\ leg = "main" /\ team = {} /\ i = 0 /\ upto = 0
    /\ bar = NoBar /\ trade = Flat
    /\ tick = 0 /\ last = Never /\ recent = {}
    /\ capital = Capital /\ ledger = DailyStats(0) /\ today = 0
    /\ summaries = <<>> /\ rows = <<>>
    /\ reason = "none" /\ entered = 0

\* The locals of a fetch.
NoFetch == chunk' = 1 /\ attempt' = 0 /\ got' = {} /\ blank' = {}

\* On to the next symbol of the list.
NextSymbol ==
    /\ pc' = IF symbol = Count THEN "done" ELSE "fetch"
    /\ symbol' = symbol + 1
    /\ NoFetch
    /\ n' = 0 /\ leg' = "main" /\ team' = {} /\ i' = 0 /\ upto' = 0

\* An engine starts with nothing: no trade, no memory, its capital, a risk engine.
Afresh ==
    /\ trade' = Flat /\ bar' = NoBar
    /\ tick' = 0 /\ last' = Never /\ recent' = {}
    /\ capital' = Capital /\ ledger' = DailyStats(0) /\ today' = 0
    /\ reason' = "none" /\ entered' = 0

\* _run_symbol catches what the fetch or the engine raises, and skips the symbol.
Skip == NextSymbol /\ Afresh /\ UNCHANGED <<mode, sure, files>>

----------------------------------------------------------------------------
(* _fetch_real_data.                                                           *)

NextChunk ==
    /\ chunk' = chunk + 1 /\ attempt' = 0
    /\ UNCHANGED <<pc, mode, sure, symbol, frame, i, upto, bar, trade, memory, money, today,
                   files, reason, entered>>

Fetching == pc = "fetch" /\ chunk <= Chunks

\* The answer is a frame, which has rows: the session raises if there are none.
FetchPart ==
    /\ Fetching
    /\ got' = got \cup {chunk} /\ UNCHANGED blank
    /\ NextChunk

\* The answer is an error that says there is no data: the chunk is skipped, but not as
\* long as none has come.
FetchEmpty ==
    /\ Fetching
    /\ IF got = {} THEN Skip
       ELSE blank' = blank \cup {chunk} /\ UNCHANGED got /\ NextChunk

\* Mutant: the last attempt's error is not raised but leaves an empty part.
RateLimited_GivesUp ==
    /\ Fetching
    /\ IF attempt = MaxAttempts - 1 THEN UNCHANGED <<got, blank>> /\ NextChunk
       ELSE /\ attempt' = attempt + 1
            /\ UNCHANGED <<pc, mode, sure, symbol, chunk, got, blank, frame, i, upto, bar, trade,
                           memory, money, today, files, reason, entered>>

\* Wait and try again, up to the last attempt.
RateLimited ==
    /\ Fetching
    /\ IF attempt = MaxAttempts - 1 THEN Skip
       ELSE /\ attempt' = attempt + 1
            /\ UNCHANGED <<pc, mode, sure, symbol, chunk, got, blank, frame, i, upto, bar, trade,
                           memory, money, today, files, reason, entered>>

FetchFails == Fetching /\ Skip

\* The chunks are put together, duplicates dropped.
Fetched ==
    /\ pc = "fetch" /\ chunk > Chunks
    /\ pc' = "start"
    /\ n' \in Lengths
    /\ UNCHANGED <<mode, sure, symbol, fetch, leg, team, i, upto, bar, trade, memory, money, today,
                   files, reason, entered>>

----------------------------------------------------------------------------
(* The engines.                                                                *)

Goto(l) == pc' = l

\* The engine evaluates bars from .. to - 1.
Over(from, to) == i' = from /\ upto' = to

\* walk_forward's window from bar ws, its slice beginning with the bars of the warm-up.
Window(ws) ==
    IF ws + TestBars > n THEN Over(n, n)
    ELSE Over((IF ws > Warmup THEN ws - Warmup ELSE 0) + Warmup, ws + TestBars)

\* run_orchestrator_parity_backtest reads the first bar after the warm-up, and
\* walk_forward the first after the training window, if there is one or not.
TooShort ==
    \/ Engine = "pipeline" /\ n <= Warmup
    \/ mode = "walk_forward" /\ n <= TrainBars

\* run_backtest loops over the strategies one by one; one of them is followed.
Start ==
    /\ pc = "start"
    /\ IF TooShort THEN Skip
       ELSE /\ team' \in IF Engine = "single" THEN {{s} : s \in Soloists} ELSE Teams
            /\ IF mode = "walk_forward" THEN Window(TrainBars) ELSE Over(Warmup, n)
            /\ Goto("bar")
            /\ Afresh /\ NoFetch
            /\ UNCHANGED <<mode, sure, symbol, n, leg, files>>

LoadsParams == mode = "live_parity" \/ mode \in Optimized

\* The symbol's parameter file is no mapping of mappings, or names a parameter that a
\* strategy does not have: it is read between the two try blocks.  (A file that does not
\* parse is as good as none.)
ParamsRaise ==
    /\ pc = "start" /\ leg = "main" /\ LoadsParams
    /\ Goto("params raised")
    /\ UNCHANGED <<mode, sure, symbol, fetch, frame, i, upto, bar, trade, memory, money, today,
                   files, reason, entered>>

NextBar(b) ==
    /\ pc = "bar" /\ i < upto
    /\ bar' = b
    /\ Goto(IF trade = Flat THEN "enter" ELSE "exit")
    /\ UNCHANGED <<mode, sure, symbol, fetch, frame, i, upto, trade, memory, money, today,
                   files, reason, entered>>

\* The bar is done.
Advance == Goto("bar") /\ i' = i + 1

----------------------------------------------------------------------------
(* _simulate_trade and _close_eod.                                             *)

Stopped == IF trade.side = "BUY" THEN bar.low <= trade.stop ELSE bar.high >= trade.stop

Reached == IF trade.side = "BUY" THEN bar.high >= trade.target ELSE bar.low <= trade.target

\* Slippage and half the brokerage; the pipeline's backtest has neither.
ExitCosts(qty) == IF Engine = "pipeline" THEN 0 ELSE Slip * qty + Brokerage \div 2

Pnl(price) == Sgn(trade.side) * (price - trade.entry) * trade.qty - ExitCosts(trade.qty)

MaxZero(k) == IF k < 0 THEN 0 ELSE k

\* The record; the pipeline's risk engine is told.
Close(price, why) ==
    /\ capital' = capital + Pnl(price)
    /\ ledger' = IF Engine # "pipeline" THEN ledger
                 ELSE [ledger EXCEPT !.open = MaxZero(@ - 1), !.pnl = @ + Pnl(price)]
    /\ trade' = Flat
    /\ reason' = why

\* At the stop's price, whatever the bar's prices were.
StopOut ==
    /\ pc = "exit" /\ Stopped
    /\ Close(trade.stop, IF trade.trailed THEN "trailing" ELSE "stop")
    /\ Goto("enter")
    /\ UNCHANGED <<mode, sure, symbol, fetch, frame, i, upto, bar, memory, today, files, entered>>

\* Mutant: the target is looked at first.
TakeProfit_First ==
    /\ pc = "exit" /\ Reached
    /\ Close(trade.target, "target")
    /\ Goto("enter")
    /\ UNCHANGED <<mode, sure, symbol, fetch, frame, i, upto, bar, memory, today, files, entered>>

TakeProfit ==
    /\ pc = "exit" /\ ~ Stopped /\ Reached
    /\ Close(trade.target, "target")
    /\ Goto("enter")
    /\ UNCHANGED <<mode, sure, symbol, fetch, frame, i, upto, bar, memory, today, files, entered>>

\* Mutant: the trailing stop may move either way.
Trailed_Loose ==
    IF TrailMult > 0 /\ bar.atr > 0
    THEN [trade EXCEPT !.stop = bar.close - Sgn(trade.side) * TrailMult * bar.atr,
                       !.trailed = TRUE]
    ELSE trade

\* The trailing stop follows the close, and only in the trade's favour.
Trailed ==
    LET stop == bar.close - Sgn(trade.side) * TrailMult * bar.atr
    IN IF TrailMult > 0 /\ bar.atr > 0 /\ Sgn(trade.side) * (stop - trade.stop) > 0
       THEN [trade EXCEPT !.stop = stop, !.trailed = TRUE]
       ELSE trade

Hold ==
    /\ pc = "exit" /\ ~ Stopped /\ ~ Reached
    /\ trade' = Trailed
    /\ Advance
    /\ UNCHANGED <<mode, sure, symbol, fetch, frame, upto, bar, memory, money, today, files,
                   reason, entered>>

\* What is open after the last bar is closed at that bar's close.
CloseOut ==
    /\ pc = "bar" /\ i >= upto /\ trade # Flat
    /\ Close(bar.close, "eod")
    /\ UNCHANGED <<pc, mode, sure, symbol, fetch, frame, i, upto, bar, memory, today, files,
                   entered>>

----------------------------------------------------------------------------
(* Entries.                                                                    *)

\* The engines count bars, the pipeline its runs, of which this is the next.
Clock == IF Engine = "pipeline" THEN tick + 1 ELSE i

Cooling == last # Never /\ Cooldown > 0 /\ Clock - last < Cooldown

\* Of each strategy the last signal of the window.
Merged(signals) ==
    LET new == {[at |-> Clock, sig |-> s] : s \in signals}
        spoke == {s.strategy : s \in signals}
        young == {r \in recent : r.at > Clock - Memory /\ r.sig.strategy \notin spoke}
    IN IF Engine = "single" \/ Memory <= 1 THEN new ELSE new \cup young

Remembered(merged) == IF Engine = "single" \/ Memory <= 1 THEN {} ELSE merged

\* One strategy alone has its most confident signal, of which it has one.
Candidates(merged) ==
    LET picks == Picks({q.sig : q \in merged})
    IN IF Engine = "single" THEN merged ELSE {r \in merged : r.sig \in picks}

\* A trade, as of the bar; the history fields say what it was sized to lose, by what
\* stop, and whether its signal was an earlier bar's.
Open(r, entry, qty, budget, sized_by) ==
    [side |-> r.sig.side, entry |-> entry, stop |-> r.sig.stop, target |-> r.sig.target,
     qty |-> qty, bar |-> i, trailed |-> FALSE,
     by |-> r.sig.strategy, first |-> r.sig.stop, budget |-> budget,
     adjusted |-> sized_by # r.sig.stop, stale |-> r.at # Clock]

PassOver(merged) ==
    /\ recent' = Remembered(merged)
    /\ UNCHANGED <<trade, last, ledger, entered>>

\* Mutant: a size of nothing is a trade.
TryEntry_Empty(r, merged) ==
    LET entry == bar.close + Sgn(r.sig.side) * Slip
        qty == position_size(capital, entry, r.sig.stop)
    IN IF PassesRR(r.sig)
       THEN /\ trade' = Open(r, entry, qty, Budget(capital), r.sig.stop)
            /\ last' = i
            /\ recent' = Remembered(merged)
            /\ entered' = entered + 1
            /\ UNCHANGED ledger
       ELSE PassOver(merged)

\* Filled at the bar's close, with slippage.
TryEntry(r, merged) ==
    LET entry == bar.close + Sgn(r.sig.side) * Slip
        qty == position_size(capital, entry, r.sig.stop)
    IN IF PassesRR(r.sig) /\ qty >= 1
       THEN /\ trade' = Open(r, entry, qty, Budget(capital), r.sig.stop)
            /\ last' = i
            /\ recent' = Remembered(merged)
            /\ entered' = entered + 1
            /\ UNCHANGED ledger
       ELSE PassOver(merged)

\* The risk engine, on the day of the host's clock.
OfToday == IF ledger.day = today THEN ledger ELSE DailyStats(today)

Gates(sig, stop) ==
    /\ OfToday.trades < MaxTrades
    /\ OfToday.open < 1
    /\ OfToday.pnl > - LossCap
    /\ position_size(Capital, sig.entry, stop) >= 1
    /\ PassesRR([sig EXCEPT !.stop = stop])

\* Mutant: the risk engine does not learn of the trade.
Executed_Unrecorded(sig, stop) == OfToday

\* record_trade_open.
Executed(sig, stop) == [OfToday EXCEPT !.trades = @ + 1, !.open = @ + 1]

\* Orchestrator.run after the vote: the model may reject, or adjust the stop of the
\* signal, which stays so in the buffer; the gates and the size go by the adjusted
\* stop, the outcome carries the one before.
RunPipeline(r, merged) ==
    /\ last' = Clock
    /\ \/ recent' = Remembered(merged) /\ UNCHANGED <<trade, ledger, entered>>
       \/ \E stop \in AdjustedStops \cup {r.sig.stop} :
            /\ recent' = Remembered((merged \ {r}) \cup {[r EXCEPT !.sig.stop = stop]})
            /\ IF Gates(r.sig, stop)
               THEN LET qty == position_size(Capital, r.sig.entry, stop) IN
                    /\ trade' = Open(r, bar.close, qty, Budget(Capital), stop)
                    /\ ledger' = Executed(r.sig, stop)
                    /\ entered' = entered + 1
               ELSE ledger' = OfToday /\ UNCHANGED <<trade, entered>>

\* Mutant: live parity hands the option on as it is, too.
VoteRaises_Live(merged) == (leg = "extra" \/ mode = "live_parity") /\ ~ sure /\ merged # {}

\* The vote of the extra ensemble compares confidences with the option's value.
VoteRaises(merged) == leg = "extra" /\ ~ sure /\ merged # {}

Cool ==
    /\ pc = "enter" /\ Cooling
    /\ tick' = IF Engine = "pipeline" THEN tick + 1 ELSE tick
    /\ Advance
    /\ UNCHANGED <<mode, sure, symbol, fetch, frame, upto, bar, trade, last, recent, money, today,
                   files, reason, entered>>

Decide(signals) ==
    LET merged == Merged(signals)
        candidates == Candidates(merged)
    IN /\ pc = "enter" /\ ~ Cooling /\ ~ VoteRaises(merged)
       /\ tick' = IF Engine = "pipeline" THEN tick + 1 ELSE tick
       /\ IF candidates = {} THEN PassOver(merged)
          ELSE \E r \in candidates :
                   IF Engine = "pipeline" THEN RunPipeline(r, merged) ELSE TryEntry(r, merged)
       /\ Advance
       /\ UNCHANGED <<mode, sure, symbol, fetch, frame, upto, bar, capital, today, files, reason>>

\* The added ensemble runs outside the try that skips a symbol.
BatchDies(signals) ==
    /\ pc = "enter" /\ ~ Cooling /\ VoteRaises(Merged(signals))
    /\ Goto("vote raised")
    /\ UNCHANGED <<mode, sure, symbol, fetch, frame, i, upto, bar, trade, memory, money, today,
                   files, reason, entered>>

\* An answer of the model that is no object of numbers raises out of the pipeline.
AnswerRaises(signals) ==
    /\ pc = "enter" /\ Engine = "pipeline" /\ ~ Cooling
    /\ Candidates(Merged(signals)) # {}
    /\ Skip

\* The host's clock passes midnight while the pipeline's backtest runs; only its
\* entries read the clock, so that once per bar is enough.
Midnight ==
    /\ Engine = "pipeline" /\ pc = "bar" /\ today < MaxMidnights
    /\ today' = today + 1
    /\ UNCHANGED <<pc, mode, sure, symbol, fetch, frame, i, upto, bar, trade, memory, money,
                   files, reason, entered>>

----------------------------------------------------------------------------
(* The end of a run.                                                           *)

\* The next window is a run of its own; the engine that --ensemble adds comes last.
EndRun ==
    /\ pc = "bar" /\ i >= upto /\ trade = Flat
    /\ Afresh
    /\ IF mode = "walk_forward" /\ upto + TestBars <= n
       THEN Window(upto) /\ UNCHANGED <<pc, leg>>
       ELSE /\ IF mode = "ensemble" /\ leg = "main"
               THEN Goto("start") /\ leg' = "extra"
               ELSE Goto("summaries") /\ UNCHANGED leg
            /\ UNCHANGED <<i, upto>>
    /\ UNCHANGED <<mode, sure, symbol, fetch, n, team, files>>

AppendSummaries ==
    /\ pc = "summaries"
    /\ summaries' = Append(summaries, symbol)
    /\ Goto("rows")
    /\ UNCHANGED <<mode, sure, symbol, fetch, frame, i, upto, bar, trade, memory, money, today,
                   rows, reason, entered>>

AppendTrades ==
    /\ pc = "rows"
    /\ rows' = Append(rows, symbol)
    /\ NextSymbol /\ Afresh
    /\ UNCHANGED <<mode, sure, summaries>>

\* The disk is full, say; what the file got of the symbol's rows by then may stay.
AppendRaises ==
    /\ \/ pc = "summaries" /\ summaries' \in {summaries, Append(summaries, symbol)} /\ UNCHANGED rows
       \/ pc = "rows" /\ rows' \in {rows, Append(rows, symbol)} /\ UNCHANGED summaries
    /\ Goto("append raised")
    /\ UNCHANGED <<mode, sure, symbol, fetch, frame, i, upto, bar, trade, memory, money, today,
                   reason, entered>>

Fetch == FetchPart \/ FetchEmpty \/ RateLimited \/ FetchFails \/ Fetched

Exits == StopOut \/ TakeProfit \/ Hold \/ CloseOut

Entries ==
    Cool \/ \E s \in Signals[team][bar] : Decide(s) \/ BatchDies(s) \/ AnswerRaises(s)

BatchNext ==
    \/ Fetch \/ ParamsRaise \/ Start \/ Exits
    \/ \E b \in Bars : NextBar(b)
    \/ pc = "enter" /\ Entries
    \/ EndRun \/ AppendSummaries \/ AppendTrades \/ AppendRaises \/ Midnight

\* The batch is one sequential program.
BatchSpec == BatchInit /\ [][BatchNext]_vars /\ WF_vars(BatchNext)

----------------------------------------------------------------------------
(* Properties.                                                                 *)

BacktestTypeOK ==
    /\ pc \in {"fetch", "start", "bar", "exit", "enter", "summaries", "rows", "done",
              "vote raised", "params raised", "append raised"}
    /\ mode \in Modes /\ sure \in BOOLEAN /\ leg \in {"main", "extra"}
    /\ symbol \in 1 .. Count + 1 /\ chunk \in 1 .. Chunks + 1
    /\ attempt \in 0 .. MaxAttempts - 1
    /\ got \cup blank \subseteq 1 .. Chunks
    /\ n \in Lengths \cup {0} /\ i \in Nat /\ upto \in Nat
    /\ bar \in Bars \cup {NoBar}
    /\ trade = Flat \/ (/\ trade.side \in Sides /\ trade.bar \in 0 .. i
                       /\ trade.qty >= 1 /\ trade.qty % LotSize = 0)
    /\ tick \in Nat /\ last \in Nat \cup {Never}
    /\ \A r, q \in recent : r.sig.strategy = q.sig.strategy => r = q
    /\ capital \in Int /\ ledger.open \in {0, 1} /\ today \in 0 .. MaxMidnights

\* The engines' promise of risk_pct: a trade, however long it is held and however it is
\* closed, loses no more than its share of the capital it was opened on, or, closed with
\* the bar that opened it, the slippage of its entry, plus the costs of the exit.  (The
\* slippage can be more than the share: a Supertrend stop beyond the close may lie next
\* to the slipped entry, and the size goes by their distance.)  The pipeline promises
\* less: a signal remembered from an earlier bar is sized by that bar's price and filled
\* at this one's, and a stop that the model adjusted is not the one the trade is closed at.
LossBounded ==
    [][LET at_once == reason' = "eod" /\ i = trade.bar + 1
       IN trade # Flat /\ trade' = Flat /\ (Engine # "pipeline" \/ ~ (trade.adjusted \/ trade.stale))
          => capital - capital' <= (IF at_once THEN Slip * trade.qty ELSE trade.budget)
                                   + ExitCosts(trade.qty)]_vars

\* What exit_reason says is what happened: stops and targets are of a later bar than the
\* entry, a bar that reaches both is a loss, "stop" is the first stop and "trailing" a
\* better one.  The two ways to profit from a stop, both of them paper money, are a
\* signal remembered from another price and a Supertrend line beyond the close.  A target
\* loses at most the slippage, unless its signal is from another price.
ExitsExplained ==
    [][LET gross == capital' - capital + ExitCosts(trade.qty)
           at_first == Sgn(trade.side) * (trade.first - trade.entry) * trade.qty
       IN trade # Flat /\ trade' = Flat =>
            /\ reason' # "eod" => trade.bar < i
            /\ reason' = "stop" =>
                /\ gross = at_first
                /\ gross > 0 => trade.stale \/ trade.by = "supertrend"
            /\ reason' = "trailing" => gross > at_first
            /\ reason' = "target" =>
                /\ ~ Stopped
                /\ gross + Slip * trade.qty < 0 => trade.stale]_vars

\* The parity backtest keeps two accounts, its own and its risk engine's.  They agree on
\* what is open; until the host's midnight they agree on what was made, and the caps of
\* one day bind however many days of candles are played.
ParityLedger ==
    Engine = "pipeline" /\ leg = "main" =>
        /\ ledger.open = IF trade = Flat THEN 0 ELSE 1
        /\ ledger.day = 0 => ledger.pnl = capital - Capital /\ ledger.trades = entered
        /\ entered <= MaxTrades * (1 + today)

\* No engine runs on a part of the period: every chunk was answered, retries included,
\* with candles or with none.  A symbol's rows are written at most once, in the list's
\* order, its trades after its summary; where an append raised, only the last symbol may
\* lack them.
WholeDataOnly ==
    /\ pc = "start" /\ leg = "main" => got \cup blank = 1 .. Chunks /\ got # {}
    /\ \A a, b \in DOMAIN summaries : a < b => summaries[a] < summaries[b]
    /\ rows = SubSeq(summaries, 1, Len(rows))
    /\ Len(summaries) - Len(rows) \in IF pc = "append raised" THEN {0, 1}
                                      ELSE IF pc = "rows" THEN {1} ELSE {0}

\* Whatever the fetch of a symbol, an engine or the pipeline raises, the batch comes to
\* the end of its list.  Three things end it early, all of them outside the two try
\* blocks: the vote of --ensemble without --min-confidence, a parameter file in the modes
\* that read one, and the append of the rows.
BatchKeepsGoing ==
    <>(\/ pc \in {"done", "append raised"}
       \/ pc = "vote raised" /\ mode = "ensemble" /\ ~ sure
       \/ pc = "params raised" /\ LoadsParams)
====
