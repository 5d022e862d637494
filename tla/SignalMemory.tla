---- MODULE SignalMemory ----
(* Orchestrator.run up to the language model: the run counter, the cooldown, the *)
(* buffer of recent signals and the vote of the strategies.  One orchestrator is *)
(* shared by the scheduler's tick, which runs its symbols one after the other,   *)
(* and by /analyze in thread-pool threads; nothing is locked.  A reload or a     *)
(* restart makes a new orchestrator that knows nothing, so this is the life of   *)
(* one.                                                                          *)
EXTENDS Integers, Sequences, FiniteSets, FiniteSetsExt

CONSTANTS
    Loop,                \* the event loop: the tick
    Threads,             \* /analyze
    Symbols,             \* the watchlist (its order is left open)
    Signals,             \* [strategy, side, confidence] a strategy may emit
    Window,              \* signal_memory_ticks
    Cooldown,            \* signal_cooldown_ticks
    MinAgree,            \* min_strategy_agreement
    MinConf,             \* min_signal_confidence
    MaxRuns,             \* bound: runs of the orchestrator
    MaxTicks             \* bound: ticks of the scheduler

Procs == Threads \cup {Loop}
Strategies == {g.strategy : g \in Signals}
Sides == {g.side : g \in Signals}

\* With Window 1 a run votes on its own signals only; the model has the memory on.
ASSUME MemoryAssumption ==
    /\ Window \in Nat \ {0, 1} /\ Cooldown \in Nat /\ MinAgree \in Nat \ {0}
    /\ MaxRuns \in Nat /\ MaxTicks \in Nat /\ MinConf \in Nat
    /\ Symbols # {}
    /\ IsFiniteSet(Signals) /\ \A g \in Signals : g.confidence \in Nat

VARIABLES
    tick_counter,        \* _tick_counter
    signal_buffer,       \* _signal_buffer, per symbol
    last_signal_tick,    \* _last_signal_tick, per symbol (0: none)
    todo,                \* the symbols the tick still has to run
    pc,                  \* where each process is
    run,                 \* its locals in Orchestrator.run
    \* History, for the properties only:
    ticks,               \* ticks of the scheduler
    spoken,              \* per symbol and strategy the last entry appended
    picked               \* per process and symbol tick_counter at its last selection

shared == <<tick_counter, signal_buffer, last_signal_tick>>
history == <<ticks, spoken, picked>>
vars == <<shared, todo, pc, run, history>>

\* A stamped signal; with it, for the properties, tick_counter and the scheduler's
\* tick when it was appended.
Entries == [tick : 0 .. MaxRuns, signal : Signals, at : 0 .. MaxRuns, round : 0 .. MaxTicks]
Nothing == [tick |-> 0]

\* The symbol; what was generated and is not yet in the buffer; what was read of
\* last_signal_tick and, to stamp the signals, of tick_counter; what is voted on.
Locals == [symbol : Symbols, signals : SUBSET Signals, last_tick : 0 .. MaxRuns,
           tick : 0 .. MaxRuns, merged : SUBSET Entries]
NoRun == [symbol |-> CHOOSE s \in Symbols : TRUE, signals |-> {}, last_tick |-> 0,
          tick |-> 0, merged |-> {}]

MemoryInit ==
    /\ tick_counter = 0
    /\ signal_buffer = [s \in Symbols |-> <<>>]
    /\ last_signal_tick = [s \in Symbols |-> 0]
    /\ todo = {}
    /\ pc = [p \in Procs |-> "idle"]
    /\ run = [p \in Procs |-> NoRun]
    /\ ticks = 0
    /\ spoken = [s \in Symbols |-> [st \in Strategies |-> Nothing]]
    /\ picked = [p \in Procs |-> [s \in Symbols |-> 0]]

Goto(p, l) == pc' = [pc EXCEPT ![p] = l]

\* Mutant: the signals of a run outlive it.
Returns_Keeping(p) == Goto(p, "idle") /\ UNCHANGED run

Returns(p) == Goto(p, "idle") /\ run' = [run EXCEPT ![p] = NoRun]

----------------------------------------------------------------------------
(* The run.                                                                    *)

\* A tick runs the symbols that have candles and are not in a trade.
StartTick ==
    /\ pc[Loop] = "idle" /\ todo = {} /\ ticks < MaxTicks
    /\ todo' \in SUBSET Symbols
    /\ ticks' = ticks + 1
    /\ UNCHANGED <<shared, pc, run, spoken, picked>>

\* generate: at most one signal per strategy.
Generated == {G \in SUBSET Signals : \A g, h \in G : g.strategy = h.strategy => g = h}

\* run generates, counts itself and looks up when the symbol was last selected...
Run(p, s) ==
    /\ pc[p] = "idle" /\ tick_counter < MaxRuns
    /\ IF p = Loop THEN s \in todo /\ todo' = todo \ {s} ELSE UNCHANGED todo
    /\ \E G \in Generated :
         run' = [run EXCEPT ![p] = [symbol |-> s, signals |-> G, tick |-> 0, merged |-> {},
                                   last_tick |-> last_signal_tick[s]]]
    /\ tick_counter' = tick_counter + 1
    /\ Goto(p, "cooldown")
    /\ UNCHANGED <<signal_buffer, last_signal_tick, history>>

\* Mutant: the cooldown is over one run early.
InCooldown_Early(p) ==
    run[p].last_tick # 0 /\ Cooldown > 0 /\ tick_counter - run[p].last_tick < Cooldown - 1

InCooldown(p) ==
    run[p].last_tick # 0 /\ Cooldown > 0 /\ tick_counter - run[p].last_tick < Cooldown

\* ...in the cooldown its signals are dropped...
CheckCooldown(p) ==
    /\ pc[p] = "cooldown"
    /\ IF InCooldown(p) THEN Returns(p) ELSE Goto(p, "merge") /\ UNCHANGED run
    /\ UNCHANGED <<shared, todo, history>>

\* ..._merge_with_buffer reads the counter again, for others may have run...
Merge(p) ==
    /\ pc[p] = "merge"
    /\ run' = [run EXCEPT ![p].tick = tick_counter]
    /\ Goto(p, "append")
    /\ UNCHANGED <<shared, todo, history>>

Buffer(p) == signal_buffer[run[p].symbol]

\* A deque that changes while it is iterated makes the iteration raise.
Disturbed(p, l) ==
    pc' = [q \in Procs |->
             IF q = p THEN l
             ELSE IF pc[q] = "collect" /\ run[q].symbol = run[p].symbol THEN "raises" ELSE pc[q]]

\* ...appends the signals stamped with it (in any order: the vote does not tell)...
AppendSignal(p) ==
    /\ pc[p] = "append"
    /\ \E g \in run[p].signals :
         LET e == [tick |-> run[p].tick, signal |-> g, at |-> tick_counter, round |-> ticks] IN
         /\ signal_buffer' = [signal_buffer EXCEPT ![run[p].symbol] = Append(@, e)]
         /\ spoken' = [spoken EXCEPT ![run[p].symbol][g.strategy] = e]
         /\ run' = [run EXCEPT ![p].signals = @ \ {g}]
    /\ Disturbed(p, "append")
    /\ UNCHANGED <<tick_counter, last_signal_tick, todo, ticks, picked>>

\* Mutant: the window is one run longer than its name says.
Expired_Late(p) ==
    /\ Buffer(p) # <<>>
    /\ Head(Buffer(p)).tick < run[p].tick - Window

Expired(p) ==
    /\ Buffer(p) # <<>>
    /\ Head(Buffer(p)).tick <= run[p].tick - Window

\* ...drops old entries one by one from the front...
Prune(p) ==
    /\ pc[p] = "append" /\ run[p].signals = {}
    /\ Expired(p)
    /\ signal_buffer' = [signal_buffer EXCEPT ![run[p].symbol] = Tail(@)]
    /\ Disturbed(p, "append")
    /\ UNCHANGED <<tick_counter, last_signal_tick, todo, run, history>>

\* ...iterates over what is left, if anything...
Pruned(p) ==
    /\ pc[p] = "append" /\ run[p].signals = {}
    /\ ~ Expired(p)
    /\ IF Buffer(p) = <<>> THEN Returns(p) ELSE Goto(p, "collect") /\ UNCHANGED run
    /\ UNCHANGED <<shared, todo, history>>

\* Mutant: every entry has a vote.
Latest_All(buf) == {buf[i] : i \in DOMAIN buf}

\* Mutant: a strategy keeps its oldest entry.
Latest_Oldest(buf) ==
    {buf[i] : i \in {j \in DOMAIN buf :
                       \A k \in 1 .. j - 1 : buf[k].signal.strategy # buf[j].signal.strategy}}

\* The last entry of each strategy.
Latest(buf) ==
    {buf[i] : i \in {j \in DOMAIN buf :
                       \A k \in j + 1 .. Len(buf) :
                         buf[k].signal.strategy # buf[j].signal.strategy}}

\* ...and keeps the last entry of each strategy.
Collect(p) ==
    /\ pc[p] = "collect"
    /\ run' = [run EXCEPT ![p].merged = Latest(Buffer(p))]
    /\ Goto(p, "select")
    /\ UNCHANGED <<shared, todo, history>>

Votes(M, d) == {e \in M : e.signal.side = d /\ e.signal.confidence >= MinConf}

Confidence(M, d) == MapThenSumSet(LAMBDA e : e.signal.confidence, Votes(M, d))

\* More votes win, then the higher average, which for as many votes is the sum.
Beats(M, c, d) ==
    \/ Cardinality(Votes(M, c)) > Cardinality(Votes(M, d))
    \/ /\ Cardinality(Votes(M, c)) = Cardinality(Votes(M, d))
       /\ Confidence(M, c) > Confidence(M, d)

\* select_best_signal: the strongest signal of the side that wins, if enough agree.
\* Ties are left open: the code's depend on the order of the strategies.
Best(M) ==
    UNION {{e \in Votes(M, d) : \A f \in Votes(M, d) : f.signal.confidence <= e.signal.confidence} :
             d \in {c \in Sides : /\ \A b \in Sides : ~ Beats(M, b, c)
                                  /\ Cardinality(Votes(M, c)) >= MinAgree}}

\* The selection starts the cooldown, by the counter as it is then; _process_one
\* (RiskLedger has its steps) touches nothing here but may raise: the rest of the tick
\* is lost.
Select(p) ==
    /\ pc[p] = "select"
    /\ IF Best(run[p].merged) = {}
       THEN UNCHANGED <<last_signal_tick, picked, todo>>
       ELSE /\ last_signal_tick' = [last_signal_tick EXCEPT ![run[p].symbol] = tick_counter]
            /\ picked' = [picked EXCEPT ![p][run[p].symbol] = tick_counter]
            /\ todo' \in {todo, IF p = Loop THEN {} ELSE todo}
    /\ Returns(p)
    /\ UNCHANGED <<tick_counter, signal_buffer, ticks, spoken>>

\* The iteration raised, with the same loss.
Raises(p) ==
    /\ pc[p] = "raises"
    /\ Returns(p)
    /\ todo' = IF p = Loop THEN {} ELSE todo
    /\ UNCHANGED <<shared, history>>

MemoryNext ==
    \/ StartTick
    \/ \E p \in Procs : \/ \E s \in Symbols : Run(p, s)
                        \/ CheckCooldown(p) \/ Merge(p) \/ AppendSignal(p)
                        \/ Prune(p) \/ Pruned(p) \/ Collect(p)
                        \/ Select(p) \/ Raises(p)

MemorySpec == MemoryInit /\ [][MemoryNext]_vars

----------------------------------------------------------------------------
(* Properties.                                                                 *)

\* The shape of the state; a run has signals left only until it has appended them.
MemoryTypeOK ==
    /\ tick_counter \in 0 .. MaxRuns /\ ticks \in 0 .. MaxTicks
    /\ signal_buffer \in [Symbols -> Seq(Entries)]
    /\ last_signal_tick \in [Symbols -> 0 .. MaxRuns]
    /\ todo \subseteq Symbols
    /\ pc \in [Procs -> {"idle", "cooldown", "merge", "append", "collect", "select",
                         "raises"}]
    /\ run \in [Procs -> Locals]
    /\ \A p \in Procs : run[p].signals # {} => pc[p] \in {"cooldown", "merge", "append"}
    /\ spoken \in [Symbols -> [Strategies -> Entries \cup {Nothing}]]
    /\ picked \in [Procs -> [Symbols -> 0 .. MaxRuns]]

\* signal_memory_ticks: what a run votes on was appended less than Window runs before
\* the run read its counter, even when another run appended an older stamp behind a
\* newer one, where pruning from the front does not reach it.
MergedRecent ==
    \A p \in Procs : \A e \in run[p].merged : run[p].tick - e.at < Window

\* _merge_with_buffer: a run's vote has of each strategy only the last signal it gave
\* for the symbol, to whichever run, and misses none that is younger than Window runs.
LastWordsVote ==
    [][\A p \in Procs : pc[p] = "collect" /\ pc'[p] = "select" =>
         LET words == {spoken[run[p].symbol][st] : st \in Strategies} \ {Nothing} IN
         {e \in words : e.tick > tick_counter - Window} \subseteq run'[p].merged
           /\ run'[p].merged \subseteq words]_vars

\* min_strategy_agreement: a selection rests on that many different strategies.
Conviction ==
    [][\A p \in Procs : picked'[p] # picked[p] =>
         \E d \in Sides :
           Cardinality({e.signal.strategy : e \in Votes(run[p].merged, d)}) >= MinAgree]_vars

\* signal_cooldown_ticks: two selections of a symbol by the same process (all of the
\* scheduler's) are at least Cooldown runs apart, though runs of others may select it
\* between the check and the selection.
CooldownKept ==
    [][\A p \in Procs, s \in Symbols :
         picked[p][s] # 0 /\ picked'[p][s] # picked[p][s]
           => picked'[p][s] - picked[p][s] >= Cooldown]_vars

\* config.py: signals are remembered for signal_memory_ticks recent ticks ("RSI fires
\* tick 1, EMA fires tick 3 -> both count"): a vote of the scheduler's tick has the last
\* word of every strategy that gave it in one of the last Window ticks.
MemoryCountsTicks ==
    [][pc[Loop] = "collect" /\ pc'[Loop] = "select" =>
         \A st \in Strategies :
           LET word == spoken[run[Loop].symbol][st] IN
           word # Nothing /\ word.round > ticks - Window => word \in run'[Loop].merged]_vars
====
