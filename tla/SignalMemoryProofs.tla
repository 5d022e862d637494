---- MODULE SignalMemoryProofs ----
(* Theorems about SignalMemory, for any watchlist, any number of runs at once,  *)
(* any window and cooldown.                                                      *)
EXTENDS SignalMemory, SequenceTheorems, FiniteSetTheorems, TLAPS

----------------------------------------------------------------------------
(* Type correctness.                                                           *)

Places == {"idle", "cooldown", "merge", "append", "collect", "select", "raises"}

\* The locals of a process outside a run are locals.
LEMMA NoRunType == NoRun \in Locals
<1>1. (CHOOSE s \in Symbols : TRUE) \in Symbols
  BY MemoryAssumption
<1> QED
  BY <1>1, MemoryAssumption DEF NoRun, Locals

\* What the change of one buffer does to the processes: they stay where they are, or
\* their iteration of it raises.
LEMMA DisturbedType ==
    ASSUME NEW p \in Procs, NEW l \in Places, Disturbed(p, l), pc \in [Procs -> Places]
    PROVE  /\ pc' \in [Procs -> Places]
           /\ pc'[p] = l
           /\ \A q \in Procs \ {p} :
                \/ pc'[q] = pc[q] /\ ~ (pc[q] = "collect" /\ run[q].symbol = run[p].symbol)
                \/ pc'[q] = "raises" /\ pc[q] = "collect"
  BY DEF Disturbed, Places

\* The vote takes its entries from the buffer.
LEMMA LatestType ==
    ASSUME NEW S, NEW buf \in Seq(S)
    PROVE  Latest(buf) \subseteq S
  BY DEF Latest

\* MemorySpec keeps every variable in its type, and a run that has returned holds no
\* signals.
THEOREM MemoryTypeCorrect == MemorySpec => []MemoryTypeOK
<1>1. MemoryInit => MemoryTypeOK
  <2> SUFFICES ASSUME MemoryInit PROVE MemoryTypeOK
    OBVIOUS
  <2>1. run \in [Procs -> Locals] /\ \A p \in Procs : run[p].signals = {}
    BY NoRunType DEF MemoryInit, NoRun
  <2> QED
    BY <2>1, MemoryAssumption DEF MemoryInit, MemoryTypeOK
<1>2. MemoryTypeOK /\ [MemoryNext]_vars => MemoryTypeOK'
  <2> SUFFICES ASSUME MemoryTypeOK, [MemoryNext]_vars PROVE MemoryTypeOK'
    OBVIOUS
  <2> USE DEF MemoryTypeOK, shared, history
  <2>1. CASE StartTick
    <3>1. ticks' \in 0 .. MaxTicks
      BY <2>1, MemoryAssumption DEF StartTick
    <3> QED
      BY <2>1, <3>1 DEF StartTick
  <2>2. ASSUME NEW p \in Procs, Returns(p), UNCHANGED <<tick_counter, signal_buffer, ticks, spoken>>,
               last_signal_tick' \in [Symbols -> 0 .. MaxRuns], todo' \subseteq Symbols,
               picked' \in [Procs -> [Symbols -> 0 .. MaxRuns]]
        PROVE  MemoryTypeOK'
    <3>1. run' \in [Procs -> Locals] /\ run'[p].signals = {}
      BY <2>2, NoRunType DEF Returns, NoRun
    <3> QED
      BY <2>2, <3>1 DEF Returns, Goto
  <2>3. ASSUME NEW p \in Procs, NEW s \in Symbols, Run(p, s) PROVE MemoryTypeOK'
    <3>1. PICK G \in SUBSET Signals :
            run' = [run EXCEPT ![p] = [symbol |-> s, signals |-> G, tick |-> 0, merged |-> {},
                                      last_tick |-> last_signal_tick[s]]]
      BY <2>3 DEF Run, Generated
    <3>2. [symbol |-> s, signals |-> G, tick |-> 0, merged |-> {},
           last_tick |-> last_signal_tick[s]] \in Locals
      BY MemoryAssumption DEF Locals
    <3>3. tick_counter' \in 0 .. MaxRuns
      BY <2>3, MemoryAssumption DEF Run
    <3>4. todo' \subseteq Symbols
      BY <2>3 DEF Run
    <3> QED
      BY <2>3, <3>1, <3>2, <3>3, <3>4 DEF Run, Goto
  <2>4. ASSUME NEW p \in Procs, CheckCooldown(p) PROVE MemoryTypeOK'
    BY <2>2, <2>4 DEF CheckCooldown, Goto
  <2>5. ASSUME NEW p \in Procs, Merge(p) PROVE MemoryTypeOK'
    <3>1. run' \in [Procs -> Locals] /\ run'[p].signals = run[p].signals
      BY ZenonT(60), <2>5 DEF Merge, Locals
    <3> QED
      BY <2>5, <3>1 DEF Merge, Goto
  <2>6. ASSUME NEW p \in Procs, AppendSignal(p) PROVE MemoryTypeOK'
    <3>1. PICK g \in run[p].signals :
            LET e == [tick |-> run[p].tick, signal |-> g, at |-> tick_counter, round |-> ticks] IN
            /\ signal_buffer' = [signal_buffer EXCEPT ![run[p].symbol] = Append(@, e)]
            /\ spoken' = [spoken EXCEPT ![run[p].symbol][g.strategy] = e]
            /\ run' = [run EXCEPT ![p].signals = @ \ {g}]
      BY <2>6 DEF AppendSignal
    <3>2. run[p] \in Locals /\ g \in Signals /\ run[p].symbol \in Symbols /\ g.strategy \in Strategies
      BY <3>1 DEF Locals, Strategies
    <3>3. [tick |-> run[p].tick, signal |-> g, at |-> tick_counter, round |-> ticks] \in Entries
      BY <3>2 DEF Entries, Locals
    <3>4. signal_buffer' \in [Symbols -> Seq(Entries)]
      BY <3>1, <3>2, <3>3
    <3>5. spoken' \in [Symbols -> [Strategies -> Entries \cup {Nothing}]]
      BY <3>1, <3>2, <3>3
    <3>6. run' \in [Procs -> Locals] /\ \A q \in Procs \ {p} : run'[q] = run[q]
      BY <3>1, <3>2 DEF Locals
    <3>7. UNCHANGED <<tick_counter, last_signal_tick, todo, ticks, picked>> /\ Disturbed(p, "append")
      BY <2>6 DEF AppendSignal
    <3>8. /\ pc' \in [Procs -> Places] /\ pc'[p] = "append"
          /\ \A q \in Procs : run[q].signals # {} => pc'[q] \in {"cooldown", "merge", "append"}
      <4>1. "append" \in Places /\ pc \in [Procs -> Places]
        BY DEF Places
      <4>2. /\ pc' \in [Procs -> Places] /\ pc'[p] = "append"
            /\ \A q \in Procs \ {p} : pc'[q] = pc[q] \/ pc[q] = "collect"
        BY <3>7, <4>1, DisturbedType
      <4> QED
        BY <4>2
    <3> QED
      BY <3>4, <3>5, <3>6, <3>7, <3>8 DEF Places
  <2>7. ASSUME NEW p \in Procs, Prune(p) PROVE MemoryTypeOK'
    <3>1. signal_buffer' \in [Symbols -> Seq(Entries)]
      <4>1. run[p] \in Locals /\ run[p].symbol \in Symbols
        BY DEF Locals
      <4>2. Tail(Buffer(p)) \in Seq(Entries)
        BY <2>7, <4>1 DEF Prune, Expired, Buffer
      <4> QED
        BY <2>7, <4>1, <4>2 DEF Prune, Buffer
    <3>2. UNCHANGED <<tick_counter, last_signal_tick, todo, run, history>> /\ Disturbed(p, "append")
      BY <2>7 DEF Prune
    <3>8. /\ pc' \in [Procs -> Places] /\ pc'[p] = "append"
          /\ \A q \in Procs : run[q].signals # {} => pc'[q] \in {"cooldown", "merge", "append"}
      <4>1. "append" \in Places /\ pc \in [Procs -> Places]
        BY DEF Places
      <4>2. /\ pc' \in [Procs -> Places] /\ pc'[p] = "append"
            /\ \A q \in Procs \ {p} : pc'[q] = pc[q] \/ pc[q] = "collect"
        BY <3>2, <4>1, DisturbedType
      <4> QED
        BY <4>2
    <3> QED
      BY <3>1, <3>2, <3>8 DEF Places
  <2>8. ASSUME NEW p \in Procs, Pruned(p) PROVE MemoryTypeOK'
    BY <2>2, <2>8 DEF Pruned, Goto
  <2>9. ASSUME NEW p \in Procs, Collect(p) PROVE MemoryTypeOK'
    <3>1. Latest(Buffer(p)) \subseteq Entries
      BY LatestType DEF Buffer, Locals
    <3>2. run' \in [Procs -> Locals] /\ \A q \in Procs : run'[q].signals = run[q].signals
      BY ZenonT(60), <2>9, <3>1 DEF Collect, Locals
    <3> QED
      BY <2>9, <3>2 DEF Collect, Goto
  <2>10. ASSUME NEW p \in Procs, Select(p) PROVE MemoryTypeOK'
    <3>1. run[p].symbol \in Symbols
      BY DEF Locals
    <3>2. last_signal_tick' \in [Symbols -> 0 .. MaxRuns]
      BY <2>10, <3>1 DEF Select
    <3>3. picked' \in [Procs -> [Symbols -> 0 .. MaxRuns]]
      <4>1. [picked[p] EXCEPT ![run[p].symbol] = tick_counter] \in [Symbols -> 0 .. MaxRuns]
        BY <3>1
      <4> QED
        BY <2>10, <4>1 DEF Select
    <3>4. todo' \subseteq Symbols
      BY <2>10, <3>1 DEF Select
    <3> QED
      BY <2>2, <2>10, <3>2, <3>3, <3>4 DEF Select
  <2>11. ASSUME NEW p \in Procs, Raises(p) PROVE MemoryTypeOK'
    BY <2>2, <2>11 DEF Raises
  <2>12. CASE UNCHANGED vars
    BY <2>12 DEF vars
  <2> QED
    BY <2>1, <2>3, <2>4, <2>5, <2>6, <2>7, <2>8, <2>9, <2>10, <2>11, <2>12 DEF MemoryNext
<1> QED
  BY <1>1, <1>2, PTL DEF MemorySpec

----------------------------------------------------------------------------
(* The buffer is in the order of the appends, if not in that of the stamps.     *)

Ordered(b, n) ==
    \A i \in DOMAIN b : /\ b[i].tick <= b[i].at /\ b[i].at <= n
                        /\ \A j \in i .. Len(b) : b[i].at <= b[j].at

\* A stamp that is old when it is appended leaves the order of the appends as it was...
LEMMA OrderedAppend ==
    ASSUME NEW n \in Nat, NEW b \in Seq(Entries), Ordered(b, n),
           NEW e \in Entries, e.tick <= e.at, e.at = n
    PROVE  Ordered(Append(b, e), n)
<1> DEFINE c == Append(b, e)
<1>1. /\ c \in Seq(Entries) /\ Len(c) = Len(b) + 1 /\ c[Len(b) + 1] = e
      /\ \A i \in 1 .. Len(b) : c[i] = b[i]
      /\ DOMAIN c = 1 .. Len(b) + 1 /\ DOMAIN b = 1 .. Len(b) /\ Len(b) \in Nat
  OBVIOUS
<1> HIDE DEF c
<1>2. ASSUME NEW i \in DOMAIN c
      PROVE  /\ c[i].tick <= c[i].at /\ c[i].at <= n
             /\ \A j \in i .. Len(c) : c[i].at <= c[j].at
  <2>1. CASE i = Len(b) + 1
    <3>1. c[i] = e /\ e.at \in Nat /\ \A j \in i .. Len(c) : j = i
      BY <1>1, <2>1 DEF Entries
    <3> QED
      BY <3>1
  <2>2. CASE i \in 1 .. Len(b)
    <3>1. c[i] = b[i] /\ b[i].tick <= b[i].at /\ b[i].at <= n
      BY <1>1, <2>2 DEF Ordered
    <3>2. ASSUME NEW j \in i .. Len(c) PROVE c[i].at <= c[j].at
      <4>1. CASE j = Len(b) + 1
        BY <1>1, <3>1, <4>1
      <4>2. CASE j \in i .. Len(b)
        BY <1>1, <2>2, <4>2 DEF Ordered
      <4> QED
        BY <1>1, <2>2, <3>2, <4>1, <4>2
    <3> QED
      BY <3>1, <3>2
  <2> QED
    BY <1>1, <2>1, <2>2
<1> QED
  BY <1>2 DEF Ordered, c

\* ...so does dropping the front...
LEMMA OrderedTail ==
    ASSUME NEW n \in Nat, NEW b \in Seq(Entries), b # <<>>, Ordered(b, n)
    PROVE  Ordered(Tail(b), n)
<1> DEFINE c == Tail(b)
<1>1. /\ c \in Seq(Entries) /\ Len(c) = Len(b) - 1 /\ Len(b) \in Nat \ {0}
      /\ \A i \in 1 .. Len(c) : c[i] = b[i + 1]
      /\ DOMAIN c = 1 .. Len(c) /\ DOMAIN b = 1 .. Len(b)
  OBVIOUS
<1> HIDE DEF c
<1>2. ASSUME NEW i \in DOMAIN c
      PROVE  /\ c[i].tick <= c[i].at /\ c[i].at <= n
             /\ \A j \in i .. Len(c) : c[i].at <= c[j].at
  <2>1. i + 1 \in DOMAIN b /\ c[i] = b[i + 1]
    BY <1>1
  <2>2. ASSUME NEW j \in i .. Len(c) PROVE c[i].at <= c[j].at
    <3>1. j + 1 \in i + 1 .. Len(b) /\ c[j] = b[j + 1]
      BY <1>1
    <3> QED
      BY <2>1, <3>1 DEF Ordered
  <2> QED
    BY <2>1, <2>2 DEF Ordered
<1> QED
  BY <1>2 DEF Ordered, c

\* ...and a further run of the orchestrator.
LEMMA OrderedLater ==
    ASSUME NEW n \in Nat, NEW b \in Seq(Entries), Ordered(b, n)
    PROVE  Ordered(b, n + 1)
<1>1. \A i \in DOMAIN b : b[i] \in Entries
  OBVIOUS
<1>2. \A i \in DOMAIN b : b[i].at \in Nat
  BY <1>1 DEF Entries
<1> QED
  BY <1>2 DEF Ordered

BuffersOrdered == \A s \in Symbols : Ordered(signal_buffer[s], tick_counter)

StampsPast == \A p \in Procs : run[p].tick <= tick_counter

\* What a run iterates over starts with an entry of its window: whoever changes the
\* buffer ends the iteration.
FrontRecent ==
    \A p \in Procs : pc[p] = "collect" =>
      Buffer(p) # <<>> /\ Buffer(p)[1].tick > run[p].tick - Window

VotesAtSelect == \A p \in Procs : run[p].merged # {} => pc[p] = "select"

\* What a run votes on was appended less than Window runs before it read its counter.
THEOREM MemoryMergedRecent == MemorySpec => []MergedRecent
<1> DEFINE IInv == BuffersOrdered /\ StampsPast /\ FrontRecent /\ VotesAtSelect /\ MergedRecent
<1>1. MemoryInit => IInv
  <2> SUFFICES ASSUME MemoryInit PROVE IInv
    OBVIOUS
  <2>1. \A p \in Procs : run[p].tick = 0 /\ run[p].merged = {} /\ pc[p] = "idle"
    BY DEF MemoryInit, NoRun
  <2>2. tick_counter = 0 /\ \A s \in Symbols : DOMAIN signal_buffer[s] = {}
    BY DEF MemoryInit
  <2> QED
    BY <2>1, <2>2
       DEF BuffersOrdered, Ordered, StampsPast, FrontRecent, VotesAtSelect, MergedRecent
<1>2. MemoryTypeOK /\ IInv /\ [MemoryNext]_vars => IInv'
  <2> SUFFICES ASSUME MemoryTypeOK, IInv, [MemoryNext]_vars PROVE IInv'
    OBVIOUS
  <2>0. /\ tick_counter \in Nat /\ Window \in Nat
        /\ signal_buffer \in [Symbols -> Seq(Entries)] /\ run \in [Procs -> Locals]
        /\ pc \in [Procs -> Places]
        /\ \A p \in Procs : run[p].symbol \in Symbols /\ run[p].tick \in Nat
    BY MemoryAssumption DEF MemoryTypeOK, Locals, Places
  <2> USE DEF shared, history
  \* A run that returns leaves the rest alone.
  <2>1. ASSUME NEW p \in Procs, Returns(p), UNCHANGED <<tick_counter, signal_buffer>>
        PROVE  IInv'
    <3>1. /\ run'[p].tick = 0 /\ run'[p].merged = {} /\ pc'[p] = "idle"
          /\ \A q \in Procs \ {p} : run'[q] = run[q] /\ pc'[q] = pc[q]
      BY <2>0, <2>1 DEF Returns, Goto, NoRun
    <3>2. BuffersOrdered' /\ StampsPast'
      BY <2>0, <2>1, <3>1 DEF BuffersOrdered, StampsPast
    <3>3. FrontRecent' /\ VotesAtSelect' /\ MergedRecent'
      BY <2>1, <3>1 DEF FrontRecent, VotesAtSelect, MergedRecent, Buffer
    <3> QED
      BY <3>2, <3>3
  <2>2. ASSUME NEW p \in Procs, NEW s \in Symbols, Run(p, s) PROVE IInv'
    <3>1. /\ run'[p].tick = 0 /\ run'[p].merged = {} /\ pc'[p] = "cooldown"
          /\ \A q \in Procs \ {p} : run'[q] = run[q] /\ pc'[q] = pc[q]
          /\ tick_counter' = tick_counter + 1 /\ signal_buffer' = signal_buffer
      BY <2>0, <2>2 DEF Run, Goto
    <3>2. BuffersOrdered'
      BY <2>0, <3>1, OrderedLater DEF BuffersOrdered
    <3>3. StampsPast'
      BY <2>0, <3>1 DEF StampsPast
    <3>4. FrontRecent' /\ VotesAtSelect' /\ MergedRecent'
      BY <3>1 DEF FrontRecent, VotesAtSelect, MergedRecent, Buffer
    <3> QED
      BY <3>2, <3>3, <3>4
  <2>3. ASSUME NEW p \in Procs, Goto(p, "merge"), UNCHANGED <<run, shared>> , pc[p] = "cooldown"
        PROVE  IInv'
    <3>1. pc'[p] = "merge" /\ \A q \in Procs \ {p} : pc'[q] = pc[q]
      BY <2>0, <2>3 DEF Goto
    <3> QED
      BY <2>3, <3>1 DEF BuffersOrdered, StampsPast, FrontRecent, VotesAtSelect, MergedRecent,
                        Buffer
  <2>4. ASSUME NEW p \in Procs, Merge(p) PROVE IInv'
    <3>1. /\ run'[p].tick = tick_counter /\ run'[p].merged = {} /\ pc'[p] = "append"
          /\ \A q \in Procs \ {p} : run'[q] = run[q] /\ pc'[q] = pc[q]
          /\ UNCHANGED shared
      BY <2>0, <2>4 DEF Merge, Goto, VotesAtSelect, Locals
    <3>2. BuffersOrdered' /\ StampsPast'
      BY <2>0, <3>1 DEF BuffersOrdered, StampsPast
    <3>3. FrontRecent' /\ VotesAtSelect' /\ MergedRecent'
      BY <3>1 DEF FrontRecent, VotesAtSelect, MergedRecent, Buffer
    <3> QED
      BY <3>2, <3>3
  \* A change of the buffer leaves only runs of other symbols collecting.
  <2>5. ASSUME NEW p \in Procs, pc[p] = "append", Disturbed(p, "append"), UNCHANGED tick_counter,
               \A q \in Procs : /\ run'[q].tick = run[q].tick /\ run'[q].merged = run[q].merged
                                /\ run'[q].symbol = run[q].symbol,
               \A s \in Symbols \ {run[p].symbol} : signal_buffer'[s] = signal_buffer[s],
               Ordered(signal_buffer'[run[p].symbol], tick_counter)
        PROVE  IInv'
    <3>1. /\ pc'[p] = "append"
          /\ \A q \in Procs \ {p} :
               \/ pc'[q] = pc[q] /\ ~ (pc[q] = "collect" /\ run[q].symbol = run[p].symbol)
               \/ pc'[q] = "raises" /\ pc[q] = "collect"
      BY <2>0, <2>5, DisturbedType DEF Places
    <3>2. BuffersOrdered'
      BY <2>0, <2>5 DEF BuffersOrdered
    <3>3. StampsPast' /\ VotesAtSelect' /\ MergedRecent'
      BY <2>5, <3>1 DEF StampsPast, VotesAtSelect, MergedRecent
    <3>4. FrontRecent'
      <4> SUFFICES ASSUME NEW q \in Procs, pc'[q] = "collect"
                   PROVE  Buffer(q)' # <<>> /\ Buffer(q)'[1].tick > run'[q].tick - Window
        BY DEF FrontRecent
      <4>1. pc[q] = "collect" /\ run[q].symbol # run[p].symbol
        BY <3>1
      <4>2. Buffer(q)' = Buffer(q) /\ run'[q].tick = run[q].tick
        BY <2>0, <2>5, <4>1 DEF Buffer
      <4> QED
        BY <4>1, <4>2 DEF FrontRecent
    <3> QED
      BY <3>2, <3>3, <3>4
  <2>6. ASSUME NEW p \in Procs, AppendSignal(p) PROVE IInv'
    <3>1. PICK g \in run[p].signals :
            LET e == [tick |-> run[p].tick, signal |-> g, at |-> tick_counter, round |-> ticks] IN
            /\ signal_buffer' = [signal_buffer EXCEPT ![run[p].symbol] = Append(@, e)]
            /\ run' = [run EXCEPT ![p].signals = @ \ {g}]
      BY <2>6 DEF AppendSignal
    <3> DEFINE e == [tick |-> run[p].tick, signal |-> g, at |-> tick_counter, round |-> ticks]
    <3>2. e \in Entries
      BY <2>0, <3>1 DEF Entries, Locals, MemoryTypeOK
    <3>3. e.tick <= e.at /\ e.at = tick_counter
      BY DEF StampsPast
    <3>4. Ordered(signal_buffer'[run[p].symbol], tick_counter)
      <4>1. signal_buffer'[run[p].symbol] = Append(signal_buffer[run[p].symbol], e)
        BY <2>0, <3>1
      <4> HIDE DEF e
      <4> QED
        BY <2>0, <3>2, <3>3, <4>1, OrderedAppend DEF BuffersOrdered
    <3>5. \A q \in Procs : /\ run'[q].tick = run[q].tick /\ run'[q].merged = run[q].merged
                           /\ run'[q].symbol = run[q].symbol
      BY <2>0, <3>1 DEF Locals
    <3>6. \A s \in Symbols \ {run[p].symbol} : signal_buffer'[s] = signal_buffer[s]
      BY <2>0, <3>1
    <3> QED
      BY <2>5, <2>6, <3>4, <3>5, <3>6 DEF AppendSignal
  <2>7. ASSUME NEW p \in Procs, Prune(p) PROVE IInv'
    <3>1. Ordered(signal_buffer'[run[p].symbol], tick_counter)
      <4>1. signal_buffer'[run[p].symbol] = Tail(signal_buffer[run[p].symbol])
        BY <2>0, <2>7 DEF Prune
      <4> QED
        BY <2>0, <2>7, <4>1, OrderedTail DEF BuffersOrdered, Prune, Expired, Buffer
    <3>2. \A s \in Symbols \ {run[p].symbol} : signal_buffer'[s] = signal_buffer[s]
      BY <2>0, <2>7 DEF Prune
    <3> QED
      BY <2>5, <2>7, <3>1, <3>2 DEF Prune
  <2>8. ASSUME NEW p \in Procs, Pruned(p) PROVE IInv'
    <3>1. CASE Buffer(p) = <<>>
      BY <2>1, <2>8, <3>1 DEF Pruned
    <3>2. CASE Buffer(p) # <<>>
      <4>1. pc'[p] = "collect" /\ (\A q \in Procs \ {p} : pc'[q] = pc[q]) /\ UNCHANGED <<run, shared>>
        BY <2>0, <2>8, <3>2 DEF Pruned, Goto
      <4>2. Buffer(p)[1].tick > run[p].tick - Window
        <5>1. Buffer(p)[1] \in Entries /\ Head(Buffer(p)) = Buffer(p)[1]
          BY <2>0, <3>2 DEF Buffer
        <5> QED
          BY <2>0, <2>8, <3>2, <5>1 DEF Pruned, Expired, Entries
      <4>3. FrontRecent'
        BY <3>2, <4>1, <4>2 DEF FrontRecent, Buffer
      <4>4. VotesAtSelect'
        BY <2>8, <4>1 DEF Pruned, VotesAtSelect
      <4> QED
        BY <4>1, <4>3, <4>4 DEF BuffersOrdered, StampsPast, MergedRecent
    <3> QED
      BY <3>1, <3>2
  <2>9. ASSUME NEW p \in Procs, Collect(p) PROVE IInv'
    <3>1. /\ run'[p].merged = Latest(Buffer(p)) /\ run'[p].tick = run[p].tick /\ pc'[p] = "select"
          /\ \A q \in Procs \ {p} : run'[q] = run[q] /\ pc'[q] = pc[q]
          /\ UNCHANGED shared
      BY <2>0, <2>9 DEF Collect, Goto, Locals
    <3>2. ASSUME NEW e \in Latest(Buffer(p)) PROVE run[p].tick - e.at < Window
      <4>1. PICK i \in DOMAIN Buffer(p) : e = Buffer(p)[i]
        BY DEF Latest
      <4>2. Buffer(p) \in Seq(Entries) /\ i \in 1 .. Len(Buffer(p)) /\ 1 \in DOMAIN Buffer(p)
        BY <2>0, <4>1 DEF Buffer
      <4>3. Ordered(Buffer(p), tick_counter)
        BY <2>0 DEF BuffersOrdered, Buffer
      <4>4. Buffer(p)[1].tick <= Buffer(p)[1].at /\ Buffer(p)[1].at <= Buffer(p)[i].at
        BY <4>2, <4>3 DEF Ordered
      <4>5. Buffer(p)[1].tick > run[p].tick - Window
        BY <2>9 DEF FrontRecent, Collect
      <4>6. Buffer(p)[1] \in Entries /\ Buffer(p)[i] \in Entries
        BY <4>2
      <4>7. Buffer(p)[1].tick \in Nat /\ Buffer(p)[1].at \in Nat /\ Buffer(p)[i].at \in Nat
        BY <4>6 DEF Entries
      <4> QED
        BY <2>0, <4>1, <4>4, <4>5, <4>7
    <3>3. MergedRecent'
      BY <3>1, <3>2 DEF MergedRecent
    <3> QED
      BY <3>1, <3>3 DEF BuffersOrdered, StampsPast, FrontRecent, VotesAtSelect, Buffer
  <2>10. ASSUME NEW p \in Procs, CheckCooldown(p) PROVE IInv'
    BY <2>1, <2>3, <2>10 DEF CheckCooldown
  <2>11. ASSUME NEW p \in Procs, Select(p) \/ Raises(p) PROVE IInv'
    BY <2>1, <2>11 DEF Select, Raises
  <2>12. CASE StartTick \/ UNCHANGED vars
    BY <2>12 DEF StartTick, vars, BuffersOrdered, StampsPast, FrontRecent, VotesAtSelect,
                 MergedRecent, Buffer
  <2> QED
    BY <2>2, <2>4, <2>6, <2>7, <2>8, <2>9, <2>10, <2>11, <2>12 DEF MemoryNext
<1>3. IInv => MergedRecent
  OBVIOUS
<1> QED
  BY <1>1, <1>2, <1>3, MemoryTypeCorrect, PTL DEF MemorySpec

----------------------------------------------------------------------------
(* Every strategy's last word.                                                 *)

\* The last entry of a strategy in the buffer is its last word, and a last word that
\* is not there is older than the window.
Words(b, w, n) ==
    /\ \A st \in Strategies : w[st] # Nothing =>
         /\ w[st].signal.strategy = st
         /\ \/ w[st].tick <= n - Window
            \/ \E i \in DOMAIN b : b[i] = w[st] /\ \A k \in i + 1 .. Len(b) : b[k].signal.strategy # st
    /\ \A i \in DOMAIN b :
         (\A k \in i + 1 .. Len(b) : b[k].signal.strategy # b[i].signal.strategy)
           => b[i] = w[b[i].signal.strategy]

\* An entry is not Nothing, and its strategy is one of the strategies.
LEMMA EntryFacts ==
    ASSUME NEW e \in Entries
    PROVE  e # Nothing /\ e.tick \in Nat /\ e.signal \in Signals /\ e.signal.strategy \in Strategies
<1>1. "at" \in DOMAIN e /\ "at" \notin DOMAIN Nothing
  BY DEF Entries, Nothing
<1> QED
  BY <1>1 DEF Entries, Strategies

\* An appended entry is its strategy's last word...
LEMMA WordsAppend ==
    ASSUME NEW n \in Nat, NEW b \in Seq(Entries), NEW w \in [Strategies -> Entries \cup {Nothing}],
           Words(b, w, n), NEW e \in Entries
    PROVE  Words(Append(b, e), [w EXCEPT ![e.signal.strategy] = e], n)
<1> DEFINE c == Append(b, e)
           x == [w EXCEPT ![e.signal.strategy] = e]
<1>1. /\ Len(c) = Len(b) + 1 /\ c[Len(b) + 1] = e
      /\ \A i \in 1 .. Len(b) : c[i] = b[i]
      /\ DOMAIN c = 1 .. Len(b) + 1 /\ DOMAIN b = 1 .. Len(b) /\ Len(b) \in Nat
  OBVIOUS
<1>2. /\ e.signal.strategy \in Strategies /\ x[e.signal.strategy] = e
      /\ \A st \in Strategies \ {e.signal.strategy} : x[st] = w[st]
  BY EntryFacts
<1>3. \A i \in DOMAIN b : b[i] \in Entries /\ b[i].signal.strategy \in Strategies
  BY EntryFacts
<1> HIDE DEF c, x
<1>4. ASSUME NEW st \in Strategies, x[st] # Nothing
      PROVE  /\ x[st].signal.strategy = st
             /\ \/ x[st].tick <= n - Window
                \/ \E i \in DOMAIN c : c[i] = x[st] /\ \A k \in i + 1 .. Len(c) : c[k].signal.strategy # st
  <2>1. CASE st = e.signal.strategy
    <3>1. Len(b) + 1 \in DOMAIN c /\ \A k \in (Len(b) + 1) + 1 .. Len(c) : FALSE
      BY <1>1
    <3> QED
      BY <1>1, <1>2, <2>1, <3>1
  <2>2. CASE st # e.signal.strategy
    <3>1. x[st] = w[st]
      BY <1>2, <2>2
    <3>2. CASE w[st].tick <= n - Window
      BY <1>4, <3>1, <3>2 DEF Words
    <3>3. ASSUME NEW i \in DOMAIN b, b[i] = w[st],
                 \A k \in i + 1 .. Len(b) : b[k].signal.strategy # st
          PROVE  i \in DOMAIN c /\ c[i] = x[st] /\ \A k \in i + 1 .. Len(c) : c[k].signal.strategy # st
      <4>1. ASSUME NEW k \in i + 1 .. Len(c) PROVE c[k].signal.strategy # st
        <5>1. k = Len(b) + 1 \/ k \in i + 1 .. Len(b)
          BY <1>1
        <5> QED
          BY <1>1, <2>2, <3>3, <5>1
      <4> QED
        BY <1>1, <3>1, <3>3, <4>1
    <3> QED
      BY <1>4, <3>1, <3>2, <3>3 DEF Words
  <2> QED
    BY <2>1, <2>2
<1>5. ASSUME NEW i \in DOMAIN c,
             \A k \in i + 1 .. Len(c) : c[k].signal.strategy # c[i].signal.strategy
      PROVE  c[i] = x[c[i].signal.strategy]
  <2>1. CASE i = Len(b) + 1
    BY <1>1, <1>2, <2>1
  <2>2. CASE i \in DOMAIN b
    <3>1. Len(b) + 1 \in i + 1 .. Len(c) /\ c[i] = b[i]
      BY <1>1, <2>2
    <3>2. b[i].signal.strategy # e.signal.strategy
      BY <1>1, <1>5, <3>1
    <3>3. \A k \in i + 1 .. Len(b) : k \in i + 1 .. Len(c) /\ c[k] = b[k]
      BY <1>1, <2>2
    <3>4. b[i] = w[b[i].signal.strategy]
      BY <1>5, <2>2, <3>1, <3>3 DEF Words
    <3> QED
      BY <1>2, <1>3, <2>2, <3>1, <3>2, <3>4
  <2> QED
    BY <1>1, <2>1, <2>2
<1>6. Words(c, x, n)
  BY <1>4, <1>5 DEF Words
<1> QED
  BY <1>6 DEF c, x

\* ...an expired front entry may go...
LEMMA WordsTail ==
    ASSUME NEW n \in Nat, NEW b \in Seq(Entries), NEW w \in [Strategies -> Entries \cup {Nothing}],
           Words(b, w, n), b # <<>>, Head(b).tick <= n - Window
    PROVE  Words(Tail(b), w, n)
<1> DEFINE c == Tail(b)
<1>1. /\ Len(c) = Len(b) - 1 /\ Len(b) \in Nat \ {0}
      /\ \A i \in 1 .. Len(c) : c[i] = b[i + 1]
      /\ DOMAIN c = 1 .. Len(c) /\ DOMAIN b = 1 .. Len(b) /\ Head(b) = b[1]
  OBVIOUS
<1> HIDE DEF c
<1>2. ASSUME NEW st \in Strategies, w[st] # Nothing
      PROVE  /\ w[st].signal.strategy = st
             /\ \/ w[st].tick <= n - Window
                \/ \E i \in DOMAIN c : c[i] = w[st] /\ \A k \in i + 1 .. Len(c) : c[k].signal.strategy # st
  <2>1. ASSUME NEW i \in DOMAIN b, b[i] = w[st], i # 1,
               \A k \in i + 1 .. Len(b) : b[k].signal.strategy # st
        PROVE  \E j \in DOMAIN c : c[j] = w[st] /\ \A k \in j + 1 .. Len(c) : c[k].signal.strategy # st
    <3>1. i - 1 \in DOMAIN c /\ c[i - 1] = b[i]
      BY <1>1, <2>1
    <3>2. ASSUME NEW k \in (i - 1) + 1 .. Len(c) PROVE c[k].signal.strategy # st
      <4>1. k \in 1 .. Len(c) /\ k + 1 \in i + 1 .. Len(b)
        BY <1>1, <3>1
      <4> QED
        BY <1>1, <2>1, <4>1
    <3> QED
      BY <2>1, <3>1, <3>2
  <2> QED
    BY <1>1, <1>2, <2>1 DEF Words
<1>3. ASSUME NEW i \in DOMAIN c,
             \A k \in i + 1 .. Len(c) : c[k].signal.strategy # c[i].signal.strategy
      PROVE  c[i] = w[c[i].signal.strategy]
  <2>1. i + 1 \in DOMAIN b /\ c[i] = b[i + 1]
    BY <1>1
  <2>2. ASSUME NEW k \in (i + 1) + 1 .. Len(b) PROVE b[k].signal.strategy # b[i + 1].signal.strategy
    <3>1. k - 1 \in i + 1 .. Len(c) /\ k - 1 \in 1 .. Len(c) /\ (k - 1) + 1 = k
      BY <1>1
    <3>2. c[k - 1] = b[k]
      BY <1>1, <3>1
    <3> QED
      BY <1>3, <2>1, <3>1, <3>2
  <2> QED
    BY <2>1, <2>2 DEF Words
<1>4. Words(c, w, n)
  BY <1>2, <1>3 DEF Words
<1> QED
  BY <1>4 DEF c

\* ...and a further run only lets more words expire.
LEMMA WordsLater ==
    ASSUME NEW n \in Nat, NEW b, NEW w \in [Strategies -> Entries \cup {Nothing}], Words(b, w, n)
    PROVE  Words(b, w, n + 1)
<1>1. \A st \in Strategies : w[st] # Nothing /\ w[st].tick <= n - Window => w[st].tick <= (n + 1) - Window
  BY EntryFacts, MemoryAssumption
<1> QED
  BY <1>1 DEF Words

\* What the last entries of a buffer are, then.
LEMMA WordsLatest ==
    ASSUME NEW n, NEW b \in Seq(Entries), NEW w \in [Strategies -> Entries \cup {Nothing}],
           Words(b, w, n)
    PROVE  /\ \A e \in Latest(b) : e # Nothing /\ \E st \in Strategies : e = w[st]
           /\ \A st \in Strategies :
                w[st] = Nothing \/ w[st].tick <= n - Window \/ w[st] \in Latest(b)
<1>1. ASSUME NEW e \in Latest(b) PROVE e # Nothing /\ \E st \in Strategies : e = w[st]
  <2>1. PICK i \in DOMAIN b : e = b[i] /\ \A k \in i + 1 .. Len(b) : b[k].signal.strategy # b[i].signal.strategy
    BY DEF Latest
  <2>2. b[i] \in Entries
    BY <2>1
  <2> QED
    BY <2>1, <2>2, EntryFacts DEF Words
<1>2. ASSUME NEW st \in Strategies, w[st] # Nothing, ~ w[st].tick <= n - Window
      PROVE  w[st] \in Latest(b)
  BY <1>2 DEF Words, Latest
<1> QED
  BY <1>1, <1>2

WordsKept == \A s \in Symbols : Words(signal_buffer[s], spoken[s], tick_counter)

\* A vote has each strategy's last word for the symbol and misses none of the window.
THEOREM MemoryLastWordsVote == MemorySpec => LastWordsVote
<1> DEFINE IInv == WordsKept /\ StampsPast
<1>1. MemoryInit => IInv
  <2> SUFFICES ASSUME MemoryInit PROVE IInv
    OBVIOUS
  <2>1. \A p \in Procs : run[p].tick = 0
    BY DEF MemoryInit, NoRun
  <2> QED
    BY <2>1 DEF MemoryInit, WordsKept, Words, StampsPast
<1>2. MemoryTypeOK /\ IInv /\ [MemoryNext]_vars => IInv'
  <2> SUFFICES ASSUME MemoryTypeOK, IInv, [MemoryNext]_vars PROVE IInv'
    OBVIOUS
  <2>0. /\ tick_counter \in Nat /\ Window \in Nat
        /\ signal_buffer \in [Symbols -> Seq(Entries)] /\ run \in [Procs -> Locals]
        /\ spoken \in [Symbols -> [Strategies -> Entries \cup {Nothing}]]
        /\ \A p \in Procs : run[p].symbol \in Symbols /\ run[p].tick \in Nat
    BY MemoryAssumption DEF MemoryTypeOK, Locals
  <2> USE DEF shared, history
  <2>1. ASSUME UNCHANGED <<tick_counter, signal_buffer, spoken>>,
               \A p \in Procs : run'[p].tick \in {0, run[p].tick, tick_counter}
        PROVE  IInv'
    BY <2>0, <2>1 DEF WordsKept, StampsPast
  <2>2. ASSUME NEW p \in Procs, Returns(p), UNCHANGED <<tick_counter, signal_buffer, spoken>>
        PROVE  IInv'
    BY <2>0, <2>1, <2>2 DEF Returns, NoRun
  <2>3. ASSUME NEW p \in Procs, NEW s \in Symbols, Run(p, s) PROVE IInv'
    <3>1. /\ tick_counter' = tick_counter + 1 /\ UNCHANGED <<signal_buffer, spoken>>
          /\ \A q \in Procs : run'[q].tick = 0 \/ run'[q].tick = run[q].tick
      BY <2>0, <2>3 DEF Run
    <3>2. WordsKept'
      BY <2>0, <3>1, WordsLater DEF WordsKept
    <3>3. StampsPast'
      BY <2>0, <3>1 DEF StampsPast
    <3> QED
      BY <3>2, <3>3
  <2>4. ASSUME NEW p \in Procs, CheckCooldown(p) \/ Pruned(p) \/ Select(p) \/ Raises(p) PROVE IInv'
    BY <2>1, <2>2, <2>4 DEF CheckCooldown, Pruned, Select, Raises
  <2>5. ASSUME NEW p \in Procs, Merge(p) \/ Collect(p) PROVE IInv'
    <3>1. UNCHANGED <<tick_counter, signal_buffer, spoken>>
      BY <2>5 DEF Merge, Collect
    <3>2. \A q \in Procs : run'[q].tick \in {run[q].tick, tick_counter}
      <4>1. ASSUME Merge(p), NEW q \in Procs PROVE run'[q].tick \in {run[q].tick, tick_counter}
        BY <2>0, <4>1 DEF Merge, Locals
      <4>2. ASSUME Collect(p), NEW q \in Procs PROVE run'[q].tick = run[q].tick
        BY <2>0, <4>2 DEF Collect, Locals
      <4> QED
        BY <2>5, <4>1, <4>2
    <3> QED
      BY <2>1, <3>1, <3>2
  <2>6. ASSUME NEW p \in Procs, AppendSignal(p) PROVE IInv'
    <3>1. PICK g \in run[p].signals :
            LET e == [tick |-> run[p].tick, signal |-> g, at |-> tick_counter, round |-> ticks] IN
            /\ signal_buffer' = [signal_buffer EXCEPT ![run[p].symbol] = Append(@, e)]
            /\ spoken' = [spoken EXCEPT ![run[p].symbol][g.strategy] = e]
            /\ run' = [run EXCEPT ![p].signals = @ \ {g}]
      BY <2>6 DEF AppendSignal
    <3> DEFINE e == [tick |-> run[p].tick, signal |-> g, at |-> tick_counter, round |-> ticks]
    <3>2. e \in Entries /\ e.signal = g
      BY <2>0, <3>1 DEF Entries, Locals, MemoryTypeOK
    <3>3. UNCHANGED tick_counter /\ \A q \in Procs : run'[q].tick = run[q].tick
      BY <2>0, <2>6, <3>1 DEF AppendSignal, Locals
    <3>4. /\ signal_buffer' = [signal_buffer EXCEPT ![run[p].symbol] = Append(@, e)]
          /\ spoken' = [spoken EXCEPT ![run[p].symbol] = [@ EXCEPT ![e.signal.strategy] = e]]
      BY <3>1, <3>2
    <3> HIDE DEF e
    <3>5. WordsKept'
      <4>1. ASSUME NEW s \in Symbols PROVE Words(signal_buffer'[s], spoken'[s], tick_counter)
        <5>1. CASE s # run[p].symbol
          BY <2>0, <3>4, <5>1 DEF WordsKept
        <5>2. CASE s = run[p].symbol
          <6>1. /\ signal_buffer'[s] = Append(signal_buffer[s], e)
                /\ spoken'[s] = [spoken[s] EXCEPT ![e.signal.strategy] = e]
            BY <2>0, <3>4, <5>2
          <6> QED
            BY <2>0, <3>2, <6>1, WordsAppend DEF WordsKept
        <5> QED
          BY <5>1, <5>2
      <4> QED
        BY <3>3, <4>1 DEF WordsKept
    <3> QED
      BY <3>3, <3>5 DEF StampsPast
  <2>7. ASSUME NEW p \in Procs, Prune(p) PROVE IInv'
    <3>1. UNCHANGED <<tick_counter, spoken, run>>
      BY <2>7 DEF Prune
    <3>2. ASSUME NEW s \in Symbols PROVE Words(signal_buffer'[s], spoken[s], tick_counter)
      <4>1. CASE s # run[p].symbol
        BY <2>0, <2>7, <4>1 DEF WordsKept, Prune
      <4>2. CASE s = run[p].symbol
        <5>1. signal_buffer'[s] = Tail(signal_buffer[s]) /\ signal_buffer[s] # <<>>
          BY <2>0, <2>7, <4>2 DEF Prune, Expired, Buffer
        <5>2. Head(signal_buffer[s]) \in Entries
          BY <2>0, <5>1
        <5>3. Head(signal_buffer[s]).tick <= tick_counter - Window
          BY <2>0, <2>7, <4>2, <5>2, EntryFacts DEF Prune, Expired, Buffer, StampsPast
        <5> QED
          BY <2>0, <5>1, <5>3, WordsTail DEF WordsKept
      <4> QED
        BY <4>1, <4>2
    <3> QED
      BY <3>1, <3>2 DEF WordsKept, StampsPast
  <2>8. CASE StartTick \/ UNCHANGED vars
    BY <2>1, <2>8 DEF StartTick, vars
  <2> QED
    BY <2>3, <2>4, <2>5, <2>6, <2>7, <2>8 DEF MemoryNext
<1>3. MemoryTypeOK /\ WordsKept /\ [MemoryNext]_vars
        => [\A p \in Procs : pc[p] = "collect" /\ pc'[p] = "select" =>
              LET words == {spoken[run[p].symbol][st] : st \in Strategies} \ {Nothing} IN
              {e \in words : e.tick > tick_counter - Window} \subseteq run'[p].merged
                /\ run'[p].merged \subseteq words]_vars
  <2> SUFFICES ASSUME MemoryTypeOK, WordsKept, MemoryNext, NEW p \in Procs,
                      pc[p] = "collect", pc'[p] = "select"
               PROVE  LET words == {spoken[run[p].symbol][st] : st \in Strategies} \ {Nothing} IN
                      {e \in words : e.tick > tick_counter - Window} \subseteq run'[p].merged
                        /\ run'[p].merged \subseteq words
    BY DEF vars
  <2>1. Collect(p)
    BY SMTT(40) DEF MemoryNext, StartTick, Run, CheckCooldown, Merge, AppendSignal, Prune, Pruned, Collect,
           Select, Raises, Returns, Goto, Disturbed, MemoryTypeOK
  <2> DEFINE s == run[p].symbol
             words == {spoken[s][st] : st \in Strategies} \ {Nothing}
  <2>2. /\ s \in Symbols /\ signal_buffer[s] \in Seq(Entries)
        /\ spoken[s] \in [Strategies -> Entries \cup {Nothing}]
    BY DEF MemoryTypeOK, Locals
  <2>3. run'[p].merged = Latest(signal_buffer[s])
    BY <2>1 DEF Collect, Buffer, MemoryTypeOK, Locals
  <2>4. Words(signal_buffer[s], spoken[s], tick_counter)
    BY <2>2 DEF WordsKept
  <2> HIDE DEF s
  <2>5. /\ Latest(signal_buffer[s]) \subseteq words
        /\ \A e \in words : e.tick <= tick_counter - Window \/ e \in Latest(signal_buffer[s])
    BY <2>2, <2>4, WordsLatest
  <2>6. \A e \in words : e.tick \in Nat
    BY <2>2, EntryFacts
  <2>7. tick_counter \in Int /\ Window \in Int
    BY MemoryAssumption DEF MemoryTypeOK
  <2> QED
    BY <2>3, <2>5, <2>6, <2>7 DEF s
<1> QED
  BY <1>1, <1>2, <1>3, MemoryTypeCorrect, PTL DEF MemorySpec, LastWordsVote

----------------------------------------------------------------------------
(* The cooldown and the vote.                                                  *)

\* A process knows of its own last selection: what a run read of last_signal_tick is
\* no earlier, and past the check Cooldown runs lie between.
PickedPast ==
    \A p \in Procs, s \in Symbols :
      picked[p][s] <= last_signal_tick[s] /\ last_signal_tick[s] <= tick_counter

ReadLater ==
    \A p \in Procs : pc[p] = "cooldown" =>
      picked[p][run[p].symbol] <= run[p].last_tick /\ run[p].last_tick <= tick_counter

Waited ==
    \A p \in Procs : pc[p] \in {"merge", "append", "collect", "select"} =>
      LET mine == picked[p][run[p].symbol] IN mine = 0 \/ tick_counter - mine >= Cooldown

\* Two selections of a symbol by one process are at least Cooldown runs apart.
THEOREM MemoryCooldownKept == MemorySpec => CooldownKept
<1> DEFINE IInv == PickedPast /\ ReadLater /\ Waited
<1>1. MemoryInit => IInv
  BY DEF MemoryInit, PickedPast, ReadLater, Waited
<1>2. MemoryTypeOK /\ IInv /\ [MemoryNext]_vars => IInv'
  <2> SUFFICES ASSUME MemoryTypeOK, IInv, [MemoryNext]_vars PROVE IInv'
    OBVIOUS
  <2>0. /\ tick_counter \in Nat /\ Cooldown \in Nat /\ last_signal_tick \in [Symbols -> 0 .. MaxRuns]
        /\ run \in [Procs -> Locals] /\ pc \in [Procs -> Places]
        /\ picked \in [Procs -> [Symbols -> 0 .. MaxRuns]]
        /\ \A p \in Procs : run[p].symbol \in Symbols /\ run[p].last_tick \in Nat
        /\ \A p \in Procs, s \in Symbols : picked[p][s] \in Nat /\ last_signal_tick[s] \in Nat
    BY MemoryAssumption DEF MemoryTypeOK, Locals, Places
  <2> USE DEF shared, history
  \* Inside a run nothing is selected, and a process past the check was so before.
  <2>1. ASSUME UNCHANGED <<tick_counter, last_signal_tick, picked>>,
               \A p \in Procs :
                 /\ pc'[p] = "cooldown" => pc[p] = "cooldown" /\ run'[p].last_tick = run[p].last_tick
                 /\ pc'[p] \in {"merge", "append", "collect", "select"}
                      => pc[p] \in {"merge", "append", "collect", "select"}
                 /\ pc'[p] \in {"idle", "raises"} \/ run'[p].symbol = run[p].symbol
        PROVE  IInv'
    <3>1. PickedPast'
      BY <2>1 DEF PickedPast
    <3>2. ReadLater'
      BY <2>0, <2>1 DEF ReadLater
    <3>3. Waited'
      BY <2>0, <2>1 DEF Waited
    <3> QED
      BY <3>1, <3>2, <3>3
  <2>2. ASSUME NEW p \in Procs, Returns(p), UNCHANGED <<tick_counter, last_signal_tick, picked>>
        PROVE  IInv'
    BY <2>0, <2>1, <2>2 DEF Returns, Goto
  <2>3. ASSUME NEW p \in Procs, NEW s \in Symbols, Run(p, s) PROVE IInv'
    <3>1. /\ run'[p].symbol = s /\ run'[p].last_tick = last_signal_tick[s] /\ pc'[p] = "cooldown"
          /\ \A q \in Procs \ {p} : run'[q] = run[q] /\ pc'[q] = pc[q]
          /\ tick_counter' = tick_counter + 1 /\ UNCHANGED <<last_signal_tick, picked>>
      BY <2>0, <2>3 DEF Run, Goto
    <3>2. PickedPast'
      BY <2>0, <3>1 DEF PickedPast
    <3>3. ReadLater'
      BY <2>0, <3>1 DEF ReadLater, PickedPast
    <3>4. Waited'
      BY <2>0, <3>1 DEF Waited
    <3> QED
      BY <3>2, <3>3, <3>4
  <2>4. ASSUME NEW p \in Procs, CheckCooldown(p) PROVE IInv'
    <3>1. CASE InCooldown(p)
      BY <2>2, <2>4, <3>1 DEF CheckCooldown
    <3>2. CASE ~ InCooldown(p)
      <4>1. /\ pc[p] = "cooldown" /\ pc'[p] = "merge" /\ \A q \in Procs \ {p} : pc'[q] = pc[q]
            /\ UNCHANGED <<tick_counter, last_signal_tick, picked, run>>
        BY <2>0, <2>4, <3>2 DEF CheckCooldown, Goto
      <4>2. LET mine == picked[p][run[p].symbol] IN mine = 0 \/ tick_counter - mine >= Cooldown
        BY <2>0, <3>2, <4>1 DEF InCooldown, ReadLater
      <4>3. Waited'
        BY <4>1, <4>2 DEF Waited
      <4> QED
        BY <4>1, <4>3 DEF PickedPast, ReadLater
    <3> QED
      BY <3>1, <3>2
  <2>5. ASSUME NEW p \in Procs, Merge(p) PROVE IInv'
    BY <2>0, <2>1, <2>5 DEF Merge, Goto, Locals
  <2>6. ASSUME NEW p \in Procs, Disturbed(p, "append"), pc[p] = "append",
               UNCHANGED <<tick_counter, last_signal_tick, picked>>,
               \A q \in Procs : /\ run'[q].symbol = run[q].symbol
                                /\ run'[q].last_tick = run[q].last_tick
        PROVE  IInv'
    <3>1. "append" \in Places
      BY DEF Places
    <3>2. pc'[p] = "append" /\ \A q \in Procs \ {p} : pc'[q] = pc[q] \/ pc'[q] = "raises"
      BY <2>0, <2>6, <3>1, DisturbedType
    <3> QED
      BY <2>1, <2>6, <3>2
  <2>7. ASSUME NEW p \in Procs, AppendSignal(p) PROVE IInv'
    <3>1. \A q \in Procs : run'[q].symbol = run[q].symbol /\ run'[q].last_tick = run[q].last_tick
      BY <2>0, <2>7 DEF AppendSignal, Locals
    <3> QED
      BY <2>6, <2>7, <3>1 DEF AppendSignal
  <2>8. ASSUME NEW p \in Procs, Prune(p) PROVE IInv'
    BY <2>6, <2>8 DEF Prune
  <2>9. ASSUME NEW p \in Procs, Pruned(p) PROVE IInv'
    <3>1. CASE Buffer(p) = <<>>
      BY <2>2, <2>9, <3>1 DEF Pruned
    <3>2. CASE Buffer(p) # <<>>
      BY <2>0, <2>1, <2>9, <3>2 DEF Pruned, Goto
    <3> QED
      BY <3>1, <3>2
  <2>10. ASSUME NEW p \in Procs, Collect(p) PROVE IInv'
    <3>1. \A q \in Procs : run'[q].symbol = run[q].symbol /\ run'[q].last_tick = run[q].last_tick
      BY <2>0, <2>10 DEF Collect, Locals
    <3> QED
      BY <2>0, <2>1, <2>10, <3>1 DEF Collect, Goto
  <2>11. ASSUME NEW p \in Procs, Select(p) PROVE IInv'
    <3>1. CASE UNCHANGED <<last_signal_tick, picked>>
      BY <2>2, <2>11, <3>1 DEF Select
    <3>2. CASE /\ last_signal_tick' = [last_signal_tick EXCEPT ![run[p].symbol] = tick_counter]
               /\ picked' = [picked EXCEPT ![p][run[p].symbol] = tick_counter]
      <4>1. /\ UNCHANGED tick_counter /\ pc'[p] = "idle"
            /\ \A q \in Procs \ {p} : run'[q] = run[q] /\ pc'[q] = pc[q] /\ picked'[q] = picked[q]
        BY <2>0, <2>11, <3>2 DEF Select, Returns, Goto
      <4>2. \A q \in Procs, s \in Symbols :
              picked'[q][s] \in {picked[q][s], tick_counter}
                /\ (picked'[q][s] = tick_counter => picked[q][s] = tick_counter \/ s = run[p].symbol)
        BY <2>0, <3>2
      <4>3. \A s \in Symbols :
              last_signal_tick'[s] = IF s = run[p].symbol THEN tick_counter ELSE last_signal_tick[s]
        BY <2>0, <3>2
      <4>4. PickedPast'
        <5>1. ASSUME NEW q \in Procs, NEW s \in Symbols
              PROVE  picked'[q][s] <= last_signal_tick'[s] /\ last_signal_tick'[s] <= tick_counter
          BY <2>0, <4>2, <4>3 DEF PickedPast
        <5> QED
          BY <4>1, <5>1 DEF PickedPast
      <4>5. ReadLater' /\ Waited'
        BY <4>1 DEF ReadLater, Waited
      <4> QED
        BY <4>4, <4>5
    <3> QED
      BY <2>11, <3>1, <3>2 DEF Select
  <2>12. ASSUME NEW p \in Procs, Raises(p) PROVE IInv'
    BY <2>2, <2>12 DEF Raises
  <2>13. CASE StartTick \/ UNCHANGED vars
    BY <2>13 DEF StartTick, vars, PickedPast, ReadLater, Waited
  <2> QED
    BY <2>3, <2>4, <2>5, <2>7, <2>8, <2>9, <2>10, <2>11, <2>12, <2>13 DEF MemoryNext
<1>3. MemoryTypeOK /\ Waited /\ [MemoryNext]_vars
        => [\A p \in Procs, s \in Symbols :
              picked[p][s] # 0 /\ picked'[p][s] # picked[p][s]
                => picked'[p][s] - picked[p][s] >= Cooldown]_vars
  <2> SUFFICES ASSUME MemoryTypeOK, Waited, MemoryNext, NEW p \in Procs, NEW s \in Symbols,
                      picked[p][s] # 0, picked'[p][s] # picked[p][s]
               PROVE  picked'[p][s] - picked[p][s] >= Cooldown
    BY DEF vars
  <2>1. PICK q \in Procs : Select(q)
    BY DEF MemoryNext, StartTick, Run, CheckCooldown, Merge, AppendSignal, Prune, Pruned, Collect,
           Raises, history
  <2>2. picked' = [picked EXCEPT ![q][run[q].symbol] = tick_counter] /\ pc[q] = "select"
    BY <2>1 DEF Select
  <2>3. p = q /\ s = run[q].symbol /\ picked'[p][s] = tick_counter
    BY <2>2 DEF MemoryTypeOK
  <2> QED
    BY <2>2, <2>3 DEF Waited
<1> QED
  BY <1>1, <1>2, <1>3, MemoryTypeCorrect, PTL DEF MemorySpec, CooldownKept

\* The last entries of a buffer are finitely many, one per strategy.
LEMMA LatestOnePerStrategy ==
    ASSUME NEW buf \in Seq(Entries)
    PROVE  /\ IsFiniteSet(Latest(buf))
           /\ \A e, f \in Latest(buf) : e.signal.strategy = f.signal.strategy => e = f
<1> DEFINE I == {j \in DOMAIN buf : \A k \in j + 1 .. Len(buf) :
                                      buf[k].signal.strategy # buf[j].signal.strategy}
<1>1. I \in SUBSET (1 .. Len(buf)) /\ Len(buf) \in Nat
  OBVIOUS
<1>2. IsFiniteSet(I)
  <2>1. IsFiniteSet(1 .. Len(buf))
    BY <1>1, FS_Interval
  <2> QED
    BY <1>1, <2>1, FS_Subset
<1>3. Latest(buf) = {buf[i] : i \in I}
  BY DEF Latest
<1>4. [i \in I |-> buf[i]] \in Surjection(I, Latest(buf))
  BY <1>3 DEF Surjection
<1>5. IsFiniteSet(Latest(buf))
  BY <1>2, <1>4, FS_Surjection
<1>6. ASSUME NEW i \in I, NEW j \in I, buf[i].signal.strategy = buf[j].signal.strategy
      PROVE  i = j
  BY <1>1, <1>6
<1> QED
  BY <1>3, <1>5, <1>6

\* As many strategies as entries, where no strategy has two.
LEMMA StrategiesOfVotes ==
    ASSUME NEW V, IsFiniteSet(V),
           \A e, f \in V : e.signal.strategy = f.signal.strategy => e = f
    PROVE  Cardinality({e.signal.strategy : e \in V}) = Cardinality(V)
<1> DEFINE T == {e.signal.strategy : e \in V}
           m == [e \in V |-> e.signal.strategy]
<1>1. m \in Bijection(V, T)
  BY DEF Bijection, Injection, Surjection, IsInjective
<1> QED
  BY <1>1, FS_Bijection DEF ExistsBijection

OneVotePerStrategy ==
    \A p \in Procs :
      /\ IsFiniteSet(run[p].merged)
      /\ \A e, f \in run[p].merged : e.signal.strategy = f.signal.strategy => e = f

\* A selection rests on at least MinAgree different strategies.
THEOREM MemoryConviction == MemorySpec => Conviction
<1>1. MemoryInit => OneVotePerStrategy
  <2>1. MemoryInit => \A p \in Procs : run[p].merged = {}
    BY DEF MemoryInit, NoRun
  <2>2. IsFiniteSet({})
    BY FS_EmptySet
  <2> QED
    BY <2>1, <2>2 DEF OneVotePerStrategy
<1>2. MemoryTypeOK /\ OneVotePerStrategy /\ [MemoryNext]_vars => OneVotePerStrategy'
  <2> SUFFICES ASSUME MemoryTypeOK, OneVotePerStrategy, [MemoryNext]_vars
               PROVE  OneVotePerStrategy'
    OBVIOUS
  <2>0. /\ run \in [Procs -> Locals] /\ signal_buffer \in [Symbols -> Seq(Entries)]
        /\ \A p \in Procs : run[p].symbol \in Symbols
    BY DEF MemoryTypeOK, Locals
  <2>1. ASSUME \A p \in Procs : run'[p].merged \in {{}, run[p].merged}
        PROVE  OneVotePerStrategy'
    BY <2>1, FS_EmptySet DEF OneVotePerStrategy
  <2>2. ASSUME NEW p \in Procs, Collect(p) PROVE OneVotePerStrategy'
    <3>1. /\ run'[p].merged = Latest(Buffer(p))
          /\ \A q \in Procs \ {p} : run'[q] = run[q]
      BY <2>0, <2>2 DEF Collect, Locals
    <3>2. Buffer(p) \in Seq(Entries)
      BY <2>0 DEF Buffer
    <3> QED
      BY <3>1, <3>2, LatestOnePerStrategy DEF OneVotePerStrategy
  <2>3. ASSUME NEW p \in Procs, UNCHANGED run \/ Returns(p) PROVE OneVotePerStrategy'
    BY <2>0, <2>1, <2>3 DEF Returns, NoRun
  <2>4. ASSUME NEW p \in Procs, NEW s \in Symbols, Run(p, s) PROVE OneVotePerStrategy'
    BY <2>0, <2>1, <2>4 DEF Run
  <2>5. ASSUME NEW p \in Procs, Merge(p) \/ AppendSignal(p) PROVE OneVotePerStrategy'
    <3>1. ASSUME NEW q \in Procs PROVE run'[q].merged = run[q].merged
      <4>1. CASE Merge(p)
        BY <2>0, <4>1 DEF Merge, Locals
      <4>2. CASE AppendSignal(p)
        BY <2>0, <4>2 DEF AppendSignal, Locals
      <4> QED
        BY <2>5, <4>1, <4>2
    <3> QED
      BY <2>1, <3>1
  <2>6. ASSUME NEW p \in Procs,
               CheckCooldown(p) \/ Prune(p) \/ Pruned(p) \/ Select(p) \/ Raises(p)
        PROVE  OneVotePerStrategy'
    BY <2>3, <2>6 DEF CheckCooldown, Prune, Pruned, Select, Raises
  <2>7. CASE StartTick \/ UNCHANGED vars
    BY <2>1, <2>7 DEF StartTick, vars
  <2> QED
    BY <2>2, <2>4, <2>5, <2>6, <2>7 DEF MemoryNext
<1>3. MemoryTypeOK /\ OneVotePerStrategy /\ [MemoryNext]_vars
        => [\A p \in Procs : picked'[p] # picked[p] =>
              \E d \in Sides :
                Cardinality({e.signal.strategy : e \in Votes(run[p].merged, d)}) >= MinAgree]_vars
  <2> SUFFICES ASSUME MemoryTypeOK, OneVotePerStrategy, MemoryNext, NEW p \in Procs,
                      picked'[p] # picked[p]
               PROVE  \E d \in Sides :
                        Cardinality({e.signal.strategy : e \in Votes(run[p].merged, d)}) >= MinAgree
    BY DEF vars
  <2>1. PICK q \in Procs : Select(q)
    BY DEF MemoryNext, StartTick, Run, CheckCooldown, Merge, AppendSignal, Prune, Pruned, Collect,
           Raises, history
  <2>2. /\ Best(run[q].merged) # {}
        /\ picked' = [picked EXCEPT ![q][run[q].symbol] = tick_counter]
    BY <2>1 DEF Select
  <2>3. p = q
    BY <2>2 DEF MemoryTypeOK
  <2>4. PICK d \in Sides : Cardinality(Votes(run[p].merged, d)) >= MinAgree
    BY <2>2, <2>3 DEF Best
  <2>5. IsFiniteSet(Votes(run[p].merged, d))
    BY FS_Subset DEF Votes, OneVotePerStrategy
  <2>6. Cardinality({e.signal.strategy : e \in Votes(run[p].merged, d)})
          = Cardinality(Votes(run[p].merged, d))
    BY <2>5, StrategiesOfVotes DEF Votes, OneVotePerStrategy
  <2> QED
    BY <2>4, <2>6
<1> QED
  BY <1>1, <1>2, <1>3, MemoryTypeCorrect, PTL DEF MemorySpec, Conviction
====
