---- MODULE BacktestProofs ----
(* Theorems about Backtest, for any candles, strategies, caps and chunks.       *)
EXTENDS Backtest, SequenceTheorems, FiniteSetTheorems, TLAPS

----------------------------------------------------------------------------
(* The batch around the engines.                                                *)

Working == {"start", "bar", "exit", "enter"}
Raised == {"vote raised", "params raised", "append raised"}

ControlType ==
    /\ pc \in Working \cup {"fetch", "summaries", "rows", "done"} \cup Raised
    /\ mode \in Modes /\ sure \in BOOLEAN /\ leg \in {"main", "extra"}
    /\ symbol \in 1 .. Count + 1 /\ (pc = "done" \/ symbol <= Count)
    /\ chunk \in 1 .. Chunks + 1 /\ attempt \in 0 .. MaxAttempts - 1
    /\ got \subseteq 1 .. Chunks /\ blank \subseteq 1 .. Chunks
    /\ n \in Lengths \cup {0} /\ i \in Nat /\ upto \in Nat

\* A step of an engine, whatever it does to the trade: the batch stays at its symbol, and
\* only the ensemble that is added starts without a fetch.
EngineStep ==
    /\ pc \in Working /\ pc' \in Working \cup {"summaries", "vote raised", "params raised"}
    /\ pc' = "start" => leg' = "extra"
    /\ UNCHANGED <<mode, sure, symbol, n, files>>
    /\ leg' \in {"main", "extra"} /\ i' \in Nat /\ upto' \in Nat
    /\ fetch' = fetch \/ NoFetch

\* A symbol given up, by its fetch or by its engine.
SkipStep == pc \in Working \cup {"fetch"} /\ Skip

\* An answer for a chunk, with candles or, behind one that had some, without.
AnswerStep ==
    /\ Fetching /\ NextChunk
    /\ got \cup blank \cup {chunk} = got' \cup blank'
    /\ got \subseteq got' /\ got' # {} /\ got' \subseteq 1 .. Chunks /\ blank' \subseteq 1 .. Chunks

\* An attempt of a fetch that is made again.
WaitStep ==
    /\ Fetching /\ attempt' \in 0 .. MaxAttempts - 1
    /\ UNCHANGED <<pc, mode, sure, symbol, chunk, got, blank, frame, i, upto, files>>

\* Where a window begins and ends.
LEMMA WindowType ==
    ASSUME NEW ws \in Nat, n \in Nat, Window(ws)
    PROVE  i' \in Nat /\ upto' \in Nat
<1>1. Warmup \in Nat /\ TestBars \in Nat
  BY BacktestAssumption
<1>2. (IF ws > Warmup THEN ws - Warmup ELSE 0) \in Nat
  BY <1>1
<1> QED
  BY <1>1, <1>2 DEF Window, Over

\* Every step is one of these.
LEMMA StepShapes ==
    ASSUME ControlType, BatchNext
    PROVE  \/ EngineStep \/ SkipStep \/ AnswerStep \/ WaitStep \/ Fetched
           \/ AppendSummaries \/ AppendTrades \/ AppendRaises
<1>0. /\ n \in Nat /\ Warmup \in Nat /\ TrainBars \in Nat /\ TestBars \in Nat /\ Chunks \in Nat
      /\ MaxAttempts \in Nat \ {0}
  BY BacktestAssumption DEF ControlType
<1>1. CASE FetchPart
  BY <1>0, <1>1 DEF FetchPart, AnswerStep, Fetching, ControlType
<1>2. CASE FetchEmpty
  <2>1. CASE got = {}
    BY <1>2, <2>1 DEF FetchEmpty, SkipStep, Fetching
  <2>2. CASE got # {}
    <3>1. Fetching /\ NextChunk /\ blank' = blank \cup {chunk} /\ got' = got
      BY Zenon, <1>2, <2>2 DEF FetchEmpty
    <3>2. chunk \in 1 .. Chunks
      BY <1>0, <3>1 DEF Fetching, ControlType
    <3> QED
      BY <2>2, <3>1, <3>2 DEF AnswerStep, ControlType
  <2> QED
    BY <2>1, <2>2
<1>3. CASE RateLimited
  BY <1>0, <1>3 DEF RateLimited, WaitStep, SkipStep, Fetching, ControlType, frame, files
<1>4. CASE FetchFails
  BY <1>4 DEF FetchFails, SkipStep, Fetching
<1>5. CASE Start
  <2>1. CASE TooShort
    BY <1>5, <2>1 DEF Start, SkipStep, Working
  <2>2. CASE ~ TooShort
    <3>1. i' \in Nat /\ upto' \in Nat
      BY <1>0, <1>5, <2>2, WindowType DEF Start, Over
    <3> QED
      BY <1>5, <2>2, <3>1 DEF Start, EngineStep, Goto, Working, ControlType, files
  <2> QED
    BY <2>1, <2>2
<1>6. ASSUME NEW b \in Bars, NextBar(b) PROVE EngineStep
  BY <1>6 DEF NextBar, Goto, EngineStep, Working, ControlType, fetch, frame, files
<1>7. CASE StopOut \/ TakeProfit \/ CloseOut
  BY <1>7 DEF StopOut, TakeProfit, CloseOut, Goto, EngineStep, Working, ControlType, fetch, frame, files
<1>8. CASE Hold
  BY <1>8 DEF Hold, Advance, Goto, EngineStep, Working, ControlType, fetch, frame, files
<1>9. CASE Cool
  BY <1>9 DEF Cool, Advance, Goto, EngineStep, Working, ControlType, fetch, frame, files
<1>10. ASSUME NEW s, Decide(s) PROVE EngineStep
  <2>1. /\ pc = "enter" /\ pc' = "bar" /\ i' = i + 1
        /\ UNCHANGED <<mode, sure, symbol, fetch, frame, upto, files>>
    BY <1>10 DEF Decide, Advance, Goto
  <2> QED
    BY <2>1 DEF EngineStep, Working, ControlType, fetch, frame, files
<1>11. ASSUME NEW s, BatchDies(s) PROVE EngineStep
  BY <1>11 DEF BatchDies, Goto, EngineStep, Working, ControlType, fetch, frame, files
<1>12. ASSUME NEW s, AnswerRaises(s) PROVE SkipStep
  BY <1>12 DEF AnswerRaises, SkipStep, Working
<1>15. CASE ParamsRaise
  BY <1>15 DEF ParamsRaise, Goto, EngineStep, Working, ControlType, fetch, frame, files
<1>13. CASE Midnight
  BY <1>13 DEF Midnight, EngineStep, Working, ControlType, fetch, frame, files
<1>14. CASE EndRun
  <2>1. i' \in Nat /\ upto' \in Nat
    BY <1>0, <1>14, WindowType DEF EndRun, ControlType
  <2>2. (pc' = pc /\ leg' = leg) \/ (pc' = "start" /\ leg' = "extra") \/ (pc' = "summaries" /\ leg' = leg)
    BY <1>14 DEF EndRun, Goto
  <2> QED
    BY <1>14, <2>1, <2>2 DEF EndRun, EngineStep, Working, ControlType, files
<1> QED
  BY <1>1, <1>2, <1>3, <1>4, <1>5, <1>6, <1>7, <1>8, <1>9, <1>10, <1>11, <1>12, <1>13, <1>14, <1>15
     DEF BatchNext, Fetch, Exits, Entries

\* NextSymbol's place and number.
LEMMA NextSymbolType ==
    ASSUME ControlType, pc # "done", NextSymbol
    PROVE  /\ pc' \in {"fetch", "done"} /\ symbol' = symbol + 1 /\ symbol \in 1 .. Count
           /\ symbol' \in 1 .. Count + 1 /\ (pc' = "done" \/ symbol' <= Count)
           /\ chunk' = 1 /\ attempt' = 0 /\ got' = {} /\ blank' = {}
           /\ n' = 0 /\ leg' = "main" /\ i' = 0 /\ upto' = 0
  BY BacktestAssumption DEF ControlType, NextSymbol, NoFetch

\* The batch starts in its type.
LEMMA ControlInit == BatchInit => ControlType
<1> SUFFICES ASSUME BatchInit PROVE ControlType
  OBVIOUS
<1>1. Count \in Nat \ {0} /\ Chunks \in Nat \ {0} /\ MaxAttempts \in Nat \ {0}
  BY BacktestAssumption
<1>2. mode \in Modes /\ sure \in BOOLEAN
  BY DEF BatchInit
<1> QED
  BY <1>1, <1>2 DEF BatchInit, ControlType

\* Every step keeps the batch in its type.
LEMMA ControlStep == ControlType /\ [BatchNext]_vars => ControlType'
<1> SUFFICES ASSUME ControlType, [BatchNext]_vars PROVE ControlType'
  OBVIOUS
<1>0. Count \in Nat \ {0} /\ Chunks \in Nat \ {0} /\ MaxAttempts \in Nat \ {0}
  BY BacktestAssumption
<1>1. CASE EngineStep
  <2>1. /\ chunk' \in 1 .. Chunks + 1 /\ attempt' \in 0 .. MaxAttempts - 1
        /\ got' \subseteq 1 .. Chunks /\ blank' \subseteq 1 .. Chunks
    <3>1. CASE fetch' = fetch
      BY <3>1 DEF ControlType, fetch
    <3>2. CASE NoFetch
      BY <1>0, <3>2 DEF NoFetch
    <3> QED
      BY <1>1, <3>1, <3>2 DEF EngineStep
  <2>2. /\ pc' \in Working \cup {"summaries", "vote raised", "params raised"}
        /\ pc' = "done" \/ symbol' <= Count
    BY <1>1 DEF EngineStep, ControlType, Working
  <2> QED
    BY <1>1, <2>1, <2>2 DEF EngineStep, ControlType, Raised
<1>2. ASSUME pc # "done", NextSymbol, UNCHANGED <<mode, sure>> PROVE ControlType'
  BY <1>0, <1>2, NextSymbolType DEF ControlType
<1>3. CASE SkipStep
  BY <1>2, <1>3 DEF SkipStep, Skip, Working
<1>4. CASE AnswerStep
  BY <1>0, <1>4 DEF AnswerStep, NextChunk, Fetching, ControlType, frame
<1>5. CASE WaitStep
  BY <1>0, <1>5 DEF WaitStep, ControlType, frame
<1>6. CASE Fetched
  BY <1>0, <1>6 DEF Fetched, ControlType, fetch, Working
<1>7. CASE AppendSummaries
  BY <1>0, <1>7 DEF AppendSummaries, Goto, ControlType, fetch, frame, Working
<1>8. CASE AppendTrades
  BY <1>2, <1>8 DEF AppendTrades
<1>9. CASE UNCHANGED vars
  BY <1>9 DEF vars, ControlType, fetch, frame
<1>10. CASE AppendRaises
  BY <1>0, <1>10 DEF AppendRaises, Goto, ControlType, fetch, frame, Raised
<1> QED
  BY <1>1, <1>3, <1>4, <1>5, <1>6, <1>7, <1>8, <1>9, <1>10, StepShapes

----------------------------------------------------------------------------
(* Whole data.                                                                  *)

\* The chunks before the current one were answered, the first with candles; and so were
\* all when an engine starts.
FetchInv ==
    /\ pc = "fetch" => got \cup blank = 1 .. chunk - 1 /\ (got = {} => blank = {})
    /\ pc = "start" /\ leg = "main" => got \cup blank = 1 .. Chunks /\ got # {}

Rising(q) == q \in Seq(Nat) /\ \A a, b \in DOMAIN q : a < b => q[a] < q[b]

\* The files have the same symbols, all before the current one, in order; between the
\* two appends only the first has the current one, and so perhaps after one that raised.
FilesInv ==
    /\ Rising(rows) /\ Rising(summaries)
    /\ pc # "append raised" => /\ \A a \in DOMAIN rows : rows[a] < symbol
                               /\ summaries = IF pc = "rows" THEN Append(rows, symbol) ELSE rows
    /\ pc = "append raised" => summaries = rows \/ summaries = Append(rows, symbol)

WholeInv == ControlType /\ FetchInv /\ FilesInv

\* A chunk is passed over only with an answer, and a fetch that is given up begins anew.
LEMMA FetchStep == ControlType /\ FetchInv /\ [BatchNext]_vars => FetchInv'
<1> SUFFICES ASSUME ControlType, FetchInv, [BatchNext]_vars PROVE FetchInv'
  OBVIOUS
<1>0. Count \in Nat \ {0} /\ Chunks \in Nat \ {0} /\ chunk \in 1 .. Chunks + 1
  BY BacktestAssumption DEF ControlType
<1>1. CASE EngineStep
  BY <1>1 DEF EngineStep, FetchInv, Working
<1>2. ASSUME pc # "done", NextSymbol PROVE FetchInv'
  BY <1>0, <1>2, NextSymbolType DEF FetchInv
<1>3. CASE SkipStep
  BY <1>2, <1>3 DEF SkipStep, Skip, Working
<1>4. CASE AnswerStep
  <2>1. pc = "fetch" /\ pc' = "fetch" /\ chunk' = chunk + 1
    BY <1>4 DEF AnswerStep, NextChunk, Fetching
  <2>2. got' \cup blank' = (1 .. chunk - 1) \cup {chunk} /\ got' # {}
    BY <1>4, <2>1 DEF AnswerStep, FetchInv
  <2>3. (1 .. chunk - 1) \cup {chunk} = 1 .. chunk' - 1
    BY <1>0, <2>1
  <2> QED
    BY <2>1, <2>2, <2>3 DEF FetchInv
<1>5. CASE WaitStep
  BY <1>5 DEF WaitStep, FetchInv, Fetching
<1>6. CASE Fetched
  <2>1. pc = "fetch" /\ pc' = "start" /\ chunk - 1 = Chunks /\ UNCHANGED <<got, blank>>
    BY <1>0, <1>6 DEF Fetched, fetch
  <2>2. got \cup blank = 1 .. Chunks /\ (got = {} => blank = {})
    BY <2>1 DEF FetchInv
  <2>3. 1 \in 1 .. Chunks
    BY <1>0
  <2> QED
    BY <2>1, <2>2, <2>3 DEF FetchInv
<1>7. CASE AppendSummaries
  BY <1>7 DEF AppendSummaries, Goto, FetchInv
<1>8. CASE AppendTrades
  BY <1>2, <1>8 DEF AppendTrades
<1>9. CASE UNCHANGED vars
  BY <1>9 DEF vars, FetchInv, fetch, frame
<1>10. CASE AppendRaises
  BY <1>10 DEF AppendRaises, Goto, FetchInv
<1> QED
  BY <1>1, <1>3, <1>4, <1>5, <1>6, <1>7, <1>8, <1>9, <1>10, StepShapes

\* A file stays in order with a symbol behind those it has.
LEMMA RisingMore ==
    ASSUME NEW q, Rising(q), NEW s \in Nat, \A a \in DOMAIN q : q[a] < s
    PROVE  /\ Rising(Append(q, s))
           /\ \A a \in DOMAIN Append(q, s) : Append(q, s)[a] < s + 1
<1>1. /\ q \in Seq(Nat) /\ Append(q, s) \in Seq(Nat) /\ Len(q) \in Nat
      /\ DOMAIN Append(q, s) = 1 .. Len(q) + 1 /\ DOMAIN q = 1 .. Len(q)
  BY DEF Rising
<1>2. \A a \in DOMAIN Append(q, s) : Append(q, s)[a] = IF a \in DOMAIN q THEN q[a] ELSE s
  BY <1>1
<1>3. \A a \in DOMAIN q : q[a] \in Nat /\ q[a] < s
  BY <1>1
<1>4. \A a \in DOMAIN Append(q, s) : Append(q, s)[a] < s + 1
  BY <1>2, <1>3
<1>5. ASSUME NEW a \in DOMAIN Append(q, s), NEW b \in DOMAIN Append(q, s), a < b
      PROVE  Append(q, s)[a] < Append(q, s)[b]
  <2>1. a \in DOMAIN q
    BY <1>1, <1>5
  <2> QED
    BY <1>2, <1>3, <1>5, <2>1 DEF Rising
<1> QED
  BY <1>1, <1>4, <1>5 DEF Rising

\* Every symbol goes into both files, or into none, but where an append raises.
LEMMA FilesStep == ControlType /\ FilesInv /\ [BatchNext]_vars => FilesInv'
<1> SUFFICES ASSUME ControlType, FilesInv, [BatchNext]_vars PROVE FilesInv'
  OBVIOUS
<1>a. Count \in Nat
  BY BacktestAssumption
<1>b. symbol \in 1 .. Count + 1 /\ Rising(rows) /\ Rising(summaries)
  BY DEF ControlType, FilesInv
<1>0. symbol \in Nat /\ Rising(rows) /\ Rising(summaries)
  BY <1>a, <1>b
<1>1. ASSUME pc \notin {"rows", "append raised"}, pc' \notin {"rows", "append raised"},
             UNCHANGED files, symbol' \in {symbol, symbol + 1}
      PROVE  FilesInv'
  <2>1. \A a \in DOMAIN rows : rows[a] \in Nat
    BY <1>0 DEF Rising
  <2>2. summaries = rows /\ \A a \in DOMAIN rows : rows[a] < symbol
    BY <1>1 DEF FilesInv
  <2>3. UNCHANGED <<summaries, rows>>
    BY <1>1 DEF files
  <2>4. \A a \in DOMAIN rows : rows[a] < symbol'
    <3>1. symbol' = symbol \/ symbol' = symbol + 1
      BY <1>1
    <3> QED
      BY <1>0, <2>1, <2>2, <3>1
  <2>5. Rising(rows)' /\ Rising(summaries)'
    BY <1>0, <2>3 DEF Rising
  <2> QED
    BY <1>1, <2>2, <2>3, <2>4, <2>5 DEF FilesInv
<1>2. CASE EngineStep
  BY <1>1, <1>2 DEF EngineStep, Working
<1>3. CASE SkipStep
  BY <1>1, <1>3, NextSymbolType DEF SkipStep, Skip, Working
<1>4. CASE AnswerStep \/ WaitStep \/ Fetched
  BY <1>1, <1>4 DEF AnswerStep, WaitStep, NextChunk, Fetched, Fetching, files
<1>5. ASSUME pc \in {"summaries", "rows"}
      PROVE  /\ \A a \in DOMAIN rows : rows[a] < symbol
             /\ summaries = IF pc = "rows" THEN Append(rows, symbol) ELSE rows
             /\ Rising(Append(rows, symbol))
             /\ \A a \in DOMAIN Append(rows, symbol) : Append(rows, symbol)[a] < symbol + 1
  <2>1. /\ \A a \in DOMAIN rows : rows[a] < symbol
        /\ summaries = IF pc = "rows" THEN Append(rows, symbol) ELSE rows
    BY <1>5 DEF FilesInv
  <2> QED
    BY <1>0, <2>1, RisingMore
<1>6. CASE AppendSummaries
  <2>1. /\ pc = "summaries" /\ pc' = "rows" /\ summaries' = Append(rows, symbol)
        /\ UNCHANGED <<rows, symbol>>
    BY <1>5, <1>6 DEF AppendSummaries, Goto
  <2> QED
    BY <1>0, <1>5, <2>1 DEF FilesInv
<1>7. CASE AppendTrades
  <2>1. pc = "rows" /\ rows' = Append(rows, symbol) /\ summaries' = Append(rows, symbol)
    BY <1>5, <1>7 DEF AppendTrades
  <2>2. pc' \notin {"rows", "append raised"} /\ symbol' = symbol + 1
    BY <1>7, <2>1, NextSymbolType DEF AppendTrades
  <2> QED
    BY <1>5, <2>1, <2>2 DEF FilesInv
<1>8. CASE AppendRaises
  <2>1. /\ pc \in {"summaries", "rows"} /\ pc' = "append raised" /\ symbol' = symbol
        /\ \/ summaries' \in {rows, Append(rows, symbol)} /\ rows' = rows
           \/ summaries' = Append(rows, symbol) /\ rows' \in {rows, Append(rows, symbol)}
    BY <1>5, <1>8 DEF AppendRaises, Goto
  <2> QED
    BY <1>0, <1>5, <2>1 DEF FilesInv
<1>9. CASE UNCHANGED vars
  BY <1>9 DEF vars, FilesInv, files
<1> QED
  BY <1>2, <1>3, <1>4, <1>6, <1>7, <1>8, <1>9, StepShapes

\* WholeInv says what WholeDataOnly says.
LEMMA WholeImplies == WholeInv => WholeDataOnly
<1> SUFFICES ASSUME WholeInv PROVE WholeDataOnly
  OBVIOUS
<1>a. Count \in Nat
  BY BacktestAssumption
<1>b. symbol \in 1 .. Count + 1 /\ rows \in Seq(Nat)
  BY DEF ControlType, FilesInv, Rising, WholeInv
<1>0. symbol \in Nat /\ rows \in Seq(Nat) /\ Len(rows) \in Nat
  BY <1>a, <1>b
<1>1. SubSeq(rows, 1, Len(rows)) = rows
  BY <1>0
<1>2. SubSeq(Append(rows, symbol), 1, Len(rows)) = rows
  BY <1>0
<1>3. Len(Append(rows, symbol)) = Len(rows) + 1
  BY <1>0
<1>4. \A a, b \in DOMAIN summaries : a < b => summaries[a] < summaries[b]
  BY DEF WholeInv, FilesInv, Rising
<1>5. \/ summaries = rows /\ pc # "rows"
      \/ summaries = Append(rows, symbol) /\ pc \in {"rows", "append raised"}
  BY DEF WholeInv, FilesInv
<1>6. rows = SubSeq(summaries, 1, Len(rows))
  BY <1>1, <1>2, <1>5
<1>7. Len(summaries) - Len(rows) \in IF pc = "append raised" THEN {0, 1}
                                    ELSE IF pc = "rows" THEN {1} ELSE {0}
  <2>1. Len(rows) - Len(rows) = 0 /\ Len(Append(rows, symbol)) - Len(rows) = 1
    BY <1>0, <1>3
  <2>2. \/ Len(summaries) - Len(rows) = 0 /\ pc # "rows"
        \/ Len(summaries) - Len(rows) = 1 /\ pc \in {"rows", "append raised"}
    BY <1>5, <2>1
  <2> QED
    BY <2>2
<1> QED
  BY <1>4, <1>6, <1>7 DEF WholeInv, FetchInv, WholeDataOnly

\* No engine of any batch runs on a part of the period, and the files have a symbol at
\* most once, in the list's order.
THEOREM DataWhole == BatchSpec => []WholeDataOnly
<1>1. BatchInit => WholeInv
  <2> SUFFICES ASSUME BatchInit PROVE WholeInv
    OBVIOUS
  <2>1. FetchInv
    BY DEF BatchInit, FetchInv
  <2>2. FilesInv
    BY DEF BatchInit, FilesInv, Rising
  <2> QED
    BY <2>1, <2>2, ControlInit DEF WholeInv
<1>2. WholeInv /\ [BatchNext]_vars => WholeInv'
  BY ControlStep, FetchStep, FilesStep DEF WholeInv
<1> QED
  BY <1>1, <1>2, WholeImplies, PTL DEF BatchSpec

----------------------------------------------------------------------------
(* What the strategies can say.                                                 *)

Sigs == [strategy : AllStrategies, side : Sides, entry : Int, stop : Int, target : Int,
         confidence : Int]

\* How far b is from a in the direction of a side.
Ahead(side, a, b) == Sgn(side) * (b - a)

\* A bracket: the target is not behind the stop; the entry is not behind the stop, and the
\* target not behind the entry, but that a Supertrend's stop may be anywhere.
Bracket(sig) ==
    /\ sig \in Sigs
    /\ Ahead(sig.side, sig.entry, sig.target) >= 0
    /\ Ahead(sig.side, sig.stop, sig.target) >= 0
    /\ sig.strategy # "supertrend" => Ahead(sig.side, sig.stop, sig.entry) >= 0

\* A signal of a strategy at a bar.
Said(st, candle, sig) == Bracket(sig) /\ sig.strategy = st /\ sig.entry = candle.close

Candle == [low : Nat, close : Nat, high : Nat, atr : Nat]

\* The prices of a bar.
LEMMA BarsType ==
    \A b \in Bars : b \in Candle /\ b.low <= b.close /\ b.close <= b.high
  BY BacktestAssumption DEF Candle

\* A side points one way or the other.
LEMMA SgnType == \A side : Sgn(side) \in {-1, 1}
  BY DEF Sgn

\* Products of natural numbers.
LEMMA NatTimes == \A a, b \in Nat : a * b \in Nat
  OBVIOUS

\* A strategy fires at most one of its two signals.
LEMMA FireOne ==
    ASSUME NEW buy, NEW sell, NEW sig, NEW E, E = Fire(buy, sell, sig)
    PROVE  /\ \A x \in E : x = sig["BUY"] \/ x = sig["SELL"]
           /\ \A x, y \in E : x = y
  BY DEF Fire

\* Multiples of the ATR make a bracket.
LEMMA AtrBracketSaid ==
    ASSUME NEW st \in AllStrategies, NEW candle \in Candle, NEW side \in Sides, NEW c \in Int
    PROVE  Said(st, candle, AtrBracket(st, candle, side, c))
<1> DEFINE d == AtrMult * candle.atr
<1>1. candle.atr \in Nat /\ candle.close \in Nat /\ AtrMult \in Nat
  BY StrategiesAssumption DEF Candle
<1>2. d \in Nat /\ 2 * AtrMult * candle.atr = 2 * d
  BY <1>1, NatTimes
<1> HIDE DEF d
<1>3. CASE side = "BUY"
  <2>1. AtrBracket(st, candle, side, c)
        = [strategy |-> st, side |-> side, entry |-> candle.close, stop |-> candle.close - d,
           target |-> candle.close + 2 * d, confidence |-> c]
    BY <1>1, <1>2, <1>3 DEF AtrBracket, Signal, Sgn, d
  <2> QED
    BY <1>1, <1>2, <1>3, <2>1 DEF Said, Bracket, Sigs, Ahead, Sgn
<1>4. CASE side = "SELL"
  <2>1. AtrBracket(st, candle, side, c)
        = [strategy |-> st, side |-> side, entry |-> candle.close, stop |-> candle.close + d,
           target |-> candle.close - 2 * d, confidence |-> c]
    BY <1>1, <1>2, <1>4 DEF AtrBracket, Signal, Sgn, d
  <2> QED
    BY <1>1, <1>2, <1>4, <2>1 DEF Said, Bracket, Sigs, Ahead, Sgn, Sides
<1> QED
  BY <1>3, <1>4 DEF Sides

\* What one strategy evaluates to: at most one signal, of its own, at the bar's close.
SaidOnce(st, candle, E) ==
    (\A x \in E : Said(st, candle, x)) /\ (\A x, y \in E : x = y)

\* The strategies one by one; the first four use brackets of the ATR.
LEMMA RsiSaid ==
    ASSUME NEW candle \in Candle, NEW r \in Int
    PROVE  SaidOnce("rsi_reversal", candle, rsi_reversal(candle, r))
<1> DEFINE up == (100 * (30 - r)) \div 30
           down == (100 * (r - 70)) \div 30
           sig == [side \in Sides |-> AtrBracket("rsi_reversal", candle, side,
                                                 IF side = "BUY" THEN up ELSE down)]
<1>1. up \in Int /\ down \in Int
  OBVIOUS
<1>2. rsi_reversal(candle, r) = Fire(r < 30, r > 70, sig)
  BY DEF rsi_reversal
<1>3. \A side \in Sides : Said("rsi_reversal", candle, sig[side])
  BY <1>1, AtrBracketSaid DEF AllStrategies, Sides
<1> HIDE DEF sig
<1> QED
  BY <1>2, <1>3, FireOne DEF SaidOnce, Sides

\* A crossing of the averages.
LEMMA EmaSaid ==
    ASSUME NEW candle \in Candle, NEW a, NEW b, NEW c, NEW d
    PROVE  SaidOnce("ema_breakout", candle, ema_breakout(candle, a, b, c, d))
<1> DEFINE sig == [side \in Sides |-> AtrBracket("ema_breakout", candle, side, 60)]
<1>2. ema_breakout(candle, a, b, c, d) = Fire(c <= d /\ a > b, c >= d /\ a < b, sig)
  BY DEF ema_breakout
<1>3. \A side \in Sides : Said("ema_breakout", candle, sig[side])
  BY AtrBracketSaid DEF AllStrategies, Sides
<1> HIDE DEF sig
<1> QED
  BY <1>2, <1>3, FireOne DEF SaidOnce, Sides

\* A pullback to the VWAP.
LEMMA VwapSaid ==
    ASSUME NEW candle \in Candle, NEW near, NEW e
    PROVE  SaidOnce("vwap_pullback", candle, vwap_pullback(candle, near, e))
<1> DEFINE sig == [side \in Sides |-> AtrBracket("vwap_pullback", candle, side, 55)]
<1>2. vwap_pullback(candle, near, e) = Fire(near /\ candle.close > e, near /\ candle.close < e, sig)
  BY DEF vwap_pullback
<1>3. \A side \in Sides : Said("vwap_pullback", candle, sig[side])
  BY AtrBracketSaid DEF AllStrategies, Sides
<1> HIDE DEF sig
<1> QED
  BY <1>2, <1>3, FireOne DEF SaidOnce, Sides

\* A crossing of the signal line.
LEMMA MacdSaid ==
    ASSUME NEW candle \in Candle, NEW a, NEW b, NEW c, NEW d
    PROVE  SaidOnce("macd_divergence", candle, macd_divergence(candle, a, b, c, d))
<1> DEFINE sig == [side \in Sides |-> AtrBracket("macd_divergence", candle, side, 60)]
<1>2. macd_divergence(candle, a, b, c, d) = Fire(c < d /\ a > b /\ a < 0, c > d /\ a < b /\ a > 0, sig)
  BY DEF macd_divergence
<1>3. \A side \in Sides : Said("macd_divergence", candle, sig[side])
  BY AtrBracketSaid DEF AllStrategies, Sides
<1> HIDE DEF sig
<1> QED
  BY <1>2, <1>3, FireOne DEF SaidOnce, Sides

\* The bands' middle is behind a close outside them.
LEMMA BollingerSaid ==
    ASSUME NEW candle \in Candle, NEW sq, NEW m \in Nat, NEW w \in Nat, NEW in
    PROVE  SaidOnce("bollinger_squeeze", candle, bollinger_squeeze(candle, sq, m, w, in))
<1> DEFINE E == bollinger_squeeze(candle, sq, m, w, in)
           sig == [side \in Sides |->
                      Signal("bollinger_squeeze", side, candle.close, m,
                             candle.close + Sgn(side) * AtrMult * candle.atr, 62)]
           d == AtrMult * candle.atr
<1>0. candle.atr \in Nat /\ candle.close \in Nat /\ AtrMult \in Nat
  BY StrategiesAssumption DEF Candle
<1>1. d \in Nat
  BY <1>0, NatTimes
<1>2. E = Fire(sq /\ in /\ candle.close > m + w, sq /\ in /\ candle.close < m - w, sig)
  BY DEF bollinger_squeeze
<1> HIDE DEF d
<1>3. sig["BUY"] = [strategy |-> "bollinger_squeeze", side |-> "BUY", entry |-> candle.close,
                    stop |-> m, target |-> candle.close + d, confidence |-> 62]
  BY <1>0, <1>1 DEF Signal, Sgn, Sides, d
<1>4. sig["SELL"] = [strategy |-> "bollinger_squeeze", side |-> "SELL", entry |-> candle.close,
                     stop |-> m, target |-> candle.close - d, confidence |-> 62]
  BY <1>0, <1>1 DEF Signal, Sgn, Sides, d
<1> HIDE DEF sig, E
<1>6. candle.close > m + w => Said("bollinger_squeeze", candle, sig["BUY"])
  BY <1>0, <1>1, <1>3 DEF Said, Bracket, Sigs, Ahead, Sgn, Sides, AllStrategies
<1>7. candle.close < m - w => Said("bollinger_squeeze", candle, sig["SELL"])
  BY <1>0, <1>1, <1>4 DEF Said, Bracket, Sigs, Ahead, Sgn, Sides, AllStrategies
<1>8. SaidOnce("bollinger_squeeze", candle, E)
  BY <1>2, <1>6, <1>7 DEF SaidOnce, Fire
<1> QED
  BY <1>8 DEF E

\* The range's other end is behind a close outside it.
LEMMA OrbSaid ==
    ASSUME NEW candle \in Candle, NEW f, NEW lo \in Nat, NEW hi \in Nat, NEW in
    PROVE  SaidOnce("orb_breakout", candle, orb_breakout(candle, f, lo, hi, in))
<1> DEFINE E == orb_breakout(candle, f, lo, hi, in)
           sig == [side \in Sides |->
                      Signal("orb_breakout", side, candle.close,
                             IF side = "BUY" THEN lo ELSE hi,
                             candle.close + Sgn(side) * (hi - lo), 65)]
           ready == f /\ in /\ hi > lo
<1>0. candle.close \in Nat
  BY DEF Candle
<1>2. E = Fire(ready /\ candle.close > hi, ready /\ candle.close < lo, sig)
  BY DEF orb_breakout
<1>3. sig["BUY"] = [strategy |-> "orb_breakout", side |-> "BUY", entry |-> candle.close,
                    stop |-> lo, target |-> candle.close + (hi - lo), confidence |-> 65]
  BY <1>0 DEF Signal, Sgn, Sides
<1>4. sig["SELL"] = [strategy |-> "orb_breakout", side |-> "SELL", entry |-> candle.close,
                     stop |-> hi, target |-> candle.close - (hi - lo), confidence |-> 65]
  BY <1>0 DEF Signal, Sgn, Sides
<1> HIDE DEF sig, E
<1>6. hi > lo /\ candle.close > hi => Said("orb_breakout", candle, sig["BUY"])
  BY <1>0, <1>3 DEF Said, Bracket, Sigs, Ahead, Sgn, Sides, AllStrategies
<1>7. hi > lo /\ candle.close < lo => Said("orb_breakout", candle, sig["SELL"])
  BY <1>0, <1>4 DEF Said, Bracket, Sigs, Ahead, Sgn, Sides, AllStrategies
<1>8. SaidOnce("orb_breakout", candle, E)
  BY <1>2, <1>6, <1>7 DEF SaidOnce, Fire
<1> QED
  BY <1>8 DEF E

\* The line may be on any side of the close, but the target is twice as far as it.
LEMMA SupertrendSaid ==
    ASSUME NEW candle \in Candle, NEW b \in Nat, NEW p \in PreviousBands
    PROVE  SaidOnce("supertrend", candle, supertrend(candle, b, p))
<1> DEFINE E == supertrend(candle, b, p)
           line == SupertrendStep(candle, b, p).line
           risk == Abs(candle.close - line)
           sig == [side \in Sides |->
                      Signal("supertrend", side, candle.close, line,
                             candle.close + Sgn(side) * 2 * risk, 65)]
<1>0. /\ candle.close \in Nat /\ candle.low \in Nat /\ candle.high \in Nat
      /\ p.upper \in Nat /\ p.lower \in Nat
  BY StrategiesAssumption DEF Candle, PreviousBands
<1>1. line \in Int
  BY <1>0 DEF SupertrendStep
<1>2. E = Fire(risk > 0 /\ p.dir = -1 /\ SupertrendStep(candle, b, p).dir = 1,
               risk > 0 /\ p.dir = 1 /\ SupertrendStep(candle, b, p).dir = -1, sig)
  BY DEF supertrend
<1> HIDE DEF line
<1>3. sig["BUY"] = [strategy |-> "supertrend", side |-> "BUY", entry |-> candle.close,
                    stop |-> line, target |-> candle.close + 2 * risk, confidence |-> 65]
  BY <1>0, <1>1 DEF Signal, Sgn, Sides, Abs
<1>4. sig["SELL"] = [strategy |-> "supertrend", side |-> "SELL", entry |-> candle.close,
                     stop |-> line, target |-> candle.close - 2 * risk, confidence |-> 65]
  BY <1>0, <1>1 DEF Signal, Sgn, Sides, Abs
<1> HIDE DEF sig, E
<1>6. Said("supertrend", candle, sig["BUY"])
  BY <1>0, <1>1, <1>3 DEF Said, Bracket, Sigs, Ahead, Sgn, Sides, AllStrategies, Abs
<1>7. Said("supertrend", candle, sig["SELL"])
  BY <1>0, <1>1, <1>4 DEF Said, Bracket, Sigs, Ahead, Sgn, Sides, AllStrategies, Abs
<1>8. SaidOnce("supertrend", candle, E)
  BY <1>2, <1>6, <1>7, FireOne DEF SaidOnce
<1> QED
  BY <1>8 DEF E

\* Whatever its indicators read, a strategy says at most one thing.
LEMMA EvaluationsSaid ==
    ASSUME NEW st \in AllStrategies, NEW candle \in Candle, NEW E \in Evaluations(st, candle)
    PROVE  SaidOnce(st, candle, E)
<1>0. Grid \subseteq Nat
  BY StrategiesAssumption
<1>1. CASE st = "rsi_reversal"
  BY <1>1, RsiSaid DEF Evaluations
<1>2. CASE st = "ema_breakout"
  BY <1>2, EmaSaid DEF Evaluations
<1>3. CASE st = "vwap_pullback"
  BY <1>3, VwapSaid DEF Evaluations
<1>4. CASE st = "macd_divergence"
  BY <1>4, MacdSaid DEF Evaluations
<1>5. CASE st = "bollinger_squeeze"
  BY <1>0, <1>5, BollingerSaid DEF Evaluations
<1>6. CASE st = "orb_breakout"
  BY <1>0, <1>6, OrbSaid DEF Evaluations
<1>7. CASE st = "supertrend"
  <2>1. PICK b \in Bands(candle), p \in PreviousBands : E = supertrend(candle, b, p)
    BY <1>7 DEF Evaluations
  <2>2. b \in Nat
    BY DEF Bands
  <2> QED
    BY <1>7, <2>1, <2>2, SupertrendSaid
<1> QED
  BY <1>1, <1>2, <1>3, <1>4, <1>5, <1>6, <1>7 DEF AllStrategies

\* What generate returns for a bar.
Spoken(candle, G) ==
    /\ \A x \in G : Bracket(x) /\ x.entry = candle.close
    /\ \A x, y \in G : x.strategy = y.strategy => x = y

\* The filters of generate only drop signals.
LEMMA GeneratedSaid ==
    ASSUME NEW group \in SUBSET AllStrategies, NEW candle \in Candle, NEW htfs,
           NEW G \in Generated(group, candle, htfs)
    PROVE  Spoken(candle, G)
<1>1. PICK e, m : /\ \A st \in group : e[st] \in Evaluations(st, candle)
                  /\ G = generate(group, e, m)
  BY DEF Generated
<1>2. \A x \in G : \E st \in group : x \in e[st]
  BY <1>1 DEF generate
<1>3. \A st \in group : SaidOnce(st, candle, e[st])
  BY <1>1, EvaluationsSaid
<1>4. \A x \in G : Bracket(x) /\ x.entry = candle.close /\ x.strategy \in group /\ x \in e[x.strategy]
  BY <1>2, <1>3 DEF SaidOnce, Said
<1> QED
  BY <1>3, <1>4 DEF Spoken, SaidOnce

\* So does a bar of any team.
LEMMA SignalsSaid ==
    ASSUME NEW t \in DOMAIN Signals, NEW b \in Bars, NEW G \in Signals[t][b]
    PROVE  Spoken(b, G)
<1>1. t \in SUBSET AllStrategies
  BY BacktestAssumption DEF Signals
<1>2. G \in Generated(t, b, {0})
  BY DEF Signals
<1> QED
  BY <1>1, <1>2, BarsType, GeneratedSaid

----------------------------------------------------------------------------
(* Sizes.                                                                       *)

\* Integer division rounds down.
LEMMA DivBounds ==
    ASSUME NEW a \in Nat, NEW d \in Nat \ {0}
    PROVE  a \div d \in Nat /\ (a \div d) * d <= a
  OBVIOUS

\* A multiple leaves no remainder.
LEMMA TimesMod ==
    ASSUME NEW k \in Nat, NEW d \in Nat \ {0}
    PROVE  (k * d) % d = 0
  OBVIOUS

\* Products with a natural number keep the order.
LEMMA TimesMonotone ==
    ASSUME NEW a \in Int, NEW b \in Int, NEW q \in Nat, a <= b
    PROVE  a * q <= b * q /\ q * a <= q * b
  OBVIOUS

\* A position is a multiple of the lot, and its distance to the stop within the budget.
LEMMA PositionSize ==
    ASSUME NEW cash \in Int, NEW entry \in Int, NEW stop \in Int
    PROVE  /\ position_size(cash, entry, stop) \in Nat
           /\ position_size(cash, entry, stop) % LotSize = 0
           /\ Budget(cash) \in Int
           /\ position_size(cash, entry, stop) >= 1
                => Abs(entry - stop) * position_size(cash, entry, stop) <= Budget(cash)
<1> DEFINE risk == Abs(entry - stop)
           b == Budget(cash)
           lots == (b \div risk) \div LotSize
           q == position_size(cash, entry, stop)
<1>0. RiskDivisor \in Nat \ {0} /\ LotSize \in Nat \ {0} /\ risk \in Nat
  BY StrategiesAssumption DEF Abs
<1>1. b \in Int /\ (cash >= 0 => b \in Nat)
  BY <1>0, DivBounds DEF Budget
<1> HIDE DEF b, risk
<1>2. CASE risk = 0 \/ cash < 0
  <2>1. q = 0
    BY <1>2 DEF position_size, risk
  <2>2. 0 % LotSize = 0
    BY <1>0
  <2> QED
    BY <1>1, <2>1, <2>2 DEF b
<1>3. CASE risk # 0 /\ cash >= 0
  <2>1. q = lots * LotSize
    BY <1>3 DEF position_size, b, risk
  <2>2. b \in Nat /\ risk \in Nat \ {0}
    BY <1>0, <1>1, <1>3
  <2>3. (b \div risk) \in Nat /\ (b \div risk) * risk <= b
    BY <2>2, DivBounds
  <2>4. lots \in Nat /\ lots * LotSize <= b \div risk
    BY <1>0, <2>3, DivBounds
  <2> HIDE DEF lots
  <2>5. q \in Nat /\ q % LotSize = 0
    BY <1>0, <2>1, <2>4, TimesMod, NatTimes
  <2>6. q * risk <= (b \div risk) * risk /\ risk * q = q * risk
    BY <2>1, <2>2, <2>3, <2>4, <2>5, TimesMonotone
  <2>7. risk * q <= b
    <3> HIDE DEF q
    <3> QED
      BY <2>2, <2>3, <2>5, <2>6
  <2> QED
    BY <1>1, <2>5, <2>7 DEF b, risk
<1> QED
  BY <1>0, <1>2, <1>3

----------------------------------------------------------------------------
(* The engines' variables.                                                      *)

Trades == [side : Sides, entry : Int, stop : Int, target : Int, qty : Nat \ {0}, bar : Nat,
           trailed : BOOLEAN, by : AllStrategies, first : Int, budget : Int,
           adjusted : BOOLEAN, stale : BOOLEAN]

Words == [at : Nat, sig : Sigs]

Ledgers == [trades : Nat, open : {0, 1}, pnl : Int, day : Nat]

\* A trade is walked through bars later than its own; outside an engine there is none.
TradeType ==
    /\ pc \in {"bar", "exit", "enter"} => team \in DOMAIN Signals
    /\ bar \in Bars \cup {NoBar} /\ (pc \in {"exit", "enter"} => bar \in Bars)
    /\ trade = Flat \/ trade \in Trades
    /\ pc = "exit" => trade \in Trades
    /\ trade \in Trades =>
          pc \in {"bar", "exit"} /\ trade.bar < i /\ trade.qty % LotSize = 0 /\ bar \in Bars

\* The buffer has one word of a strategy, and none of the coming bar; an engine but the
\* pipeline has them as they were said.
WordsType ==
    /\ tick \in Nat /\ last \in Nat \cup {Never}
    /\ recent \subseteq Words
    /\ \A r, q \in recent : r.sig.strategy = q.sig.strategy => r = q
    /\ \A r \in recent : r.at < Clock /\ (Engine # "pipeline" => Bracket(r.sig))

LedgerType ==
    /\ capital \in Int /\ ledger \in Ledgers /\ today \in 0 .. MaxMidnights /\ entered \in Nat

EngineType == ControlType /\ TradeType /\ WordsType /\ LedgerType

\* No trade is not a trade.
LEMMA FlatApart == Flat \notin Trades
<1>1. Flat.side = "none"
  BY DEF Flat
<1>2. \A t \in Trades : t.side # "none"
  BY DEF Trades, Sides
<1> QED
  BY <1>1, <1>2

\* An engine begins, or there is none.
FreshStep ==
    /\ trade = Flat /\ Afresh /\ pc' \notin {"exit", "enter"} /\ i' \in Nat
    /\ pc' = "bar" => team' \in DOMAIN Signals

\* A step outside the bars.
IdleStep ==
    /\ pc \notin {"bar", "exit"} /\ pc' \notin {"bar", "exit", "enter"}
    /\ UNCHANGED <<mode, leg, team, i, bar, trade, memory, money, today, reason, entered>>

CloseStep == StopOut \/ TakeProfit \/ CloseOut

\* Every step is one of these.
LEMMA EngineShapes ==
    ASSUME EngineType, BatchNext
    PROVE  \/ FreshStep \/ IdleStep \/ CloseStep \/ Hold \/ Cool \/ Midnight
           \/ \E b \in Bars : NextBar(b)
           \/ pc = "enter" /\ \E s \in Signals[team][bar] : Decide(s)
<1>0. ControlType /\ TradeType /\ (pc \notin {"bar", "exit"} => trade = Flat)
  BY DEF EngineType, TradeType
<1>1. CASE Start
  <2>1. CASE TooShort
    BY <1>0, <1>1, <2>1 DEF Start, FreshStep, Skip, NextSymbol
  <2>2. CASE ~ TooShort
    <3>1. i' \in Nat
      <4>1. n \in Nat /\ Warmup \in Nat /\ TrainBars \in Nat
        BY BacktestAssumption DEF ControlType, EngineType
      <4> QED
        BY <1>1, <2>2, <4>1, WindowType DEF Start, Over
    <3>2. team' \in DOMAIN Signals
      BY <1>1, <2>2 DEF Start, Signals
    <3> QED
      BY <1>0, <1>1, <2>2, <3>1, <3>2 DEF Start, FreshStep, Goto
  <2> QED
    BY <2>1, <2>2
<1>2. ASSUME Skip, pc \notin {"bar", "exit"} PROVE FreshStep
  BY <1>0, <1>2 DEF FreshStep, Skip, NextSymbol
<1>3. CASE FetchPart
  BY <1>3 DEF FetchPart, Fetching, NextChunk, IdleStep, frame, memory, money
<1>4. CASE FetchEmpty
  BY <1>2, <1>4 DEF FetchEmpty, Fetching, NextChunk, IdleStep, frame, memory, money
<1>5. CASE RateLimited
  BY <1>2, <1>5 DEF RateLimited, Fetching, IdleStep, frame, memory, money
<1>6. CASE FetchFails
  BY <1>2, <1>6 DEF FetchFails, Fetching
<1>7. CASE Fetched
  BY <1>7 DEF Fetched, IdleStep, memory, money
<1>8. CASE AppendSummaries
  BY <1>8 DEF AppendSummaries, Goto, IdleStep, frame, memory, money
<1>9. CASE AppendTrades
  BY <1>0, <1>9 DEF AppendTrades, FreshStep, NextSymbol
<1>10. CASE EndRun
  <2>0. i' \in Nat
    <3>1. n \in Nat /\ i \in Nat /\ upto \in Nat
      BY BacktestAssumption DEF ControlType, EngineType
    <3> QED
      BY <1>10, <3>1, WindowType DEF EndRun
  <2>1. /\ trade = Flat /\ Afresh
        /\ pc' \in {"bar", "start", "summaries"} /\ team' = team /\ pc = "bar"
    BY <1>10 DEF EndRun, Goto
  <2> QED
    BY <1>0, <2>0, <2>1 DEF FreshStep, TradeType
<1>11. ASSUME NEW s, BatchDies(s) PROVE IdleStep
  BY <1>11 DEF BatchDies, Goto, IdleStep, frame, memory, money
<1>12. ASSUME NEW s, AnswerRaises(s) PROVE FreshStep
  BY <1>2, <1>12 DEF AnswerRaises
<1>14. CASE ParamsRaise \/ AppendRaises
  BY <1>14 DEF ParamsRaise, AppendRaises, Goto, IdleStep, frame, memory, money
<1>13. CASE pc = "enter" /\ Entries
  BY <1>11, <1>12, <1>13 DEF Entries
<1> HIDE DEF FreshStep, IdleStep
<1> QED
  BY <1>1, <1>3, <1>4, <1>5, <1>6, <1>7, <1>8, <1>9, <1>10, <1>13, <1>14
     DEF BatchNext, Fetch, Exits, CloseStep

\* The words of a decision: one of a strategy, and those of this bar are at its close.
MergedType(merged) ==
    /\ merged \subseteq Words
    /\ \A r, q \in merged : r.sig.strategy = q.sig.strategy => r = q
    /\ \A r \in merged : /\ r.at <= Clock /\ (Engine # "pipeline" => Bracket(r.sig))
                         /\ r.at = Clock => Bracket(r.sig) /\ r.sig.entry = bar.close

\* New signals are of this bar, remembered ones of earlier bars and of other strategies.
LEMMA MergedWords ==
    ASSUME EngineType, pc = "enter", NEW s \in Signals[team][bar]
    PROVE  MergedType(Merged(s)) /\ Clock \in Nat
<1>1. team \in DOMAIN Signals /\ bar \in Bars
  BY DEF EngineType, TradeType
<1>2. Spoken(bar, s)
  BY <1>1, SignalsSaid
<1>3. Clock \in Nat
  BY DEF Clock, EngineType, ControlType, WordsType
<1> DEFINE new == {[at |-> Clock, sig |-> x] : x \in s}
           spoke == {x.strategy : x \in s}
           young == {r \in recent : r.at > Clock - Memory /\ r.sig.strategy \notin spoke}
<1>4. \A x \in s : x \in Sigs
  BY <1>2 DEF Spoken, Bracket
<1>5. new \subseteq Words
  BY <1>3, <1>4 DEF Words
<1>6. \A r \in new : r.at = Clock /\ r.sig \in s
  OBVIOUS
<1>6a. \A r, q \in new : r.sig = q.sig => r = q
  OBVIOUS
<1>7. \A r \in young : r \in recent /\ r.sig.strategy \notin spoke
  OBVIOUS
<1>8. \A x \in s : x.strategy \in spoke
  OBVIOUS
<1>9. Merged(s) = new \/ Merged(s) = new \cup young
  BY DEF Merged
<1> HIDE DEF new, young, spoke
<1>10. ASSUME NEW r \in new \cup young, NEW q \in new \cup young, r.sig.strategy = q.sig.strategy
       PROVE  r = q
  <2>1. CASE r \in new /\ q \in new
    BY <1>2, <1>6, <1>6a, <1>10, <2>1 DEF Spoken
  <2>2. CASE r \in young /\ q \in young
    BY <1>7, <1>10, <2>2 DEF EngineType, WordsType
  <2> QED
    BY <1>6, <1>7, <1>8, <1>10, <2>1, <2>2
<1>11. \A r \in new \cup young : /\ r \in Words /\ r.at <= Clock
                                 /\ Engine # "pipeline" => Bracket(r.sig)
                                 /\ r.at = Clock => Bracket(r.sig) /\ r.sig.entry = bar.close
  <2>1. \A r \in recent : r \in Words /\ r.at \in Nat
    BY DEF EngineType, WordsType, Words
  <2>2. \A r \in young : r \in Words /\ r.at < Clock /\ r.at \in Nat /\ (Engine # "pipeline" => Bracket(r.sig))
    BY <1>7, <2>1 DEF EngineType, WordsType
  <2>3. \A r \in young : r.at <= Clock /\ r.at # Clock
    BY <1>3, <2>2
  <2>4. \A r \in new : r \in Words /\ r.at <= Clock /\ Bracket(r.sig) /\ r.sig.entry = bar.close
    BY <1>2, <1>3, <1>5, <1>6 DEF Spoken
  <2> QED
    BY <2>2, <2>3, <2>4
<1> QED
  BY <1>3, <1>9, <1>10, <1>11 DEF MergedType

----------------------------------------------------------------------------
(* What a decision does.                                                        *)

NoEntry == UNCHANGED <<trade, entered>> /\ ledger' \in {ledger, OfToday}

SoloEntry(r) ==
    LET entry == bar.close + Sgn(r.sig.side) * Slip
        qty == position_size(capital, entry, r.sig.stop)
    IN /\ Engine # "pipeline" /\ qty >= 1
       /\ trade' = Open(r, entry, qty, Budget(capital), r.sig.stop)
       /\ entered' = entered + 1 /\ UNCHANGED ledger

LiveEntry(r, stop) ==
    /\ Engine = "pipeline" /\ Gates(r.sig, stop)
    /\ trade' = Open(r, bar.close, position_size(Capital, r.sig.entry, stop), Budget(Capital), stop)
    /\ ledger' = Executed(r.sig, stop)
    /\ entered' = entered + 1

\* What is remembered of the words.
LEMMA RememberedWords ==
    ASSUME NEW merged, MergedType(merged)
    PROVE  MergedType(Remembered(merged))
  BY DEF Remembered, MergedType

\* The pipeline's words when a stop is adjusted.
Kept(merged) ==
    /\ merged \subseteq Words
    /\ \A r, q \in merged : r.sig.strategy = q.sig.strategy => r = q
    /\ \A r \in merged : r.at <= Clock /\ (Engine # "pipeline" => Bracket(r.sig))

\* They are one of a strategy still.
LEMMA AdjustedWords ==
    ASSUME NEW merged, MergedType(merged), Engine = "pipeline", NEW r \in merged,
           NEW stop \in AdjustedStops \cup {r.sig.stop}
    PROVE  Kept(Remembered((merged \ {r}) \cup {[r EXCEPT !.sig.stop = stop]})) /\ stop \in Int
<1> DEFINE r2 == [r EXCEPT !.sig.stop = stop]
<1>1. r \in Words /\ r.sig \in Sigs /\ r.sig.stop \in Int
  BY DEF MergedType, Words, Sigs
<1>2. stop \in Int
  BY <1>1, BacktestAssumption
<1>3. r2 \in Words /\ r2.at = r.at /\ r2.sig.strategy = r.sig.strategy
  BY <1>1, <1>2 DEF Words, Sigs
<1> HIDE DEF r2
<1>4. Kept((merged \ {r}) \cup {r2})
  BY <1>3 DEF MergedType, Kept
<1>5. Kept({})
  BY DEF Kept
<1> QED
  BY <1>2, <1>4, <1>5 DEF r2, Remembered

\* A decision takes one bar, remembers its words, and enters at most one trade.
LEMMA DecideEffect ==
    ASSUME EngineType, NEW s \in Signals[team][bar], pc = "enter", Decide(s)
    PROVE  /\ pc' = "bar" /\ i' = i + 1 /\ Clock' = Clock + 1 /\ tick' \in Nat
           /\ UNCHANGED <<mode, leg, team, bar, capital, today, reason>>
           /\ last' \in {last, Clock, i}
           /\ Kept(recent')
           /\ \/ NoEntry
              \/ \E r \in Merged(s) : \/ SoloEntry(r)
                                      \/ \E stop \in AdjustedStops \cup {r.sig.stop} : LiveEntry(r, stop)
<1> DEFINE merged == Merged(s)
           candidates == Candidates(merged)
<1>1. MergedType(merged)
  BY MergedWords
<1>2. /\ pc' = "bar" /\ i' = i + 1 /\ tick' = IF Engine = "pipeline" THEN tick + 1 ELSE tick
      /\ UNCHANGED <<mode, leg, team, bar, capital, today, reason>>
  BY DEF Decide, Advance, Goto, frame
<1>3. IF candidates = {} THEN PassOver(merged)
      ELSE \E r \in candidates : IF Engine = "pipeline" THEN RunPipeline(r, merged) ELSE TryEntry(r, merged)
  BY DEF Decide
<1>4. candidates \subseteq merged
  BY DEF Candidates
<1> HIDE DEF merged, candidates
<1>5. tick' \in Nat /\ Engine' = Engine /\ Clock' = Clock + 1
  <2>1. Engine' = Engine
    BY <1>2 DEF Engine
  <2>2. tick \in Nat /\ i \in Nat
    BY DEF EngineType, WordsType, ControlType
  <2> QED
    BY <1>2, <2>1, <2>2 DEF Clock
<1>6. ASSUME PassOver(merged) PROVE NoEntry /\ last' = last /\ Kept(recent')
  BY <1>1, <1>6, RememberedWords DEF PassOver, NoEntry, Kept, MergedType
<1>7. ASSUME NEW r \in merged, Engine # "pipeline", TryEntry(r, merged)
      PROVE  /\ NoEntry \/ SoloEntry(r)
             /\ last' \in {last, i} /\ Kept(recent')
  <2>1. CASE PassOver(merged)
    BY <1>6, <2>1
  <2>2. CASE ~ PassOver(merged)
    <3>1. SoloEntry(r) /\ last' = i /\ recent' = Remembered(merged)
      BY <1>7, <2>2 DEF TryEntry, SoloEntry
    <3> QED
      BY <1>1, <3>1, RememberedWords DEF Kept, MergedType
  <2> QED
    BY <2>1, <2>2
<1>8. ASSUME NEW r \in merged, Engine = "pipeline", RunPipeline(r, merged)
      PROVE  /\ NoEntry \/ \E stop \in AdjustedStops \cup {r.sig.stop} : LiveEntry(r, stop)
             /\ last' = Clock /\ Kept(recent')
  <2>1. last' = Clock
    BY <1>8 DEF RunPipeline
  <2>2. CASE recent' = Remembered(merged) /\ UNCHANGED <<trade, ledger, entered>>
    BY <1>1, <2>1, <2>2, RememberedWords DEF NoEntry, Kept, MergedType
  <2>3. ASSUME NEW stop \in AdjustedStops \cup {r.sig.stop},
               recent' = Remembered((merged \ {r}) \cup {[r EXCEPT !.sig.stop = stop]})
        PROVE  Kept(recent')
    BY <1>1, <1>8, <2>3, AdjustedWords
  <2>4. ASSUME NEW stop \in AdjustedStops \cup {r.sig.stop},
               recent' = Remembered((merged \ {r}) \cup {[r EXCEPT !.sig.stop = stop]}),
               IF Gates(r.sig, stop)
               THEN LET qty == position_size(Capital, r.sig.entry, stop) IN
                    /\ trade' = Open(r, bar.close, qty, Budget(Capital), stop)
                    /\ ledger' = Executed(r.sig, stop)
                    /\ entered' = entered + 1
               ELSE ledger' = OfToday /\ UNCHANGED <<trade, entered>>
        PROVE  NoEntry \/ LiveEntry(r, stop)
    BY <1>8, <2>4 DEF NoEntry, LiveEntry
  <2> QED
    BY <1>8, <2>1, <2>2, <2>3, <2>4 DEF RunPipeline
<1>9. Kept(recent') /\ last' \in {last, Clock, i} /\ (NoEntry \/ \E r \in merged : \/ SoloEntry(r)
                                      \/ \E stop \in AdjustedStops \cup {r.sig.stop} : LiveEntry(r, stop))
  <2>1. CASE candidates = {}
    BY <1>3, <1>6, <2>1
  <2>2. CASE candidates # {} /\ Engine = "pipeline"
    BY <1>3, <1>4, <1>8, <2>2
  <2>3. CASE candidates # {} /\ Engine # "pipeline"
    BY <1>3, <1>4, <1>7, <2>3
  <2> QED
    BY <2>1, <2>2, <2>3
<1> QED
  BY <1>2, <1>5, <1>9 DEF merged

\* The trade that a decision opens.
LEMMA OpenType ==
    ASSUME EngineType, NEW r \in Words, NEW entry \in Int, NEW qty \in Nat \ {0}, NEW b \in Int,
           NEW stop \in Int
    PROVE  Open(r, entry, qty, b, stop) \in Trades
<1>1. r.sig \in Sigs
  BY DEF Words
<1>2. /\ r.sig.side \in Sides /\ r.sig.stop \in Int /\ r.sig.target \in Int
      /\ r.sig.strategy \in AllStrategies
  BY <1>1 DEF Sigs
<1>3. i \in Nat
  BY DEF EngineType, ControlType
<1> QED
  BY <1>2, <1>3 DEF Open, Trades

\* A trade is entered with a size of at least one lot.
LEMMA EntryType ==
    ASSUME EngineType, pc = "enter", NEW s \in Signals[team][bar], NEW r \in Merged(s),
           SoloEntry(r) \/ \E stop \in AdjustedStops \cup {r.sig.stop} : LiveEntry(r, stop)
    PROVE  /\ trade' \in Trades /\ trade'.bar = i /\ trade'.qty % LotSize = 0
           /\ entered' = entered + 1
<1>0. r \in Words /\ r.sig \in Sigs /\ r.sig.stop \in Int /\ r.sig.entry \in Int
  BY MergedWords DEF MergedType, Words, Sigs
<1>1. bar.close \in Int /\ Slip \in Nat /\ Capital \in Int /\ capital \in Int
  BY BarsType, BacktestAssumption DEF EngineType, TradeType, LedgerType, Candle
<1>2. CASE SoloEntry(r)
  <2> DEFINE entry == bar.close + Sgn(r.sig.side) * Slip
             qty == position_size(capital, entry, r.sig.stop)
  <2>1. entry \in Int
    BY <1>1, SgnType
  <2>2. /\ qty >= 1 /\ entered' = entered + 1
        /\ trade' = Open(r, entry, qty, Budget(capital), r.sig.stop)
    BY <1>2 DEF SoloEntry
  <2> HIDE DEF entry
  <2>3. qty \in Nat /\ qty % LotSize = 0 /\ Budget(capital) \in Int
    BY <1>0, <1>1, <2>1, PositionSize
  <2> HIDE DEF qty
  <2>4. qty \in Nat \ {0}
    BY <2>2, <2>3
  <2>5. trade' \in Trades
    BY <1>0, <2>1, <2>2, <2>3, <2>4, OpenType
  <2> QED
    BY <2>2, <2>3, <2>5 DEF Open
<1>3. ASSUME NEW stop \in AdjustedStops \cup {r.sig.stop}, LiveEntry(r, stop)
      PROVE  /\ trade' \in Trades /\ trade'.bar = i /\ trade'.qty % LotSize = 0
             /\ entered' = entered + 1
  <2> DEFINE qty == position_size(Capital, r.sig.entry, stop)
  <2>1. stop \in Int
    BY <1>0, BacktestAssumption
  <2>2. /\ qty >= 1 /\ entered' = entered + 1
        /\ trade' = Open(r, bar.close, qty, Budget(Capital), stop)
    BY <1>3 DEF LiveEntry, Gates
  <2>3. qty \in Nat /\ qty % LotSize = 0 /\ Budget(Capital) \in Int
    BY <1>0, <1>1, <2>1, PositionSize
  <2> HIDE DEF qty
  <2>4. qty \in Nat \ {0}
    BY <2>2, <2>3
  <2>5. trade' \in Trades
    BY <1>0, <1>1, <2>1, <2>2, <2>3, <2>4, OpenType
  <2> QED
    BY <2>2, <2>3, <2>5 DEF Open
<1> QED
  BY <1>2, <1>3

----------------------------------------------------------------------------
(* Type correctness.                                                            *)

\* What a close leaves alone, and that its price is one.
LEMMA CloseEffect ==
    ASSUME EngineType, CloseStep
    PROVE  /\ trade \in Trades /\ trade' = Flat
           /\ pc' \in {"bar", "enter"} /\ (pc' = "enter" => pc = "exit")
           /\ UNCHANGED <<mode, leg, team, i, bar, tick, last, recent, today, entered>>
           /\ \E price \in Int : /\ capital' = capital + Pnl(price) /\ Pnl(price) \in Int
                                 /\ ledger' = IF Engine # "pipeline" THEN ledger
                                              ELSE [ledger EXCEPT !.open = MaxZero(@ - 1),
                                                                  !.pnl = @ + Pnl(price)]
<1>1. trade \in Trades
  BY DEF CloseStep, StopOut, TakeProfit, CloseOut, EngineType, TradeType
<1>2. bar \in Candle /\ bar.close \in Int /\ trade.stop \in Int /\ trade.target \in Int
  BY <1>1, BarsType DEF EngineType, TradeType, Candle, Trades
<1>3. ASSUME NEW price \in Int PROVE Pnl(price) \in Int
  <2>1. /\ trade.entry \in Int /\ trade.qty \in Nat /\ Slip \in Nat /\ Brokerage \div 2 \in Int
        /\ Sgn(trade.side) \in Int
    BY <1>1, SgnType, BacktestAssumption DEF Trades
  <2>2. ExitCosts(trade.qty) \in Int
    BY <2>1 DEF ExitCosts
  <2> QED
    BY <2>1, <2>2 DEF Pnl
<1>4. PICK price \in Int, why \in {"stop", "trailing", "target", "eod"} : Close(price, why)
  BY <1>2 DEF CloseStep, StopOut, TakeProfit, CloseOut
<1>5. /\ trade' = Flat /\ capital' = capital + Pnl(price)
      /\ ledger' = IF Engine # "pipeline" THEN ledger
                   ELSE [ledger EXCEPT !.open = MaxZero(@ - 1), !.pnl = @ + Pnl(price)]
  BY <1>4 DEF Close
<1>6. /\ pc' \in {"bar", "enter"} /\ (pc' = "enter" => pc = "exit")
      /\ UNCHANGED <<mode, leg, team, i, bar, tick, last, recent, today, entered>>
  BY DEF CloseStep, StopOut, TakeProfit, CloseOut, Goto, frame, memory
<1> QED
  BY <1>1, <1>3, <1>5, <1>6

\* A held trade is the same but for its stop.
LEMMA TrailedType ==
    ASSUME EngineType, trade \in Trades
    PROVE  /\ Trailed \in Trades /\ Trailed.bar = trade.bar /\ Trailed.qty = trade.qty
           /\ Trailed.side = trade.side /\ Trailed.entry = trade.entry /\ Trailed.target = trade.target
           /\ Trailed.first = trade.first /\ Trailed.budget = trade.budget /\ Trailed.by = trade.by
           /\ Trailed.adjusted = trade.adjusted /\ Trailed.stale = trade.stale
           /\ \/ Trailed = trade
              \/ Trailed.trailed /\ Ahead(trade.side, trade.stop, Trailed.stop) > 0
<1> DEFINE stop == bar.close - Sgn(trade.side) * TrailMult * bar.atr
<1>1. bar \in Candle
  BY BarsType DEF EngineType, TradeType
<1>2. bar.close \in Nat /\ bar.atr \in Nat /\ TrailMult \in Nat /\ Sgn(trade.side) \in Int
  BY <1>1, SgnType, BacktestAssumption DEF Candle
<1>3. stop \in Int
  BY <1>2
<1>4. \/ Trailed = trade
      \/ /\ Trailed = [trade EXCEPT !.stop = stop, !.trailed = TRUE]
         /\ Sgn(trade.side) * (stop - trade.stop) > 0
  BY DEF Trailed
<1> HIDE DEF stop
<1>5. CASE Trailed = trade
  BY <1>5
<1>6. CASE Trailed = [trade EXCEPT !.stop = stop, !.trailed = TRUE]
           /\ Sgn(trade.side) * (stop - trade.stop) > 0
  BY <1>3, <1>6 DEF Trades, Ahead
<1> QED
  BY <1>4, <1>5, <1>6

\* Every step keeps the trade in its type.
LEMMA TradeStep == EngineType /\ [BatchNext]_vars => TradeType'
<1> SUFFICES ASSUME EngineType, [BatchNext]_vars PROVE TradeType'
  OBVIOUS
<1>0. ControlType /\ TradeType /\ i \in Nat
  BY DEF EngineType, ControlType
<1>1. CASE FreshStep
  BY <1>1, FlatApart DEF FreshStep, Afresh, TradeType
<1>2. CASE IdleStep
  BY <1>0, <1>2, FlatApart DEF IdleStep, TradeType
<1>3. CASE CloseStep
  BY <1>0, <1>3, CloseEffect, FlatApart DEF TradeType, EngineType
<1>4. CASE Hold
  <2>1. /\ pc = "exit" /\ trade' = Trailed /\ pc' = "bar" /\ i' = i + 1
        /\ UNCHANGED <<team, bar>>
    BY <1>4 DEF Hold, Advance, Goto, frame
  <2>2. trade \in Trades /\ trade.bar \in Nat
    BY <1>0, <2>1 DEF TradeType, Trades
  <2> QED
    BY <1>0, <2>1, <2>2, TrailedType DEF TradeType
<1>5. CASE Cool
  <2>1. pc = "enter" /\ pc' = "bar" /\ UNCHANGED <<team, bar, trade>>
    BY <1>5 DEF Cool, Advance, Goto, frame
  <2> QED
    BY <1>0, <2>1, FlatApart DEF TradeType
<1>6. CASE Midnight
  BY <1>0, <1>6, FlatApart DEF Midnight, TradeType, frame
<1>7. ASSUME NEW b \in Bars, NextBar(b) PROVE TradeType'
  <2>1. /\ pc = "bar" /\ pc' = IF trade = Flat THEN "enter" ELSE "exit"
        /\ bar' = b /\ UNCHANGED <<team, trade, i>>
    BY <1>7 DEF NextBar, Goto, frame
  <2> QED
    BY <1>0, <2>1, FlatApart DEF TradeType
<1>8. ASSUME pc = "enter", NEW s \in Signals[team][bar], Decide(s) PROVE TradeType'
  <2>1. pc' = "bar" /\ i' = i + 1 /\ UNCHANGED <<team, bar>>
    BY <1>8, DecideEffect
  <2>2. team \in DOMAIN Signals /\ bar \in Bars /\ trade = Flat
    BY <1>0, <1>8 DEF TradeType
  <2>3. CASE NoEntry
    BY <2>1, <2>2, <2>3, FlatApart DEF NoEntry, TradeType
  <2>4. CASE ~ NoEntry
    <3>1. trade' \in Trades /\ trade'.bar = i /\ trade'.qty % LotSize = 0
      BY <1>8, <2>4, DecideEffect, EntryType
    <3> QED
      BY <1>0, <2>1, <2>2, <3>1 DEF TradeType
  <2> QED
    BY <2>3, <2>4
<1>9. CASE UNCHANGED vars
  BY <1>0, <1>9 DEF vars, TradeType, frame
<1> QED
  BY <1>1, <1>2, <1>3, <1>4, <1>5, <1>6, <1>7, <1>8, <1>9, EngineShapes

\* Words stay when the clock does not go back.
LEMMA WordsStay ==
    ASSUME EngineType, UNCHANGED <<mode, leg, last, recent>>, i' \in Nat, tick' \in Nat,
           i <= i', tick <= tick'
    PROVE  WordsType'
<1>0. i \in Nat /\ tick \in Nat
  BY DEF EngineType, ControlType, WordsType
<1>1. Engine' = Engine
  BY DEF Engine
<1>2. Clock \in Nat /\ Clock' \in Nat /\ Clock <= Clock'
  <2>1. CASE Engine = "pipeline"
    <3>1. Clock = tick + 1 /\ Clock' = tick' + 1
      BY <1>1, <2>1 DEF Clock
    <3>2. \A a, b \in Nat : a <= b => a + 1 \in Nat /\ b + 1 \in Nat /\ a + 1 <= b + 1
      OBVIOUS
    <3> QED
      BY <1>0, <3>1, <3>2
  <2>2. CASE Engine # "pipeline"
    <3>1. Clock = i /\ Clock' = i'
      BY <1>1, <2>2 DEF Clock
    <3> QED
      BY <1>0, <3>1
  <2> QED
    BY <2>1, <2>2
<1>3. \A r \in recent : r.at \in Nat
  BY DEF EngineType, WordsType, Words
<1>4. \A r \in recent : r.at < Clock'
  BY <1>2, <1>3 DEF EngineType, WordsType
<1> QED
  BY <1>1, <1>4 DEF EngineType, WordsType

\* Every step keeps the buffer in its type.
LEMMA WordsStep == EngineType /\ [BatchNext]_vars => WordsType'
<1> SUFFICES ASSUME EngineType, [BatchNext]_vars PROVE WordsType'
  OBVIOUS
<1>0. i \in Nat /\ tick \in Nat
  BY DEF EngineType, ControlType, WordsType
<1>1. CASE FreshStep
  BY <1>1 DEF FreshStep, Afresh, WordsType, Words
<1>2. CASE IdleStep
  BY <1>0, <1>2, WordsStay DEF IdleStep, memory
<1>3. CASE CloseStep
  <2>1. UNCHANGED <<mode, leg, i, tick, last, recent>>
    BY <1>3, CloseEffect
  <2>2. i' \in Nat /\ tick' \in Nat /\ i <= i' /\ tick <= tick'
    BY <1>0, <2>1
  <2> QED
    BY <2>1, <2>2, WordsStay
<1>4. CASE Hold
  BY <1>0, <1>4, WordsStay DEF Hold, Advance, frame, memory
<1>5. CASE Cool
  <2>1. tick' \in {tick, tick + 1} /\ i' = i + 1 /\ UNCHANGED <<mode, leg, last, recent>>
    BY <1>5 DEF Cool, Advance, frame
  <2> QED
    BY <1>0, <2>1, WordsStay
<1>6. CASE Midnight
  BY <1>0, <1>6, WordsStay DEF Midnight, frame, memory
<1>7. ASSUME NEW b \in Bars, NextBar(b) PROVE WordsType'
  BY <1>0, <1>7, WordsStay DEF NextBar, frame, memory
<1>8. ASSUME pc = "enter", NEW s \in Signals[team][bar], Decide(s) PROVE WordsType'
  <2>1. /\ Clock' = Clock + 1 /\ tick' \in Nat /\ last' \in {last, Clock, i} /\ Kept(recent')
        /\ UNCHANGED <<mode, leg>>
    BY <1>8, DecideEffect
  <2>2. Clock \in Nat /\ Engine' = Engine
    BY <1>0, <2>1 DEF Clock, Engine
  <2>3. last' \in Nat \cup {Never}
    BY <1>0, <2>1, <2>2 DEF EngineType, WordsType
  <2>4. \A r \in recent' : r.at \in Nat /\ r.at <= Clock
    BY <2>1 DEF Kept, Words
  <2>5. \A r \in recent' : r.at < Clock'
    BY <2>1, <2>2, <2>4
  <2> QED
    BY <2>1, <2>2, <2>3, <2>5 DEF Kept, WordsType
<1>9. CASE UNCHANGED vars
  BY <1>0, <1>9, WordsStay DEF vars, frame, memory
<1> QED
  BY <1>1, <1>2, <1>3, <1>4, <1>5, <1>6, <1>7, <1>8, <1>9, EngineShapes

\* The ledger of a day.
LEMMA DailyStatsType == \A d \in Nat : DailyStats(d) \in Ledgers
  BY DEF DailyStats, Ledgers

\* The ledger after the look at the date.
LEMMA OfTodayType ==
    ASSUME LedgerType
    PROVE  OfToday \in Ledgers
  BY DailyStatsType, BacktestAssumption DEF LedgerType, OfToday

\* Every step keeps the accounts in their types.
LEMMA LedgerStep == EngineType /\ [BatchNext]_vars => LedgerType'
<1> SUFFICES ASSUME EngineType, [BatchNext]_vars PROVE LedgerType'
  OBVIOUS
<1>0. LedgerType /\ Capital \in Nat /\ MaxMidnights \in Nat
  BY BacktestAssumption DEF EngineType
<1>1. CASE FreshStep
  BY <1>0, <1>1, DailyStatsType DEF FreshStep, Afresh, LedgerType
<1>2. ASSUME UNCHANGED <<money, today, entered>> PROVE LedgerType'
  BY <1>0, <1>2 DEF LedgerType, money
<1>3. CASE IdleStep \/ Hold \/ Cool
  BY <1>2, <1>3 DEF IdleStep, Hold, Cool
<1>4. CASE Midnight
  BY <1>0, <1>4 DEF Midnight, LedgerType, money
<1>5. ASSUME NEW b \in Bars, NextBar(b) PROVE LedgerType'
  BY <1>2, <1>5 DEF NextBar
<1>6. CASE CloseStep
  <2>1. PICK price \in Int : /\ capital' = capital + Pnl(price) /\ Pnl(price) \in Int
                             /\ ledger' = IF Engine # "pipeline" THEN ledger
                                              ELSE [ledger EXCEPT !.open = MaxZero(@ - 1),
                                                                  !.pnl = @ + Pnl(price)]
    BY <1>6, CloseEffect
  <2>2. UNCHANGED <<today, entered>>
    BY <1>6, CloseEffect
  <2>3. ledger' \in Ledgers
    <3>1. ledger \in Ledgers /\ MaxZero(ledger.open - 1) = 0 /\ ledger.pnl + Pnl(price) \in Int
      BY <1>0, <2>1 DEF LedgerType, Ledgers, MaxZero
    <3>2. [ledger EXCEPT !.open = 0, !.pnl = ledger.pnl + Pnl(price)] \in Ledgers
      BY <3>1 DEF Ledgers
    <3> QED
      BY <2>1, <3>1, <3>2
  <2> QED
    BY <1>0, <2>1, <2>2, <2>3 DEF LedgerType
<1>7. ASSUME pc = "enter", NEW s \in Signals[team][bar], Decide(s) PROVE LedgerType'
  <2>1. UNCHANGED <<capital, today>>
    BY <1>7, DecideEffect
  <2>2. entered' \in Nat
    <3>1. CASE NoEntry
      BY <1>0, <3>1 DEF NoEntry, LedgerType
    <3>2. CASE ~ NoEntry
      <4>1. entered' = entered + 1
        BY <1>7, <3>2, DecideEffect, EntryType
      <4> QED
        BY <1>0, <4>1 DEF LedgerType
    <3> QED
      BY <3>1, <3>2
  <2>3. ledger' \in Ledgers
    <3>1. ledger \in Ledgers /\ OfToday \in Ledgers
      BY <1>0, OfTodayType DEF LedgerType
    <3>2. ASSUME NEW sig, NEW stop, Gates(sig, stop), ledger' = Executed(sig, stop)
          PROVE  ledger' \in Ledgers
      <4>1. OfToday.open < 1
        BY <3>2 DEF Gates
      <4>2. OfToday.open + 1 \in {0, 1} /\ OfToday.trades + 1 \in Nat
        BY <3>1, <4>1 DEF Ledgers
      <4>3. Executed(sig, stop) = [OfToday EXCEPT !.trades = OfToday.trades + 1, !.open = OfToday.open + 1]
        BY DEF Executed
      <4> QED
        BY <3>1, <3>2, <4>2, <4>3 DEF Ledgers
    <3> QED
      BY <1>7, <3>1, <3>2, DecideEffect DEF NoEntry, SoloEntry, LiveEntry
  <2> QED
    BY <1>0, <2>1, <2>2, <2>3 DEF LedgerType
<1>8. CASE UNCHANGED vars
  BY <1>2, <1>8 DEF vars
<1> QED
  BY <1>1, <1>3, <1>4, <1>5, <1>6, <1>7, <1>8, EngineShapes

\* All of that holds at first.
LEMMA EngineInit == BatchInit => EngineType
<1> SUFFICES ASSUME BatchInit PROVE EngineType
  OBVIOUS
<1>1. TradeType
  BY FlatApart DEF BatchInit, TradeType
<1>2. WordsType
  BY DEF BatchInit, WordsType, Words
<1>3. LedgerType
  BY DailyStatsType, BacktestAssumption DEF BatchInit, LedgerType
<1> QED
  BY <1>1, <1>2, <1>3, ControlInit DEF EngineType

\* All of that is inductive.
LEMMA EngineStays == EngineType /\ [BatchNext]_vars => EngineType'
  BY ControlStep, TradeStep, WordsStep, LedgerStep DEF EngineType

\* BatchSpec keeps every variable in its type: every trade has a size, a multiple of the
\* lot, and the buffer one word of a strategy.
THEOREM BacktestTypeCorrect == BatchSpec => []BacktestTypeOK
<1>1. EngineType => BacktestTypeOK
  <2> SUFFICES ASSUME EngineType PROVE BacktestTypeOK
    OBVIOUS
  <2>1. trade = Flat \/ (/\ trade.side \in Sides /\ trade.bar \in 0 .. i
                       /\ trade.qty >= 1 /\ trade.qty % LotSize = 0)
    BY DEF EngineType, ControlType, TradeType, Trades
  <2>2. ledger.open \in {0, 1}
    BY DEF EngineType, LedgerType, Ledgers
  <2> QED
    BY <2>1, <2>2 DEF EngineType, ControlType, Working, Raised, TradeType, WordsType, LedgerType,
                            BacktestTypeOK
<1> QED
  BY <1>1, EngineInit, EngineStays, PTL DEF BatchSpec

----------------------------------------------------------------------------
(* The parity backtest's two accounts.                                          *)

\* The ledger counts the open trade, and no day of it has more trades than the cap: all
\* entries are those of earlier days, at most the cap each, and those of its own.
Accounts(l, flat, made, all, now) ==
    /\ l.open = IF flat THEN 0 ELSE 1
    /\ l.day = 0 => l.pnl = made - Capital /\ l.trades = all
    /\ l.trades <= MaxTrades /\ l.day <= now
    /\ all <= MaxTrades * l.day + l.trades

ParityInv == Engine = "pipeline" => Accounts(ledger, trade = Flat, capital, entered, today)

\* Days of MaxTrades each.
LEMMA DaysBound ==
    ASSUME NEW d \in Nat, NEW e \in Nat, d < e
    PROVE  MaxTrades * d + MaxTrades <= MaxTrades * e
<1>1. MaxTrades \in Nat /\ d + 1 \in Nat /\ d + 1 <= e
  BY BacktestAssumption
<1>2. MaxTrades * (d + 1) <= MaxTrades * e
  BY <1>1, TimesMonotone
<1>3. MaxTrades * (d + 1) = MaxTrades * d + MaxTrades
  BY <1>1
<1> QED
  BY <1>2, <1>3

\* The look at the date keeps the accounts.
LEMMA OfTodayAccounts ==
    ASSUME LedgerType, Accounts(ledger, TRUE, capital, entered, today)
    PROVE  OfToday \in Ledgers /\ OfToday.day = today
           /\ Accounts(OfToday, TRUE, capital, entered, today)
<1>0. /\ MaxTrades \in Nat /\ MaxMidnights \in Nat /\ ledger \in Ledgers /\ today \in Nat
      /\ capital \in Int /\ Capital \in Int /\ entered \in Nat
  BY BacktestAssumption DEF LedgerType
<1>1. CASE ledger.day = today
  BY <1>0, <1>1 DEF OfToday
<1>2. CASE ledger.day # today
  <2>1. OfToday = [trades |-> 0, open |-> 0, pnl |-> 0, day |-> today]
    BY <1>2 DEF OfToday, DailyStats
  <2>2. ledger.day \in Nat /\ ledger.trades \in Nat /\ ledger.day < today
    BY <1>0, <1>2 DEF Accounts, Ledgers
  <2>3. entered <= MaxTrades * today
    <3>1. MaxTrades * ledger.day + MaxTrades <= MaxTrades * today
      BY <1>0, <2>2, DaysBound
    <3>2. entered <= MaxTrades * ledger.day + ledger.trades /\ ledger.trades <= MaxTrades
      BY DEF Accounts
    <3>3. MaxTrades * ledger.day \in Nat /\ MaxTrades * today \in Nat
      BY <1>0, <2>2, NatTimes
    <3> QED
      BY <1>0, <2>2, <3>1, <3>2, <3>3
  <2>4. MaxTrades * today \in Nat
    BY <1>0, NatTimes
  <2> QED
    BY <1>0, <2>1, <2>2, <2>3, <2>4 DEF Accounts, Ledgers
<1> QED
  BY <1>1, <1>2

\* Every step keeps the two accounts in agreement.
LEMMA ParityStep == EngineType /\ ParityInv /\ [BatchNext]_vars => ParityInv'
<1> SUFFICES ASSUME EngineType, ParityInv, [BatchNext]_vars PROVE ParityInv'
  OBVIOUS
<1>0. /\ LedgerType /\ MaxTrades \in Nat /\ Capital \in Int /\ capital \in Int /\ entered \in Nat
      /\ ledger \in Ledgers /\ ledger.trades \in Nat /\ ledger.day \in Nat /\ today \in Nat
  BY BacktestAssumption DEF EngineType, LedgerType, Ledgers
<1>1. CASE FreshStep
  <2>1. ledger' = [trades |-> 0, open |-> 0, pnl |-> 0, day |-> 0] /\ trade' = Flat
        /\ capital' = Capital /\ entered' = 0 /\ today' = 0
    BY <1>1 DEF FreshStep, Afresh, DailyStats
  <2>2. Accounts(ledger', TRUE, capital', entered', today')
    BY <1>0, <2>1 DEF Accounts
  <2> QED
    BY <2>1, <2>2 DEF ParityInv
<1>2. ASSUME UNCHANGED <<mode, leg, trade, capital, ledger, today, entered>> PROVE ParityInv'
  BY <1>2 DEF ParityInv, Engine
<1>3. CASE IdleStep \/ Cool
  BY <1>2, <1>3 DEF IdleStep, Cool, frame, money
<1>4. ASSUME NEW b \in Bars, NextBar(b) PROVE ParityInv'
  BY <1>2, <1>4 DEF NextBar, frame, money
<1>5. CASE UNCHANGED vars
  BY <1>2, <1>5 DEF vars, frame, money
<1>6. CASE Hold
  <2>1. trade \in Trades /\ trade' = Trailed
        /\ UNCHANGED <<mode, leg, capital, ledger, today, entered>>
    BY <1>6 DEF Hold, frame, money, EngineType, TradeType
  <2>2. trade # Flat /\ trade' # Flat
    BY <2>1, TrailedType, FlatApart
  <2> QED
    BY <2>1, <2>2 DEF ParityInv, Engine, Accounts
<1>7. CASE Midnight
  <2>1. today' = today + 1 /\ UNCHANGED <<mode, leg, trade, capital, ledger, entered>>
    BY <1>7 DEF Midnight, frame, money
  <2> QED
    BY <1>0, <2>1 DEF ParityInv, Engine, Accounts
<1>8. CASE CloseStep
  <2>1. PICK price \in Int : /\ capital' = capital + Pnl(price) /\ Pnl(price) \in Int
                             /\ ledger' = IF Engine # "pipeline" THEN ledger
                                              ELSE [ledger EXCEPT !.open = MaxZero(@ - 1),
                                                                  !.pnl = @ + Pnl(price)]
    BY <1>8, CloseEffect
  <2>2. trade # Flat /\ trade' = Flat /\ UNCHANGED <<mode, leg, today, entered>>
    BY <1>8, CloseEffect, FlatApart
  <2> SUFFICES ASSUME Engine = "pipeline" PROVE Accounts(ledger', TRUE, capital', entered, today)
    BY <2>2 DEF ParityInv, Engine
  <2>3. Accounts(ledger, FALSE, capital, entered, today)
    BY <2>2 DEF ParityInv
  <2>4. MaxZero(ledger.open - 1) = 0
    BY <2>3 DEF Accounts, MaxZero
  <2>5. ledger' = [ledger EXCEPT !.open = MaxZero(ledger.open - 1), !.pnl = ledger.pnl + Pnl(price)]
    BY <2>1
  <2>6. /\ ledger'.open = 0 /\ ledger'.pnl = ledger.pnl + Pnl(price)
        /\ ledger'.trades = ledger.trades /\ ledger'.day = ledger.day
    BY <1>0, <2>4, <2>5 DEF Ledgers
  <2>7. ledger.pnl \in Int
    BY <1>0 DEF Ledgers
  <2> QED
    BY <1>0, <2>1, <2>3, <2>6, <2>7 DEF Accounts
<1>9. ASSUME pc = "enter", NEW s \in Signals[team][bar], Decide(s) PROVE ParityInv'
  <2>1. UNCHANGED <<mode, leg, capital, today>> /\ trade = Flat
    BY <1>9, DecideEffect, FlatApart DEF EngineType, TradeType
  <2> SUFFICES ASSUME Engine = "pipeline" PROVE Accounts(ledger', trade' = Flat, capital, entered', today)
    BY <2>1 DEF ParityInv, Engine
  <2>2. Accounts(ledger, TRUE, capital, entered, today)
    BY <2>1 DEF ParityInv
  <2>3. OfToday \in Ledgers /\ Accounts(OfToday, TRUE, capital, entered, today)
    BY <1>0, <2>2, OfTodayAccounts
  <2>4. CASE NoEntry
    BY <2>1, <2>2, <2>3, <2>4 DEF NoEntry
  <2>5. CASE ~ NoEntry
    <3>0. PICK r \in Merged(s) : \E stop \in AdjustedStops \cup {r.sig.stop} : LiveEntry(r, stop)
      BY <1>9, <2>5, DecideEffect DEF SoloEntry
    <3>1. PICK stop \in AdjustedStops \cup {r.sig.stop} : LiveEntry(r, stop)
      BY <3>0
    <3>2. trade' \in Trades /\ entered' = entered + 1
      BY <1>9, <3>1, EntryType
    <3>3. OfToday.trades < MaxTrades /\ ledger' = Executed(r.sig, stop)
      BY <3>1 DEF LiveEntry, Gates
    <3>4. Executed(r.sig, stop)
            = [OfToday EXCEPT !.trades = OfToday.trades + 1, !.open = OfToday.open + 1]
      BY DEF Executed
    <3>5. /\ ledger'.trades = OfToday.trades + 1 /\ ledger'.open = OfToday.open + 1
          /\ ledger'.pnl = OfToday.pnl /\ ledger'.day = OfToday.day
      BY <2>3, <3>3, <3>4 DEF Ledgers
    <3>6. OfToday.open = 0 /\ OfToday.trades \in Nat /\ OfToday.day \in Nat
          /\ MaxTrades * OfToday.day \in Nat
      BY <1>0, <2>3, NatTimes DEF Accounts, Ledgers
    <3>7. Accounts(ledger', FALSE, capital, entered', today)
      <4>1. OfToday.open + 1 = 1 /\ OfToday.trades + 1 <= MaxTrades
        BY <1>0, <3>3, <3>6
      <4>2. OfToday.day = 0 => OfToday.pnl = capital - Capital /\ OfToday.trades + 1 = entered + 1
        BY <2>3 DEF Accounts
      <4>3. entered <= MaxTrades * OfToday.day + OfToday.trades /\ OfToday.day <= today
        BY <2>3 DEF Accounts
      <4>4. entered + 1 <= MaxTrades * OfToday.day + (OfToday.trades + 1)
        BY <1>0, <3>6, <4>3
      <4> QED
        BY <3>2, <3>5, <4>1, <4>2, <4>3, <4>4 DEF Accounts
    <3> QED
      BY <3>2, <3>7, FlatApart
  <2> QED
    BY <2>4, <2>5
<1> QED
  BY <1>1, <1>3, <1>4, <1>5, <1>6, <1>7, <1>8, <1>9, EngineShapes

\* Both accounts start with nothing.
LEMMA ParityInit == BatchInit => ParityInv
<1> SUFFICES ASSUME BatchInit PROVE ParityInv
  OBVIOUS
<1>1. ledger = [trades |-> 0, open |-> 0, pnl |-> 0, day |-> 0] /\ trade = Flat
      /\ capital = Capital /\ entered = 0 /\ today = 0
  BY DEF BatchInit, DailyStats
<1>2. MaxTrades \in Nat /\ Capital \in Int
  BY BacktestAssumption
<1> QED
  BY <1>1, <1>2 DEF ParityInv, Accounts

\* In every parity backtest the risk engine's account agrees with the backtest's own, and
\* the caps of a day bind for all the candles that are played before the host's midnight.
THEOREM AccountsAgree == BatchSpec => []ParityLedger
<1>1. EngineType /\ ParityInv => ParityLedger
  <2> SUFFICES ASSUME EngineType, ParityInv, Engine = "pipeline" PROVE ParityLedger
    BY DEF ParityLedger
  <2>0. /\ MaxTrades \in Nat /\ entered \in Nat /\ today \in Nat
        /\ ledger.trades \in Nat /\ ledger.day \in Nat
    BY BacktestAssumption DEF EngineType, LedgerType, Ledgers
  <2>1. Accounts(ledger, trade = Flat, capital, entered, today)
    BY DEF ParityInv
  <2>2. ledger.day < today + 1 /\ today + 1 \in Nat
    BY <2>0, <2>1 DEF Accounts
  <2>3. MaxTrades * ledger.day + MaxTrades <= MaxTrades * (today + 1)
    BY <2>0, <2>2, DaysBound
  <2>4. MaxTrades * ledger.day \in Nat /\ MaxTrades * (today + 1) \in Nat
        /\ 1 + today = today + 1
    BY <2>0, <2>2, NatTimes
  <2>5. entered <= MaxTrades * (1 + today)
    BY <2>0, <2>1, <2>3, <2>4 DEF Accounts
  <2> QED
    BY <2>1, <2>5 DEF Accounts, ParityLedger
<1> QED
  BY <1>1, EngineInit, EngineStays, ParityInit, ParityStep, PTL DEF BatchSpec

----------------------------------------------------------------------------
(* What a trade can lose, and why it was closed.                                *)

Sized == Engine # "pipeline" \/ ~ (trade.adjusted \/ trade.stale)

\* The open trade, its stops and its target, as seen from its entry; when its bar is done
\* the close is the entry's, but for slippage, or a later one that its first stop did not
\* reach.
TradeInv ==
    trade \in Trades =>
        /\ Ahead(trade.side, trade.first, trade.stop) >= 0
        /\ IF trade.trailed THEN Ahead(trade.side, trade.first, trade.stop) > 0 ELSE trade.stop = trade.first
        /\ ~ trade.stale => Ahead(trade.side, trade.entry, trade.target) + Slip >= 0
        /\ ~ trade.stale /\ trade.by # "supertrend" => Ahead(trade.side, trade.first, trade.entry) >= 0
        /\ Sized => /\ Abs(trade.entry - trade.first) * trade.qty <= trade.budget
                    /\ Ahead(trade.side, trade.first, trade.target) >= 0
        /\ pc = "bar" => IF i = trade.bar + 1 THEN Ahead(trade.side, bar.close, trade.entry) <= Slip
                         ELSE Ahead(trade.side, trade.first, bar.close) > 0

\* Distances add up.
LEMMA AheadSum ==
    ASSUME NEW side, NEW a \in Int, NEW b \in Int, NEW c \in Int
    PROVE  /\ Ahead(side, a, b) \in Int /\ Ahead(side, b, c) \in Int /\ Ahead(side, a, c) \in Int
           /\ Ahead(side, a, b) + Ahead(side, b, c) = Ahead(side, a, c)
           /\ Ahead(side, a, a) = 0 /\ Ahead(side, a, b) <= Abs(b - a)
  BY DEF Ahead, Sgn, Abs

\* What is done outside the trade keeps it.
LEMMA TradeStays ==
    ASSUME EngineType, TradeInv, UNCHANGED <<mode, leg, trade>>,
           pc' = "bar" => pc = "bar" /\ UNCHANGED <<i, bar>>
    PROVE  TradeInv'
  BY DEF TradeInv, Sized, Engine

\* A trade as it is opened.
LEMMA TradeOpened ==
    ASSUME EngineType, pc = "enter", NEW s \in Signals[team][bar], NEW r \in Merged(s),
           SoloEntry(r) \/ \E stop \in AdjustedStops \cup {r.sig.stop} : LiveEntry(r, stop),
           UNCHANGED <<mode, leg, bar>>, i' = i + 1
    PROVE  TradeInv'
<1> DEFINE sig == r.sig
           gap == IF Engine = "pipeline" THEN 0 ELSE Slip
           entry == bar.close + Sgn(sig.side) * gap
<1>0. MergedType(Merged(s)) /\ r \in Words /\ sig \in Sigs
  BY MergedWords DEF MergedType, Words
<1>1. /\ sig.side \in Sides /\ sig.entry \in Int /\ sig.stop \in Int /\ sig.target \in Int
  BY <1>0 DEF Sigs
<1>2. bar.close \in Int /\ Slip \in Nat /\ gap \in Nat /\ gap <= Slip /\ i \in Nat
      /\ capital \in Int /\ Capital \in Int
  BY BarsType, BacktestAssumption DEF EngineType, ControlType, TradeType, LedgerType, Candle
<1>3. entry \in Int
  BY <1>2, SgnType
<1>4. Engine # "pipeline" => Bracket(sig)
  BY <1>0 DEF MergedType
<1>5. r.at = Clock => Bracket(sig) /\ sig.entry = bar.close
  BY <1>0 DEF MergedType
<1>6. trade' \in Trades /\ trade'.bar = i
  BY EntryType
<1>7. /\ trade'.side = sig.side /\ trade'.entry = entry /\ trade'.stop = sig.stop
      /\ trade'.first = sig.stop /\ trade'.target = sig.target /\ trade'.trailed = FALSE
      /\ trade'.by = sig.strategy /\ trade'.stale = (r.at # Clock)
  <2>1. CASE SoloEntry(r)
    BY <2>1 DEF SoloEntry, Open
  <2>2. ASSUME NEW stop \in AdjustedStops \cup {sig.stop}, LiveEntry(r, stop)
        PROVE  /\ Engine = "pipeline" /\ trade' = Open(r, bar.close, trade'.qty, trade'.budget, stop)
    BY <2>2 DEF LiveEntry, Open
  <2>3. CASE \E stop \in AdjustedStops \cup {sig.stop} : LiveEntry(r, stop)
    <3>1. PICK stop \in AdjustedStops \cup {sig.stop} :
              Engine = "pipeline" /\ trade' = Open(r, bar.close, trade'.qty, trade'.budget, stop)
      BY <2>2, <2>3
    <3>2. entry = bar.close
      BY <1>2, <3>1, SgnType
    <3> HIDE DEF entry
    <3> QED
      BY <3>1, <3>2 DEF Open
  <2> QED
    BY <2>1, <2>3
<1>8. ASSUME Sized' PROVE Abs(entry - sig.stop) * trade'.qty <= trade'.budget
  <2>1. CASE SoloEntry(r)
    <3>1. /\ trade'.qty = position_size(capital, entry, sig.stop) /\ trade'.qty >= 1
          /\ trade'.budget = Budget(capital)
      BY <2>1 DEF SoloEntry, Open
    <3> HIDE DEF entry
    <3>2. Abs(entry - sig.stop) * position_size(capital, entry, sig.stop) <= Budget(capital)
      BY <1>1, <1>2, <1>3, <3>1, PositionSize
    <3> QED
      BY <3>1, <3>2
  <2>2. CASE \E stop \in AdjustedStops \cup {sig.stop} : LiveEntry(r, stop)
    <3>1. PICK stop \in AdjustedStops \cup {sig.stop} : LiveEntry(r, stop)
      BY <2>2
    <3>2. /\ Engine = "pipeline" /\ trade'.qty = position_size(Capital, sig.entry, stop)
          /\ trade'.qty >= 1 /\ trade'.budget = Budget(Capital) /\ trade'.adjusted = (stop # sig.stop)
      BY <3>1 DEF LiveEntry, Open, Gates
    <3>3. Engine' = Engine
      BY DEF Engine
    <3>4. stop = sig.stop /\ r.at = Clock
      BY <1>7, <1>8, <3>2, <3>3 DEF Sized
    <3>5. entry = sig.entry
      BY <1>2, <1>5, <3>2, <3>4, SgnType
    <3> HIDE DEF entry
    <3>6. Abs(sig.entry - stop) * position_size(Capital, sig.entry, stop) <= Budget(Capital)
      BY <1>1, <1>2, <3>2, <3>4, PositionSize
    <3> QED
      BY <3>2, <3>4, <3>5, <3>6
  <2> QED
    BY <2>1, <2>2
<1>9. Sized' => Bracket(sig)
  <2>1. Engine' = Engine
    BY DEF Engine
  <2> QED
    BY <1>4, <1>5, <1>7, <2>1 DEF Sized
<1> HIDE DEF entry, gap, sig
<1>10. entry = bar.close + Sgn(sig.side) * gap
  BY DEF entry
<1>12. Ahead(sig.side, bar.close, entry) <= Slip /\ Ahead(sig.side, bar.close, entry) >= 0
  BY <1>2, <1>10 DEF Ahead, Sgn
<1>13. r.at = Clock => /\ Ahead(sig.side, entry, sig.target) + Slip >= 0
                       /\ sig.strategy # "supertrend" => Ahead(sig.side, sig.stop, entry) >= 0
  <2> SUFFICES ASSUME r.at = Clock
               PROVE  /\ Ahead(sig.side, entry, sig.target) + Slip >= 0
                      /\ sig.strategy # "supertrend" => Ahead(sig.side, sig.stop, entry) >= 0
    OBVIOUS
  <2>1. /\ Ahead(sig.side, bar.close, sig.target) >= 0
        /\ sig.strategy # "supertrend" => Ahead(sig.side, sig.stop, bar.close) >= 0
    BY <1>5 DEF Bracket
  <2>2. /\ Ahead(sig.side, bar.close, entry) \in Int /\ Ahead(sig.side, entry, sig.target) \in Int
        /\ Ahead(sig.side, bar.close, entry) + Ahead(sig.side, entry, sig.target)
              = Ahead(sig.side, bar.close, sig.target)
    BY <1>1, <1>2, <1>3, AheadSum
  <2>3. /\ Ahead(sig.side, sig.stop, bar.close) \in Int /\ Ahead(sig.side, sig.stop, entry) \in Int
        /\ Ahead(sig.side, sig.stop, bar.close) + Ahead(sig.side, bar.close, entry)
              = Ahead(sig.side, sig.stop, entry)
    BY <1>1, <1>2, <1>3, AheadSum
  <2>4. Ahead(sig.side, entry, sig.target) + Slip >= 0
    BY <1>2, <1>12, <2>1, <2>2
  <2>5. sig.strategy # "supertrend" => Ahead(sig.side, sig.stop, entry) >= 0
    BY <1>12, <2>1, <2>2, <2>3
  <2> QED
    BY <2>4, <2>5
<1>14. Sized' => Ahead(sig.side, sig.stop, sig.target) >= 0
  BY <1>9 DEF Bracket
<1>15. Ahead(sig.side, sig.stop, sig.stop) >= 0
  BY <1>1, AheadSum
<1> QED
  BY <1>6, <1>7, <1>8, <1>12, <1>13, <1>14, <1>15 DEF TradeInv

\* A bar that did not reach the stop closed ahead of the first one.
LEMMA TradeHeld ==
    ASSUME EngineType, TradeInv, Hold
    PROVE  TradeInv'
<1>1. /\ pc = "exit" /\ ~ Stopped /\ trade' = Trailed /\ i' = i + 1
      /\ UNCHANGED <<mode, leg, bar>>
  BY DEF Hold, Advance, frame
<1>2. trade \in Trades /\ trade.bar < i /\ trade.bar \in Nat /\ i \in Nat /\ bar \in Candle
      /\ bar.low <= bar.close /\ bar.close <= bar.high
  BY <1>1, BarsType DEF EngineType, ControlType, TradeType, Trades
<1>3. /\ trade.side \in {"BUY", "SELL"} /\ trade.stop \in Int /\ trade.first \in Int
      /\ bar.low \in Nat /\ bar.close \in Nat /\ bar.high \in Nat
  BY <1>2 DEF Trades, Sides, Candle
<1>4. trade' \in Trades /\ trade'.stop \in Int
  BY <1>1, <1>2, TrailedType DEF Trades
<1>5. Ahead(trade.side, trade.first, bar.close) > 0
  <2>1. Ahead(trade.side, trade.first, trade.stop) >= 0
    BY <1>2 DEF TradeInv
  <2>2. Ahead(trade.side, trade.stop, bar.close) > 0
    BY <1>1, <1>2, <1>3 DEF Stopped, Ahead, Sgn
  <2>3. /\ Ahead(trade.side, trade.first, trade.stop) \in Int
        /\ Ahead(trade.side, trade.stop, bar.close) \in Int
        /\ Ahead(trade.side, trade.first, trade.stop) + Ahead(trade.side, trade.stop, bar.close)
              = Ahead(trade.side, trade.first, bar.close)
    BY <1>3, AheadSum
  <2> QED
    BY <2>1, <2>2, <2>3
<1>6. /\ trade'.side = trade.side /\ trade'.bar = trade.bar /\ trade'.qty = trade.qty
      /\ trade'.entry = trade.entry /\ trade'.target = trade.target /\ trade'.first = trade.first
      /\ trade'.budget = trade.budget /\ trade'.by = trade.by
      /\ trade'.adjusted = trade.adjusted /\ trade'.stale = trade.stale
  BY <1>1, <1>2, TrailedType
<1>7. \/ trade' = trade
      \/ trade'.trailed /\ Ahead(trade.side, trade.stop, trade'.stop) > 0
  BY <1>1, <1>2, TrailedType
<1>8. /\ Ahead(trade.side, trade.first, trade'.stop) >= 0
      /\ IF trade'.trailed THEN Ahead(trade.side, trade.first, trade'.stop) > 0 ELSE trade'.stop = trade.first
  <2>1. /\ Ahead(trade.side, trade.first, trade.stop) >= 0
        /\ IF trade.trailed THEN Ahead(trade.side, trade.first, trade.stop) > 0 ELSE trade.stop = trade.first
    BY <1>2 DEF TradeInv
  <2>2. Ahead(trade.side, trade.stop, trade'.stop) > 0 => Ahead(trade.side, trade.first, trade'.stop) > 0
    <3>1. /\ Ahead(trade.side, trade.first, trade.stop) \in Int
          /\ Ahead(trade.side, trade.stop, trade'.stop) \in Int
          /\ Ahead(trade.side, trade.first, trade.stop) + Ahead(trade.side, trade.stop, trade'.stop)
                = Ahead(trade.side, trade.first, trade'.stop)
      BY <1>3, <1>4, AheadSum
    <3> QED
      BY <2>1, <3>1
  <2>3. Ahead(trade.side, trade.first, trade'.stop) \in Int
    BY <1>3, <1>4, AheadSum
  <2> QED
    BY <1>7, <2>1, <2>2, <2>3
<1>9. i' # trade.bar + 1
  BY <1>1, <1>2
<1>10. Sized' = Sized
  BY <1>1, <1>6 DEF Sized, Engine
<1> QED
  BY <1>1, <1>2, <1>5, <1>6, <1>8, <1>9, <1>10 DEF TradeInv

\* Every step keeps to that.
LEMMA TradeInvStep == EngineType /\ TradeInv /\ [BatchNext]_vars => TradeInv'
<1> SUFFICES ASSUME EngineType, TradeInv, [BatchNext]_vars PROVE TradeInv'
  OBVIOUS
<1>1. ASSUME trade' = Flat PROVE TradeInv'
  BY <1>1, FlatApart DEF TradeInv
<1>2. CASE FreshStep \/ CloseStep
  BY <1>1, <1>2, CloseEffect DEF FreshStep, Afresh
<1>3. CASE IdleStep
  BY <1>3, TradeStays DEF IdleStep
<1>4. CASE Cool
  <2>1. trade' = Flat
    BY <1>4 DEF Cool, EngineType, TradeType
  <2> QED
    BY <1>1, <2>1
<1>5. CASE Midnight
  BY <1>5, TradeStays DEF Midnight, frame
<1>6. ASSUME NEW b \in Bars, NextBar(b) PROVE TradeInv'
  <2>1. pc' # "bar" /\ UNCHANGED <<mode, leg, trade>>
    BY <1>6 DEF NextBar, Goto, frame
  <2> QED
    BY <2>1, TradeStays
<1>7. CASE Hold
  BY <1>7, TradeHeld
<1>8. ASSUME pc = "enter", NEW s \in Signals[team][bar], Decide(s) PROVE TradeInv'
  <2>1. trade = Flat
    BY <1>8 DEF EngineType, TradeType
  <2>2. CASE NoEntry
    BY <1>1, <2>1, <2>2 DEF NoEntry
  <2>3. CASE ~ NoEntry
    <3>1. PICK r \in Merged(s) :
            SoloEntry(r) \/ \E stop \in AdjustedStops \cup {r.sig.stop} : LiveEntry(r, stop)
      BY <1>8, <2>3, DecideEffect
    <3>2. UNCHANGED <<mode, leg, bar>> /\ i' = i + 1
      BY <1>8, DecideEffect
    <3> QED
      BY <1>8, <3>1, <3>2, TradeOpened
  <2> QED
    BY <2>2, <2>3
<1>9. CASE UNCHANGED vars
  BY <1>9, TradeStays DEF vars, frame
<1> QED
  BY <1>2, <1>3, <1>4, <1>5, <1>6, <1>7, <1>8, <1>9, EngineShapes

\* There is no trade at first.
LEMMA TradeInvInit == BatchInit => TradeInv
  BY FlatApart DEF BatchInit, TradeInv

\* Only a close ends a trade.
LEMMA OnlyClosesEnd ==
    ASSUME EngineType, [BatchNext]_vars, trade # Flat, trade' = Flat
    PROVE  CloseStep
<1>1. trade \in Trades
  BY DEF EngineType, TradeType
<1>2. ~ Hold
  <2> SUFFICES ASSUME Hold PROVE FALSE
    OBVIOUS
  <2>1. trade' \in Trades
    BY <1>1, TrailedType DEF Hold
  <2> QED
    BY <2>1, FlatApart
<1>3. ~ FreshStep
  BY DEF FreshStep
<1>4. ~ (IdleStep \/ Cool \/ Midnight \/ \E b \in Bars : NextBar(b)) /\ ~ UNCHANGED vars
  BY DEF IdleStep, Cool, Midnight, NextBar, vars
<1>5. pc # "enter"
  BY <1>1 DEF EngineType, TradeType
<1> QED
  BY <1>2, <1>3, <1>4, <1>5, EngineShapes

\* What a close at a price adds to the capital.
LEMMA Gain ==
    ASSUME EngineType, trade \in Trades, NEW price \in Int, NEW why, Close(price, why)
    PROVE  /\ reason' = why /\ capital \in Int
           /\ ExitCosts(trade.qty) \in Int /\ trade.qty \in Nat \ {0}
           /\ Ahead(trade.side, trade.entry, price) \in Int
           /\ Ahead(trade.side, trade.entry, price) * trade.qty \in Int
           /\ capital' = capital + (Ahead(trade.side, trade.entry, price) * trade.qty
                                    - ExitCosts(trade.qty))
<1>1. /\ trade.entry \in Int /\ trade.qty \in Nat \ {0} /\ Slip \in Nat /\ Brokerage \div 2 \in Int
  BY BacktestAssumption DEF Trades
<1>2. ExitCosts(trade.qty) \in Int
  BY <1>1 DEF ExitCosts
<1>3. Ahead(trade.side, trade.entry, price) \in Int
  BY <1>1, AheadSum
<1>4. capital' = capital + Pnl(price) /\ reason' = why
  BY DEF Close
<1>5. Pnl(price) = Ahead(trade.side, trade.entry, price) * trade.qty - ExitCosts(trade.qty)
  BY DEF Pnl, Ahead
<1> QED
  BY <1>1, <1>2, <1>3, <1>4, <1>5 DEF EngineType, LedgerType

\* The parts of a trade.
LEMMA TradeParts ==
    ASSUME trade \in Trades
    PROVE  /\ trade.entry \in Int /\ trade.stop \in Int /\ trade.target \in Int /\ trade.first \in Int
           /\ trade.budget \in Int /\ trade.qty \in Nat \ {0} /\ trade.qty \in Nat /\ trade.bar \in Nat
           /\ trade.trailed \in BOOLEAN
  BY DEF Trades

\* A price that is not behind the first stop loses at most what the size was made for.
LEMMA LossAt ==
    ASSUME trade \in Trades, NEW price \in Int, Ahead(trade.side, trade.first, price) >= 0,
           Abs(trade.entry - trade.first) * trade.qty <= trade.budget
    PROVE  - (Ahead(trade.side, trade.entry, price) * trade.qty) <= trade.budget
<1> DEFINE d == Ahead(trade.side, trade.entry, price)
           a == Abs(trade.entry - trade.first)
           q == trade.qty
<1>0. trade.entry \in Int /\ trade.first \in Int /\ q \in Nat /\ trade.budget \in Int
  BY TradeParts
<1>1. d \in Int /\ a \in Int
  BY <1>0, AheadSum DEF Abs
<1>2. - d <= a
  <2>1. /\ Ahead(trade.side, trade.first, trade.entry) \in Int
        /\ Ahead(trade.side, trade.first, trade.entry) + Ahead(trade.side, trade.entry, price)
             = Ahead(trade.side, trade.first, price)
    BY <1>0, AheadSum
  <2>2. Ahead(trade.side, trade.first, trade.entry) <= a
    BY <1>0, AheadSum
  <2> QED
    BY <1>1, <2>1, <2>2
<1> HIDE DEF d, a, q
<1>3. (- d) * q <= a * q /\ (- d) * q = - (d * q)
  BY <1>0, <1>1, <1>2, TimesMonotone
<1>4. - (d * q) <= trade.budget
  <2>1. a * q <= trade.budget
    BY DEF a, q
  <2>2. d * q \in Int /\ a * q \in Int
    BY <1>0, <1>1
  <2> QED
    BY <1>0, <1>3, <2>1, <2>2
<1> QED
  BY <1>4 DEF d, q

\* The three ways a trade ends.
LEMMA CloseCases ==
    ASSUME EngineType, CloseStep
    PROVE  /\ trade \in Trades /\ trade.bar < i /\ bar.close \in Int
           /\ \/ pc = "exit" /\ Stopped
                 /\ Close(trade.stop, IF trade.trailed THEN "trailing" ELSE "stop")
              \/ pc = "exit" /\ ~ Stopped /\ Close(trade.target, "target")
              \/ pc = "bar" /\ Close(bar.close, "eod")
<1>1. trade \in Trades
  BY CloseEffect
<1>2. trade.bar < i /\ bar \in Candle
  BY <1>1, BarsType DEF EngineType, TradeType
<1> QED
  BY <1>1, <1>2 DEF CloseStep, StopOut, TakeProfit, CloseOut, Candle

\* The step that ends a trade loses no more than the bound.
LEMMA LossStep ==
    ASSUME EngineType, TradeInv, [BatchNext]_vars, trade # Flat, trade' = Flat, Sized
    PROVE  capital - capital' <=
             (IF reason' = "eod" /\ i = trade.bar + 1 THEN Slip * trade.qty ELSE trade.budget)
             + ExitCosts(trade.qty)
<1>0. /\ CloseStep /\ trade \in Trades /\ Slip \in Nat
  BY OnlyClosesEnd, CloseCases, BacktestAssumption
<1>1. /\ Abs(trade.entry - trade.first) * trade.qty <= trade.budget
      /\ Ahead(trade.side, trade.first, trade.target) >= 0
      /\ Ahead(trade.side, trade.first, trade.stop) >= 0
  BY <1>0 DEF TradeInv
<1>2. ASSUME NEW price \in Int, NEW why, Close(price, why), NEW bound \in Int,
             - (Ahead(trade.side, trade.entry, price) * trade.qty) <= bound
      PROVE  capital - capital' <= bound + ExitCosts(trade.qty)
  BY <1>0, <1>2, Gain
<1>3. ASSUME NEW price \in Int, NEW why, Close(price, why),
             Ahead(trade.side, trade.first, price) >= 0
      PROVE  capital - capital' <= trade.budget + ExitCosts(trade.qty)
  BY <1>0, <1>1, <1>2, <1>3, LossAt, TradeParts
<1>4. ASSUME NEW price \in Int, NEW why, Close(price, why) PROVE reason' = why
  BY <1>4 DEF Close
<1>5. CASE pc = "exit" /\ Stopped /\ Close(trade.stop, IF trade.trailed THEN "trailing" ELSE "stop")
  <2>1. reason' # "eod"
    BY <1>0, <1>4, <1>5, TradeParts
  <2> QED
    BY <1>0, <1>1, <1>3, <1>5, <2>1, TradeParts
<1>6. CASE Close(trade.target, "target")
  <2>1. reason' # "eod"
    BY <1>0, <1>4, <1>6, TradeParts
  <2> QED
    BY <1>0, <1>1, <1>3, <1>6, <2>1, TradeParts
<1>7. CASE pc = "bar" /\ Close(bar.close, "eod")
  <2>0. bar.close \in Int /\ reason' = "eod"
    BY <1>0, <1>4, <1>7, CloseCases
  <2>1. CASE i = trade.bar + 1
    <3>1. Ahead(trade.side, bar.close, trade.entry) <= Slip
      BY <1>0, <1>7, <2>1 DEF TradeInv
    <3>2. /\ Ahead(trade.side, trade.entry, bar.close) \in Int
          /\ - Ahead(trade.side, trade.entry, bar.close) <= Slip
      BY <1>0, <2>0, <3>1, AheadSum, TradeParts
    <3>3. /\ Slip * trade.qty \in Int
          /\ - (Ahead(trade.side, trade.entry, bar.close) * trade.qty) <= Slip * trade.qty
      BY <1>0, <3>2, TimesMonotone, TradeParts
    <3>4. capital - capital' <= Slip * trade.qty + ExitCosts(trade.qty)
      BY <1>2, <1>7, <2>0, <3>3
    <3> QED
      BY <2>0, <2>1, <3>4
  <2>2. CASE i # trade.bar + 1
    <3>1. Ahead(trade.side, trade.first, bar.close) > 0
      BY <1>0, <1>7, <2>2 DEF TradeInv
    <3>2. Ahead(trade.side, trade.first, bar.close) >= 0
      <4>1. Ahead(trade.side, trade.first, bar.close) \in Int
        BY <1>0, <2>0, AheadSum, TradeParts
      <4> QED
        BY <3>1, <4>1
    <3>3. capital - capital' <= trade.budget + ExitCosts(trade.qty)
      BY <1>3, <1>7, <2>0, <3>2
    <3> QED
      BY <2>2, <3>3
  <2> QED
    BY <2>1, <2>2
<1> QED
  BY <1>0, <1>5, <1>6, <1>7, CloseCases

\* For any candles, strategies, sizes and trailing stops, a trade of an engine, and of the
\* pipeline one that was sized by its own price and stop, loses no more than its share.
THEOREM LossesBounded == BatchSpec => LossBounded
<1>1. EngineType /\ TradeInv /\ [BatchNext]_vars
        => [LET at_once == reason' = "eod" /\ i = trade.bar + 1
            IN trade # Flat /\ trade' = Flat /\ (Engine # "pipeline" \/ ~ (trade.adjusted \/ trade.stale))
               => capital - capital' <= (IF at_once THEN Slip * trade.qty ELSE trade.budget)
                                        + ExitCosts(trade.qty)]_vars
  BY LossStep DEF Sized
<1> QED
  BY <1>1, EngineInit, EngineStays, TradeInvInit, TradeInvStep, PTL DEF BatchSpec, LossBounded

\* The step that ends a trade gives the reason that it had.
LEMMA ExitStep ==
    ASSUME EngineType, TradeInv, [BatchNext]_vars, trade # Flat, trade' = Flat,
           NEW gross, gross = capital' - capital + ExitCosts(trade.qty),
           NEW at_first, at_first = Sgn(trade.side) * (trade.first - trade.entry) * trade.qty
    PROVE  /\ reason' # "eod" => trade.bar < i
           /\ reason' = "stop" =>
                /\ gross = at_first
                /\ gross > 0 => trade.stale \/ trade.by = "supertrend"
           /\ reason' = "trailing" => gross > at_first
           /\ reason' = "target" =>
                /\ ~ Stopped
                /\ gross + Slip * trade.qty < 0 => trade.stale
<1>0. CloseStep /\ trade \in Trades /\ trade.bar < i /\ Slip \in Nat
  BY OnlyClosesEnd, CloseCases, BacktestAssumption
<1> DEFINE at(price) == Ahead(trade.side, trade.entry, price)
<1>1. ASSUME NEW price \in Int, NEW why, Close(price, why)
      PROVE  reason' = why /\ gross = at(price) * trade.qty /\ at(price) \in Int
  BY <1>0, <1>1, Gain
<1>2. at_first = at(trade.first) * trade.qty /\ at(trade.first) \in Int
  <2>1. at_first = at(trade.first) * trade.qty
    BY DEF Ahead
  <2> QED
    BY <1>0, <2>1, AheadSum, TradeParts
<1>3. /\ Ahead(trade.side, trade.first, trade.stop) \in Int
      /\ at(trade.stop) \in Int
      /\ at(trade.first) + Ahead(trade.side, trade.first, trade.stop) = at(trade.stop)
  BY <1>0, AheadSum, TradeParts
<1>4. CASE Close(trade.stop, IF trade.trailed THEN "trailing" ELSE "stop")
  <2>1. /\ reason' = IF trade.trailed THEN "trailing" ELSE "stop"
        /\ gross = at(trade.stop) * trade.qty
    BY <1>0, <1>1, <1>4, TradeParts
  <2>2. CASE trade.trailed
    <3>1. at(trade.first) < at(trade.stop)
      BY <1>0, <1>2, <1>3, <2>2 DEF TradeInv
    <3> HIDE DEF at
    <3>2. \A x, y \in Int, q \in Nat \ {0} : x < y => y * q > x * q
      OBVIOUS
    <3>3. gross > at_first
      BY <1>0, <1>2, <1>3, <2>1, <3>1, <3>2, TradeParts
    <3> QED
      BY <1>0, <2>1, <2>2, <3>3
  <2>3. CASE ~ trade.trailed
    <3>1. gross = at_first
      BY <1>0, <1>2, <2>1, <2>3 DEF TradeInv
    <3>2. ~ trade.stale /\ trade.by # "supertrend" => at(trade.first) <= 0
      <4>1. /\ Ahead(trade.side, trade.first, trade.entry) \in Int
            /\ Ahead(trade.side, trade.first, trade.entry) + at(trade.first)
                 = Ahead(trade.side, trade.first, trade.first)
            /\ Ahead(trade.side, trade.first, trade.first) = 0
        BY <1>0, AheadSum, TradeParts
      <4> QED
        BY <1>0, <1>2, <4>1 DEF TradeInv
    <3> HIDE DEF at
    <3>3. \A x \in Int, q \in Nat : x <= 0 => ~ (x * q > 0)
      OBVIOUS
    <3>4. gross > 0 => trade.stale \/ trade.by = "supertrend"
      BY <1>0, <1>2, <3>1, <3>2, <3>3, TradeParts
    <3> QED
      BY <1>0, <2>1, <2>3, <3>1, <3>4
  <2> QED
    BY <2>2, <2>3
<1>5. CASE ~ Stopped /\ Close(trade.target, "target")
  <2>1. reason' = "target" /\ gross = at(trade.target) * trade.qty /\ at(trade.target) \in Int
    BY <1>0, <1>1, <1>5, TradeParts
  <2>2. ~ trade.stale => at(trade.target) + Slip >= 0
    BY <1>0 DEF TradeInv
  <2> HIDE DEF at
  <2>3. \A x \in Int, y, q \in Nat : x + y >= 0 => ~ (x * q + y * q < 0)
    OBVIOUS
  <2>4. gross + Slip * trade.qty < 0 => trade.stale
    BY <1>0, <2>1, <2>2, <2>3, TradeParts
  <2> QED
    BY <1>0, <1>5, <2>1, <2>4
<1>6. CASE Close(bar.close, "eod")
  <2>1. reason' = "eod"
    BY <1>6 DEF Close
  <2> QED
    BY <2>1
<1> QED
  BY <1>0, <1>4, <1>5, <1>6, CloseCases

\* For any candles and strategies, the reason that is written with a trade is what happened.
THEOREM ReasonsTrue == BatchSpec => ExitsExplained
<1>1. EngineType /\ TradeInv /\ [BatchNext]_vars
        => [LET gross == capital' - capital + ExitCosts(trade.qty)
                at_first == Sgn(trade.side) * (trade.first - trade.entry) * trade.qty
            IN trade # Flat /\ trade' = Flat =>
                 /\ reason' # "eod" => trade.bar < i
                 /\ reason' = "stop" =>
                     /\ gross = at_first
                     /\ gross > 0 => trade.stale \/ trade.by = "supertrend"
                 /\ reason' = "trailing" => gross > at_first
                 /\ reason' = "target" =>
                     /\ ~ Stopped
                     /\ gross + Slip * trade.qty < 0 => trade.stale]_vars
  BY ExitStep
<1> QED
  BY <1>1, EngineInit, EngineStays, TradeInvInit, TradeInvStep, PTL DEF BatchSpec, ExitsExplained
====
