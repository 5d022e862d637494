---- MODULE SchedulerProofs ----
(* Theorems about Scheduler, for every watchlist, every set of executions and  *)
(* every number of days and restarts.                                          *)
EXTENDS Scheduler, TLAPS

----------------------------------------------------------------------------
(* Type correctness.                                                           *)

\* The constants' part of the clock and of the restarts.
LEMMA ClockBounds ==
    MaxDay \in Nat /\ 1 \in 1 .. MaxDay /\ 0 \in 0 .. MaxDay /\ 0 \in 0 .. MaxRestarts
  BY SchedulerAssumption

\* What closing rows does to the table.
LEMMA CloseRowsType ==
    ASSUME NEW T, status \in [Trades -> Statuses], CloseRows(T)
    PROVE  /\ status' \in [Trades -> Statuses]
           /\ OpenTrades' = OpenTrades \ T
           /\ \A t \in Trades : ~ OpenRow(t)
  BY DEF CloseRows, Statuses, OpenTrades, OpenRow

\* The clock moves to an hour of this day or to the first of the next.
LEMMA ClockType ==
    ASSUME now \in [day : 1 .. MaxDay, hour : 1 .. 4], ClockMoves
    PROVE  now' \in [day : 1 .. MaxDay, hour : 1 .. 4]
<1>1. PICK d \in 1 .. MaxDay, h \in 1 .. 4 : now = [day |-> d, hour |-> h]
  OBVIOUS
<1>2. Len(Hours) = 4
  BY DEF Hours
<1>3. CASE h < 4 /\ now' = [now EXCEPT !.hour = @ + 1]
  <2>1. h + 1 \in 1 .. 4
    BY <1>3
  <2> QED
    BY <1>1, <1>3, <2>1
<1>4. CASE d < MaxDay /\ now' = [day |-> d + 1, hour |-> 1]
  <2>1. d + 1 \in 1 .. MaxDay
    BY <1>4, ClockBounds
  <2> QED
    BY <1>4, <2>1
<1> QED
  BY <1>1, <1>2, <1>3, <1>4 DEF ClockMoves


\* SchedulerSpec keeps every variable in its type, and a tick that is past its
\* start began within the trading hours.
THEOREM SchedulerTypeCorrect == SchedulerSpec => []SchedulerTypeOK
<1>1. SchedulerInit => SchedulerTypeOK
  <2> SUFFICES ASSUME SchedulerInit PROVE SchedulerTypeOK
    OBVIOUS
  <2>1. status \in [Trades -> Statuses]
    BY DEF SchedulerInit, Init, Statuses
  <2>2. now \in [day : 1 .. MaxDay, hour : 1 .. 4] /\ tick_at = now
    BY ClockBounds DEF SchedulerInit
  <2> QED
    BY <2>1, <2>2, ClockBounds DEF SchedulerInit, SchedulerTypeOK, InTick
<1>2. SchedulerTypeOK /\ [SchedulerNext]_vars => SchedulerTypeOK'
  <2> SUFFICES ASSUME SchedulerTypeOK, [SchedulerNext]_vars PROVE SchedulerTypeOK'
    OBVIOUS
  <2> USE DEF SchedulerTypeOK, InTick, clock, history, tick, control
  <2>1. CASE LoopCheck
    BY <2>1 DEF LoopCheck
  <2>2. CASE Pause \/ TickRaises \/ ReadInterval \/ Login \/ TickDone
    BY <2>2 DEF Pause, TickRaises, ReadInterval, Login, TickDone
  <2>3. CASE TickStart
    BY <2>3, ClockBounds DEF TickStart
  <2>4. CASE Fetch
    BY <2>4 DEF Fetch
  <2>5. CASE mark_to_market
    BY <2>5, CloseRowsType DEF mark_to_market
  <2>6. CASE SquareOff
    BY <2>6 DEF SquareOff, OpenTrades
  <2>7. CASE force_close_all
    BY <2>7, CloseRowsType DEF force_close_all
  <2>8. CASE SquareOffRaises
    BY <2>8, CloseRowsType DEF SquareOffRaises
  <2>9. CASE ListOpenSymbols
    BY <2>9, SchedulerAssumption DEF ListOpenSymbols, OpenTrades
  <2>10. ASSUME NEW s \in Symbols, RunSymbol(s) PROVE SchedulerTypeOK'
    BY <2>10, SchedulerAssumption DEF RunSymbol, OpenRow, Statuses
  <2>11. CASE start \/ stop
    BY <2>11 DEF start, stop
  <2>12. CASE StopReturns
    BY <2>12 DEF StopReturns
  <2>13. CASE StopCancels
    BY <2>13 DEF StopCancels
  <2>14. ASSUME NEW t \in Trades, ApiOpens(t) \/ ApiCloses(t) PROVE SchedulerTypeOK'
    BY <2>14 DEF ApiOpens, ApiCloses, OpenRow, CloseRow, Statuses
  <2>15. CASE ClockMoves
    BY <2>15, ClockType DEF ClockMoves
  <2>16. CASE Restart
    <3>1. restarts + 1 \in 0 .. MaxRestarts
      BY <2>16, SchedulerAssumption DEF Restart
    <3> QED
      BY <2>16, <3>1, ClockBounds DEF Restart
  <2>17. CASE ReloadFails \/ EnvMended
    BY <2>17 DEF ReloadFails, EnvMended
  <2>18. CASE UNCHANGED vars
    BY <2>18 DEF vars
  <2> QED
    BY <2>1, <2>2, <2>3, <2>4, <2>5, <2>6, <2>7, <2>8, <2>9, <2>10, <2>11, <2>12,
       <2>13, <2>14, <2>15, <2>16, <2>17, <2>18 DEF SchedulerNext, Loop, Stopping
<1> QED
  BY <1>1, <1>2, PTL DEF SchedulerSpec
----------------------------------------------------------------------------
(* What the steps do to the open trades.                                       *)

LEMMA OpenRowAdds ==
    ASSUME NEW t \in Trades, status \in [Trades -> Statuses], OpenRow(t)
    PROVE  t \notin OpenTrades /\ OpenTrades' = OpenTrades \cup {t}
  BY DEF OpenRow, OpenTrades, Statuses

LEMMA CloseRowDrops ==
    ASSUME NEW t \in Trades, status \in [Trades -> Statuses], CloseRow(t)
    PROVE  OpenTrades' = OpenTrades \ {t} /\ \A u \in Trades : ~ OpenRow(u)
  BY DEF CloseRow, OpenRow, OpenTrades, Statuses

\* A table that does not change opens nothing.
LEMMA NoRow ==
    ASSUME UNCHANGED status, status \in [Trades -> Statuses]
    PROVE  OpenTrades' = OpenTrades /\ \A t \in Trades : ~ OpenRow(t)
  BY DEF OpenRow, OpenTrades, Statuses

\* A pipeline opens nothing, or one trade of its symbol.
LEMMA RunSymbolOpens ==
    ASSUME SchedulerTypeOK, NEW s \in Symbols, RunSymbol(s)
    PROVE  \/ OpenTrades' = OpenTrades /\ opened_since' = opened_since
           \/ \E t \in Own : /\ Sym[t] = s /\ s \notin symbols_in_trade
                             /\ OpenTrades' = OpenTrades \cup {t}
                             /\ opened_since' = opened_since \cup {t}
<1>1. status \in [Trades -> Statuses] /\ Own \subseteq Trades
  BY SchedulerAssumption DEF SchedulerTypeOK
<1>2. CASE UNCHANGED <<status, opened_since>>
  BY <1>1, <1>2, NoRow
<1>3. CASE \E t \in Own : /\ Sym[t] = s /\ s \notin symbols_in_trade
                          /\ OpenRow(t) /\ opened_since' = opened_since \cup {t}
  BY <1>1, <1>3, OpenRowAdds
<1> QED
  BY <1>2, <1>3 DEF RunSymbol

\* Of the steps that touch the table, only a pipeline opens a trade of Own, and
\* only one that an endpoint opened joins otherwise, recorded.
LEMMA StepsOnTrades ==
    ASSUME SchedulerTypeOK, [SchedulerNext]_vars, ~ \E s \in Symbols : RunSymbol(s)
    PROVE  /\ \A t \in Own : ~ OpenRow(t)
           /\ OpenTrades' \cap Own \subseteq OpenTrades
           /\ OpenTrades' \subseteq OpenTrades \cup opened_since'
<1>1. status \in [Trades -> Statuses] /\ Own \subseteq Trades
  BY SchedulerAssumption DEF SchedulerTypeOK
<1>2. CASE UNCHANGED status
  BY <1>1, <1>2, NoRow
<1>3. CASE \E T : CloseRows(T)
  BY <1>1, <1>3, CloseRowsType
<1>4. ASSUME NEW t \in Trades, ApiCloses(t)
      PROVE  /\ \A u \in Trades : ~ OpenRow(u)
             /\ OpenTrades' \subseteq OpenTrades
  BY <1>1, <1>4, CloseRowDrops DEF ApiCloses
<1>5. ASSUME NEW t \in Trades, ApiOpens(t)
      PROVE  /\ \A u \in Own : ~ OpenRow(u)
             /\ OpenTrades' \cap Own \subseteq OpenTrades
             /\ OpenTrades' \subseteq OpenTrades \cup opened_since'
  <2>1. t \notin Own /\ OpenTrades' = OpenTrades \cup {t} /\ t \in opened_since'
    BY <1>1, <1>5, OpenRowAdds DEF ApiOpens
  <2>2. \A u \in Own : ~ OpenRow(u)
    BY <1>1, <1>5 DEF ApiOpens, OpenRow, Statuses
  <2> QED
    BY <2>1, <2>2
<1>6. \/ UNCHANGED status
      \/ \E T : CloseRows(T)
      \/ \E t \in Trades : ApiCloses(t) \/ ApiOpens(t)
  BY DEF SchedulerNext, vars, Loop, Stopping, LoopCheck, Pause, TickRaises, ReadInterval,
         TickStart, Login, Fetch, mark_to_market, SquareOff, force_close_all, SquareOffRaises, ListOpenSymbols,
         TickDone, StopReturns, StopCancels, start, stop, ClockMoves, ReloadFails, EnvMended, Restart
<1> QED
  BY <1>1, <1>2, <1>3, <1>4, <1>5, <1>6

----------------------------------------------------------------------------
(* One trade of the scheduler's own per symbol.                                *)

\* While the pipelines run, a symbol that is still to come is free of trades of
\* Own unless symbols_in_trade has it.
PendingAreFree ==
    task = "run" => \A t \in OpenTrades \cap Own :
                      Sym[t] \in symbols_in_trade \/ Sym[t] \notin latest_prices

\* The scheduler never holds two trades of its own in one symbol.
THEOREM SchedulerOneOwnTradePerSymbol == SchedulerSpec => []OneOwnTradePerSymbol
<1> DEFINE IInv == OneOwnTradePerSymbol /\ PendingAreFree
<1>1. SchedulerInit => IInv
  BY DEF SchedulerInit, Init, OneOwnTradePerSymbol, PendingAreFree, OpenTrades
<1>2. SchedulerTypeOK /\ IInv /\ [SchedulerNext]_vars => IInv'
  <2> SUFFICES ASSUME SchedulerTypeOK, IInv, [SchedulerNext]_vars PROVE IInv'
    OBVIOUS
  <2>1. ASSUME NEW s \in Symbols, RunSymbol(s) PROVE IInv'
    <3>1. /\ task = "run" /\ task' = "run" /\ s \in latest_prices
          /\ latest_prices' = latest_prices \ {s} /\ symbols_in_trade' = symbols_in_trade
      BY <2>1 DEF RunSymbol, control, clock
    <3>2. CASE OpenTrades' = OpenTrades
      BY <3>1, <3>2 DEF OneOwnTradePerSymbol, PendingAreFree
    <3>3. ASSUME NEW t \in Own, Sym[t] = s, s \notin symbols_in_trade,
                 OpenTrades' = OpenTrades \cup {t}
          PROVE  IInv'
      <4>1. \A u \in OpenTrades \cap Own : Sym[u] # s
        BY <3>1, <3>3 DEF PendingAreFree
      <4>2. OneOwnTradePerSymbol'
        BY <3>3, <4>1 DEF OneOwnTradePerSymbol
      <4>3. PendingAreFree'
        BY <3>1, <3>3 DEF PendingAreFree
      <4> QED
        BY <4>2, <4>3
    <3> QED
      BY <2>1, <3>2, <3>3, RunSymbolOpens
  <2>2. CASE ~ \E s \in Symbols : RunSymbol(s)
    <3>1. OpenTrades' \cap Own \subseteq OpenTrades
      BY <2>2, StepsOnTrades
    <3>2. OneOwnTradePerSymbol'
      BY <3>1 DEF OneOwnTradePerSymbol
    <3>3. CASE ListOpenSymbols
      BY <3>1, <3>2, <3>3 DEF ListOpenSymbols, PendingAreFree
    <3>4. CASE ~ ListOpenSymbols
      <4>1. task' = "run" => /\ task = "run" /\ latest_prices' = latest_prices
                             /\ symbols_in_trade' = symbols_in_trade
        BY <2>2, <3>4
           DEF SchedulerNext, vars, tick, Loop, Stopping, LoopCheck, Pause, TickRaises,
               ReadInterval, TickStart, Login, Fetch, mark_to_market, SquareOff, force_close_all, SquareOffRaises,
               TickDone, StopReturns, StopCancels, start, stop, ApiOpens, ApiCloses,
               ClockMoves, ReloadFails, EnvMended, Restart
      <4> QED
        BY <3>1, <3>2, <4>1 DEF PendingAreFree
    <3> QED
      BY <3>3, <3>4
  <2> QED
    BY <2>1, <2>2
<1>3. IInv => OneOwnTradePerSymbol
  OBVIOUS
<1> QED
  BY <1>1, <1>2, <1>3, SchedulerTypeCorrect, PTL DEF SchedulerSpec

----------------------------------------------------------------------------
(* The square-off.                                                             *)

\* Between the listing of the open trades and the closes, what is open was listed
\* or opened since.
Listed ==
    task = "listed" => /\ attempted = tick_at.day /\ squared_off_on # tick_at.day
                       /\ OpenTrades \subseteq doomed \cup opened_since

\* Once the square-off has marked its day, only trades opened after it listed the
\* open ones are open.
THEOREM SchedulerFlatAfterSquareOff == SchedulerSpec => []FlatAfterSquareOff
<1> DEFINE IInv == FlatAfterSquareOff /\ Listed
<1>1. SchedulerInit => IInv
  BY DEF SchedulerInit, FlatAfterSquareOff, Listed
<1>2. SchedulerTypeOK /\ IInv /\ [SchedulerNext]_vars => IInv'
  <2> SUFFICES ASSUME SchedulerTypeOK, IInv, [SchedulerNext]_vars PROVE IInv'
    OBVIOUS
  <2> USE DEF FlatAfterSquareOff, Listed, history, tick
  <2>1. ASSUME NEW s \in Symbols, RunSymbol(s) PROVE IInv'
    BY <2>1, RunSymbolOpens DEF RunSymbol
  <2>2. CASE SquareOff
    <3>1. OpenTrades' = OpenTrades
      BY <2>2 DEF SquareOff, OpenTrades
    <3> QED
      BY <2>2, <3>1 DEF SquareOff, SquareOffDue
  <2>3. CASE force_close_all \/ SquareOffRaises
    <3>1. OpenTrades' \subseteq OpenTrades /\ task' # "listed"
      BY <2>3, CloseRowsType DEF force_close_all, SquareOffRaises, SchedulerTypeOK
    <3>2. CASE force_close_all
      <4>1. OpenTrades' = OpenTrades \ doomed
        BY <3>2, CloseRowsType DEF force_close_all, SchedulerTypeOK
      <4> QED
        BY <3>1, <3>2, <4>1 DEF force_close_all
    <3>3. CASE SquareOffRaises
      BY <3>1, <3>3 DEF SquareOffRaises
    <3> QED
      BY <2>3, <3>2, <3>3
  <2>4. CASE TickStart \/ Restart
    <3>1. /\ OpenTrades' = OpenTrades /\ task' # "listed" /\ UNCHANGED <<attempted, opened_since>>
          /\ squared_off_on' \in {0, squared_off_on}
      BY <2>4 DEF TickStart, Restart, OpenTrades
    <3> QED
      BY <3>1
  <2>5. CASE \E t \in Trades : ApiOpens(t)
    <3>1. PICK t \in Trades : ApiOpens(t)
      BY <2>5
    <3>2. OpenTrades' = OpenTrades \cup {t} /\ opened_since' = opened_since \cup {t}
      BY <3>1, OpenRowAdds DEF ApiOpens, SchedulerTypeOK
    <3> QED
      BY <3>1, <3>2 DEF ApiOpens
  <2>6. CASE mark_to_market \/ \E t \in Trades : ApiCloses(t)
    <3>1. OpenTrades' \subseteq OpenTrades
      BY <2>6, CloseRowsType, CloseRowDrops DEF mark_to_market, ApiCloses, SchedulerTypeOK
    <3> QED
      BY <2>6, <3>1 DEF mark_to_market, ApiCloses
  <2>7. ASSUME UNCHANGED <<status, squared_off_on, history>>,
               task' = "listed" => UNCHANGED <<task, tick_at, doomed>>
        PROVE  IInv'
    BY <2>7 DEF OpenTrades
  <2>8. \/ LoopCheck \/ Pause \/ TickRaises \/ ReadInterval \/ Login \/ Fetch
        \/ ListOpenSymbols \/ TickDone \/ Stopping \/ start \/ stop \/ ReloadFails \/ EnvMended
        \/ ClockMoves \/ UNCHANGED vars
        => /\ UNCHANGED <<status, squared_off_on, history>>
           /\ task' = "listed" => UNCHANGED <<task, tick_at, doomed>>
    BY DEF LoopCheck, Pause, TickRaises, ReadInterval, Login, Fetch, ListOpenSymbols, TickDone,
           Stopping, StopReturns, StopCancels, start, stop, ReloadFails, EnvMended, ClockMoves, vars
  <2> QED
    BY <2>1, <2>2, <2>3, <2>4, <2>5, <2>6, <2>7, <2>8 DEF SchedulerNext, Loop
<1>3. IInv => FlatAfterSquareOff
  OBVIOUS
<1> QED
  BY <1>1, <1>2, <1>3, SchedulerTypeCorrect, PTL DEF SchedulerSpec

\* A tick that is past the square-off time and goes on to the pipelines is of a day
\* that was squared off.
LateTickSquaredOff ==
    task \in {"in_trade", "run"} /\ Hours[tick_at.hour] = "late"
      => squared_off_on = tick_at.day

\* The scheduler opens no trade in a late tick before its day was squared off.
THEOREM SchedulerLateOpensFollowSquareOff == SchedulerSpec => LateOpensFollowSquareOff
<1>1. SchedulerInit => LateTickSquaredOff
  BY DEF SchedulerInit, LateTickSquaredOff
<1>2. LateTickSquaredOff /\ [SchedulerNext]_vars => LateTickSquaredOff'
  <2> SUFFICES ASSUME LateTickSquaredOff, [SchedulerNext]_vars PROVE LateTickSquaredOff'
    OBVIOUS
  <2> USE DEF LateTickSquaredOff, tick
  <2>1. CASE SquareOff
    BY <2>1 DEF SquareOff, SquareOffDue
  <2>2. CASE ~ SquareOff
    <3>1. task' \in {"in_trade", "run"}
            => task \in {"in_trade", "run"} /\ UNCHANGED <<squared_off_on, tick_at>>
      BY <2>2
         DEF SchedulerNext, vars, Loop, Stopping, LoopCheck, Pause, TickRaises, ReadInterval,
             TickStart, Login, Fetch, mark_to_market, force_close_all, SquareOffRaises, ListOpenSymbols, RunSymbol,
             TickDone, StopReturns, StopCancels, start, stop, ApiOpens, ApiCloses,
             ClockMoves, ReloadFails, EnvMended, Restart
    <3> QED
      BY <3>1
  <2> QED
    BY <2>1, <2>2
<1>3. SchedulerTypeOK /\ LateTickSquaredOff /\ [SchedulerNext]_vars
        => [\A t \in Own : OpenRow(t) /\ Hours[tick_at.hour] = "late"
                             => squared_off_on = tick_at.day]_vars
  <2> SUFFICES ASSUME SchedulerTypeOK, LateTickSquaredOff, [SchedulerNext]_vars,
                      NEW t \in Own, OpenRow(t), Hours[tick_at.hour] = "late"
               PROVE  squared_off_on = tick_at.day
    OBVIOUS
  <2>1. PICK s \in Symbols : RunSymbol(s)
    BY StepsOnTrades
  <2> QED
    BY <2>1 DEF RunSymbol, LateTickSquaredOff
<1> QED
  BY <1>1, <1>2, <1>3, SchedulerTypeCorrect, PTL
     DEF SchedulerSpec, LateOpensFollowSquareOff

----------------------------------------------------------------------------
(* The loop.                                                                   *)

\* A stop that waits for a live task has set the event.
StopIsSet == Alive /\ stopping => stop_event

\* Only a stop ends the loop, or its read of the interval after a reload that failed:
\* nothing that a tick raises.
THEOREM SchedulerLoopSurvives == SchedulerSpec => LoopSurvives
<1>1. SchedulerInit => StopIsSet
  BY DEF SchedulerInit, StopIsSet
<1>2. StopIsSet /\ [SchedulerNext]_vars => StopIsSet'
  BY DEF StopIsSet, Alive, InTick, control, SchedulerNext, vars, Loop, Stopping, LoopCheck, Pause,
         TickRaises, ReadInterval, TickStart, Login, Fetch, mark_to_market, SquareOff, force_close_all,
         SquareOffRaises, ListOpenSymbols, RunSymbol, TickDone, StopReturns, StopCancels, start,
         stop, ApiOpens, ApiCloses, ClockMoves, ReloadFails, EnvMended, Restart
<1>3. StopIsSet /\ [SchedulerNext]_vars
        => [Alive /\ ~ Alive' => stop_event \/ (task = "interval" /\ ~ readable)]_vars
  BY DEF StopIsSet, Alive, InTick, SchedulerNext, vars, Loop, Stopping, LoopCheck, Pause,
         TickRaises, ReadInterval, TickStart, Login, Fetch, mark_to_market, SquareOff, force_close_all,
         SquareOffRaises, ListOpenSymbols, RunSymbol, TickDone, StopReturns, StopCancels, start,
         stop, ApiOpens, ApiCloses, ClockMoves, ReloadFails, EnvMended, Restart
<1> QED
  BY <1>1, <1>2, <1>3, PTL DEF SchedulerSpec, LoopSurvives
====
