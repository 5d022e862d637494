---- MODULE RiskLedgerProofs ----
(* Theorems about RiskLedger, for every set of executions and threads and every *)
(* cap.                                                                         *)
EXTENDS RiskLedger, FiniteSetTheorems, TLAPS

----------------------------------------------------------------------------
(* Type correctness.                                                           *)

DayLedgers ==
    [trades_today : Nat, open_positions : Nat, realized_pnl_today : Int,
     last_reset : 1 .. MaxDay]

\* The ledger of a new day, and what recording writes into one.
LEMMA DayLedgerType ==
    /\ \A d \in 1 .. MaxDay : DailyStats(d) \in DayLedgers
    /\ \A s \in DayLedgers, m \in Nat, n \in Nat :
          [s EXCEPT !.trades_today = m, !.open_positions = n] \in DayLedgers
    /\ \A s \in DayLedgers, x \in Int, n \in Nat :
          [s EXCEPT !.open_positions = n, !.realized_pnl_today = x] \in DayLedgers
<1>1. ASSUME NEW d \in 1 .. MaxDay PROVE DailyStats(d) \in DayLedgers
  BY <1>1 DEF DayLedgers, DailyStats
<1>2. ASSUME NEW s \in DayLedgers, NEW m \in Nat, NEW n \in Nat
      PROVE  [s EXCEPT !.trades_today = m, !.open_positions = n] \in DayLedgers
  BY <1>2 DEF DayLedgers
<1>3. ASSUME NEW s \in DayLedgers, NEW x \in Int, NEW n \in Nat
      PROVE  [s EXCEPT !.open_positions = n, !.realized_pnl_today = x] \in DayLedgers
  BY <1>3 DEF DayLedgers
<1> QED
  BY <1>1, <1>2, <1>3

LEMMA Bounds == MaxDay \in Nat \ {0} /\ MaxReloads \in Nat /\ MaxRestarts \in Nat
  BY LedgerDataAssumption

\* LedgerSpec keeps every variable in its type; no counter goes below zero, and an
\* endpoint records only trades that are CLOSED.
THEOREM LedgerTypeCorrect == LedgerSpec => []LedgerTypeOK
<1>1. LedgerInit => LedgerTypeOK
  <2> SUFFICES ASSUME LedgerInit PROVE LedgerTypeOK
    OBVIOUS
  <2>1. stats \in DayLedgers /\ today \in 1 .. MaxDay
    <3>1. today = 1 /\ 1 \in 1 .. MaxDay
      BY Bounds DEF LedgerInit
    <3> QED
      BY <3>1, DayLedgerType DEF LedgerInit
  <2>2. \A p \in Procs : pc[p] = "idle" /\ pending[p] = {}
    BY DEF LedgerInit
  <2> QED
    <3>1. /\ status \in [Trades -> Statuses] /\ pnl \in [Trades -> Int] /\ realized \in Int
          /\ ledger = {}
      BY DEF LedgerInit, Init, Statuses
    <3>4. api_closed \in BOOLEAN /\ armed \in BOOLEAN
      BY ZenonT(10) DEF LedgerInit
    <3>2. /\ kill \in [0 .. MaxReloads -> BOOLEAN]
          /\ current \in 0 .. MaxReloads /\ risk_s \in 0 .. MaxReloads
          /\ run_s \in [Procs -> 0 .. MaxReloads]
          /\ reg \in [Procs -> Nat] /\ restarts \in 0 .. MaxRestarts
      BY Bounds DEF LedgerInit
    <3>3. /\ pc \in [Procs -> {"idle", "refresh", "validate", "reset", "gates",
                              "approved", "executed", "record", "write"}]
          /\ pending \in [Procs -> SUBSET {t \in Trades : status[t] = "CLOSED"}]
      BY DEF LedgerInit
    <3> QED
      BY <2>1, <2>2, <3>1, <3>2, <3>3, <3>4 DEF LedgerTypeOK, DayLedgers
<1>2. LedgerTypeOK /\ [LedgerNext]_vars => LedgerTypeOK'
  <2> SUFFICES ASSUME LedgerTypeOK, [LedgerNext]_vars PROVE LedgerTypeOK'
    OBVIOUS
  <2> USE DEF LedgerTypeOK, table, switch, calls, marks, Goto
  <2>1. ASSUME NEW p \in Procs, Run(p) PROVE LedgerTypeOK'
    BY <2>1 DEF Run
  <2>2. ASSUME NEW p \in Procs, Refresh(p) PROVE LedgerTypeOK'
    <3>1. risk_s' \in 0 .. MaxReloads
      BY <2>2 DEF Refresh
    <3>2. run_s' \in [Procs -> 0 .. MaxReloads]
      BY <2>2, Bounds DEF Refresh
    <3>3. /\ pc' = [pc EXCEPT ![p] = "validate"]
          /\ \A q \in Procs : pc'[q] \in {"record", "write"} <=> pc[q] \in {"record", "write"}
      BY <2>2 DEF Refresh
    <3> QED
      BY SMTT(40), <2>2, <3>1, <3>2, <3>3 DEF Refresh
  <2>3. ASSUME NEW p \in Procs, Abandon(p) PROVE LedgerTypeOK'
    BY <2>3 DEF Abandon
  <2>4. ASSUME NEW p \in Procs, CheckDay(p) PROVE LedgerTypeOK'
    BY <2>4 DEF CheckDay
  <2>5. ASSUME NEW p \in Procs, ResetDay(p) PROVE LedgerTypeOK'
    <3>1. stats' \in DayLedgers
      BY <2>5, DayLedgerType DEF ResetDay
    <3> QED
      BY <2>5, <3>1 DEF ResetDay, DayLedgers
  <2>6. ASSUME NEW p \in Procs, NEW a \in BOOLEAN, Evaluate(p, a) PROVE LedgerTypeOK'
    BY <2>6 DEF Evaluate
  <2>7. ASSUME NEW p \in Procs, NEW t \in Trades, Execute(p, t) PROVE LedgerTypeOK'
    <3>1. \A q \in Procs : pending[q] \subseteq {u \in Trades : status'[u] = "CLOSED"}
      BY <2>7 DEF Execute, OpenRow
    <3> QED
      BY <2>7, <3>1 DEF Execute, OpenRow, Statuses
  <2>8. ASSUME NEW p \in Procs, record_trade_open(p) PROVE LedgerTypeOK'
    <3>1. stats' \in DayLedgers
      <4>1. stats \in DayLedgers
        BY DEF DayLedgers
      <4>2. stats.trades_today + 1 \in Nat /\ stats.open_positions + 1 \in Nat
        BY DEF DayLedgers
      <4> QED
        BY <2>8, <4>1, <4>2, DayLedgerType DEF record_trade_open
    <3> QED
      BY <2>8, <3>1 DEF record_trade_open, DayLedgers
  <2>9. ASSUME NEW p \in Procs, NEW t \in Trades, place_manual(p, t) PROVE LedgerTypeOK'
    <3>1. \A q \in Procs : pending[q] \subseteq {u \in Trades : status'[u] = "CLOSED"}
      BY <2>9 DEF place_manual, OpenRow
    <3> QED
      BY <2>9, <3>1 DEF place_manual, OpenRow, Statuses
  <2>10. ASSUME NEW t \in Trades, NEW x \in Outcomes, CloseAt(t, x)
         PROVE  /\ status' \in [Trades -> Statuses]
                /\ status'[t] = "CLOSED"
                /\ \A u \in Trades : status[u] = "CLOSED" => status'[u] = "CLOSED"
                /\ \A u \in Trades : status[u] # "absent" => status'[u] # "absent"
                /\ pnl' \in [Trades -> Int] /\ realized' \in Int
    BY <2>10, LedgerDataAssumption DEF CloseAt, CloseRow, Statuses
  <2>11. ASSUME NEW t \in Trades, NEW x \in Outcomes, TickCloses(t, x)
         PROVE  LedgerTypeOK'
    BY <2>10, <2>11 DEF TickCloses
  <2>12. ASSUME NEW p \in Procs, NEW t \in Trades, NEW x \in Outcomes, close_trade(p, t, x)
         PROVE  LedgerTypeOK'
    <3>1. CASE CloseAt(t, x)
      BY SMTT(40), <2>10, <2>12, <3>1 DEF close_trade
    <3>2. CASE status[t] = "CLOSED" /\ UNCHANGED table
      BY <2>12, <3>2 DEF close_trade
    <3> QED
      BY <2>12, <3>1, <3>2 DEF close_trade
  <2>13. ASSUME NEW p \in Procs, force_close_all(p) PROVE LedgerTypeOK'
    BY <2>13 DEF force_close_all, OpenTrades, Statuses
  <2>14. ASSUME NEW p \in Procs, RecordCloseRead(p) PROVE LedgerTypeOK'
    BY SMTT(40), <2>14 DEF RecordCloseRead
  <2>15. ASSUME NEW p \in Procs, NEW t \in Trades, RecordCloseWrite(p, t)
         PROVE  LedgerTypeOK'
    <3>1. stats' \in DayLedgers
      <4>1. stats \in DayLedgers
        BY DEF DayLedgers
      <4>2. stats.realized_pnl_today + pnl[t] \in Int /\ reg[p] \in Nat
        BY DEF DayLedgers
      <4> QED
        BY <2>15, <4>1, <4>2, DayLedgerType DEF RecordCloseWrite
    <3>2. pending'[p] # {} <=> pending[p] # {t}
      BY <2>15 DEF RecordCloseWrite
    <3> QED
      BY <2>15, <3>1, <3>2 DEF RecordCloseWrite, DayLedgers
  <2>16. ASSUME NEW on \in BOOLEAN, killswitch(on) \/ patch_config(on)
         PROVE  LedgerTypeOK'
    BY SMTT(40), <2>16 DEF killswitch, patch_config
  <2>17. CASE reload_from_env
    <3>1. current' \in 0 .. MaxReloads
      BY <2>17, Bounds DEF reload_from_env
    <3>2. armed' \in BOOLEAN
      BY <2>17, ZenonT(10) DEF reload_from_env
    <3> QED
      BY <2>17, <3>1, <3>2 DEF reload_from_env
  <2>18. CASE NextDay
    BY SMTT(40), <2>18, LedgerDataAssumption DEF NextDay
  <2>19. CASE Restart
    <3>1. stats' \in DayLedgers
      BY <2>19, DayLedgerType DEF Restart
    <3>2. \A p \in Procs : pc'[p] = "idle" /\ pending'[p] = {}
      BY <2>19 DEF Restart
    <3>3. /\ kill' \in [0 .. MaxReloads -> BOOLEAN]
          /\ current' \in 0 .. MaxReloads /\ risk_s' \in 0 .. MaxReloads
          /\ run_s' \in [Procs -> 0 .. MaxReloads]
          /\ reg' \in [Procs -> Nat] /\ restarts' \in 0 .. MaxRestarts
      BY <2>19, Bounds DEF Restart
    <3>4. /\ pc' \in [Procs -> {"idle", "refresh", "validate", "reset", "gates",
                               "approved", "executed", "record", "write"}]
          /\ pending' \in [Procs -> SUBSET {t \in Trades : status'[t] = "CLOSED"}]
      BY <2>19 DEF Restart
    <3>5. /\ UNCHANGED <<status, pnl, realized, today>>
          /\ ledger' = {}
      BY <2>19 DEF Restart
    <3>6. api_closed' \in BOOLEAN /\ armed' \in BOOLEAN
      BY <2>19, ZenonT(10) DEF Restart
    <3> QED
      BY <3>1, <3>2, <3>3, <3>4, <3>5, <3>6 DEF DayLedgers
  <2>20. CASE UNCHANGED vars
    BY <2>20 DEF vars
  <2> QED
    BY <2>1, <2>2, <2>3, <2>4, <2>5, <2>6, <2>7, <2>8, <2>9, <2>11, <2>12, <2>13,
       <2>14, <2>15, <2>16, <2>17, <2>18, <2>19, <2>20
       DEF LedgerNext, Pipeline, Endpoint
<1> QED
  BY <1>1, <1>2, PTL DEF LedgerSpec

----------------------------------------------------------------------------
(* The kill switch.                                                            *)

\* No object is in use that get_settings() has not handed out yet, and in a process
\* that has one object only, the armed switch is that object's.
SwitchInv ==
    /\ risk_s <= current
    /\ \A p \in Procs : run_s[p] <= current
    /\ armed /\ current = 0 => kill[0]

\* In a process that has not reloaded its settings, no step approves a signal
\* while the kill switch is on.
THEOREM KillSwitchSafe == LedgerSpec => KillSwitchHolds
<1>1. LedgerInit => SwitchInv
  <2> SUFFICES ASSUME LedgerInit PROVE SwitchInv
    OBVIOUS
  <2>1. risk_s = 0 /\ current = 0 /\ \A p \in Procs : run_s[p] = 0
    BY DEF LedgerInit
  <2>2. ~ armed
    BY ZenonT(10) DEF LedgerInit
  <2> QED
    BY <2>1, <2>2 DEF SwitchInv
<1>2. LedgerTypeOK /\ SwitchInv /\ [LedgerNext]_vars => SwitchInv'
  <2> SUFFICES ASSUME LedgerTypeOK, SwitchInv, [LedgerNext]_vars PROVE SwitchInv'
    OBVIOUS
  <2>1. ASSUME UNCHANGED <<switch, run_s>> PROVE SwitchInv'
    BY <2>1 DEF SwitchInv, switch
  <2>2. ASSUME NEW p \in Procs, Run(p) PROVE SwitchInv'
    BY <2>2 DEF Run, SwitchInv, LedgerTypeOK, switch
  <2>3. ASSUME NEW p \in Procs, Refresh(p) PROVE SwitchInv'
    BY <2>3 DEF Refresh, SwitchInv, LedgerTypeOK
  <2>4. ASSUME NEW p \in Procs, \/ Abandon(p) \/ CheckDay(p) \/ ResetDay(p)
                                \/ record_trade_open(p) \/ RecordCloseRead(p)
                                \/ force_close_all(p)
        PROVE  SwitchInv'
    BY <2>1, <2>4 DEF Abandon, CheckDay, ResetDay, record_trade_open, RecordCloseRead,
                      force_close_all, calls
  <2>5. ASSUME NEW p \in Procs, NEW a \in BOOLEAN, Evaluate(p, a) PROVE SwitchInv'
    BY <2>1, <2>5 DEF Evaluate, calls
  <2>6. ASSUME NEW p \in Procs, NEW t \in Trades,
               Execute(p, t) \/ place_manual(p, t) \/ RecordCloseWrite(p, t)
        PROVE  SwitchInv'
    BY <2>1, <2>6 DEF Execute, place_manual, RecordCloseWrite, calls
  <2>7. ASSUME NEW p \in Procs, NEW t \in Trades, NEW x \in Outcomes, close_trade(p, t, x)
        PROVE  SwitchInv'
    BY <2>1, <2>7 DEF close_trade, calls
  <2>8. ASSUME NEW on \in BOOLEAN, killswitch(on) PROVE SwitchInv'
    <3>1. current = 0 => risk_s = 0
      BY DEF SwitchInv, LedgerTypeOK
    <3>2. armed' = on /\ kill'[risk_s] = on /\ UNCHANGED <<current, risk_s, run_s>>
      BY <2>8 DEF killswitch, LedgerTypeOK, calls
    <3> QED
      BY <3>1, <3>2 DEF SwitchInv
  <2>9. ASSUME NEW on \in BOOLEAN, patch_config(on) PROVE SwitchInv'
    <3>1. (armed' => on) /\ kill'[current] = on /\ UNCHANGED <<current, risk_s, run_s>>
      BY <2>9 DEF patch_config, LedgerTypeOK, calls
    <3> QED
      BY <3>1 DEF SwitchInv
  <2>10. CASE reload_from_env
    <3>1. current' = current + 1 /\ UNCHANGED <<risk_s, run_s>> /\ current \in Nat
      BY <2>10 DEF reload_from_env, LedgerTypeOK, calls
    <3>2. risk_s \in Nat /\ \A p \in Procs : run_s[p] \in Nat
      BY DEF LedgerTypeOK
    <3> QED
      BY <3>1, <3>2 DEF SwitchInv
  <2>11. CASE NextDay
    BY <2>1, <2>11 DEF NextDay, calls
  <2>12. CASE Restart
    <3>1. risk_s' = 0 /\ current' = 0 /\ \A p \in Procs : run_s'[p] = 0
      BY <2>12 DEF Restart
    <3>2. ~ armed'
      BY <2>12, ZenonT(10) DEF Restart
    <3> QED
      BY <3>1, <3>2 DEF SwitchInv
  <2>13. CASE UNCHANGED vars
    BY <2>1, <2>13 DEF vars, calls
  <2>14. ASSUME NEW p \in Procs, Pipeline(p) PROVE SwitchInv'
    <3>1. TRUE \in BOOLEAN /\ FALSE \in BOOLEAN
      OBVIOUS
    <3> QED
      BY <2>2, <2>3, <2>4, <2>5, <2>6, <2>14, <3>1 DEF Pipeline
  <2>15. ASSUME NEW p \in Procs, Endpoint(p) PROVE SwitchInv'
    BY <2>4, <2>6, <2>7, <2>15 DEF Endpoint
  <2>16. ASSUME NEW t \in Trades, NEW x \in Outcomes, TickCloses(t, x) PROVE SwitchInv'
    BY <2>1, <2>16 DEF TickCloses, calls
  <2> QED
    BY <2>8, <2>9, <2>10, <2>11, <2>12, <2>13, <2>14, <2>15, <2>16 DEF LedgerNext
<1>3. LedgerTypeOK /\ SwitchInv /\ [LedgerNext]_vars
        => [armed /\ current = 0 => \A p \in Procs : ~ Approves(p)]_vars
  <2> SUFFICES ASSUME LedgerTypeOK, SwitchInv, LedgerNext, armed, current = 0,
                      NEW p \in Procs, Approves(p)
               PROVE  FALSE
    OBVIOUS
  <2>1. kill[risk_s]
    BY DEF SwitchInv, LedgerTypeOK
  <2>2. pc'[p] = "approved" /\ pc[p] # "approved"
    BY DEF Approves
  <2>3. ASSUME NEW q \in Procs, Pipeline(q) PROVE FALSE
    <3>1. ASSUME NEW l, Goto(q, l), l # "approved" PROVE FALSE
      BY <2>2, <3>1 DEF Goto, LedgerTypeOK
    <3>2. ~ Evaluate(q, TRUE)
      BY <2>1 DEF Evaluate, Gates
    <3> QED
      BY <2>3, <3>1, <3>2 DEF Pipeline, Run, Refresh, Abandon, CheckDay, ResetDay,
                              Evaluate, Execute, record_trade_open
  <2>4. ASSUME NEW q \in Procs, Endpoint(q) PROVE FALSE
    <3>1. ASSUME NEW l, Goto(q, l), l # "approved" PROVE FALSE
      BY <2>2, <3>1 DEF Goto, LedgerTypeOK
    <3>2. pc' # pc
      BY <2>2
    <3> QED
      BY <2>4, <3>1, <3>2 DEF Endpoint, place_manual, close_trade, force_close_all,
                              RecordCloseRead, RecordCloseWrite
  <2>5. ASSUME UNCHANGED pc PROVE FALSE
    BY <2>2, <2>5
  <2>6. CASE Restart
    BY <2>2, <2>6 DEF Restart
  <2> QED
    BY <2>3, <2>4, <2>5, <2>6 DEF LedgerNext, TickCloses, killswitch, patch_config,
                                  reload_from_env, NextDay
<1> QED
  BY <1>1, <1>2, <1>3, LedgerTypeCorrect, PTL DEF LedgerSpec, KillSwitchHolds

----------------------------------------------------------------------------
(* The caps.                                                                   *)

\* The processes at a place in the code.
At(l) == {p \in Procs : pc[p] = l}

LEMMA LedgerProcsFinite == IsFiniteSet(Procs) /\ Cardinality(Procs) \in Nat
<1>1. IsFiniteSet({Scheduler})
  BY FS_Singleton
<1>2. IsFiniteSet(Procs)
  BY <1>1, LedgerProcsAssumption, FS_Union DEF Procs
<1> QED
  BY <1>2, FS_CardinalityType

LEMMA AtSize == \A l : IsFiniteSet(At(l)) /\ Cardinality(At(l)) \in Nat
<1> TAKE l
<1>1. IsFiniteSet(At(l))
  BY LedgerProcsFinite, FS_Subset DEF At
<1> QED
  BY <1>1, FS_CardinalityType

\* A process that is at neither of two places leaves room for itself.
LEMMA RoomForOne ==
    ASSUME NEW p \in Procs, pc[p] \notin {"approved", "executed"}
    PROVE  Cardinality(At("approved")) + Cardinality(At("executed"))
             <= Cardinality(Procs) - 1
<1> DEFINE A == At("approved")
           E == At("executed")
<1>1. A \cap E = {} /\ A \cup E \subseteq Procs \ {p}
  BY DEF At
<1>2. Cardinality(A \cup E) = Cardinality(A) + Cardinality(E)
  BY <1>1, AtSize, FS_Union, FS_EmptySet
<1>3. IsFiniteSet(Procs \ {p}) /\ Cardinality(Procs \ {p}) = Cardinality(Procs) - 1
  BY LedgerProcsFinite, FS_RemoveElement
<1>4. Cardinality(A \cup E) <= Cardinality(Procs \ {p})
  BY <1>1, <1>3, FS_Subset
<1> QED
  BY <1>2, <1>3, <1>4

\* A process that goes from one place to another is counted at the new one only.
LEMMA GotoCounts ==
    ASSUME LedgerTypeOK, NEW p \in Procs, NEW l, Goto(p, l), pc[p] # l, NEW m
    PROVE  Cardinality(At(m)') = Cardinality(At(m))
             + (IF m = l THEN 1 ELSE IF m = pc[p] THEN -1 ELSE 0)
<1>1. CASE m = l
  <2>1. At(m)' = At(m) \cup {p} /\ p \notin At(m)
    BY <1>1 DEF At, Goto, LedgerTypeOK
  <2> QED
    BY <1>1, <2>1, AtSize, FS_AddElement
<1>2. CASE m = pc[p] /\ m # l
  <2>1. At(m)' = At(m) \ {p} /\ p \in At(m)
    BY <1>2 DEF At, Goto, LedgerTypeOK
  <2>2. Cardinality(At(m) \ {p}) = Cardinality(At(m)) - 1
    BY <2>1, AtSize, FS_RemoveElement
  <2> QED
    BY <1>2, <2>1, <2>2, AtSize
<1>3. CASE m # pc[p] /\ m # l
  <2>1. At(m)' = At(m)
    BY <1>3 DEF At, Goto, LedgerTypeOK
  <2> QED
    BY <1>3, <2>1, AtSize
<1> QED
  BY <1>1, <1>2, <1>3

\* The trades of a ledger are counted or about to be, and what is counted, about to
\* be, or past the gates is within the cap but for one per other process; the same
\* of the open ones, as long as no endpoint has recorded a close.
CapsInv ==
    /\ IsFiniteSet(ledger)
    /\ Cardinality(ledger) <= stats.trades_today + Cardinality(At("executed"))
    /\ stats.trades_today + Cardinality(At("approved")) + Cardinality(At("executed"))
         <= MaxTrades + Cardinality(Procs) - 1
    /\ ~ api_closed =>
         /\ Cardinality(ledger \cap OpenTrades)
              <= stats.open_positions + Cardinality(At("executed"))
         /\ stats.open_positions + Cardinality(At("approved")) + Cardinality(At("executed"))
              <= MaxOpen + Cardinality(Procs) - 1

LEMMA OpenOfLedger ==
    ASSUME IsFiniteSet(ledger)
    PROVE  /\ IsFiniteSet(ledger \cap OpenTrades)
           /\ Cardinality(ledger \cap OpenTrades) \in Nat
           /\ Cardinality(ledger) \in Nat
<1>1. IsFiniteSet(ledger \cap OpenTrades)
  BY FS_Subset
<1> QED
  BY <1>1, FS_CardinalityType

\* The caps give what the two properties say.
LEMMA CapsImply == LedgerTypeOK /\ CapsInv => TradeCap /\ OpenCap
<1> SUFFICES ASSUME LedgerTypeOK, CapsInv PROVE TradeCap /\ OpenCap
  OBVIOUS
<1>1. /\ stats.trades_today \in Nat /\ stats.open_positions \in Nat
      /\ MaxTrades \in Nat /\ MaxOpen \in Nat
  BY LimitsAssumption DEF LedgerTypeOK
<1> QED
  BY <1>1, AtSize, LedgerProcsFinite, OpenOfLedger DEF CapsInv, TradeCap, OpenCap

\* Nothing new is approved, executed or counted.
LEMMA CapsKept ==
    ASSUME LedgerTypeOK, CapsInv,
           Cardinality(At("approved")') <= Cardinality(At("approved")),
           Cardinality(At("approved")') \in Nat,
           Cardinality(At("executed")') = Cardinality(At("executed")),
           stats'.trades_today = stats.trades_today,
           api_closed' \/ (~ api_closed /\ stats'.open_positions = stats.open_positions),
           ledger' = ledger,
           (ledger \cap OpenTrades)' \subseteq ledger \cap OpenTrades
    PROVE  CapsInv'
<1>1. /\ stats.trades_today \in Nat /\ stats.open_positions \in Nat
      /\ MaxTrades \in Nat /\ MaxOpen \in Nat
  BY LimitsAssumption DEF LedgerTypeOK
<1>2. /\ IsFiniteSet(ledger \cap OpenTrades)
      /\ Cardinality((ledger \cap OpenTrades)') <= Cardinality(ledger \cap OpenTrades)
      /\ Cardinality((ledger \cap OpenTrades)') \in Nat
  <2>1. IsFiniteSet(ledger \cap OpenTrades)
    BY OpenOfLedger DEF CapsInv
  <2> DEFINE S == ledger \cap OpenTrades
             T == (ledger \cap OpenTrades)'
  <2>2. T \in SUBSET S /\ IsFiniteSet(S)
    BY <2>1
  <2> HIDE DEF S, T
  <2>3. IsFiniteSet(T) /\ Cardinality(T) <= Cardinality(S)
    BY <2>2, FS_Subset
  <2>4. Cardinality(T) \in Nat
    BY <2>3, FS_CardinalityType
  <2> QED
    BY <2>1, <2>3, <2>4 DEF S, T
<1>3. IsFiniteSet(ledger') /\ Cardinality(ledger') = Cardinality(ledger)
  BY DEF CapsInv
<1>4. CASE api_closed'
  BY <1>1, <1>3, <1>4, AtSize, LedgerProcsFinite, OpenOfLedger DEF CapsInv
<1>5. CASE ~ api_closed /\ stats'.open_positions = stats.open_positions
  BY <1>1, <1>2, <1>3, <1>5, AtSize, LedgerProcsFinite, OpenOfLedger DEF CapsInv
<1> QED
  BY <1>4, <1>5

\* A step that moves a process between two other places of its code, or none.
LEMMA ElsewhereCounts ==
    ASSUME LedgerTypeOK, NEW m,
           \/ UNCHANGED pc
           \/ \E l : \E p \in Procs : Goto(p, l) /\ pc[p] # m /\ l # m
    PROVE  Cardinality(At(m)') = Cardinality(At(m))
<1>1. At(m)' = At(m)
  BY DEF At, Goto, LedgerTypeOK
<1> QED
  BY <1>1

\* Closing rows opens none.
LEMMA ClosingOpensNone ==
    ASSUME LedgerTypeOK, NEW t \in Trades, NEW x \in Outcomes, CloseAt(t, x)
    PROVE  OpenTrades' \subseteq OpenTrades
  BY DEF CloseAt, CloseRow, OpenTrades, LedgerTypeOK

LEMMA CapsStep == LedgerTypeOK /\ CapsInv /\ [LedgerNext]_vars => CapsInv'
<1> SUFFICES ASSUME LedgerTypeOK, CapsInv, [LedgerNext]_vars PROVE CapsInv'
  OBVIOUS
<1> DEFINE A == Cardinality(At("approved"))
           E == Cardinality(At("executed"))
           N == Cardinality(Procs)
<1>a. /\ stats.trades_today \in Nat /\ stats.open_positions \in Nat
      /\ MaxTrades \in Nat \ {0} /\ MaxOpen \in Nat \ {0}
      /\ A \in Nat /\ E \in Nat /\ N \in Nat
      /\ Cardinality(ledger) \in Nat /\ Cardinality(ledger \cap OpenTrades) \in Nat
  BY LimitsAssumption, AtSize, LedgerProcsFinite, OpenOfLedger DEF LedgerTypeOK, CapsInv
\* Steps elsewhere.
<1>b. ASSUME \/ UNCHANGED pc
             \/ \E l : \E p \in Procs : /\ Goto(p, l)
                                    /\ {pc[p], l} \cap {"approved", "executed"} = {},
             UNCHANGED <<stats, api_closed>> \/ (api_closed' /\ stats'.trades_today = stats.trades_today),
             ledger' = ledger,
             (ledger \cap OpenTrades)' \subseteq ledger \cap OpenTrades
      PROVE  CapsInv'
  <2>1. Cardinality(At("approved")') = A /\ Cardinality(At("executed")') = E
    BY <1>b, ElsewhereCounts
  <2> QED
    BY <1>a, <1>b, <2>1, CapsKept
<1>1. ASSUME NEW p \in Procs, Run(p) \/ Refresh(p) \/ CheckDay(p) PROVE CapsInv'
  BY <1>1, <1>b DEF Run, Refresh, CheckDay, table, marks, OpenTrades
<1>2. ASSUME NEW p \in Procs, Abandon(p) PROVE CapsInv'
  <2>1. CASE pc[p] = "validate"
    BY <1>2, <2>1, <1>b DEF Abandon, table, marks, OpenTrades
  <2>2. CASE pc[p] = "approved"
    <3>1. Cardinality(At("approved")') = A - 1 /\ Cardinality(At("executed")') = E
      BY <1>2, <2>2, GotoCounts, <1>a DEF Abandon
    <3>2. p \in At("approved")
      BY <2>2 DEF At
    <3>3. A - 1 \in Nat
      BY <1>a, <3>2, AtSize, FS_EmptySet
    <3>4. UNCHANGED <<stats, ledger, api_closed, status>>
      BY <1>2 DEF Abandon, table, marks
    <3> QED
      BY <1>a, <3>1, <3>3, <3>4, CapsKept DEF OpenTrades
  <2> QED
    BY <1>2, <2>1, <2>2 DEF Abandon
<1>3. ASSUME NEW p \in Procs, ResetDay(p) PROVE CapsInv'
  <2>1. Cardinality(At("approved")') = A /\ Cardinality(At("executed")') = E
    BY <1>3, ElsewhereCounts DEF ResetDay
  <2>2. A + E <= N - 1
    BY <1>3, RoomForOne DEF ResetDay
  <2>3. stats'.trades_today = 0 /\ stats'.open_positions = 0
    BY <1>3 DEF ResetDay, DailyStats
  <2>4. /\ IsFiniteSet(ledger') /\ Cardinality(ledger') = 0
        /\ Cardinality((ledger \cap OpenTrades)') = 0
    <3>1. ledger' = {} /\ (ledger \cap OpenTrades)' = {}
      BY <1>3 DEF ResetDay
    <3> QED
      BY <3>1, FS_EmptySet
  <2> QED
    BY <1>a, <2>1, <2>2, <2>3, <2>4 DEF CapsInv
<1>4. ASSUME NEW p \in Procs, Evaluate(p, FALSE) PROVE CapsInv'
  BY <1>4, <1>b DEF Evaluate, table, marks, OpenTrades
<1>5. ASSUME NEW p \in Procs, Evaluate(p, TRUE) PROVE CapsInv'
  <2>1. /\ pc[p] = "gates" /\ Goto(p, "approved")
        /\ UNCHANGED <<status, stats, ledger, api_closed>>
    BY <1>5 DEF Evaluate, table, marks
  <2>2. stats.trades_today < MaxTrades /\ stats.open_positions < MaxOpen
    BY <1>5 DEF Evaluate, Gates
  <2>3. Cardinality(At("approved")') = A + 1 /\ Cardinality(At("executed")') = E
    BY <2>1, GotoCounts, <1>a
  <2>4. A + E <= N - 1
    BY <2>1, RoomForOne
  <2>5. (ledger \cap OpenTrades)' = ledger \cap OpenTrades
    BY <2>1 DEF OpenTrades
  <2> QED
    <3>1. /\ stats.trades_today + (A + 1) + E <= MaxTrades + N - 1
          /\ stats.open_positions + (A + 1) + E <= MaxOpen + N - 1
      <4> HIDE DEF A, E, N
      <4> QED
        BY <1>a, <2>2, <2>4
    <3> QED
      BY <2>1, <2>3, <2>5, <3>1 DEF CapsInv
<1>6. ASSUME NEW p \in Procs, NEW t \in Trades, Execute(p, t) PROVE CapsInv'
  <2>1. Cardinality(At("approved")') = A - 1 /\ Cardinality(At("executed")') = E + 1
    BY <1>6, GotoCounts, <1>a DEF Execute
  <2>2. ledger' = ledger \cup {t} /\ UNCHANGED <<stats, api_closed>>
    BY <1>6 DEF Execute
  <2>3. (ledger \cap OpenTrades)' = (ledger \cap OpenTrades) \cup {t}
    BY <1>6 DEF Execute, OpenRow, OpenTrades, LedgerTypeOK
  <2>4. /\ IsFiniteSet(ledger') /\ Cardinality(ledger') <= Cardinality(ledger) + 1
        /\ Cardinality(ledger') \in Nat
    <3>1. IsFiniteSet(ledger)
      BY DEF CapsInv
    <3>2. /\ IsFiniteSet(ledger \cup {t})
          /\ Cardinality(ledger \cup {t}) =
               IF t \in ledger THEN Cardinality(ledger) ELSE Cardinality(ledger) + 1
      BY <3>1, FS_AddElement
    <3> QED
      BY <1>a, <2>2, <3>2
  <2>5. /\ Cardinality((ledger \cap OpenTrades)') <= Cardinality(ledger \cap OpenTrades) + 1
        /\ Cardinality((ledger \cap OpenTrades)') \in Nat
    <3> DEFINE S == ledger \cap OpenTrades
    <3>1. IsFiniteSet(S) /\ Cardinality(S) \in Nat
      BY OpenOfLedger DEF CapsInv
    <3> HIDE DEF S
    <3>2. Cardinality(S \cup {t}) = IF t \in S THEN Cardinality(S) ELSE Cardinality(S) + 1
      BY <3>1, FS_AddElement
    <3>3. Cardinality(S \cup {t}) <= Cardinality(S) + 1 /\ Cardinality(S \cup {t}) \in Nat
      BY <3>1, <3>2
    <3> QED
      BY <2>3, <3>3 DEF S
  <2>6. /\ Cardinality(ledger) <= stats.trades_today + E
        /\ stats.trades_today + A + E <= MaxTrades + N - 1
        /\ ~ api_closed => /\ Cardinality(ledger \cap OpenTrades) <= stats.open_positions + E
                           /\ stats.open_positions + A + E <= MaxOpen + N - 1
    BY DEF CapsInv
  <2> DEFINE L == Cardinality(ledger')
             O == Cardinality((ledger \cap OpenTrades)')
  <2>7. /\ L <= stats'.trades_today + (E + 1)
        /\ stats'.trades_today + (A - 1) + (E + 1) <= MaxTrades + N - 1
    BY <1>a, <2>2, <2>4, <2>6
  <2>8. ASSUME ~ api_closed'
        PROVE  /\ O <= stats'.open_positions + (E + 1)
               /\ stats'.open_positions + (A - 1) + (E + 1) <= MaxOpen + N - 1
    <3>1. ~ api_closed /\ stats' = stats
      BY <2>2, <2>8
    <3> HIDE DEF O, A, E, N
    <3> QED
      BY <1>a, <2>5, <2>6, <3>1 DEF O
  <2> QED
    BY <2>1, <2>4, <2>7, <2>8 DEF CapsInv
<1>7. ASSUME NEW p \in Procs, record_trade_open(p) PROVE CapsInv'
  <2>1. Cardinality(At("approved")') = A /\ Cardinality(At("executed")') = E - 1
    BY <1>7, GotoCounts, <1>a DEF record_trade_open
  <2>2. /\ stats'.trades_today = stats.trades_today + 1
        /\ stats'.open_positions = stats.open_positions + 1
    BY <1>7 DEF record_trade_open, LedgerTypeOK
  <2>3. UNCHANGED <<status, ledger, api_closed>>
    BY <1>7 DEF record_trade_open, table, marks
  <2>4. (ledger \cap OpenTrades)' = ledger \cap OpenTrades
    BY <2>3 DEF OpenTrades
  <2> QED
    <3>1. /\ Cardinality(ledger) <= (stats.trades_today + 1) + (E - 1)
          /\ (stats.trades_today + 1) + A + (E - 1) <= MaxTrades + N - 1
      BY <1>a DEF CapsInv
    <3>2. ASSUME ~ api_closed
          PROVE  /\ Cardinality(ledger \cap OpenTrades) <= (stats.open_positions + 1) + (E - 1)
                 /\ (stats.open_positions + 1) + A + (E - 1) <= MaxOpen + N - 1
      BY <1>a, <3>2 DEF CapsInv
    <3>3. IsFiniteSet(ledger)
      BY DEF CapsInv
    <3> QED
      BY <2>1, <2>2, <2>3, <2>4, <3>1, <3>2, <3>3 DEF CapsInv
<1>8. ASSUME NEW p \in Procs, NEW t \in Trades, place_manual(p, t) PROVE CapsInv'
  <2>1. t \notin ledger
    BY <1>8 DEF place_manual, OpenRow, LedgerTypeOK
  <2>2. (ledger \cap OpenTrades)' \subseteq ledger \cap OpenTrades
    BY <1>8, <2>1 DEF place_manual, OpenRow, OpenTrades, marks, LedgerTypeOK
  <2> QED
    BY <1>8, <2>2, <1>b DEF place_manual, marks
<1>9. ASSUME NEW p \in Procs, NEW t \in Trades, NEW x \in Outcomes, close_trade(p, t, x)
      PROVE  CapsInv'
  <2>1. OpenTrades' \subseteq OpenTrades
    BY <1>9, ClosingOpensNone DEF close_trade, table, OpenTrades
  <2> QED
    BY <1>9, <2>1, <1>b DEF close_trade, marks
<1>10. ASSUME NEW t \in Trades, NEW x \in Outcomes, TickCloses(t, x) PROVE CapsInv'
  <2>1. OpenTrades' \subseteq OpenTrades
    BY <1>10, ClosingOpensNone DEF TickCloses
  <2> QED
    BY <1>10, <2>1, <1>b DEF TickCloses, marks
<1>11. ASSUME NEW p \in Procs, force_close_all(p) PROVE CapsInv'
  <2>1. OpenTrades' \subseteq OpenTrades
    BY <1>11 DEF force_close_all, OpenTrades
  <2> QED
    BY <1>11, <2>1, <1>b DEF force_close_all, marks
<1>12. ASSUME NEW p \in Procs, RecordCloseRead(p) PROVE CapsInv'
  BY <1>12, <1>b DEF RecordCloseRead, table, marks, OpenTrades
<1>13. ASSUME NEW p \in Procs, NEW t \in Trades, RecordCloseWrite(p, t) PROVE CapsInv'
  <2>1. stats'.trades_today = stats.trades_today
    BY <1>13 DEF RecordCloseWrite, LedgerTypeOK
  <2> QED
    BY <1>13, <2>1, <1>b DEF RecordCloseWrite, table, OpenTrades
<1>14. ASSUME UNCHANGED <<status, stats, ledger, api_closed, pc>> PROVE CapsInv'
  BY <1>14, <1>b DEF OpenTrades
<1>15. CASE Restart
  <2>1. Cardinality(At("approved")') = 0 /\ Cardinality(At("executed")') = 0
    <3>1. At("approved")' = {} /\ At("executed")' = {}
      BY <1>15 DEF Restart, At
    <3> QED
      BY <3>1, FS_EmptySet
  <2>2. stats'.trades_today = 0 /\ stats'.open_positions = 0
    BY <1>15 DEF Restart, DailyStats
  <2>3. /\ IsFiniteSet(ledger') /\ Cardinality(ledger') = 0
        /\ Cardinality((ledger \cap OpenTrades)') = 0
    <3>1. ledger' = {} /\ (ledger \cap OpenTrades)' = {}
      BY <1>15 DEF Restart
    <3> QED
      BY <3>1, FS_EmptySet
  <2>4. N >= 1
    BY LedgerProcsFinite, FS_EmptySet DEF Procs
  <2> QED
    <3>1. 0 <= MaxTrades + N - 1 /\ 0 <= MaxOpen + N - 1
      BY <1>a, <2>4
    <3> HIDE DEF N
    <3>2. 0 + 0 + 0 <= MaxTrades + N - 1 /\ 0 + 0 + 0 <= MaxOpen + N - 1 /\ 0 <= 0 + 0
      BY <3>1
    <3> QED
      BY <2>1, <2>2, <2>3, <3>2, LedgerProcsFinite DEF CapsInv, N
<1>16. ASSUME NEW p \in Procs, Pipeline(p) PROVE CapsInv'
  BY <1>1, <1>2, <1>3, <1>4, <1>5, <1>6, <1>7, <1>16 DEF Pipeline
<1>17. ASSUME NEW p \in Procs, Endpoint(p) PROVE CapsInv'
  BY <1>8, <1>9, <1>11, <1>12, <1>13, <1>17 DEF Endpoint
<1>18. ASSUME NEW on \in BOOLEAN, killswitch(on) \/ patch_config(on) PROVE CapsInv'
  BY <1>14, <1>18 DEF killswitch, patch_config, table, marks
<1>19. CASE reload_from_env \/ NextDay \/ UNCHANGED vars
  BY <1>14, <1>19 DEF reload_from_env, NextDay, vars, table, marks
<1> QED
  BY <1>10, <1>15, <1>16, <1>17, <1>18, <1>19 DEF LedgerNext

LEMMA CapsInvariant == LedgerSpec => []CapsInv
<1>1. LedgerInit => CapsInv
  <2> SUFFICES ASSUME LedgerInit PROVE CapsInv
    OBVIOUS
  <2>1. Cardinality(At("approved")) = 0 /\ Cardinality(At("executed")) = 0
    <3>1. At("approved") = {} /\ At("executed") = {}
      BY DEF LedgerInit, At
    <3> QED
      BY <3>1, FS_EmptySet
  <2>2. stats.trades_today = 0 /\ stats.open_positions = 0
    BY DEF LedgerInit, DailyStats
  <2>3. /\ IsFiniteSet(ledger) /\ Cardinality(ledger) = 0
        /\ Cardinality(ledger \cap OpenTrades) = 0
    <3>1. ledger = {} /\ ledger \cap OpenTrades = {}
      BY DEF LedgerInit
    <3> QED
      BY <3>1, FS_EmptySet
  <2>4. Cardinality(Procs) >= 1
    BY LedgerProcsFinite, FS_EmptySet DEF Procs
  <2> QED
    BY <2>1, <2>2, <2>3, <2>4, LimitsAssumption, LedgerProcsFinite DEF CapsInv
<1> QED
  BY <1>1, CapsStep, LedgerTypeCorrect, PTL DEF LedgerSpec

\* A day's ledger exceeds the cap on trades per day by at most one trade per other
\* process, whatever the closes, the settings, the days and the restarts do.
THEOREM TradeCapSafe == LedgerSpec => []TradeCap
  BY CapsInvariant, CapsImply, LedgerTypeCorrect, PTL

\* And the cap on open positions likewise, until an endpoint records a close.
THEOREM OpenCapSafe == LedgerSpec => []OpenCap
  BY CapsInvariant, CapsImply, LedgerTypeCorrect, PTL
====
