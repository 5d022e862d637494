---- MODULE TradeStoreProofs ----
(* Theorems about TradeStore, for every set of executions, threads and prices. *)
EXTENDS TradeStore, FiniteSetTheorems, TLAPS

----------------------------------------------------------------------------
(* Lemmas about the operators.                                                 *)

\* The PnL of a close is a number.
LEMMA PnlType ==
    ASSUME NEW t \in Trades, NEW x \in Int
    PROVE  compute_pnl(t, x) \in Int
<1>1. Terms[t].entry \in Int /\ Terms[t].qty \in Int
  BY TermsAssumption
<1> DEFINE d == x - Terms[t].entry
           s == IF Terms[t].side = "BUY" THEN 1 ELSE -1
<1>2. d \in Int /\ s \in Int
  BY <1>1
<1>3. s * d \in Int
  BY <1>2
<1> HIDE DEF d, s
<1>4. (s * d) * Terms[t].qty \in Int
  BY <1>1, <1>3
<1> QED
  BY <1>4 DEF compute_pnl, d, s

\* Appending a row to an audit trail keeps the rows before it.
LEMMA AppendRow ==
    ASSUME NEW S, NEW s \in Seq(S), NEW e \in S
    PROVE  /\ Append(s, e) \in Seq(S)
           /\ Len(Append(s, e)) = Len(s) + 1
           /\ Len(s) \in Nat
           /\ \A i \in 1 .. Len(s) : Append(s, e)[i] = s[i]
           /\ Append(s, e)[Len(s) + 1] = e
  OBVIOUS

\* Every call writes one of the three close events.
LEMMA CloseRowType ==
    ASSUME NEW o \in Calls, NEW x \in Int, NEW y \in Int
    PROVE  /\ AuditRow(EventOf(o), x, y) \in AuditRows
           /\ EventOf(o) = "trade_auto_closed" => o = "mtm"
  BY DEF Calls, EventOf, AuditRow, AuditRows, CloseEvents

----------------------------------------------------------------------------
(* Type correctness.                                                           *)

\* Spec keeps every variable in its type, and gives a call the locals its place
\* in the code has: a committing call knows its trade, its event and its price.
THEOREM TypeCorrect == Spec => []TypeOK
<1>1. Init => TypeOK
  BY PricesAssumption DEF Init, TypeOK, AuditRows, None
<1>2. TypeOK /\ [Next]_vars => TypeOK'
  <2> SUFFICES ASSUME TypeOK, [Next]_vars PROVE TypeOK'
    OBVIOUS
  <2> USE DEF TypeOK
  <2>1. ASSUME NEW p \in Procs, NEW t \in Trades, PlaceEntry(p, t) PROVE TypeOK'
    BY <2>1 DEF PlaceEntry, db
  <2>2. ASSUME NEW p \in Procs, PlaceStop(p) PROVE TypeOK'
    BY <2>2 DEF PlaceStop, db
  <2>3. ASSUME NEW p \in Procs, StopRaises(p) PROVE TypeOK'
    BY <2>3 DEF StopRaises, db
  <2>4. ASSUME NEW p \in Procs, open_with_audit(p) PROVE TypeOK'
    <3>1. cur[p] \in Trades
      BY <2>4 DEF open_with_audit
    <3>2. AuditRow("trade_opened", 0, 0) \in AuditRows
      BY DEF AuditRow, AuditRows
    <3>3. audit' \in [Trades -> Seq(AuditRows)]
      BY <2>4, <3>1, <3>2, AppendRow DEF open_with_audit
    <3> QED
      BY <2>4, <3>1, <3>3 DEF open_with_audit
  <2>5. ASSUME NEW p \in Procs, NEW t \in Trades, close_trade(p, t) PROVE TypeOK'
    BY <2>5 DEF close_trade, Begin, db, Calls
  <2>6. ASSUME NEW p \in Procs, NEW t \in Trades, close_trade_again(p, t) PROVE TypeOK'
    BY <2>6 DEF close_trade_again, db
  <2>7. ASSUME NEW p \in Procs, mark_to_market(p) \/ force_close_all(p) PROVE TypeOK'
    <3>1. ASSUME NEW o \in {"mtm", "force"}, Begin(p, o, OpenRows) PROVE TypeOK'
      <4>1. OpenRows \subseteq Trades
        BY DEF OpenRows
      <4> HIDE DEF OpenRows
      <4> QED
        BY <3>1, <4>1 DEF Begin, db, Calls
    <3> QED
      BY <2>7, <3>1 DEF mark_to_market, force_close_all
  <2>8. ASSUME NEW p \in Procs, NEW t \in todo[p], Skip(p, t) PROVE TypeOK'
    BY <2>8 DEF Skip, db
  <2>9. ASSUME NEW p \in Procs, NEW t \in todo[p], CheckClosed(p, t) PROVE TypeOK'
    <3>1. t \in Trades
      OBVIOUS
    <3> QED
      BY <2>9, <3>1 DEF CheckClosed, db
  <2>10. ASSUME NEW p \in Procs, NEW t \in todo[p], NEW x \in Prices, CheckOpen(p, t, x)
        PROVE  TypeOK'
    BY <2>10, PricesAssumption DEF CheckOpen, db
  <2>11. ASSUME NEW p \in Procs, Commit(p) PROVE TypeOK'
    <3>1. cur[p] \in Trades /\ quote[p] \in Int /\ op[p] \in Calls
      BY <2>11 DEF Commit
    <3> DEFINE y == compute_pnl(cur[p], quote[p])
    <3>2. y \in Int
      BY <3>1, PnlType
    <3>3. AuditRow(EventOf(op[p]), quote[p], y) \in AuditRows
      BY <3>1, <3>2, CloseRowType
    <3> HIDE DEF y
    <3>4. audit' \in [Trades -> Seq(AuditRows)]
      BY <2>11, <3>1, <3>3, AppendRow DEF Commit, WriteClose, y
    <3>5. pnl' \in [Trades -> Int]
      BY <2>11, <3>2 DEF Commit, WriteClose, y
    <3> QED
      BY <2>11, <3>1, <3>4, <3>5 DEF Commit, WriteClose, Leave
  <2>12. ASSUME NEW p \in Procs, Finish(p) \/ Return(p) PROVE TypeOK'
    BY ZenonT(60), <2>12 DEF Finish, Return, db
  <2>13. CASE Crash
    BY <2>13, PricesAssumption DEF Crash, db, None
  <2>14. CASE UNCHANGED vars
    BY <2>14 DEF vars, db, local
  <2> QED
    BY <2>1, <2>2, <2>3, <2>4, <2>5, <2>6, <2>7, <2>8, <2>9, <2>10, <2>11, <2>12, <2>13,
       <2>14 DEF Next, Step, Call
<1> QED
  BY <1>1, <1>2, PTL DEF Spec

----------------------------------------------------------------------------
(* What the calls in flight know.                                              *)

Opening(p) == pc[p] \in {"stop_order", "insert"}

\* A call in the middle of execute owns its execution, which has no row and the
\* orders placed so far; a call that closes holds rows that exist; what it has
\* reported is closed; and a row has both orders behind it.
CallsInv ==
    /\ \A p \in Procs : Opening(p) => status[cur[p]] = "absent"
    /\ \A p \in Procs : pc[p] = "stop_order" => orders[cur[p]] = {"entry"}
    /\ \A p \in Procs : pc[p] = "insert" => orders[cur[p]] = {"entry", "stop"}
    /\ \A p, q \in Procs : Opening(p) /\ Opening(q) /\ cur[p] = cur[q] => p = q
    /\ \A p \in Procs : pc[p] = "commit" => status[cur[p]] # "absent"
    /\ \A p \in Procs : \A t \in todo[p] : status[t] # "absent"
    /\ ReportedIsClosed
    /\ RowAfterOrders

LEMMA CallsInvariant == Spec => []CallsInv
<1>1. Init => CallsInv
  BY DEF Init, CallsInv, Opening, ReportedIsClosed, RowAfterOrders
<1>2. TypeOK /\ CallsInv /\ [Next]_vars => CallsInv'
  <2> SUFFICES ASSUME TypeOK, CallsInv, [Next]_vars PROVE CallsInv'
    OBVIOUS
  <2> USE DEF TypeOK, CallsInv, Opening, ReportedIsClosed, RowAfterOrders
  <2>1. ASSUME NEW p \in Procs, NEW t \in Trades, PlaceEntry(p, t) PROVE CallsInv'
    <3>1. /\ orders[t] = {} /\ orders' = [orders EXCEPT ![t] = {"entry"}]
          /\ pc[p] = "idle" /\ pc' = [pc EXCEPT ![p] = "stop_order"]
          /\ cur' = [cur EXCEPT ![p] = t]
          /\ UNCHANGED <<status, todo, reported>>
      BY <2>1 DEF PlaceEntry, db
    <3>2. "entry" \notin orders[t]
      BY <3>1
    <3>3. status[t] = "absent"
      BY <3>2
    <3>4. \A q \in Procs : Opening(q) => cur[q] # t
      BY <3>2
    <3>5. \A q \in Procs : q # p => pc'[q] = pc[q] /\ cur'[q] = cur[q]
      BY <3>1
    <3> QED
      BY <3>1, <3>3, <3>4, <3>5
  <2>2. ASSUME NEW p \in Procs, PlaceStop(p) PROVE CallsInv'
    BY <2>2 DEF PlaceStop, db
  <2>3. ASSUME NEW p \in Procs, StopRaises(p) PROVE CallsInv'
    BY <2>3 DEF StopRaises, db
  <2>4. ASSUME NEW p \in Procs, open_with_audit(p) PROVE CallsInv'
    <3>1. /\ status' = [status EXCEPT ![cur[p]] = "OPEN"]
          /\ pc' = [pc EXCEPT ![p] = "idle"]
          /\ cur' = [cur EXCEPT ![p] = None]
          /\ cur[p] \in Trades /\ orders[cur[p]] = {"entry", "stop"}
          /\ pc[p] = "insert"
          /\ UNCHANGED <<orders, todo, reported>>
      BY <2>4 DEF open_with_audit
    <3>2. \A q \in Procs : Opening(q) /\ q # p => cur[q] # cur[p]
      BY <3>1
    <3>3. \A q \in Procs : Opening(q)' => q # p /\ Opening(q) /\ cur'[q] = cur[q]
      BY <3>1
    <3>4. \A q \in Procs : Opening(q)' => status'[cur'[q]] = "absent"
      BY <3>1, <3>2, <3>3
    <3> QED
      BY <3>1, <3>3, <3>4
  <2>5. ASSUME NEW p \in Procs, NEW t \in Trades, close_trade(p, t) PROVE CallsInv'
    BY <2>5 DEF close_trade, Begin, db
  <2>6. ASSUME NEW p \in Procs, NEW t \in Trades, close_trade_again(p, t) PROVE CallsInv'
    BY <2>6 DEF close_trade_again, db
  <2>7. ASSUME NEW p \in Procs, mark_to_market(p) \/ force_close_all(p) PROVE CallsInv'
    <3>1. ASSUME NEW o \in {"mtm", "force"}, Begin(p, o, OpenRows) PROVE CallsInv'
      <4>1. \A t \in OpenRows : t \in Trades /\ status[t] = "OPEN"
        BY DEF OpenRows
      <4> QED
        BY <3>1, <4>1 DEF Begin, db
    <3> QED
      BY <2>7, <3>1 DEF mark_to_market, force_close_all
  <2>8. ASSUME NEW p \in Procs, NEW t \in todo[p], Skip(p, t) PROVE CallsInv'
    BY <2>8 DEF Skip, db
  <2>9. ASSUME NEW p \in Procs, NEW t \in todo[p], CheckClosed(p, t) PROVE CallsInv'
    BY <2>9 DEF CheckClosed, db
  <2>10. ASSUME NEW p \in Procs, NEW t \in todo[p], NEW x \in Prices, CheckOpen(p, t, x)
         PROVE  CallsInv'
    BY <2>10 DEF CheckOpen, db
  <2>11. ASSUME NEW p \in Procs, Commit(p) PROVE CallsInv'
    <3>1. /\ status' = [status EXCEPT ![cur[p]] = "CLOSED"]
          /\ cur[p] \in Trades /\ status[cur[p]] # "absent"
          /\ UNCHANGED <<orders, todo>>
      BY <2>11 DEF Commit, WriteClose
    <3> QED
      BY <2>11, <3>1 DEF Commit, Leave
  <2>12. ASSUME NEW p \in Procs, Finish(p) \/ Return(p) PROVE CallsInv'
    <3>1. CASE Finish(p)
      BY <3>1 DEF Finish, db
    <3>2. CASE Return(p)
      BY <3>2 DEF Return, db
    <3> QED
      BY <2>12, <3>1, <3>2
  <2>13. CASE Crash
    BY <2>13 DEF Crash, db
  <2>14. CASE UNCHANGED vars
    BY <2>14 DEF vars, db, local
  <2> QED
    BY <2>1, <2>2, <2>3, <2>4, <2>5, <2>6, <2>7, <2>8, <2>9, <2>10, <2>11, <2>12, <2>13,
       <2>14 DEF Next, Step, Call
<1> QED
  BY <1>1, <1>2, TypeCorrect, PTL DEF Spec

\* What the endpoints report as closed is closed.
THEOREM ReportedSafe == Spec => []ReportedIsClosed
<1>1. CallsInv => ReportedIsClosed
  BY DEF CallsInv
<1> QED
  BY <1>1, CallsInvariant, PTL

\* No row precedes its entry and stop orders.
THEOREM OrdersFirst == Spec => []RowAfterOrders
<1>1. CallsInv => RowAfterOrders
  BY DEF CallsInv
<1> QED
  BY <1>1, CallsInvariant, PTL

----------------------------------------------------------------------------
(* The audit trail.                                                            *)

\* What _breach_reason compares is what the trade is worth: the bounds are prices,
\* and the sign of the side turns the comparison round.
LEMMA BreachIsWorth ==
    ASSUME NEW t \in Trades, NEW x \in Int, breached(t, x)
    PROVE  \/ Worth(t, x) <= Worth(t, Terms[t].stop_loss)
           \/ Worth(t, x) >= Worth(t, Terms[t].target)
<1> DEFINE e == Terms[t].entry
           s == Terms[t].stop_loss
           g == Terms[t].target
<1>1. /\ e \in Int /\ s \in Int /\ g \in Int
      /\ Terms[t].side \in {"BUY", "SELL"}
  BY TermsAssumption
<1>2. CASE Terms[t].side = "BUY"
  <2>1. x <= s \/ x >= g
    BY <1>2 DEF breached
  <2>2. \A y \in Int : 1 * (y - e) = y - e
    BY <1>1
  <2>3. Worth(t, x) = x - e /\ Worth(t, s) = s - e /\ Worth(t, g) = g - e
    BY <1>1, <1>2, <2>2 DEF Worth
  <2> HIDE DEF e, s, g
  <2>4. x - e <= s - e \/ x - e >= g - e
    BY <1>1, <2>1
  <2> QED
    BY <2>3, <2>4 DEF s, g
<1>3. CASE Terms[t].side = "SELL"
  <2>1. x >= s \/ x <= g
    BY <1>3 DEF breached
  <2>2. \A y \in Int : (-1) * (y - e) = e - y
    BY <1>1
  <2>3. Worth(t, x) = e - x /\ Worth(t, s) = e - s /\ Worth(t, g) = e - g
    BY <1>1, <1>3, <2>2 DEF Worth
  <2> HIDE DEF e, s, g
  <2>4. e - x <= e - s \/ e - x >= e - g
    BY <1>1, <2>1
  <2> QED
    BY <2>3, <2>4 DEF s, g
<1> QED
  BY <1>1, <1>2, <1>3

\* In the code's terms: every automatic close, done or about to be committed, is at
\* a price that _breach_reason names.
ClosedBreached ==
    \A t \in Trades : \A i \in 1 .. Len(audit[t]) :
        audit[t][i].event = "trade_auto_closed" => breached(t, audit[t][i].exit_price)
AutoCloseInv ==
    /\ ClosedBreached
    /\ \A p \in Procs : pc[p] = "commit" /\ op[p] = "mtm" => breached(cur[p], quote[p])

\* Every automatic close was at a price beyond the stop or the target.
THEOREM AutoCloseSafe == Spec => []AutoCloseAtBreach
<1>1. Init => AutoCloseInv
  BY DEF Init, AutoCloseInv, ClosedBreached
<1>2. TypeOK /\ AutoCloseInv /\ [Next]_vars => AutoCloseInv'
  <2> SUFFICES ASSUME TypeOK, AutoCloseInv, [Next]_vars PROVE AutoCloseInv'
    OBVIOUS
  <2> USE DEF AutoCloseInv, ClosedBreached
  <2>1. ASSUME NEW p \in Procs, open_with_audit(p) PROVE AutoCloseInv'
    <3>1. cur[p] \in Trades /\ audit[cur[p]] \in Seq(AuditRows)
      BY <2>1 DEF open_with_audit, TypeOK
    <3> DEFINE r == AuditRow("trade_opened", 0, 0)
    <3>2. r \in AuditRows /\ r.event # "trade_auto_closed"
      BY DEF AuditRow, AuditRows
    <3>3. audit' = [audit EXCEPT ![cur[p]] = Append(@, r)]
      BY <2>1 DEF open_with_audit
    <3> HIDE DEF r
    <3>4. ClosedBreached'
      <4> SUFFICES ASSUME NEW t \in Trades, NEW i \in 1 .. Len(audit'[t]),
                          audit'[t][i].event = "trade_auto_closed"
                   PROVE  breached(t, audit'[t][i].exit_price)
        BY DEF breached
      <4>1. CASE t # cur[p]
        BY <3>1, <3>3, <4>1 DEF TypeOK
      <4>2. CASE t = cur[p]
        <5>1. audit'[t] = Append(audit[t], r)
          BY <3>1, <3>3, <4>2 DEF TypeOK
        <5>2. i \in 1 .. Len(audit[t]) /\ audit'[t][i] = audit[t][i]
          BY <3>1, <3>2, <4>2, <5>1, AppendRow
        <5> QED
          BY <5>2
      <4> QED
        BY <4>1, <4>2
    <3>5. \A q \in Procs : pc'[q] = "commit" => pc[q] = "commit" /\ cur'[q] = cur[q]
      BY <2>1 DEF open_with_audit, TypeOK
    <3>6. UNCHANGED <<op, quote>>
      BY <2>1 DEF open_with_audit
    <3> QED
      BY <3>4, <3>5, <3>6 DEF breached
  <2>2. ASSUME NEW p \in Procs, Commit(p) PROVE AutoCloseInv'
    <3>1. /\ cur[p] \in Trades /\ audit[cur[p]] \in Seq(AuditRows)
          /\ op[p] \in Calls /\ quote[p] \in Int
      BY <2>2 DEF Commit, TypeOK
    <3> DEFINE r == AuditRow(EventOf(op[p]), quote[p], compute_pnl(cur[p], quote[p]))
    <3>2. r \in AuditRows /\ r.exit_price = quote[p]
      BY <3>1, PnlType, CloseRowType DEF AuditRow
    <3>3. r.event = "trade_auto_closed" => op[p] = "mtm"
      BY <3>1 DEF AuditRow, EventOf, Calls
    <3>4. audit' = [audit EXCEPT ![cur[p]] = Append(@, r)]
      BY <2>2 DEF Commit, WriteClose
    <3> HIDE DEF r
    <3>5. r.event = "trade_auto_closed" => breached(cur[p], r.exit_price)
      BY <2>2, <3>2, <3>3 DEF Commit
    <3>6. ClosedBreached'
      <4> SUFFICES ASSUME NEW t \in Trades, NEW i \in 1 .. Len(audit'[t]),
                          audit'[t][i].event = "trade_auto_closed"
                   PROVE  breached(t, audit'[t][i].exit_price)
        BY DEF breached
      <4>1. CASE t # cur[p]
        BY <3>1, <3>4, <4>1 DEF TypeOK
      <4>2. CASE t = cur[p]
        <5>1. audit'[t] = Append(audit[t], r)
          BY <3>1, <3>4, <4>2 DEF TypeOK
        <5>2. \/ audit'[t][i] = r
              \/ i \in 1 .. Len(audit[t]) /\ audit'[t][i] = audit[t][i]
          BY <3>1, <3>2, <4>2, <5>1, AppendRow
        <5> QED
          BY <3>5, <4>2, <5>2
      <4> QED
        BY <4>1, <4>2
    <3>7. \A q \in Procs : pc'[q] = "commit" =>
            pc[q] = "commit" /\ cur'[q] = cur[q] /\ quote'[q] = quote[q] /\ op'[q] = op[q]
      BY <2>2 DEF Commit, Leave, TypeOK
    <3> QED
      BY <3>6, <3>7 DEF breached
  <2>3. ASSUME NEW p \in Procs, NEW t \in todo[p], NEW x \in Prices, CheckOpen(p, t, x)
        PROVE  AutoCloseInv'
    BY <2>3 DEF CheckOpen, breached, db, TypeOK
  <2>4. CASE Crash
    BY <2>4 DEF Crash, breached, db
  <2>5. ASSUME audit' = audit,
               \A q \in Procs : pc'[q] = "commit" =>
                  pc[q] = "commit" /\ cur'[q] = cur[q] /\ quote'[q] = quote[q] /\ op'[q] = op[q]
        PROVE  AutoCloseInv'
    BY <2>5 DEF breached
  <2>6. ASSUME NEW p \in Procs, NEW t \in Trades,
               PlaceEntry(p, t) \/ close_trade(p, t) \/ close_trade_again(p, t)
        PROVE  AutoCloseInv'
    BY <2>5, <2>6 DEF PlaceEntry, close_trade, close_trade_again, Begin, db, TypeOK
  <2>7. ASSUME NEW p \in Procs, PlaceStop(p) \/ StopRaises(p) \/ Finish(p) \/ Return(p)
               \/ mark_to_market(p) \/ force_close_all(p)
        PROVE  AutoCloseInv'
    BY <2>5, <2>7 DEF PlaceStop, StopRaises, Finish, Return, mark_to_market,
       force_close_all, Begin, db, TypeOK
  <2>8. ASSUME NEW p \in Procs, NEW t \in todo[p], Skip(p, t) \/ CheckClosed(p, t)
        PROVE  AutoCloseInv'
    BY <2>5, <2>8 DEF Skip, CheckClosed, db, TypeOK
  <2>9. CASE UNCHANGED vars
    BY <2>5, <2>9 DEF vars, db, local
  <2> QED
    BY <2>1, <2>2, <2>3, <2>4, <2>6, <2>7, <2>8, <2>9 DEF Next, Step, Call
<1>3. TypeOK /\ AutoCloseInv => AutoCloseAtBreach
  <2> SUFFICES ASSUME TypeOK, AutoCloseInv, NEW t \in Trades, NEW i \in 1 .. Len(audit[t]),
                      audit[t][i].event = "trade_auto_closed"
               PROVE  \/ Worth(t, audit[t][i].exit_price) <= Worth(t, Terms[t].stop_loss)
                      \/ Worth(t, audit[t][i].exit_price) >= Worth(t, Terms[t].target)
    BY DEF AutoCloseAtBreach
  <2>1. audit[t] \in Seq(AuditRows)
    BY DEF TypeOK
  <2>2. audit[t][i].exit_price \in Int
    <3>1. audit[t][i] \in AuditRows
      BY <2>1
    <3> QED
      BY <3>1 DEF AuditRows
  <2>3. breached(t, audit[t][i].exit_price)
    BY DEF AutoCloseInv, ClosedBreached
  <2> QED
    BY <2>2, <2>3, BreachIsWorth
<1> QED
  BY <1>1, <1>2, <1>3, TypeCorrect, PTL DEF Spec

\* A row that is not there has the default pnl, which a close at no profit or
\* loss leaves in place.
AuditInv == AuditMatchesRow /\ \A t \in Trades : status[t] = "absent" => pnl[t] = 0

\* The row and its audit trail agree under every interleaving.
THEOREM AuditSafe == Spec => []AuditMatchesRow
<1>1. Init => AuditInv
  BY DEF Init, AuditInv, AuditMatchesRow
<1>2. TypeOK /\ CallsInv /\ AuditInv /\ [Next]_vars => AuditInv'
  <2> SUFFICES ASSUME TypeOK, CallsInv, AuditInv, [Next]_vars PROVE AuditInv'
    OBVIOUS
  <2>1. ASSUME NEW p \in Procs, open_with_audit(p) PROVE AuditInv'
    <3> DEFINE c == cur[p]
               r == AuditRow("trade_opened", 0, 0)
    <3>1. c \in Trades /\ status[c] = "absent" /\ audit[c] = << >> /\ pnl[c] = 0
      BY <2>1 DEF open_with_audit, TypeOK, CallsInv, Opening, AuditInv, AuditMatchesRow
    <3>2. /\ status' = [status EXCEPT ![c] = "OPEN"]
          /\ audit' = [audit EXCEPT ![c] = Append(@, r)]
          /\ UNCHANGED <<exit_price, pnl>>
      BY <2>1 DEF open_with_audit
    <3>3. r \in AuditRows
      BY DEF AuditRow, AuditRows
    <3> HIDE DEF c, r
    <3>4. status'[c] = "OPEN" /\ Len(audit'[c]) = 1 /\ pnl'[c] = 0
      BY <3>1, <3>2, <3>3 DEF TypeOK
    <3>5. \A t \in Trades : t # c =>
            status'[t] = status[t] /\ audit'[t] = audit[t] /\ pnl'[t] = pnl[t]
      BY <3>2 DEF TypeOK
    <3> QED
      BY <3>2, <3>4, <3>5 DEF AuditInv, AuditMatchesRow
  <2>2. ASSUME NEW p \in Procs, Commit(p) PROVE AuditInv'
    <3> DEFINE c == cur[p]
               y == compute_pnl(cur[p], quote[p])
               r == AuditRow(EventOf(op[p]), quote[p], y)
    <3>1. /\ c \in Trades /\ status[c] \in {"OPEN", "CLOSED"}
          /\ op[p] \in Calls /\ quote[p] \in Int /\ audit[c] \in Seq(AuditRows)
      BY <2>2 DEF Commit, TypeOK, CallsInv
    <3>2. y \in Int
      BY <3>1, PnlType
    <3> HIDE DEF y
    <3>3. r \in AuditRows /\ r.exit_price = quote[p] /\ r.pnl = y
      BY <3>1, <3>2, CloseRowType DEF AuditRow
    <3>4. /\ status' = [status EXCEPT ![c] = "CLOSED"]
          /\ exit_price' = [exit_price EXCEPT ![c] = quote[p]]
          /\ pnl' = [pnl EXCEPT ![c] = IF y = 0 THEN @ ELSE y]
          /\ audit' = [audit EXCEPT ![c] = Append(@, r)]
      BY <2>2 DEF Commit, WriteClose, y
    <3> HIDE DEF c, r
    <3> DEFINE n == Len(audit[c])
    <3>5. /\ n \in Nat /\ Len(audit'[c]) = n + 1 /\ audit'[c][n + 1] = r
          /\ \A i \in 1 .. n : audit'[c][i] = audit[c][i]
      BY <3>1, <3>3, <3>4, AppendRow DEF TypeOK
    <3>6. /\ status[c] = "OPEN" => n = 1 /\ pnl[c] = 0
          /\ status[c] = "CLOSED" => n >= 2 /\ \E i \in 2 .. n : pnl[c] = audit[c][i].pnl
      BY <3>1 DEF AuditInv, AuditMatchesRow
    <3> HIDE DEF n
    <3>7. pnl'[c] = (IF y = 0 THEN pnl[c] ELSE y) /\ exit_price'[c] = quote[p]
          /\ status'[c] = "CLOSED"
      BY <3>1, <3>4 DEF TypeOK
    <3>8. n + 1 >= 2 /\ \E i \in 2 .. n + 1 : pnl'[c] = audit'[c][i].pnl
      <4>1. CASE y # 0 \/ status[c] = "OPEN"
        <5>1. n >= 1 /\ n + 1 \in 2 .. n + 1
          BY <3>1, <3>5, <3>6
        <5>2. pnl'[c] = audit'[c][n + 1].pnl
          BY <3>3, <3>5, <3>6, <3>7, <4>1
        <5> QED
          BY <5>1, <5>2, <3>5
      <4>2. CASE y = 0 /\ status[c] = "CLOSED"
        <5>1. PICK i \in 2 .. n : pnl[c] = audit[c][i].pnl
          BY <3>6, <4>2
        <5>2. i \in 2 .. n + 1 /\ i \in 1 .. n
          BY <3>5, <5>1
        <5>3. pnl'[c] = audit'[c][i].pnl
          BY <3>5, <3>7, <4>2, <5>1, <5>2
        <5> QED
          BY <3>5, <3>6, <4>2, <5>2, <5>3
      <4> QED
        BY <3>1, <4>1, <4>2
    <3>9. \A t \in Trades : t # c =>
            /\ status'[t] = status[t] /\ audit'[t] = audit[t] /\ pnl'[t] = pnl[t]
            /\ exit_price'[t] = exit_price[t]
      BY <3>4 DEF TypeOK
    <3>10. /\ status'[c] = "CLOSED" /\ Len(audit'[c]) >= 2
           /\ exit_price'[c] = audit'[c][Len(audit'[c])].exit_price
           /\ \E i \in 2 .. Len(audit'[c]) : pnl'[c] = audit'[c][i].pnl
      BY <3>3, <3>5, <3>7, <3>8
    <3> QED
      BY <3>9, <3>10 DEF AuditInv, AuditMatchesRow
  <2>3. ASSUME UNCHANGED db PROVE AuditInv'
    BY <2>3 DEF db, AuditInv, AuditMatchesRow
  <2>4. ASSUME NEW p \in Procs, NEW t \in Trades,
               PlaceEntry(p, t) \/ close_trade(p, t) \/ close_trade_again(p, t)
        PROVE  AuditInv'
    BY <2>3, <2>4 DEF PlaceEntry, close_trade, close_trade_again, Begin
  <2>5. ASSUME NEW p \in Procs,
               \/ PlaceStop(p) \/ StopRaises(p) \/ Finish(p) \/ Return(p)
               \/ mark_to_market(p) \/ force_close_all(p)
        PROVE  AuditInv'
    BY <2>3, <2>5 DEF PlaceStop, StopRaises, Finish, Return, mark_to_market,
       force_close_all, Begin
  <2>6. ASSUME NEW p \in Procs, NEW t \in todo[p],
               Skip(p, t) \/ CheckClosed(p, t) \/ \E x \in Prices : CheckOpen(p, t, x)
        PROVE  AuditInv'
    BY <2>3, <2>6 DEF Skip, CheckClosed, CheckOpen
  <2>7. CASE Crash \/ UNCHANGED vars
    BY <2>3, <2>7 DEF Crash, vars
  <2> QED
    BY <2>1, <2>2, <2>4, <2>5, <2>6, <2>7 DEF Next, Step, Call
<1>3. AuditInv => AuditMatchesRow
  BY DEF AuditInv
<1> QED
  BY <1>1, <1>2, <1>3, TypeCorrect, CallsInvariant, PTL DEF Spec

----------------------------------------------------------------------------
(* How often a row is closed.                                                  *)

\* Of a CLOSED row, the closes done and the closes about to be committed fit into
\* the processes: each of them read the row OPEN, and no other can any more.
ClosesInv ==
    \A t \in Trades : status[t] = "CLOSED" =>
        Closes(t) + Cardinality(Committing(t)) <= Cardinality(Procs)

LEMMA ProcsFinite == IsFiniteSet(Procs) /\ Cardinality(Procs) \in Nat
<1>1. IsFiniteSet({Scheduler})
  BY FS_Singleton
<1>2. IsFiniteSet(Procs)
  BY <1>1, ProcsAssumption, FS_Union DEF Procs
<1> QED
  BY <1>2, FS_CardinalityType

LEMMA CommittingSize ==
    ASSUME NEW S \in SUBSET Procs, NEW T \in SUBSET S
    PROVE  /\ IsFiniteSet(S)
           /\ Cardinality(S) \in Nat /\ Cardinality(T) \in Nat
           /\ Cardinality(T) <= Cardinality(S)
<1>1. IsFiniteSet(S) /\ Cardinality(S) <= Cardinality(Procs)
  BY ProcsFinite, FS_Subset
<1>2. IsFiniteSet(T) /\ Cardinality(T) <= Cardinality(S)
  BY <1>1, FS_Subset
<1> QED
  BY <1>1, <1>2, FS_CardinalityType

\* A row is closed at most once per process, however the closes interleave.
THEOREM ClosesSafe == Spec => []ClosesBounded
<1>1. Init => ClosesInv
  BY DEF Init, ClosesInv
<1>2. TypeOK /\ CallsInv /\ AuditMatchesRow /\ ClosesInv /\ [Next]_vars => ClosesInv'
  <2> SUFFICES ASSUME TypeOK, CallsInv, AuditMatchesRow, ClosesInv, [Next]_vars,
                      NEW t \in Trades, status'[t] = "CLOSED"
               PROVE  Closes(t)' + Cardinality(Committing(t)') <= Cardinality(Procs)
    BY DEF ClosesInv
  <2> DEFINE C == Committing(t)
             D == Committing(t)'
             N == Cardinality(Procs)
  <2>1. C \subseteq Procs /\ D \subseteq Procs /\ N \in Nat
    BY ProcsFinite DEF Committing
  <2>2. IsFiniteSet(C) /\ Cardinality(C) \in Nat /\ Cardinality(D) \in Nat
    BY <2>1, CommittingSize
  <2>3. audit[t] \in Seq(AuditRows) /\ Closes(t) \in Int
    BY DEF TypeOK, Closes
  <2>4. ASSUME status[t] = "CLOSED", audit'[t] = audit[t], D \subseteq C
        PROVE  Closes(t)' + Cardinality(D) <= N
    <3>1. Cardinality(D) <= Cardinality(C)
      BY <2>1, <2>4, CommittingSize
    <3>2. Closes(t)' = Closes(t)
      BY <2>4 DEF Closes
    <3>3. Closes(t) + Cardinality(C) <= N
      BY <2>4 DEF ClosesInv
    <3> HIDE DEF C, D, N
    <3> QED
      BY <2>1, <2>2, <2>3, <3>1, <3>2, <3>3
  <2>5. ASSUME NEW p \in Procs, Commit(p) PROVE Closes(t)' + Cardinality(D) <= N
    <3>1. CASE cur[p] # t
      <4>1. status'[t] = status[t] /\ audit'[t] = audit[t]
        BY <2>5, <3>1 DEF Commit, WriteClose, TypeOK
      <4>2. D \subseteq C
        BY <2>5, <3>1 DEF Commit, Leave, Committing, TypeOK
      <4> QED
        BY <2>4, <4>1, <4>2
    <3>2. CASE cur[p] = t
      <4> DEFINE r == AuditRow(EventOf(op[p]), quote[p], compute_pnl(cur[p], quote[p]))
      <4>1. op[p] \in Calls /\ quote[p] \in Int /\ status[t] \in {"OPEN", "CLOSED"}
        BY <2>5, <3>2 DEF Commit, TypeOK, CallsInv
      <4>2. r \in AuditRows
        BY <3>2, <4>1, PnlType, CloseRowType
      <4>3. audit' = [audit EXCEPT ![t] = Append(@, r)]
        BY <2>5, <3>2 DEF Commit, WriteClose
      <4> HIDE DEF r
      <4>4. Closes(t)' = Closes(t) + 1
        BY <2>3, <4>2, <4>3, AppendRow DEF Closes, TypeOK
      <4>5. p \in C /\ D \subseteq C \ {p}
        BY <2>5, <3>2 DEF Commit, Leave, Committing, TypeOK
      <4>6. Cardinality(D) <= Cardinality(C) - 1
        <5>1. Cardinality(C \ {p}) = Cardinality(C) - 1
          BY <2>2, <4>5, FS_RemoveElement
        <5>2. C \ {p} \subseteq Procs
          BY <2>1
        <5>3. Cardinality(D) <= Cardinality(C \ {p})
          BY <4>5, <5>2, CommittingSize
        <5> QED
          BY <5>1, <5>3
      <4>7. Cardinality(C) <= N
        BY <2>1, ProcsFinite, FS_Subset
      <4>8. CASE status[t] = "OPEN"
        <5>1. Closes(t) = 0
          BY <4>8 DEF AuditMatchesRow, Closes
        <5> HIDE DEF C, D, N
        <5> QED
          BY <2>1, <2>2, <4>4, <4>6, <4>7, <5>1
      <4>9. CASE status[t] = "CLOSED"
        <5>1. Closes(t) + Cardinality(C) <= N
          BY <4>9 DEF ClosesInv
        <5> HIDE DEF C, D, N
        <5> QED
          BY <2>1, <2>2, <2>3, <4>4, <4>6, <5>1
      <4> QED
        BY <4>1, <4>8, <4>9
    <3> QED
      BY <3>1, <3>2
  <2>6. ASSUME NEW p \in Procs, open_with_audit(p)
        PROVE  Closes(t)' + Cardinality(D) <= N
    <3>1. cur[p] # t /\ status'[t] = status[t] /\ audit'[t] = audit[t]
      BY <2>6 DEF open_with_audit, TypeOK
    <3>2. D \subseteq C
      BY <2>6 DEF open_with_audit, Committing, TypeOK
    <3> QED
      BY <2>4, <3>1, <3>2
  <2>7. ASSUME NEW p \in Procs, NEW u \in todo[p], NEW x \in Prices, CheckOpen(p, u, x)
        PROVE  Closes(t)' + Cardinality(D) <= N
    <3>1. u # t /\ status'[t] = status[t] /\ audit'[t] = audit[t]
      BY <2>7 DEF CheckOpen, db
    <3>2. D \subseteq C
      BY <2>7, <3>1 DEF CheckOpen, Committing, TypeOK
    <3> QED
      BY <2>4, <3>1, <3>2
  <2>8. ASSUME UNCHANGED db, D \subseteq C PROVE Closes(t)' + Cardinality(D) <= N
    BY <2>4, <2>8 DEF db
  <2>9. ASSUME NEW p \in Procs, NEW u \in Trades,
               PlaceEntry(p, u) \/ close_trade(p, u) \/ close_trade_again(p, u)
        PROVE  Closes(t)' + Cardinality(D) <= N
    <3>1. UNCHANGED db /\ D \subseteq C
      BY <2>9 DEF PlaceEntry, close_trade, close_trade_again, Begin, Committing, TypeOK
    <3> QED
      BY <2>8, <3>1
  <2>10. ASSUME NEW p \in Procs,
                \/ PlaceStop(p) \/ StopRaises(p) \/ Finish(p) \/ Return(p)
                \/ mark_to_market(p) \/ force_close_all(p)
         PROVE  Closes(t)' + Cardinality(D) <= N
    <3>1. UNCHANGED db /\ D \subseteq C
      BY <2>10 DEF PlaceStop, StopRaises, Finish, Return, mark_to_market, force_close_all,
         Begin, Committing, TypeOK
    <3> QED
      BY <2>8, <3>1
  <2>11. ASSUME NEW p \in Procs, NEW u \in todo[p], Skip(p, u) \/ CheckClosed(p, u)
         PROVE  Closes(t)' + Cardinality(D) <= N
    <3>1. UNCHANGED db /\ D \subseteq C
      BY <2>11 DEF Skip, CheckClosed, Committing, TypeOK
    <3> QED
      BY <2>8, <3>1
  <2>12. CASE Crash
    <3>1. UNCHANGED db /\ D \subseteq C
      BY <2>12 DEF Crash, Committing
    <3> QED
      BY <2>8, <3>1
  <2>13. CASE UNCHANGED vars
    <3>1. UNCHANGED db /\ D \subseteq C
      BY <2>13 DEF vars, local, Committing
    <3> QED
      BY <2>8, <3>1
  <2> QED
    BY <2>5, <2>6, <2>7, <2>9, <2>10, <2>11, <2>12, <2>13 DEF Next, Step, Call
<1>3. TypeOK /\ AuditMatchesRow /\ ClosesInv => ClosesBounded
  <2> SUFFICES ASSUME TypeOK, AuditMatchesRow, ClosesInv, NEW t \in Trades
               PROVE  Closes(t) <= Cardinality(Procs)
    BY DEF ClosesBounded
  <2>1. Cardinality(Procs) \in Nat /\ Cardinality(Committing(t)) \in Nat
    BY ProcsFinite, CommittingSize DEF Committing
  <2>2. Closes(t) \in Int /\ status[t] \in {"absent", "OPEN", "CLOSED"}
    BY DEF Closes, TypeOK
  <2>3. CASE status[t] = "CLOSED"
    <3>1. Closes(t) + Cardinality(Committing(t)) <= Cardinality(Procs)
      BY <2>3 DEF ClosesInv
    <3> QED
      BY <2>1, <2>2, <3>1
  <2>4. CASE status[t] # "CLOSED"
    <3>1. Len(audit[t]) = 0 \/ Len(audit[t]) = 1
      BY <2>2, <2>4 DEF AuditMatchesRow
    <3>2. Closes(t) <= 0
      <4>1. \A n \in {0, 1} : n - 1 <= 0
        OBVIOUS
      <4> QED
        BY <3>1, <4>1 DEF Closes
    <3> QED
      BY <2>1, <2>2, <3>2
  <2> QED
    BY <2>3, <2>4
<1> QED
  BY <1>1, <1>2, <1>3, TypeCorrect, CallsInvariant, AuditSafe, PTL DEF Spec

----------------------------------------------------------------------------
(* Refinement.                                                                 *)

\* The table implements the lifecycle: every step inserts one row, closes one open
\* row, or leaves every status as it is.
THEOREM LifecycleRefined == Spec => ImplementsLifecycle
<1>1. Init => Lifecycle!Init
  BY DEF Init, Lifecycle!Init
<1>2. TypeOK /\ CallsInv /\ [Next]_vars => [Lifecycle!Next]_status
  <2> SUFFICES ASSUME TypeOK, CallsInv, [Next]_vars PROVE [Lifecycle!Next]_status
    OBVIOUS
  <2>1. ASSUME NEW p \in Procs, open_with_audit(p) PROVE [Lifecycle!Next]_status
    <3>1. cur[p] \in Trades /\ status[cur[p]] = "absent"
      BY <2>1 DEF open_with_audit, TypeOK, CallsInv, Opening
    <3>2. Lifecycle!OpenRow(cur[p])
      BY <2>1, <3>1 DEF open_with_audit, Lifecycle!OpenRow
    <3> QED
      BY <3>1, <3>2 DEF Lifecycle!Next
  <2>2. ASSUME NEW p \in Procs, Commit(p) PROVE [Lifecycle!Next]_status
    <3>1. /\ cur[p] \in Trades /\ status[cur[p]] \in {"OPEN", "CLOSED"}
          /\ status' = [status EXCEPT ![cur[p]] = "CLOSED"]
      BY <2>2 DEF Commit, WriteClose, TypeOK, CallsInv
    <3>2. CASE status[cur[p]] = "OPEN"
      BY <3>1, <3>2 DEF Lifecycle!Next, Lifecycle!CloseRow
    <3>3. CASE status[cur[p]] = "CLOSED"
      BY <3>1, <3>3 DEF TypeOK
    <3> QED
      BY <3>1, <3>2, <3>3
  <2>3. ASSUME NEW p \in Procs, NEW t \in Trades,
               PlaceEntry(p, t) \/ close_trade(p, t) \/ close_trade_again(p, t)
        PROVE  UNCHANGED status
    BY <2>3 DEF PlaceEntry, close_trade, close_trade_again, Begin, db
  <2>4. ASSUME NEW p \in Procs,
               \/ PlaceStop(p) \/ StopRaises(p) \/ Finish(p) \/ Return(p)
               \/ mark_to_market(p) \/ force_close_all(p)
        PROVE  UNCHANGED status
    BY <2>4 DEF PlaceStop, StopRaises, Finish, Return, mark_to_market, force_close_all,
       Begin, db
  <2>5. ASSUME NEW p \in Procs, NEW t \in todo[p],
               Skip(p, t) \/ CheckClosed(p, t) \/ \E x \in Prices : CheckOpen(p, t, x)
        PROVE  UNCHANGED status
    BY <2>5 DEF Skip, CheckClosed, CheckOpen, db
  <2>6. CASE Crash \/ UNCHANGED vars
    BY <2>6 DEF Crash, vars, db
  <2> QED
    BY <2>1, <2>2, <2>3, <2>4, <2>5, <2>6 DEF Next, Step, Call
<1> QED
  BY <1>1, <1>2, TypeCorrect, CallsInvariant, PTL
     DEF Spec, ImplementsLifecycle, Lifecycle!Spec
====
