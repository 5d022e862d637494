---- MODULE TradeStore ----
(* The trades and audit_logs tables and the calls of ExecutionService that      *)
(* write them.  Each SELECT and each commit is a step of its own: TradeDAL      *)
(* opens a session per call and SQLite holds no lock between the SELECT of      *)
(* close_with_audit and its commit, so the scheduler (on the event loop) and    *)
(* the endpoints (in the thread pool) interleave there.                         *)
EXTENDS Integers, Sequences, FiniteSets

CONSTANTS
    Trades,              \* executions: one entry order, at most one row each
    Terms,               \* the columns an execution would insert
    Scheduler,           \* the event loop, which runs the scheduler's tick
    Threads,             \* thread-pool threads, which run the sync endpoints
    Prices,              \* the quotes and exit prices that occur
    MaxRestarts          \* bound: how often the process dies

Procs == Threads \cup {Scheduler}

ASSUME TermsAssumption ==
    Terms \in [Trades -> [side : {"BUY", "SELL"}, entry : Int, qty : Int,
                          stop_loss : Int, target : Int]]
ASSUME ProcsAssumption == IsFiniteSet(Threads) /\ Scheduler \notin Threads
ASSUME PricesAssumption == Prices \subseteq Int /\ MaxRestarts \in Nat

VARIABLES
    status,              \* Trade.status; "absent" while there is no row
    exit_price, pnl,     \* Trade.exit_price, Trade.pnl
    audit,               \* per trade, its AuditLog rows in commit order
    orders,              \* per trade, the legs the broker has answered
    pc, op,              \* where a call is, and which call it is
    cur, quote,          \* the trade and exit price between SELECT and commit
    todo,                \* rows of find_open() the call has still to visit
    reported,            \* rows the call returns as closed
    restarts             \* how often the process has died

db == <<status, exit_price, pnl, audit>>
local == <<pc, op, cur, quote, todo, reported>>
vars == <<db, orders, local, restarts>>

None == "none"
CloseEvents == {"trade_closed", "trade_auto_closed", "trade_force_closed"}

----------------------------------------------------------------------------

compute_pnl(t, x) ==
    (IF Terms[t].side = "BUY" THEN 1 ELSE -1) * (x - Terms[t].entry) * Terms[t].qty

\* Mutant: the short side's stop and target are compared as a long's.
breached_BuyOnly(t, x) == x <= Terms[t].stop_loss \/ x >= Terms[t].target

breached(t, x) ==
    IF Terms[t].side = "BUY"
      THEN x <= Terms[t].stop_loss \/ x >= Terms[t].target
      ELSE x >= Terms[t].stop_loss \/ x <= Terms[t].target

\* Mutant: a forced close is audited under a name nothing knows.
EventOf_Misspelt(o) == CASE o = "close" -> "trade_closed"
                         [] o = "mtm"   -> "trade_auto_closed"
                         [] o = "force" -> "trade_force_close"

EventOf(o) == CASE o = "close" -> "trade_closed"
                [] o = "mtm"   -> "trade_auto_closed"
                [] o = "force" -> "trade_force_closed"

AuditRow(e, x, y) == [event |-> e, exit_price |-> x, pnl |-> y]

OpenRows == {t \in Trades : status[t] = "OPEN"}

Init ==
    /\ status = [t \in Trades |-> "absent"]
    /\ exit_price = [t \in Trades |-> 0]
    /\ pnl = [t \in Trades |-> 0]
    /\ audit = [t \in Trades |-> << >>]
    /\ orders = [t \in Trades |-> {}]
    /\ pc = [p \in Procs |-> "idle"]
    /\ op = [p \in Procs |-> None]
    /\ cur = [p \in Procs |-> None]
    /\ quote = [p \in Procs |-> 0]
    /\ todo = [p \in Procs |-> {}]
    /\ reported = [p \in Procs |-> {}]
    /\ restarts = 0

----------------------------------------------------------------------------
(* ExecutionService.execute: the entry order, the stop order, then the row.    *)
(* The broker answers, be it with a rejection (execute does not look at the    *)
(* answer's status), or raises, which ends the call.                           *)

PlaceEntry(p, t) ==
    /\ pc[p] = "idle"
    /\ orders[t] = {}
    /\ orders' = [orders EXCEPT ![t] = {"entry"}]
    /\ pc' = [pc EXCEPT ![p] = "stop_order"]
    /\ cur' = [cur EXCEPT ![p] = t]
    /\ UNCHANGED <<db, op, quote, todo, reported, restarts>>

PlaceStop(p) ==
    /\ pc[p] = "stop_order"
    /\ orders' = [orders EXCEPT ![cur[p]] = @ \cup {"stop"}]
    /\ pc' = [pc EXCEPT ![p] = "insert"]
    /\ UNCHANGED <<db, op, cur, quote, todo, reported, restarts>>

\* The stop order's placement raises: the entry order stays without a row.
StopRaises(p) ==
    /\ pc[p] = "stop_order"
    /\ pc' = [pc EXCEPT ![p] = "idle"]
    /\ cur' = [cur EXCEPT ![p] = None]
    /\ UNCHANGED <<db, orders, op, quote, todo, reported, restarts>>

\* Mutant: the row is committed before the stop order is placed.
open_with_audit_BeforeStop(p) ==
    /\ pc[p] \in {"stop_order", "insert"}
    /\ status' = [status EXCEPT ![cur[p]] = "OPEN"]
    /\ audit' = [audit EXCEPT ![cur[p]] = Append(@, AuditRow("trade_opened", 0, 0))]
    /\ pc' = [pc EXCEPT ![p] = IF @ = "insert" THEN "idle" ELSE @]
    /\ UNCHANGED <<exit_price, pnl, orders, op, cur, quote, todo, reported, restarts>>

open_with_audit(p) ==
    /\ pc[p] = "insert"
    /\ status' = [status EXCEPT ![cur[p]] = "OPEN"]
    /\ audit' = [audit EXCEPT ![cur[p]] = Append(@, AuditRow("trade_opened", 0, 0))]
    /\ pc' = [pc EXCEPT ![p] = "idle"]
    /\ cur' = [cur EXCEPT ![p] = None]
    /\ UNCHANGED <<exit_price, pnl, orders, op, quote, todo, reported, restarts>>

----------------------------------------------------------------------------
(* The three ways to close: the close endpoint's close_trade(trade_id), the    *)
(* tick's mark_to_market and force_close_all (the tick's square-off and the    *)
(* admin endpoint).  Each reads which rows are open, then visits them.         *)

Begin(p, o, rows) ==
    /\ pc[p] = "idle"
    /\ pc' = [pc EXCEPT ![p] = "visit"]
    /\ op' = [op EXCEPT ![p] = o]
    /\ todo' = [todo EXCEPT ![p] = rows]
    /\ UNCHANGED <<db, orders, cur, quote, reported, restarts>>

\* The probe of close_trade finds an OPEN row.
close_trade(p, t) == p # Scheduler /\ status[t] = "OPEN" /\ Begin(p, "close", {t})

\* The probe finds a row that is not OPEN: it is returned as it is.
close_trade_again(p, t) ==
    /\ p # Scheduler /\ pc[p] = "idle"
    /\ status[t] = "CLOSED"
    /\ pc' = [pc EXCEPT ![p] = "done"]
    /\ reported' = [reported EXCEPT ![p] = {t}]
    /\ UNCHANGED <<db, orders, op, cur, quote, todo, restarts>>

mark_to_market(p) == p = Scheduler /\ Begin(p, "mtm", OpenRows)
force_close_all(p) == Begin(p, "force", OpenRows)

\* mark_to_market passes over a row without a quote or within its bounds.
Skip(p, t) ==
    /\ pc[p] = "visit" /\ op[p] = "mtm" /\ t \in todo[p]
    /\ todo' = [todo EXCEPT ![p] = @ \ {t}]
    /\ UNCHANGED <<db, orders, pc, op, cur, quote, reported, restarts>>

\* The SELECT of close_with_audit, at the exit price x the caller computed with.
CheckOpen(p, t, x) ==
    /\ pc[p] = "visit" /\ t \in todo[p]
    /\ op[p] = "mtm" => breached(t, x)
    /\ status[t] = "OPEN"
    /\ todo' = [todo EXCEPT ![p] = @ \ {t}]
    /\ pc' = [pc EXCEPT ![p] = "commit"]
    /\ cur' = [cur EXCEPT ![p] = t]
    /\ quote' = [quote EXCEPT ![p] = x]
    /\ UNCHANGED <<db, orders, op, reported, restarts>>

\* The same SELECT when another call closed the row first: the row is returned,
\* not None, so the caller takes it for one it closed.
CheckClosed(p, t) ==
    /\ pc[p] = "visit" /\ t \in todo[p]
    /\ op[p] = "mtm" => \E x \in Prices : breached(t, x)
    /\ status[t] = "CLOSED"
    /\ todo' = [todo EXCEPT ![p] = @ \ {t}]
    /\ reported' = [reported EXCEPT ![p] = @ \cup {t}]
    /\ UNCHANGED <<db, orders, pc, op, cur, quote, restarts>>

\* Mutant: a row that was closed meanwhile keeps its exit price and its pnl.
WriteClose_FirstWins(t, e, x) ==
    /\ status' = [status EXCEPT ![t] = "CLOSED"]
    /\ exit_price' = [exit_price EXCEPT ![t] = IF status[t] = "OPEN" THEN x ELSE @]
    /\ pnl' = [pnl EXCEPT ![t] = IF status[t] = "OPEN" THEN compute_pnl(t, x) ELSE @]
    /\ audit' = [audit EXCEPT ![t] = Append(@, AuditRow(e, x, compute_pnl(t, x)))]

\* Mutant: the status is left as it is.
WriteClose_StaysOpen(t, e, x) ==
    /\ exit_price' = [exit_price EXCEPT ![t] = x]
    /\ pnl' = [pnl EXCEPT ![t] = compute_pnl(t, x)]
    /\ audit' = [audit EXCEPT ![t] = Append(@, AuditRow(e, x, compute_pnl(t, x)))]
    /\ UNCHANGED status

\* The UPDATE and the audit row, in one transaction.  The session writes the
\* columns that differ from what its SELECT loaded: an OPEN row, whose pnl is the
\* default 0.  A close at no profit or loss therefore leaves the pnl column alone.
WriteClose(t, e, x) ==
    /\ status' = [status EXCEPT ![t] = "CLOSED"]
    /\ exit_price' = [exit_price EXCEPT ![t] = x]
    /\ pnl' = [pnl EXCEPT ![t] = IF compute_pnl(t, x) = 0 THEN @ ELSE compute_pnl(t, x)]
    /\ audit' = [audit EXCEPT ![t] = Append(@, AuditRow(e, x, compute_pnl(t, x)))]

Leave(p) ==
    /\ pc' = [pc EXCEPT ![p] = "visit"]
    /\ cur' = [cur EXCEPT ![p] = None]
    /\ quote' = [quote EXCEPT ![p] = 0]
    /\ reported' = [reported EXCEPT ![p] = @ \cup {cur[p]}]

\* Mutant: the session is closed without the commit.
Commit_Forgotten(p) ==
    /\ pc[p] = "commit"
    /\ Leave(p)
    /\ UNCHANGED <<db, orders, op, todo, restarts>>

\* The commit of close_with_audit, whatever happened to the row since the SELECT.
Commit(p) ==
    /\ pc[p] = "commit"
    /\ WriteClose(cur[p], EventOf(op[p]), quote[p])
    /\ Leave(p)
    /\ UNCHANGED <<orders, op, todo, restarts>>

Finish(p) ==
    /\ pc[p] = "visit" /\ todo[p] = {}
    /\ pc' = [pc EXCEPT ![p] = "done"]
    /\ op' = [op EXCEPT ![p] = None]
    /\ UNCHANGED <<db, orders, cur, quote, todo, reported, restarts>>

Return(p) ==
    /\ pc[p] = "done"
    /\ pc' = [pc EXCEPT ![p] = "idle"]
    /\ reported' = [reported EXCEPT ![p] = {}]
    /\ UNCHANGED <<db, orders, op, cur, quote, todo, restarts>>

----------------------------------------------------------------------------

\* The process dies and is restarted (systemd: Restart=always): every call in
\* flight is gone, the database and the broker's orders stay.
Crash ==
    /\ restarts < MaxRestarts
    /\ restarts' = restarts + 1
    /\ pc' = [p \in Procs |-> "idle"]
    /\ op' = [p \in Procs |-> None]
    /\ cur' = [p \in Procs |-> None]
    /\ quote' = [p \in Procs |-> 0]
    /\ todo' = [p \in Procs |-> {}]
    /\ reported' = [p \in Procs |-> {}]
    /\ UNCHANGED <<db, orders>>

Step(p) ==
    \/ PlaceStop(p) \/ StopRaises(p) \/ open_with_audit(p)
    \/ \E t \in todo[p] : Skip(p, t) \/ CheckClosed(p, t)
    \/ \E t \in todo[p], x \in Prices : CheckOpen(p, t, x)
    \/ Commit(p) \/ Finish(p) \/ Return(p)

Call(p) ==
    \/ mark_to_market(p) \/ force_close_all(p)
    \/ \E t \in Trades : PlaceEntry(p, t) \/ close_trade(p, t) \/ close_trade_again(p, t)

Next == Crash \/ \E p \in Procs : Step(p) \/ Call(p)

\* A call that has begun goes on: the event loop and the threads are scheduled.
Fairness == \A p \in Procs : WF_vars(Step(p))

Spec == Init /\ [][Next]_vars
FairSpec == Spec /\ Fairness

----------------------------------------------------------------------------
(* Properties.                                                                 *)

Calls == {"close", "mtm", "force"}
AuditRows == [event : {"trade_opened"} \cup CloseEvents, exit_price : Int, pnl : Int]

\* The shape of the state: column types, and which locals a call in each place has.
TypeOK ==
    /\ status \in [Trades -> {"absent", "OPEN", "CLOSED"}]
    /\ exit_price \in [Trades -> Int]
    /\ pnl \in [Trades -> Int]
    /\ audit \in [Trades -> Seq(AuditRows)]
    /\ orders \in [Trades -> SUBSET {"entry", "stop"}]
    /\ pc \in [Procs -> {"idle", "stop_order", "insert", "visit", "commit", "done"}]
    /\ op \in [Procs -> Calls \cup {None}]
    /\ \A p \in Procs : pc[p] \in {"visit", "commit"} => op[p] \in Calls
    /\ cur \in [Procs -> Trades \cup {None}]
    /\ \A p \in Procs : pc[p] \in {"stop_order", "insert", "commit"} => cur[p] \in Trades
    /\ quote \in [Procs -> Int]
    /\ todo \in [Procs -> SUBSET Trades]
    /\ reported \in [Procs -> SUBSET Trades]
    /\ restarts \in 0 .. MaxRestarts

Closes(t) == Len(audit[t]) - 1
Committing(t) == {p \in Procs : pc[p] = "commit" /\ cur[p] = t}

\* The row and its audit trail agree whatever calls raced (close_with_audit writes
\* both in one transaction): no row has no trail, an OPEN row has exactly its
\* opening, and a CLOSED row shows the exit price of the last close on the trail
\* with the pnl of a close on the trail.
AuditMatchesRow ==
    \A t \in Trades :
        /\ status[t] = "absent" => audit[t] = << >>
        /\ status[t] = "OPEN" => Len(audit[t]) = 1 /\ pnl[t] = 0
        /\ status[t] = "CLOSED" =>
             /\ Len(audit[t]) >= 2
             /\ exit_price[t] = audit[t][Len(audit[t])].exit_price
             /\ \E i \in 2 .. Len(audit[t]) : pnl[t] = audit[t][i].pnl

\* However closes race, the calls in flight bound the damage: a row is closed at
\* most once per process that had read it OPEN, so a lone scheduler closes it once.
ClosesBounded ==
    \A t \in Trades : Closes(t) <= Cardinality(Procs)

\* What a call returns as closed is closed, and stays so: the endpoints answer and
\* record PnL from that list, the tick broadcasts it.
ReportedIsClosed ==
    \A p \in Procs : \A t \in reported[p] : status[t] = "CLOSED"

\* A trade that mark_to_market closed was closed at a price at which it was worth at
\* most what it is worth at its stop or at least what it is worth at its target,
\* whichever side it has and whatever else closed it too.
Worth(t, x) == (IF Terms[t].side = "BUY" THEN 1 ELSE -1) * (x - Terms[t].entry)
AutoCloseAtBreach ==
    \A t \in Trades : \A i \in 1 .. Len(audit[t]) :
        audit[t][i].event = "trade_auto_closed" =>
            \/ Worth(t, audit[t][i].exit_price) <= Worth(t, Terms[t].stop_loss)
            \/ Worth(t, audit[t][i].exit_price) >= Worth(t, Terms[t].target)

\* A row is committed only after the broker answered both the entry and the stop
\* order, also when the process dies or the stop order raises in between.
RowAfterOrders ==
    \A t \in Trades : status[t] # "absent" => orders[t] = {"entry", "stop"}

\* The table implements the lifecycle: absent, OPEN, CLOSED, never back, for every
\* interleaving of the calls' SELECTs and commits.
Lifecycle == INSTANCE TradeLifecycle
ImplementsLifecycle == Lifecycle!Spec

\* A forced close (the square-off, the admin endpoint) that began closes every row
\* it found open, unless the process dies first.
Forcing(p, t) == op[p] = "force" /\ (t \in todo[p] \/ cur[p] = t)
ForceCloseCompletes ==
    \A p \in Procs, t \in Trades, n \in 0 .. MaxRestarts :
        (Forcing(p, t) /\ restarts = n) ~> (status[t] = "CLOSED" \/ restarts > n)

\* close_with_audit's docstring: None if the trade is not in OPEN status, so a
\* trade is closed, and audited as closed, once.
ClosedOnce == \A t \in Trades : Closes(t) <= 1
====
