---- MODULE TradeLifecycle ----
(* What the trades table promises to the rest of the system: a row is inserted  *)
(* OPEN, becomes CLOSED at most once and stays CLOSED.  TradeStore implements   *)
(* it; RiskLedger and Scheduler use it as their database.                       *)

CONSTANT Trades          \* the executions whose rows may be inserted

VARIABLE status          \* Trade.status by row; "absent" before the insert

Statuses == {"absent", "OPEN", "CLOSED"}

Init == status = [t \in Trades |-> "absent"]

OpenTrades == {t \in Trades : status[t] = "OPEN"}

OpenRow(t) ==
    /\ status[t] = "absent"
    /\ status' = [status EXCEPT ![t] = "OPEN"]

CloseRow(t) ==
    /\ status[t] = "OPEN"
    /\ status' = [status EXCEPT ![t] = "CLOSED"]

Next == \E t \in Trades : OpenRow(t) \/ CloseRow(t)

Spec == Init /\ [][Next]_status
====
