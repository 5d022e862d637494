---- MODULE MCTradeStore ----
(* Two executions, a long and a short, closed by the scheduler's tick and by    *)
(* endpoint threads, at a price on each side of the entry and at the entry.     *)
EXTENDS TradeStore

CONSTANTS t1, t2

Long  == [side |-> "BUY",  entry |-> 2, qty |-> 1, stop_loss |-> 1, target |-> 3]
Short == [side |-> "SELL", entry |-> 2, qty |-> 1, stop_loss |-> 3, target |-> 1]

MCTrades == {t1, t2}
MCTerms == [t \in MCTrades |-> IF t = t1 THEN Long ELSE Short]
====
