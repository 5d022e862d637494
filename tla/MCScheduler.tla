---- MODULE MCScheduler ----
(* Two symbols; the pipeline may trade the one twice, an endpoint opens a trade *)
(* in the other.                                                                *)
EXTENDS Scheduler

CONSTANTS t1, t2, t3, infy, tcs

MCTrades == {t1, t2, t3}
MCOwn == {t1, t2}
MCSym == [t \in MCTrades |-> IF t = t3 THEN tcs ELSE infy]
====
