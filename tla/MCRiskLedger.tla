---- MODULE MCRiskLedger ----
(* The scheduler's pipeline and one endpoint thread over a few executions.      *)
EXTENDS RiskLedger, TLC

\* A close realises a loss (of one unit).
Losses == {-1}

\* The executions differ only by their names.
Interchangeable == Permutations(Trades)
====
