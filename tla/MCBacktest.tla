---- MODULE MCBacktest ----
(* Every strategy alone and two teams of two, over candles that touch stops and targets. *)
EXTENDS Backtest

Prices == {40, 70, 80}

\* A quiet bar, a rise, a fall, and one that falls deep and comes back: it reaches both
\* ends of a trade opened at the fall, and turns the Supertrend under its old band.
Candles == {[low |-> 50, close |-> 50, high |-> 50, atr |-> 10],
            [low |-> 50, close |-> 60, high |-> 60, atr |-> 30],
            [low |-> 40, close |-> 40, high |-> 50, atr |-> 10],
            [low |-> 30, close |-> 60, high |-> 60, atr |-> 0]}
====
