---- MODULE MCSignalMemory ----
(* Two strategies, of which one may change sides.                                *)
EXTENDS SignalMemory, TLC

CONSTANTS nifty, bank, rsi, ema, t1

Emitted ==
    {[strategy |-> rsi, side |-> "BUY", confidence |-> 2],
     [strategy |-> ema, side |-> "BUY", confidence |-> 2],
     [strategy |-> ema, side |-> "SELL", confidence |-> 2]}
====
