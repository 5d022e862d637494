---- MODULE Strategies ----
(* The seven strategies, the filters of SignalService.generate, and the arithmetic *)
(* that the backtest engines and the pipeline share: the conviction vote, the      *)
(* reward-to-risk gate and the position size.  A bar is the last candle with its   *)
(* atr14; what else a strategy reads of its indicators is a row of its own, any    *)
(* of those the indicators can show beside that bar.  Prices are integers.         *)
EXTENDS Integers, FiniteSets, FiniteSetsExt

CONSTANTS
    Grid,                \* prices that indicators take
    AtrMult,             \* atr_mult of all strategies; targets are twice as far
    MinConfidence,       \* min_signal_confidence, in percent
    MinAgreement,        \* min_strategy_agreement
    MinReward,           \* min_rr_ratio
    RiskDivisor,         \* 100 / risk_pct
    LotSize

ASSUME StrategiesAssumption ==
    /\ Grid \subseteq Nat /\ AtrMult \in Nat /\ MinConfidence \in Nat
    /\ {MinAgreement, RiskDivisor, LotSize} \subseteq Nat \ {0} /\ MinReward \in Nat

Sides == {"BUY", "SELL"}

\* +1 for a long, -1 for a short: "beyond" and "profit" point that way.
Sgn(side) == IF side = "BUY" THEN 1 ELSE -1

Abs(k) == IF k < 0 THEN - k ELSE k

Signal(strategy, side, entry, stop, target, confidence) ==
    [strategy |-> strategy, side |-> side, entry |-> entry,
     stop |-> stop, target |-> target, confidence |-> confidence]

\* The side that a pair of conditions asks for, as the set of signals it gives; sig
\* is the strategy's signal for each side.
Fire(buy, sell, sig) ==
    IF buy THEN {sig["BUY"]} ELSE IF sell THEN {sig["SELL"]} ELSE {}

\* Stop and target at multiples of the ATR from the close.
AtrBracket(strategy, candle, side, confidence) ==
    Signal(strategy, side, candle.close, candle.close - Sgn(side) * AtrMult * candle.atr,
           candle.close + Sgn(side) * 2 * AtrMult * candle.atr, confidence)

----------------------------------------------------------------------------
(* Each evaluate: the set of its signal, or none.                              *)

\* An RSI of 15 is as sure as one of 85; one barely out of the band is weak.
rsi_reversal(candle, rsi) ==
    LET confidence(side) == IF side = "BUY" THEN (100 * (30 - rsi)) \div 30
                                            ELSE (100 * (rsi - 70)) \div 30
        sig == [side \in Sides |-> AtrBracket("rsi_reversal", candle, side, confidence(side))]
    IN Fire(rsi < 30, rsi > 70, sig)

ema_breakout(candle, fast, slow, p_fast, p_slow) ==
    LET sig == [side \in Sides |-> AtrBracket("ema_breakout", candle, side, 60)]
    IN Fire(p_fast <= p_slow /\ fast > slow, p_fast >= p_slow /\ fast < slow, sig)

vwap_pullback(candle, near_vwap, ema20) ==
    LET sig == [side \in Sides |-> AtrBracket("vwap_pullback", candle, side, 55)]
    IN Fire(near_vwap /\ candle.close > ema20, near_vwap /\ candle.close < ema20, sig)

macd_divergence(candle, macd, line, p_macd, p_line) ==
    LET sig == [side \in Sides |-> AtrBracket("macd_divergence", candle, side, 60)]
    IN Fire(p_macd < p_line /\ macd > line /\ macd < 0,
            p_macd > p_line /\ macd < line /\ macd > 0, sig)

\* Out of narrow bands; the stop is their middle.
bollinger_squeeze(candle, squeezed, mid, width, was_inside) ==
    LET sig == [side \in Sides |->
                Signal("bollinger_squeeze", side, candle.close, mid,
                       candle.close + Sgn(side) * AtrMult * candle.atr, 62)]
    IN Fire(squeezed /\ was_inside /\ candle.close > mid + width,
            squeezed /\ was_inside /\ candle.close < mid - width, sig)

\* Out of the day's opening range; the stop is its other end.
orb_breakout(candle, formed, orb_low, orb_high, was_inside) ==
    LET ready == formed /\ was_inside /\ orb_high > orb_low
        sig == [side \in Sides |->
                Signal("orb_breakout", side, candle.close,
                       IF side = "BUY" THEN orb_low ELSE orb_high,
                       candle.close + Sgn(side) * (orb_high - orb_low), 65)]
    IN Fire(ready /\ candle.close > orb_high, ready /\ candle.close < orb_low, sig)

\* One step of the bands and the direction of _supertrend_fallback.
SupertrendStep(candle, band, prev) ==
    LET hl2 == (candle.high + candle.low) \div 2
        upper == IF hl2 + band < prev.upper \/ prev.close > prev.upper
                 THEN hl2 + band ELSE prev.upper
        lower == IF hl2 - band > prev.lower \/ prev.close < prev.lower
                 THEN hl2 - band ELSE prev.lower
        dir == IF prev.dir = -1 /\ candle.close > upper THEN 1
               ELSE IF prev.dir = 1 /\ candle.close < lower THEN -1 ELSE prev.dir
    IN [dir |-> dir, line |-> IF dir = 1 THEN lower ELSE upper]

\* The stop is the line, on whichever side of the close it is.
supertrend(candle, band, prev) ==
    LET now == SupertrendStep(candle, band, prev)
        risk == Abs(candle.close - now.line)
        sig == [side \in Sides |->
                Signal("supertrend", side, candle.close, now.line,
                       candle.close + Sgn(side) * 2 * risk, 65)]
    IN Fire(risk > 0 /\ prev.dir = -1 /\ now.dir = 1,
            risk > 0 /\ prev.dir = 1 /\ now.dir = -1, sig)

----------------------------------------------------------------------------
(* The rows the indicators can show, and the signals they make.                *)

\* The true range of this bar is in its average of ten, and the band is three of it.
Bands(candle) == {b \in {3, 12} : 10 * b >= 3 * (candle.high - candle.low)}

\* The bands before this bar, in any order after a gap, and the close that stood to them
\* as the last step of the direction left it.
PreviousBands ==
    {p \in [upper : Grid, lower : Grid, close : Grid, dir : {-1, 1}] :
        IF p.dir = 1 THEN p.close >= p.lower \/ p.close > p.upper
                     ELSE p.close <= p.upper \/ p.close < p.lower}

Evaluations(strategy, candle) ==
    CASE strategy = "rsi_reversal" -> {rsi_reversal(candle, r) : r \in {3, 27, 50, 97}}
      [] strategy = "ema_breakout" ->
            {ema_breakout(candle, q[1], q[2], q[3], q[4]) : q \in {0, 1} \X {0, 1} \X {0, 1} \X {0, 1}}
      [] strategy = "vwap_pullback" ->
            {vwap_pullback(candle, near, e) : near \in BOOLEAN, e \in Grid}
      [] strategy = "macd_divergence" ->
            {macd_divergence(candle, q[1], q[2], q[3], q[4]) :
                q \in (-2 .. 2) \X (-2 .. 2) \X {-1, 1} \X {0}}
      [] strategy = "bollinger_squeeze" ->
            {bollinger_squeeze(candle, sq, m, 5, in) : sq \in BOOLEAN, m \in Grid, in \in BOOLEAN}
      [] strategy = "orb_breakout" ->
            {orb_breakout(candle, f, r[1], r[2], in) : f \in BOOLEAN, r \in Grid \X Grid, in \in BOOLEAN}
      [] strategy = "supertrend" ->
            {supertrend(candle, b, p) : b \in Bands(candle), p \in PreviousBands}

AllStrategies == {"rsi_reversal", "ema_breakout", "vwap_pullback", "supertrend",
                  "macd_divergence", "bollinger_squeeze", "orb_breakout"}

\* detect_regime on the indicators' readings.
detect_regime(volatile, spread) ==
    IF volatile THEN "high_vol"
    ELSE IF spread = 0 THEN "range"
    ELSE IF spread > 0 THEN "trend_up" ELSE "trend_down"

applies_to_regime(strategy, regime) ==
    CASE strategy \in {"supertrend", "macd_divergence"} -> regime \in {"trend_up", "trend_down"}
      [] strategy \in {"rsi_reversal", "bollinger_squeeze"} -> regime = "range"
      [] strategy = "orb_breakout" -> regime # "range"
      [] OTHER -> TRUE

\* The higher timeframe's trend, where there is one, must point the signal's way.
htf_agrees(sig, htf) == htf = 0 \/ Sgn(sig.side) = htf

\* With the regime filter switched off every strategy is asked.
asked(strategy, regime) == regime = "unfiltered" \/ applies_to_regime(strategy, regime)

\* What generate returns when each strategy of the team evaluates as in evaluated: one
\* out of its regime is not asked, and the volume, ATR and higher timeframe filters
\* drop what they do not let pass.
generate(group, evaluated, m) ==
    {sig \in UNION {evaluated[st] : st \in {s \in group : asked(s, m.regime)}} :
        m.loud /\ m.lively /\ htf_agrees(sig, m.htf)}

\* What the filters read.  The volume, ATR and higher timeframe filters, switched off, let
\* pass what a loud, lively market without a higher timeframe does.
Markets(htfs) ==
    [regime : {detect_regime(v, sp) : v \in BOOLEAN, sp \in {-1, 0, 1}} \cup {"unfiltered"},
     loud : BOOLEAN, lively : BOOLEAN, htf : htfs]

\* Everything generate can return for a team at a bar.
Generated(group, candle, htfs) ==
    LET can == [st \in group |-> Evaluations(st, candle)]
        outcomes == {e \in [group -> UNION {can[st] : st \in group}] :
                        \A st \in group : e[st] \in can[st]}
    IN {generate(group, e, m) : e \in outcomes, m \in Markets(htfs)}

----------------------------------------------------------------------------
(* From signals to an order.                                                   *)

\* The mean confidences of two sides, compared without dividing.
MoreSure(a, b) ==
    LET sum(set) == MapThenSumSet(LAMBDA s : s.confidence, set)
    IN sum(a) * Cardinality(b) >= sum(b) * Cardinality(a)

\* The signals _pick_ensemble_signal and select_best_signal may return: of the side
\* more strategies are for, at the same number the surer one, the most confident; a
\* tie goes to whoever stands first.
Picks(signals) ==
    LET strong == {s \in signals : s.confidence >= MinConfidence}
        on(side) == {s \in strong : s.side = side}
        wins(side) == \A other \in Sides \ {side} :
            \/ Cardinality(on(side)) > Cardinality(on(other))
            \/ Cardinality(on(side)) = Cardinality(on(other)) /\ MoreSure(on(side), on(other))
    IN {s \in strong :
            /\ wins(s.side) /\ Cardinality(on(s.side)) >= MinAgreement
            /\ \A t \in on(s.side) : s.confidence >= t.confidence}

\* The reward-to-risk gate: distances, whatever side the prices are on.
PassesRR(sig) ==
    LET risk == Abs(sig.entry - sig.stop)
    IN risk > 0 /\ Abs(sig.target - sig.entry) >= MinReward * risk

\* What may be lost in one trade.
Budget(capital) == capital \div RiskDivisor

\* Rounded down to a multiple of the lot.
position_size(capital, entry, stop) ==
    LET risk == Abs(entry - stop)
    IN IF risk = 0 \/ capital < 0 THEN 0 ELSE ((Budget(capital) \div risk) \div LotSize) * LotSize
====
