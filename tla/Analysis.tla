------------------------------- MODULE Analysis -------------------------------
(***************************************************************************)
(* From a stock's candles to a decision: setup detection, timeframe        *)
(* alignment, risk plan, trade decision and the pipeline that joins them   *)
(* (analysis/).  What the indicators say of the last two candles is a      *)
(* record of signs; prices are integers, scores and confidences tenths of  *)
(* a point, relative volumes tenths, weighted scores thousandths.          *)
(***************************************************************************)
EXTENDS Integers, Sequences

CONSTANT None   \* no risk plan, no relative volume, no setup

Actions    == {"BUY", "SELL", "WATCH", "NO_TRADE"}
Alignments == {"aligned", "partial", "conflicting", "insufficient"}
Signs      == {-1, 0, 1}

\* The last candle i of a frame and the one before it, p.  supertrend is 0 while
\* it has no direction; rvol is None when no volume was traded; defined says
\* that EMAs, VWAP and relative volume have values at both candles.
Frames ==
    [defined : BOOLEAN, rvol : Nat \cup {None},
     break_out : Signs,                    \* close beyond the extremes of 20 candles
     ema_p : Signs, ema : Signs,           \* EMA 9 against EMA 20
     vwap_p : Signs, vwap : Signs,         \* close against VWAP
     trend : Signs, near : BOOLEAN,        \* close against EMA 20, and within 1%
     macd_p : Signs, macd : Signs,         \* MACD histogram
     supertrend : Signs]

-----------------------------------------------------------------------------
Setup(direction, confidence) == [direction |-> direction, confidence |-> confidence]

When(condition, setup) == IF condition THEN <<setup>> ELSE <<>>

AtMost(bound, value) == IF value < bound THEN value ELSE bound

\* The setups of the last candle, in the order they are tested.
detect_setups(f) ==
    LET surge == AtMost(1000, 600 + 15 * f.rvol)
    IN  IF ~f.defined THEN <<>>
        ELSE When(f.break_out = 1 /\ f.rvol >= 12, Setup("bullish", surge))
          \o When(f.break_out = -1 /\ f.rvol >= 12, Setup("bearish", surge))
          \o When(f.ema_p <= 0 /\ f.ema = 1, Setup("bullish", 650))
          \o When(f.ema_p >= 0 /\ f.ema = -1, Setup("bearish", 650))
          \o When(f.vwap_p = -1 /\ f.vwap = 1, Setup("bullish", 600))
          \o When(f.vwap_p = 1 /\ f.vwap = -1, Setup("bearish", 600))
          \o When(f.ema = 1 /\ f.supertrend = 1 /\ f.trend >= 0 /\ f.near /\ f.rvol >= 10,
                  Setup("bullish", 700))
          \o When(f.ema = -1 /\ f.supertrend = -1 /\ f.trend <= 0 /\ f.near /\ f.rvol >= 10,
                  Setup("bearish", 700))
          \o When(f.macd = 1 /\ f.macd_p <= 0, Setup("bullish", 550))
          \o When(f.macd = -1 /\ f.macd_p >= 0, Setup("bearish", 550))

\* How many of the five agree with a side (1 bullish, -1 bearish).
Vote(condition) == IF condition THEN 1 ELSE 0

votes(f, side) ==
    Vote(f.trend = side) + Vote(f.ema = side) + Vote(f.macd = side) + Vote(f.supertrend = side)
    + Vote(f.rvol # None /\ f.rvol >= 8)

\* Without a relative volume min() falls back on the cap.
trend_confidence(f, side) ==
    IF f.rvol = None THEN 950
    ELSE AtMost(950, 600 + 50 * votes(f, side) + 5 * AtMost(20, f.rvol))

trend_continuation_setup(f) ==
    IF votes(f, 1) >= 4 THEN <<Setup("bullish", trend_confidence(f, 1))>>
    ELSE IF votes(f, -1) >= 4 THEN <<Setup("bearish", trend_confidence(f, -1))>>
    ELSE <<>>

\* The first of those with the highest confidence.
best_setup(setups) ==
    setups[CHOOSE i \in DOMAIN setups :
             /\ \A j \in DOMAIN setups : setups[j].confidence <= setups[i].confidence
             /\ \A j \in DOMAIN setups : j < i => setups[j].confidence < setups[i].confidence]

-----------------------------------------------------------------------------
Directed(trends, direction) == \E i \in DOMAIN trends : trends[i] = direction

evaluate_alignment(trends) ==
    IF ~Directed(trends, "bullish") /\ ~Directed(trends, "bearish") THEN "insufficient"
    ELSE IF \E direction \in {"bullish", "bearish"} :
              \A i \in DOMAIN trends : trends[i] = direction THEN "aligned"
    ELSE IF ~Directed(trends, "bullish") \/ ~Directed(trends, "bearish") THEN "partial"
    ELSE "conflicting"

alignment_score(alignment) ==
    CASE alignment = "aligned"      -> 1000
      [] alignment = "partial"      -> 650
      [] alignment = "conflicting"  -> 250
      [] alignment = "insufficient" -> 0

-----------------------------------------------------------------------------
\* Levels on the right sides of the entry.
Ordered(direction, p) ==
    IF direction = "bullish"
    THEN p.stop_loss < p.entry /\ p.entry < p.target_1 /\ p.target_1 <= p.target_2
    ELSE p.target_2 <= p.target_1 /\ p.target_1 < p.entry /\ p.entry < p.stop_loss

Abs(x) == IF x < 0 THEN -x ELSE x

\* Reward for risk at target 1: at least 1.5, strictly more, exactly 1.5.
Rewarding(p) == 2 * Abs(p.target_1 - p.entry) >= 3 * Abs(p.entry - p.stop_loss)
Marginal(p)  == 2 * Abs(p.target_1 - p.entry) = 3 * Abs(p.entry - p.stop_loss)

\* A mutant of build_risk_plan: the order of the levels is not tested.
RiskPlanUnordered(direction, p, rounds_down) ==
    IF p.stop_loss > 0 /\ p.target_2 > 0 /\ Rewarding(p) THEN p ELSE None

\* A plan, or None for the RiskPlanError.  Where the ratio is 1.5, which is what
\* the loader's targets aim at, the floating-point quotient may fall below it.
build_risk_plan(direction, p, rounds_down) ==
    IF /\ p.entry > 0 /\ p.stop_loss > 0 /\ p.target_1 > 0 /\ p.target_2 > 0
       /\ Ordered(direction, p)
       /\ Rewarding(p)
       /\ ~(Marginal(p) /\ rounds_down)
    THEN p ELSE None

-----------------------------------------------------------------------------
MIN_TRADE_SCORE == 70000
WATCH_SCORE     == 55000

decision_score(m, confidence, alignment) ==
    20 * m.market_score + 15 * m.sector_score + 20 * m.stock_score
    + 20 * confidence + 10 * alignment + 15 * m.confirmation_score

Side(direction) == IF direction = "bullish" THEN "BUY" ELSE "SELL"

\* Without a plan the risk-reward is 0, below the minimum.
evaluate_trade(score, direction, plan) ==
    IF score < WATCH_SCORE THEN "NO_TRADE"
    ELSE IF plan = None \/ score < MIN_TRADE_SCORE THEN "WATCH"
    ELSE Side(direction)

\* analyze_stock: None without a setup, else the result.
analyze_stock(f, m, entry, rounds_down) ==
    LET setups == detect_setups(f) \o trend_continuation_setup(f)
    IN  IF setups = <<>> THEN None
        ELSE LET setup     == best_setup(setups)
                 timeframe == evaluate_alignment(m.timeframe_trends)
                 plan      == build_risk_plan(setup.direction,
                                [entry |-> entry, stop_loss |-> m.stop_loss,
                                 target_1 |-> m.target_1, target_2 |-> m.target_2], rounds_down)
                 score     == decision_score(m, setup.confidence, alignment_score(timeframe))
             IN  [action |-> evaluate_trade(score, setup.direction, plan), score |-> score,
                  direction |-> setup.direction, timeframe |-> timeframe, plan |-> plan]
=============================================================================
