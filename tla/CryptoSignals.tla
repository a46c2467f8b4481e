----------------------------- MODULE CryptoSignals -----------------------------
(***************************************************************************)
(* The rules of the crypto dashboard, as a coin's market moves: the score  *)
(* and the plan of a scan, which the page locks and draws as its alert;    *)
(* the conditions and the levels of a fresh analysis; and the health of    *)
(* the locked plan seen from it.  The rules are separate pieces of code    *)
(* over the same indicators.  (The alert of the fresh analysis is not      *)
(* drawn.)                                                                 *)
(*                                                                         *)
(* A reading is what they see of the candles: signs of the averages'       *)
(* difference and of the histogram, trends, RSI, relative volume in tenths *)
(* (NaN is negative: it compares as false), price and median range.        *)
(***************************************************************************)
EXTENDS Integers, FiniteSets, SequencesExt

CONSTANTS
    Readings,  \* [cross, macd, trend_5m, trend_15m, rsi, rvol, price, range]
    Frames,    \* the last five-minute candles: sequences of [high, low]
    NoPlan

ASSUME SignalsAssumption ==
    /\ Readings \subseteq [cross : Int, macd : Int, trend_5m : {-1, 1}, trend_15m : {-1, 1},
                          rsi : Int, rvol : Int, price : Nat \ {0}, range : Nat]
    /\ Frames \subseteq Seq([high : Int, low : Int])
    /\ NoPlan \notin [direction : {"LONG", "SHORT"}, score : Int, entry : Int, stop_loss : Int,
                     target_1 : Int, target_2 : Int, risk_reward : {4}]

VARIABLES
    locked,    \* the selected candidate of the last scan
    snapshot,  \* the last analysis of its coin
    health     \* what the page says of the locked plan

signalVars == <<locked, snapshot, health>>

-----------------------------------------------------------------------------
Holding(conditions) == Cardinality({i \in DOMAIN conditions : conditions[i]})

Bullish(r) == r.cross > 0 /\ r.macd > 0 /\ r.trend_5m > 0 /\ r.trend_15m > 0
Bearish(r) == r.cross < 0 /\ r.macd < 0 /\ r.trend_5m < 0 /\ r.trend_15m < 0

LongZone(r) == r.rsi \in 50..75
ShortZone(r) == r.rsi \in 25..50

\* The risk is the median range, or 0.2 % of the price: in 500ths of it.
Risk(r) == IF 500 * r.range > r.price THEN 500 * r.range ELSE r.price

\* Levels in 500ths too; a target is a multiple of the risk.
PlanFor(r, direction, score) ==
    LET sign == IF direction = "LONG" THEN 1 ELSE -1
        entry == 500 * r.price
    IN  [direction |-> direction, score |-> score, entry |-> entry,
         stop_loss |-> entry - sign * Risk(r),
         target_1 |-> entry + 2 * sign * Risk(r),
         target_2 |-> entry + 4 * sign * Risk(r),
         risk_reward |-> 4]

BestOf(n, cap) == IF n < cap THEN n ELSE cap

\* CryptoIntradayScanner._score: a confirmed setup, or none.
ConfirmedSetup(r) ==
    LET long == Bullish(r) /\ LongZone(r)
        short == Bearish(r) /\ ShortZone(r)
        score == 75 + (IF r.rvol >= 12 THEN 10 ELSE 0)
                    + (IF (long /\ r.rsi \in 55..70) \/ (short /\ r.rsi \in 30..45) THEN 5 ELSE 0) + 10
    IN  IF long \/ short THEN PlanFor(r, IF long THEN "LONG" ELSE "SHORT", BestOf(score, 100))
        ELSE NoPlan

\* RobustCryptoIntradayScanner._score, where there is no confirmed setup.
NearSetup(r) ==
    LET bullish == Holding(<<r.cross > 0, r.macd > 0, r.trend_5m > 0, r.trend_15m > 0,
                             r.rsi \in 45..70, r.rvol >= 10>>)
        bearish == Holding(<<r.cross < 0, r.macd < 0, r.trend_5m < 0, r.trend_15m < 0,
                             r.rsi \in 30..55, r.rvol >= 10>>)
    IN  IF bullish >= bearish THEN PlanFor(r, "LONG", BestOf(40 + 5 * bullish, 74))
        ELSE PlanFor(r, "SHORT", BestOf(40 + 5 * bearish, 74))

Score(r) ==
    IF ConfirmedSetup(r) # NoPlan THEN ConfirmedSetup(r)
    ELSE IF r.rvol < 0 THEN NoPlan ELSE NearSetup(r)

-----------------------------------------------------------------------------
\* analyze_symbol's list of conditions, on the side of the averages and MACD.
Confluence(r) ==
    LET side == IF r.cross < 0 /\ r.macd < 0 THEN -1 ELSE 1
    IN  [ema |-> side * r.cross > 0, macd |-> side * r.macd > 0,
         trend_5m |-> side * r.trend_5m > 0, trend_15m |-> side * r.trend_15m > 0,
         rsi |-> IF side > 0 THEN LongZone(r) ELSE ShortZone(r),
         rvol |-> r.rvol >= 10]

AlertOf(plan) ==
    IF plan = NoPlan THEN "WATCH"
    ELSE IF plan.score < 75 THEN "NEAR SETUP"
    ELSE IF plan.direction = "LONG" THEN "BUY ALERT" ELSE "SELL ALERT"

\* Swing highs above the price and swing lows below it.
Resistances(f, price) ==
    {f[i].high : i \in {i \in 2 .. Len(f) - 1 :
        f[i].high >= f[i-1].high /\ f[i].high > f[i+1].high /\ f[i].high > price}}
Supports(f, price) ==
    {f[i].low : i \in {i \in 2 .. Len(f) - 1 :
        f[i].low <= f[i-1].low /\ f[i].low < f[i+1].low /\ f[i].low < price}}

Distance(a, b) == IF a < b THEN b - a ELSE a - b

\* Within 0.2 % of the price.
Close(a, b, price) == 500 * Distance(a, b) < price

\* A mutant of Nearest: the levels are looked at from the lowest up.
LowestFirst(levels, price) ==
    LET take(chosen, level) ==
            IF Cardinality(chosen) = 3 \/ \E c \in chosen : Close(level, c, price) THEN chosen
            ELSE chosen \cup {level}
        order == CHOOSE q \in SetToSeqs(levels) : \A i, j \in DOMAIN q : i < j => q[i] < q[j]
    IN  FoldLeft(take, {}, order)

\* Up to three, nearest first, none close to one chosen before.
Nearest(levels, price) ==
    LET take(chosen, level) ==
            IF Cardinality(chosen) = 3 \/ \E c \in chosen : Close(level, c, price) THEN chosen
            ELSE chosen \cup {level}
        order == CHOOSE q \in SetToSeqs(levels) :
                    \A i, j \in DOMAIN q : i < j => Distance(q[i], price) < Distance(q[j], price)
    IN  FoldLeft(take, {}, order)

analyze_symbol(r, f) ==
    [of |-> r, frame |-> f, candidate |-> Score(r), alert |-> AlertOf(Score(r)),
     confluence |-> Confluence(r),
     supports |-> Nearest(Supports(f, r.price), r.price),
     resistances |-> Nearest(Resistances(f, r.price), r.price)]

\* A mutant of live_signal_state: the fifteen-minute trend is not looked at.
LiveStateWithout15m(plan, r) ==
    LET side == IF plan.direction = "LONG" THEN 1 ELSE -1
        trend == side * r.trend_5m > 0
        momentum == side * r.cross > 0 /\ side * r.macd > 0
        strength == (IF side > 0 THEN LongZone(r) ELSE ShortZone(r)) /\ r.rvol >= 10
    IN  IF side * 500 * r.price <= side * plan.stop_loss THEN "INVALIDATED"
        ELSE IF trend /\ momentum /\ strength THEN "CONFIRMED"
        ELSE IF trend /\ momentum THEN "MOMENTUM COOLING"
        ELSE IF ~trend /\ side * r.macd <= 0 THEN "REVERSAL WATCH"
        ELSE "WATCH"

\* The health of the locked plan: beyond its stop, or by the fresh indicators.
live_signal_state(plan, r) ==
    LET side == IF plan.direction = "LONG" THEN 1 ELSE -1
        trends == side * r.trend_5m > 0 /\ side * r.trend_15m > 0
        opposed == side * r.trend_5m < 0 /\ side * r.trend_15m < 0 /\ side * r.macd <= 0
        momentum == side * r.cross > 0 /\ side * r.macd > 0
        strength == (IF side > 0 THEN LongZone(r) ELSE ShortZone(r)) /\ r.rvol >= 10
    IN  IF side * 500 * r.price <= side * plan.stop_loss THEN "INVALIDATED"
        ELSE IF trends /\ momentum /\ strength THEN "CONFIRMED"
        ELSE IF trends /\ momentum THEN "MOMENTUM COOLING"
        ELSE IF opposed THEN "REVERSAL WATCH"
        ELSE "WATCH"

-----------------------------------------------------------------------------
SignalsInit == locked = NoPlan /\ snapshot = NoPlan /\ health = "none"

\* A scan locks the candidate until the next scan.
ScanCoin(r) ==
    /\ snapshot = NoPlan
    /\ locked' = Score(r)
    /\ UNCHANGED <<snapshot, health>>

\* The fragment, whatever the market has become; without enough candles the
\* analysis raises, and shows nothing.
Refresh(r, f) ==
    /\ locked # NoPlan /\ snapshot = NoPlan
    /\ snapshot' = analyze_symbol(r, f)
    /\ health' = live_signal_state(locked, r)
    /\ UNCHANGED locked

\* A rerun, of the fragment or of the page, draws all of it anew.
Redraw ==
    /\ snapshot # NoPlan
    /\ snapshot' = NoPlan /\ health' = "none"
    /\ UNCHANGED locked

SignalsNext ==
    \/ \E r \in Readings : ScanCoin(r) \/ \E f \in Frames : Refresh(r, f)
    \/ Redraw

SignalsSpec == SignalsInit /\ [][SignalsNext]_signalVars

-----------------------------------------------------------------------------
\* What is drawn together agrees: a plan is CONFIRMED with all six conditions
\* marked and COOLING with the trends, the averages and the MACD, but not all; and
\* where all six are marked the plan is CONFIRMED, beyond its stop, or under
\* REVERSAL WATCH because the marks are those of the other side: never "mixed".
MarksAgree ==
    snapshot # NoPlan =>
        LET marks == snapshot.confluence
            aligned == marks.ema /\ marks.macd /\ marks.trend_5m /\ marks.trend_15m
            all == aligned /\ marks.rsi /\ marks.rvol
            ownSide == (snapshot.of.cross > 0) <=> (locked.direction = "LONG")
        IN  /\ health = "CONFIRMED" => all
            /\ health = "MOMENTUM COOLING" => aligned /\ ~all
            /\ all /\ health # "INVALIDATED" =>
                   health = IF ownSide THEN "CONFIRMED" ELSE "REVERSAL WATCH"

\* The levels shown are on their side of the price, and every swing level that
\* is left out is close to one that is shown, or farther than three of them.
NearestLevelsShown ==
    snapshot # NoPlan =>
        LET price == snapshot.of.price
            Covers(shown, levels) ==
                /\ shown \subseteq levels
                /\ \A l \in levels \ shown :
                     \/ \E s \in shown : Close(l, s, price) /\ Distance(s, price) <= Distance(l, price)
                     \/ Cardinality(shown) = 3 /\ \A s \in shown : Distance(s, price) <= Distance(l, price)
        IN  /\ Covers(snapshot.supports, Supports(snapshot.frame, price))
            /\ Covers(snapshot.resistances, Resistances(snapshot.frame, price))
=============================================================================
