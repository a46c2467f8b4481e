------------------------------ MODULE TradePlan ------------------------------
(***************************************************************************)
(* A trade plan (entry, stop and two targets on one symbol, in one         *)
(* direction) and what a price bar does to it.  Prices are integers: only  *)
(* their order against the plan's levels matters.                          *)
(***************************************************************************)
EXTENDS Integers

CONSTANTS Symbols, Directions

\* A plan as the scanners hand it over; "LONG" is the crypto scanner's name
\* for what the NSE engine calls "BUY".
Plans == [symbol : Symbols, direction : Directions, score : Int, entry : Int,
          stop_loss : Int, target_1 : Int, target_2 : Int, risk_reward : Int]

Candles == [low : Int, high : Int]

\* A live price is a bar with no extent.
Tick(price) == [low |-> price, high |-> price]

Long(plan) == plan.direction \in {"LONG", "BUY"}

Abs(n) == IF n < 0 THEN -n ELSE n

\* abs(record.entry - candidate.entry) / candidate.entry < 1 / scale
Near(recorded, candidate, scale) ==
    Abs(recorded.entry - candidate.entry) * scale < candidate.entry

SameSetup(recorded, candidate, scale) ==
    /\ recorded.symbol = candidate.symbol
    /\ recorded.direction = candidate.direction
    /\ Near(recorded, candidate, scale)

HitsTarget1(plan, bar) ==
    IF Long(plan) THEN bar.high >= plan.target_1 ELSE bar.low <= plan.target_1

HitsTarget2(plan, bar) ==
    IF Long(plan) THEN bar.high >= plan.target_2 ELSE bar.low <= plan.target_2

HitsStop(plan, bar) ==
    IF Long(plan) THEN bar.low <= plan.stop_loss ELSE bar.high >= plan.stop_loss
=============================================================================
