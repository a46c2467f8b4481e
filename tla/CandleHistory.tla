----------------------------- MODULE CandleHistory -----------------------------
(***************************************************************************)
(* The candles that TechnicalMetadataLoader asks for and the candles that  *)
(* an exchange has: the loader turns a number of candles into minutes of   *)
(* the calendar, of which a session has 375 a day.  The provider answers   *)
(* every request with what was traded (LiveAnalysis has the one that does  *)
(* not); a load is short against the clock's step.                         *)
(***************************************************************************)
EXTENDS Naturals, Sequences, FiniteSets

CONSTANT ClockStep    \* bound: minutes between two looks at the clock

VARIABLES
    clock,    \* minutes since Monday, 0:00; every week is alike
    todo,     \* the timeframes that load has yet to fetch
    result    \* of the last load: "none", "metadata" or "error"

vars == <<clock, todo, result>>

Day == 24 * 60
Week == 7 * Day
MARKET_OPEN == 9 * 60 + 15
MARKET_CLOSE == 15 * 60 + 30

TradingDays == 0 .. 4

InSession(time) ==
    time \div Day \in TradingDays /\ time % Day >= MARKET_OPEN /\ time % Day < MARKET_CLOSE

\* A timeframe is the minutes of its candle.
LOOKBACKS == [frame \in {1, 5, 15, 60} |->
                  CASE frame = 1 -> 250 [] frame = 5 -> 100 [] frame = 15 -> 60 [] frame = 60 -> 40]

\* What the provider has: a candle begins at the open, and then every so many
\* minutes until the close.
Traded(frame) ==
    {day * Day + MARKET_OPEN + k * frame :
        day \in TradingDays, k \in 0 .. (MARKET_CLOSE - MARKET_OPEN - 1) \div frame}

get_ohlcv(frame, minutes) ==
    {candle \in Traded(frame) : (clock + Week - candle) % Week <= minutes}

Sufficient(frame) ==
    LET lookback == LOOKBACKS[frame]
    IN  Cardinality(get_ohlcv(frame, lookback * frame)) >= IF lookback < 30 THEN lookback ELSE 30

\* The candles of the metadata, then those of the trends.
Frames == <<1, 60, 15, 5, 1>>

Init == clock = 0 /\ todo = <<>> /\ result = "none"

\* The page scans every minute of the session; a scan at other times, which a
\* button starts, finds fewer candles of the day.
Refresh ==
    /\ todo = <<>>
    /\ clock' = (clock + ClockStep) % Week
    /\ todo' = IF InSession(clock') THEN Frames ELSE <<>>
    /\ UNCHANGED result

Fetch ==
    /\ todo # <<>> /\ Sufficient(Head(todo))
    /\ todo' = Tail(todo)
    /\ result' = IF Len(todo) = 1 THEN "metadata" ELSE result
    /\ UNCHANGED clock

\* ValueError: the stock has no analysis.
TooFew ==
    /\ todo # <<>> /\ ~Sufficient(Head(todo))
    /\ todo' = <<>>
    /\ result' = "error"
    /\ UNCHANGED clock

Next == Refresh \/ Fetch \/ TooFew

\* The page is open, and every request is answered.
Spec == Init /\ [][Next]_vars /\ WF_vars(Refresh) /\ WF_vars(Fetch) /\ WF_vars(TooFew)

-----------------------------------------------------------------------------
\* As long as there are sessions, stocks get their 1m, 5m, 15m and 1h
\* confirmation again and again.
ConfirmsInSessions == []<>(result = "metadata")
=============================================================================
