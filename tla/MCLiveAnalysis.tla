---------------------------- MODULE MCLiveAnalysis ----------------------------
(***************************************************************************)
(* Small instances of LiveAnalysis: charts that break out up or down, with *)
(* much or little volume, or show nothing; indicators that agree or not.   *)
(* A price of 40000 has a least risk of 200.                               *)
(***************************************************************************)
EXTENDS LiveAnalysis

Chart(side, rvol) ==
    [defined |-> TRUE, rvol |-> rvol, break_out |-> side, ema_p |-> side, ema |-> side,
     vwap_p |-> side, vwap |-> side, trend |-> side, near |-> FALSE, macd_p |-> side,
     macd |-> side, supertrend |-> side]

\* Mixed signs: no setup at all.
Flat == [Chart(1, 9) EXCEPT !.break_out = 0, !.trend = -1, !.supertrend = -1]

\* No volume: nothing is detected, and the trend has the highest confidence.
NoVolume == [Chart(1, 10) EXCEPT !.defined = FALSE, !.rvol = None]

Indicators(bullish, agree, rvol) ==
    [bullish |-> bullish, ema_aligned |-> agree, supertrend_aligned |-> agree,
     macd_aligned |-> agree, rvol |-> rvol, rsi_confirmed |-> agree]

OneSymbol  == {"INFY"}
TwoSymbols == {"INFY", "TCS"}
MCCloses   == {40000, 40400}
MCSwings   == {100, 600}
OneSwing   == {600}
MCEvidence == {Indicators(TRUE, TRUE, 12), Indicators(FALSE, TRUE, 12), Indicators(TRUE, FALSE, 8)}
Divided    == {<<"bearish", "bearish", "bullish", "bullish">>}
MCTrends   == {<<"bullish", "bullish", "bullish", "bullish">>,
               <<"bearish", "bearish", "bullish", "bullish">>}
MCCharts   == {Chart(1, 30), Chart(-1, 30), Chart(1, 8), Flat, NoVolume}
Mirrored   == {Indicators(TRUE, TRUE, 12), Indicators(FALSE, TRUE, 12)}
Opposed    == {Chart(1, 30), Chart(-1, 12), Flat}
=============================================================================
