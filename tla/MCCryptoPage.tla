----------------------------- MODULE MCCryptoPage -----------------------------
(***************************************************************************)
(* Small instances of CryptoPage: scans of one coin that find entries near *)
(* each other, with other ranges and hence other levels; a second coin,    *)
(* whose setup is not confirmed.                                           *)
(***************************************************************************)
EXTENDS CryptoPage

CONSTANTS tab1, tab2

MCPlan(symbol, entry, risk, score) ==
    [symbol |-> symbol, direction |-> "LONG", score |-> score, entry |-> entry,
     stop_loss |-> entry - risk, target_1 |-> entry + 2 * risk, target_2 |-> entry + 4 * risk,
     risk_reward |-> 4]

MCShort(symbol, entry, risk, score) ==
    [symbol |-> symbol, direction |-> "SHORT", score |-> score, entry |-> entry,
     stop_loss |-> entry + risk, target_1 |-> entry - 2 * risk, target_2 |-> entry - 4 * risk,
     risk_reward |-> 4]

MCDirections == {"LONG", "SHORT"}
MCSymbols    == {"BTC", "ETH"}

\* Near each other, with other ranges; on both sides, and a coin not confirmed.
TwoRanges    == {MCPlan("BTC", 10000, 100, 90), MCPlan("BTC", 10001, 20, 85)}
TwoCoins     == {MCPlan("BTC", 10000, 100, 90), MCShort("BTC", 10000, 100, 90),
                 MCPlan("ETH", 10000, 100, 70)}

\* At rest; below the stops; above the first and above the second targets.
MCPrices == {10000, 9800, 10250, 10600}
\* Below the stop of the narrow plan only.
NarrowPrices == {10000, 9970, 10600}

OneTab  == {tab1}
TwoTabs == {tab1, tab2}
=============================================================================
