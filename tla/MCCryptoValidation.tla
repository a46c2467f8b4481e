-------------------------- MODULE MCCryptoValidation --------------------------
(***************************************************************************)
(* Small instances of CryptoValidation.  Entries near 100, risk 10, the    *)
(* targets at 2 and 4 times the risk (crypto_scanner.py).                  *)
(***************************************************************************)
EXTENDS CryptoValidation

MCLong(symbol, entry, score) ==
    [symbol |-> symbol, direction |-> "LONG", score |-> score, entry |-> entry,
     stop_loss |-> entry - 10, target_1 |-> entry + 20, target_2 |-> entry + 40,
     risk_reward |-> 4]

MCShort(symbol, entry, score) ==
    [symbol |-> symbol, direction |-> "SHORT", score |-> score, entry |-> entry,
     stop_loss |-> entry + 10, target_1 |-> entry - 20, target_2 |-> entry - 40,
     risk_reward |-> 4]

MCDirections == {"LONG", "SHORT"}
OneSymbol    == {"BTC"}
TwoSymbols   == {"BTC", "ETH"}

\* A long and a short on one symbol.
BothDirections == {MCLong("BTC", 100, 90), MCShort("BTC", 100, 85)}

\* Setups that are near each other one way round only, another symbol, and a
\* near-setup the recorder passes over.
NearSetups == {MCLong("BTC", 100, 90), MCLong("BTC", 101, 90), MCLong("BTC", 103, 90),
               MCShort("BTC", 101, 85), MCLong("ETH", 100, 70)}

OneLong == {MCLong("BTC", 100, 90)}

Bar(low, high) == [low |-> low, high |-> high]
Quiet == Bar(100, 100)
\* Nothing; target 1 up; target 2 up; both of one bar; the stop below; target 1
\* and stop at once.
AllBars  == {Quiet, Bar(100, 125), Bar(100, 145), Bar(55, 145), Bar(75, 100), Bar(85, 125)}
\* Nothing; everything at once.
TwoBars  == {Quiet, Bar(75, 145)}
FewBars  == {Quiet, Bar(100, 145), Bar(75, 100)}
=============================================================================
