----------------------------- MODULE MCNseJournal -----------------------------
(***************************************************************************)
(* Small instances of NseJournal: one stock to buy at two entries and to   *)
(* sell at one.                                                            *)
(***************************************************************************)
EXTENDS NseJournal

CONSTANTS runner, page

MCBuy(symbol, entry) ==
    [symbol |-> symbol, direction |-> "BUY", score |-> 80, entry |-> entry,
     stop_loss |-> entry - 10, target_1 |-> entry + 10, target_2 |-> entry + 20, risk_reward |-> 2]

MCSell(symbol, entry) ==
    [symbol |-> symbol, direction |-> "SELL", score |-> 80, entry |-> entry,
     stop_loss |-> entry + 10, target_1 |-> entry - 10, target_2 |-> entry - 20, risk_reward |-> 2]

MCDirections == {"BUY", "SELL"}
MCSymbols    == {"INFY"}

OneAlert   == {MCBuy("INFY", 100)}
TwoSides   == {MCBuy("INFY", 100), MCSell("INFY", 100)}
TwoEntries == {MCBuy("INFY", 100), MCBuy("INFY", 101), MCSell("INFY", 100)}

\* Quiet, target 2 of the buys and stop of the sell, and the other way round.
ThreePrices == {100, 122, 80}
FewPrices   == {100, 80}
EndPrices   == {122, 80}

OneRunner == {runner}
OnePage   == {page}
=============================================================================
