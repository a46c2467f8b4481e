------------------------------ MODULE PaperBook ------------------------------
(***************************************************************************)
(* What a paper-trading validation promises, without saying how: a book of *)
(* plans, each opened once and settled once, by the first finished bar     *)
(* after it was opened that touches its stop or its second target; a bar   *)
(* that touches both is a loss.  crypto_validation_runner.py says so in    *)
(* its comments ("Evaluate only candles that formed after each alert was   *)
(* generated", "conservative stop-first rule").                            *)
(***************************************************************************)
EXTENDS Integers, Sequences, TradePlan

CONSTANTS Candidates, Bars, NearScale, MaxMinute, None

VARIABLES bars, minute, book

Unsettled == [status |-> "OPEN", exit_price |-> None, outcome_r |-> None, resolved_at |-> None]

Loss(plan, m) ==
    [status |-> "STOP_LOSS", exit_price |-> plan.stop_loss, outcome_r |-> -1, resolved_at |-> m]

Gain(plan, m) ==
    [status |-> "TARGET_2", exit_price |-> plan.target_2, outcome_r |-> plan.risk_reward,
     resolved_at |-> m]

Decides(plan, m) ==
    LET bar == bars[plan.symbol][m] IN HitsStop(plan, bar) \/ HitsTarget2(plan, bar)

SettledBy(plan, m) ==
    IF HitsStop(plan, bars[plan.symbol][m]) THEN Loss(plan, m) ELSE Gain(plan, m)

Init ==
    /\ bars \in [Symbols -> [1..MaxMinute -> Bars]]
    /\ minute = 1
    /\ book = <<>>

Clock ==
    /\ minute < MaxMinute
    /\ minute' = minute + 1
    /\ UNCHANGED <<bars, book>>

\* A plan is opened unless the same setup is open already.
OpenPlan(plan, since) ==
    /\ since <= minute
    /\ \A i \in DOMAIN book :
          book[i].result = Unsettled => ~SameSetup(book[i].plan, plan, NearScale)
    /\ book' = Append(book, [plan |-> plan, since |-> since, result |-> Unsettled])
    /\ UNCHANGED <<bars, minute>>

Settle(i, m) ==
    /\ book[i].result = Unsettled
    /\ book[i].since < m /\ m < minute
    /\ Decides(book[i].plan, m)
    /\ \A k \in (book[i].since + 1)..(m - 1) : ~Decides(book[i].plan, k)
    /\ book' = [book EXCEPT ![i].result = SettledBy(book[i].plan, m)]
    /\ UNCHANGED <<bars, minute>>

Next ==
    \/ Clock
    \/ \E plan \in Candidates, since \in 1..MaxMinute : OpenPlan(plan, since)
    \/ \E i \in DOMAIN book, m \in 1..MaxMinute : Settle(i, m)

Spec == Init /\ [][Next]_<<bars, minute, book>>
=============================================================================
