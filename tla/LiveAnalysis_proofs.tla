------------------------- MODULE LiveAnalysis_proofs -------------------------
(***************************************************************************)
(* Proofs about LiveAnalysis, for every set of symbols, prices, charts and *)
(* indicators and every number of analyses and connections.                *)
(***************************************************************************)
EXTENDS LiveAnalysis, TLAPS

-----------------------------------------------------------------------------
\* The levels the loader computes are integers, whatever the prices.
LEMMA LevelsAreIntegers ==
    ASSUME NEW m \in Metadata
    PROVE  m.stop_loss \in Int /\ m.target_1 \in Int /\ m.target_2 \in Int
  <1>1. PICK c \in Closes, swing \in Swings, e \in Evidence, trends \in Trends :
            m = load(c, swing, e, trends)
    BY DEF Metadata
  <1>2. c \in Int /\ swing \in Int
    BY LiveAssumption
  <1> DEFINE risk == IF swing > c \div 200 THEN swing ELSE c \div 200
             sign == IF e.bullish THEN 1 ELSE -1
  <1>3. risk \in Int /\ (3 * risk) \div 2 \in Int /\ sign \in Int
    BY <1>2
  <1> HIDE DEF risk, sign
  <1>4. /\ m.stop_loss = c - sign * risk
        /\ m.target_1 = c + sign * ((3 * risk) \div 2)
        /\ m.target_2 = c + sign * 3 * risk
    BY <1>1 DEF load, risk, sign
  <1> QED
    BY <1>2, <1>3, <1>4

\* A plan that is not refused has the entry and the levels it was asked for, on
\* the sides of the entry, and worth the risk.
LEMMA PlanIsOrdered ==
    ASSUME NEW direction, NEW p, NEW rounds_down, build_risk_plan(direction, p, rounds_down) # None
    PROVE  /\ build_risk_plan(direction, p, rounds_down) = p
           /\ Ordered(direction, p) /\ Rewarding(p)
  BY DEF build_risk_plan

\* A decision for BUY or SELL rests on a plan, on a trade's score and on the
\* setup's side.
LEMMA DecisionHasPlan ==
    ASSUME NEW score, NEW direction, NEW plan,
           evaluate_trade(score, direction, plan) \in {"BUY", "SELL"}
    PROVE  /\ plan # None /\ ~(score < MIN_TRADE_SCORE)
           /\ evaluate_trade(score, direction, plan) = "BUY" <=> direction = "bullish"
  BY DEF evaluate_trade, Side

\* Whatever the pipeline is given, a result that says BUY or SELL is a trade.
LEMMA TradeIsSound ==
    ASSUME NEW r \in Results, r # None
    PROVE  Sound(r)
  <1>1. PICK f \in Charts, m \in Metadata, entry \in Closes, rounds_down \in BOOLEAN :
            r = analyze_stock(f, m, entry, rounds_down)
    BY DEF Results
  <1> DEFINE setup == best_setup(detect_setups(f) \o trend_continuation_setup(f))
             p     == [entry |-> entry, stop_loss |-> m.stop_loss,
                       target_1 |-> m.target_1, target_2 |-> m.target_2]
             plan  == build_risk_plan(setup.direction, p, rounds_down)
             tf    == evaluate_alignment(m.timeframe_trends)
             score == decision_score(m, setup.confidence, alignment_score(tf))
  <1>2. r = [action |-> evaluate_trade(score, setup.direction, plan), score |-> score,
             direction |-> setup.direction, timeframe |-> tf, plan |-> plan]
    BY <1>1 DEF analyze_stock
  <1> HIDE DEF setup, score, tf
  <1>3. SUFFICES ASSUME r.action \in {"BUY", "SELL"}
                 PROVE  Sound(r)
    BY DEF Sound
  <1>4. /\ r.plan = plan /\ r.score = score
        /\ r.action = evaluate_trade(score, setup.direction, plan)
    BY <1>2
  <1>5. /\ plan # None /\ ~(score < MIN_TRADE_SCORE)
        /\ r.action = "BUY" <=> setup.direction = "bullish"
    BY <1>3, <1>4, DecisionHasPlan
  <1>6. plan = p /\ Ordered(setup.direction, p) /\ Rewarding(p)
    BY <1>5, PlanIsOrdered
  <1>7. /\ p.entry \in Int /\ p.stop_loss \in Int /\ p.target_1 \in Int /\ p.target_2 \in Int
    BY LevelsAreIntegers, LiveAssumption
  <1> HIDE DEF p, plan
  <1>8. CASE setup.direction = "bullish"
    <2>1. /\ p.stop_loss < p.entry /\ p.entry < p.target_1 /\ p.target_1 <= p.target_2
      BY <1>6, <1>8 DEF Ordered
    <2>2. 2 * (p.target_1 - p.entry) >= 3 * (p.entry - p.stop_loss)
      BY <1>6, <1>7, <2>1 DEF Rewarding, Abs
    <2> QED
      BY <1>3, <1>4, <1>5, <1>6, <1>8, <2>1, <2>2 DEF Sound
  <1>9. CASE setup.direction # "bullish"
    <2>1. /\ p.target_2 <= p.target_1 /\ p.target_1 < p.entry /\ p.entry < p.stop_loss
      BY <1>6, <1>9 DEF Ordered
    <2>2. 2 * (p.entry - p.target_1) >= 3 * (p.stop_loss - p.entry)
      BY <1>6, <1>7, <2>1 DEF Rewarding, Abs
    <2> QED
      BY <1>3, <1>4, <1>5, <1>6, <1>9, <2>1, <2>2 DEF Sound
  <1> QED
    BY <1>8, <1>9

-----------------------------------------------------------------------------
\* What the dispatcher remembers of a stock is the notifier's last word on it,
\* if it was said on this connection; otherwise it remembers nothing.
Forgotten(s) ==
    /\ signals[s] = None
    /\ \A n \in DOMAIN sent : sent[n].symbol = s => sent[n].connection < connection

Remembered(s) ==
    /\ \E r \in Results \ {None} : signals[s] = Snapshot(r) /\ latest[s] = Trigger(r)
    /\ \E n \in DOMAIN sent : LastOf(s, n) /\ sent[n].connection = connection /\ Key(n) = latest[s]

Consistent ==
    /\ \A s \in Symbols : Forgotten(s) \/ Remembered(s)
    /\ \A n \in DOMAIN sent : sent[n].connection <= connection

IInv == TypeOK /\ Consistent /\ AnnouncedOnce

\* The initial state satisfies the invariant: nothing was announced.
LEMMA InitIInv == Init => IInv
  <1> SUFFICES ASSUME Init PROVE IInv
    OBVIOUS
  <1>1. TypeOK
    BY LiveAssumption DEF Init, TypeOK
  <1>2. Consistent
    BY DEF Init, Consistent, Forgotten
  <1>3. AnnouncedOnce
    BY DEF Init, AnnouncedOnce
  <1> QED
    BY <1>1, <1>2, <1>3 DEF IInv

\* Every announcement has a stock, a result and a connection.
LEMMA AlertsAreTyped ==
    ASSUME TypeOK
    PROVE  \A n \in DOMAIN sent :
              /\ sent[n].symbol \in Symbols /\ sent[n].connection \in Int
              /\ sent[n].result \in Results \ {None}
  <1>1. \A n \in DOMAIN sent : sent[n] \in Alerts
    BY DEF TypeOK
  <1>2. \A a \in Alerts : a.symbol \in Symbols /\ a.connection \in Int /\ a.result \in Results \ {None}
    BY LiveAssumption DEF Alerts
  <1> QED
    BY <1>1, <1>2

\* Steps that leave the dispatcher and the notifier alone keep what relates them.
LEMMA QuietSteps ==
    ASSUME IInv, UNCHANGED <<signals, sent, latest, connection>>
    PROVE  Consistent' /\ AnnouncedOnce'
  BY DEF IInv, Consistent, Forgotten, Remembered, LastOf, Key, AnnouncedOnce

\* Every step keeps the types.
LEMMA TypeStep ==
    ASSUME TypeOK, [Next]_vars
    PROVE  TypeOK'
  <1> USE LiveAssumption DEF TypeOK
  <1>1. CASE PriceMoves
    BY <1>1 DEF PriceMoves, local
  <1>2. CASE Connect
    BY <1>2 DEF Connect
  <1>3. CASE Analyze
    BY <1>3 DEF Analyze
  <1>4. ASSUME NEW s \in todo, LoadMetadata(s)
        PROVE  TypeOK'
    <2>1. PICK swing \in Swings, e \in Evidence, trends \in Trends :
              metadata' = load(close[s], swing, e, trends)
      BY <1>4 DEF LoadMetadata
    <2>2. close[s] \in Closes
      BY <1>4
    <2>3. metadata' \in Metadata
      BY <2>1, <2>2 DEF Metadata
    <2> QED
      BY <1>4, <2>3 DEF LoadMetadata
  <1>5. ASSUME NEW s \in todo, LoadFails(s)
        PROVE  TypeOK'
    BY <1>5 DEF LoadFails
  <1>6. CASE BuildFails
    BY <1>6 DEF BuildFails, NextSymbol
  <1>7. CASE BuildInput
    <2>1. PICK f \in Charts, rounds_down \in BOOLEAN :
              result' = analyze_stock(f, metadata, close[symbol], rounds_down)
      BY <1>7 DEF BuildInput
    <2>2. close[symbol] \in Closes /\ metadata \in Metadata
      BY <1>7 DEF BuildInput
    <2>3. result' \in Results
      BY <2>1, <2>2 DEF Results
    <2> QED
      BY <1>7, <2>3 DEF BuildInput
  <1>8. CASE Quiet
    BY <1>8 DEF Quiet, NextSymbol
  <1>9. CASE Process
    <2>1. symbol \in Symbols /\ result \in Results \ {None}
      BY <1>9 DEF Process, Announceable
    <2>2. Trigger(result) # None /\ Snapshot(result) # None
      BY <2>1, NoneAssumption
    <2>3. [symbol |-> symbol, connection |-> connection, result |-> result] \in Alerts
      BY <2>1 DEF Alerts
    <2>4. sent' \in Seq(Alerts)
      BY <1>9, <2>3 DEF Process
    <2>5. \A s \in Symbols : signals'[s] = None <=> latest'[s] = None
      BY <1>9, <2>1, <2>2 DEF Process
    <2> QED
      BY <1>9, <2>4, <2>5 DEF Process, NextSymbol
  <1>10. CASE EndAnalyze
    BY <1>10 DEF EndAnalyze, local
  <1>11. CASE UNCHANGED vars
    BY <1>11 DEF vars
  <1> QED
    BY <1>1, <1>2, <1>3, <1>4, <1>5, <1>6, <1>7, <1>8, <1>9, <1>10, <1>11 DEF Next

\* Connecting forgets: everything announced so far was on an earlier connection.
LEMMA ConnectStep ==
    ASSUME IInv, Connect
    PROVE  Consistent' /\ AnnouncedOnce'
  <1> USE DEF IInv, TypeOK
  <1>1. /\ sent' = sent /\ connection \in Int /\ connection' = connection + 1
        /\ \A s \in Symbols : signals'[s] = None
    BY DEF Connect
  <1>2. \A n \in DOMAIN sent : sent[n].connection \in Int
    BY AlertsAreTyped
  <1>3. \A n \in DOMAIN sent : sent[n].connection < connection'
    BY <1>1, <1>2 DEF Consistent
  <1>4. Consistent'
    BY <1>1, <1>2, <1>3 DEF Consistent, Forgotten
  <1>5. AnnouncedOnce'
    BY <1>1 DEF AnnouncedOnce, Key
  <1> QED
    BY <1>4, <1>5

\* Announcing or suppressing: the last word becomes, or already is, the result.
LEMMA ProcessStep ==
    ASSUME IInv, Process
    PROVE  Consistent' /\ AnnouncedOnce'
  <1> USE DEF IInv, TypeOK
  <1>0. PICK x : x = symbol
    OBVIOUS
  <1> DEFINE alert == [symbol |-> symbol, connection |-> connection, result |-> result]
  <1>1. /\ x = symbol /\ x \in Symbols /\ result \in Results \ {None}
        /\ signals' = [signals EXCEPT ![x] = Snapshot(result)]
        /\ latest' = [latest EXCEPT ![x] = Trigger(result)]
        /\ connection' = connection /\ connection \in Int
    BY <1>0 DEF Process, Announceable
  <1>2. /\ signals'[x] = Snapshot(result) /\ latest'[x] = Trigger(result)
        /\ \A s \in Symbols \ {x} : signals'[s] = signals[s] /\ latest'[s] = latest[s]
    BY <1>1
  <1>3. \A n \in DOMAIN sent : sent[n].connection \in Int
    BY AlertsAreTyped
  <1>4. CASE ~should_alert(signals[x], Snapshot(result))
    <2>1. sent' = sent
      BY <1>1, <1>4 DEF Process
    <2>2. PICK r \in Results \ {None} : signals[x] = Snapshot(r) /\ latest[x] = Trigger(r)
      BY <1>1, <1>4 DEF Consistent, Forgotten, Remembered, should_alert
    <2>3. Trigger(result) = latest[x]
      BY <1>4, <2>2 DEF should_alert, Snapshot
    <2>4. Remembered(x)
      BY <1>1, <1>4 DEF Consistent, Forgotten, should_alert
    <2>5. Remembered(x)'
      BY <1>1, <1>2, <2>1, <2>3, <2>4 DEF Remembered, LastOf, Key
    <2>6. \A s \in Symbols \ {x} : Forgotten(s)' \/ Remembered(s)'
      BY <1>1, <1>2, <2>1 DEF Consistent, Forgotten, Remembered, LastOf, Key
    <2>7. Consistent'
      BY <1>1, <2>1, <2>5, <2>6 DEF Consistent
    <2>8. AnnouncedOnce'
      BY <2>1 DEF AnnouncedOnce, Key
    <2> QED
      BY <2>7, <2>8
  <1>5. CASE should_alert(signals[x], Snapshot(result))
    <2>0. PICK N \in Nat : N = Len(sent) + 1
      OBVIOUS
    <2>1. sent' = Append(sent, alert)
      BY <1>1, <1>5 DEF Process
    <2>2. /\ DOMAIN sent = 1..Len(sent) /\ Len(sent) \in Nat /\ DOMAIN sent' = 1..N
          /\ sent'[N] = alert /\ \A n \in 1..Len(sent) : sent'[n] = sent[n]
      BY <2>0, <2>1
    <2>3. N = Len(sent) + 1 /\ N \in DOMAIN sent' /\ N \notin DOMAIN sent
          /\ \A n \in DOMAIN sent' : n \in Nat /\ (n = N \/ n \in DOMAIN sent) /\ n <= N
      BY <2>0, <2>2
    <2>4. Remembered(x)'
      <3>1. LastOf(x, N)' /\ Key(N)' = Trigger(result) /\ sent'[N].connection = connection
        BY <1>1, <2>2, <2>3 DEF LastOf, Key
      <3> QED
        BY <1>1, <1>2, <2>3, <3>1 DEF Remembered
    <2>5. ASSUME NEW s \in Symbols \ {x}
          PROVE  Forgotten(s)' \/ Remembered(s)'
      <3>1. CASE Forgotten(s)
        BY <1>1, <1>2, <2>2, <2>3, <3>1 DEF Forgotten
      <3>2. CASE Remembered(s)
        <4>1. PICK n \in DOMAIN sent : LastOf(s, n) /\ sent[n].connection = connection /\ Key(n) = latest[s]
          BY <3>2 DEF Remembered
        <4>2. LastOf(s, n)' /\ sent'[n].connection = connection /\ Key(n)' = latest[s] /\ n \in DOMAIN sent'
          BY <1>1, <2>2, <2>3, <2>5, <4>1 DEF LastOf, Key
        <4> QED
          BY <1>1, <1>2, <3>2, <4>2 DEF Remembered
      <3> QED
        BY <3>1, <3>2 DEF Consistent
    <2>6. Consistent'
      BY <1>1, <2>2, <2>3, <2>4, <2>5 DEF Consistent
    <2>7. ASSUME NEW m \in DOMAIN sent', NEW n \in DOMAIN sent', m < n,
                 sent'[m].symbol = sent'[n].symbol, sent'[m].connection = sent'[n].connection,
                 \A k \in DOMAIN sent' : m < k /\ k < n => sent'[k].symbol # sent'[m].symbol
          PROVE  Key(m)' # Key(n)'
      <3>1. CASE n # N
        <4>1. n \in DOMAIN sent /\ m \in DOMAIN sent
          BY <2>2, <2>3, <2>7, <3>1
        <4>2. \A k \in DOMAIN sent : m < k /\ k < n => sent[k].symbol # sent[m].symbol
          BY <2>2, <2>3, <2>7, <4>1
        <4> QED
          BY <2>2, <2>7, <4>1, <4>2 DEF AnnouncedOnce, Key
      <3>2. CASE n = N
        <4>1. m \in DOMAIN sent /\ sent[m].symbol = x /\ sent[m].connection = connection
          BY <1>1, <2>2, <2>3, <2>7, <3>2
        <4>2. Remembered(x)
          BY <1>1, <1>3, <4>1 DEF Consistent, Forgotten
        <4>3. PICK last \in DOMAIN sent : LastOf(x, last) /\ Key(last) = latest[x]
          BY <4>2 DEF Remembered
        <4>4. last = m
          BY <2>2, <2>3, <2>7, <3>2, <4>1, <4>3 DEF LastOf
        <4>5. PICK r \in Results \ {None} : signals[x] = Snapshot(r) /\ latest[x] = Trigger(r)
          BY <4>2 DEF Remembered
        <4>6. signals[x] # None
          BY <4>5, NoneAssumption
        <4>7. Trigger(r) # Trigger(result)
          BY <1>5, <4>5, <4>6 DEF should_alert, Snapshot, Trigger
        <4>8. Key(m)' = Trigger(r) /\ Key(n)' = Trigger(result)
          BY <2>2, <3>2, <4>1, <4>3, <4>4, <4>5 DEF Key
        <4> QED
          BY <4>7, <4>8
      <3> QED
        BY <3>1, <3>2
    <2>8. AnnouncedOnce'
      BY <2>7 DEF AnnouncedOnce
    <2> QED
      BY <2>6, <2>8
  <1> QED
    BY <1>4, <1>5

-----------------------------------------------------------------------------
\* Types, and the tie between the dispatcher's memory and the announcements,
\* hold in every reachable state.
THEOREM InductiveInvariant == Spec => []IInv
  <1>1. ASSUME IInv, [Next]_vars
        PROVE  IInv'
    <2>1. TypeOK'
      BY <1>1, TypeStep DEF IInv
    <2>2. Consistent' /\ AnnouncedOnce'
      <3>1. CASE Connect
        BY <1>1, <3>1, ConnectStep
      <3>2. CASE Process
        BY <1>1, <3>2, ProcessStep
      <3>3. CASE UNCHANGED <<signals, sent, latest, connection>>
        BY <1>1, <3>3, QuietSteps
      <3> QED
        BY <1>1, <3>1, <3>2, <3>3
           DEF Next, PriceMoves, Analyze, LoadMetadata, LoadFails, BuildFails, BuildInput, Quiet,
               EndAnalyze, vars
    <2> QED
      BY <2>1, <2>2 DEF IInv
  <1> QED
    BY <1>1, InitIInv, PTL DEF Spec

\* Every variable keeps its type, whatever fails and whenever the session
\* connects again.
THEOREM TypeCorrect == Spec => []TypeOK
  <1>1. IInv => TypeOK
    BY DEF IInv
  <1> QED
    BY <1>1, InductiveInvariant, PTL

\* A BUY or SELL that the notifier holds is a trade with its levels in order,
\* though they were computed from another price than the entry.
THEOREM AnnouncedTradesAreSound == Spec => []TradesAreSound
  <1>1. IInv => TradesAreSound
    BY TradeIsSound, AlertsAreTyped DEF IInv, TradesAreSound
  <1> QED
    BY <1>1, InductiveInvariant, PTL

\* No announcement is repeated on a connection.
THEOREM RepetitionsAreSuppressed == Spec => []AnnouncedOnce
  <1>1. IInv => AnnouncedOnce
    BY DEF IInv
  <1> QED
    BY <1>1, InductiveInvariant, PTL

\* No change of an actionable result goes unannounced.
THEOREM ChangesAreAnnounced == Spec => []ChangesAnnounced
  <1>1. IInv => ChangesAnnounced
    BY DEF IInv, TypeOK, Consistent, Forgotten, Remembered, ChangesAnnounced
  <1> QED
    BY <1>1, InductiveInvariant, PTL
=============================================================================
