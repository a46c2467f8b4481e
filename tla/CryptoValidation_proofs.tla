----------------------- MODULE CryptoValidation_proofs -----------------------
(***************************************************************************)
(* The safety properties of CryptoValidation, for every value of the       *)
(* constants.  IInv is inductive; each of its parts has a lemma that says  *)
(* every step preserves it, and the properties follow from it.             *)
(*                                                                         *)
(* The heart of it is WalkInv and RowInv.  WalkInv says what the walk over *)
(* the bars knows: the bars behind the cursor decided nothing, and if one  *)
(* touched target 1 the row is marked.  RowInv says what a row on disk     *)
(* tells of its history at any moment, also between update_live_state and  *)
(* resolve, where a killed process leaves it: a live flag is true of the   *)
(* bars, so the next evaluation arrives at the outcome the flag announced. *)
(***************************************************************************)
EXTENDS CryptoValidation, TLAPS, SequenceTheorems

\* update_live_state makes rows of rows.
LEMMA UpdateType ==
    ASSUME NEW rows \in Seq(JournalRows), NEW id, NEW hit \in SUBSET Flags, NEW sell \in Int
    PROVE  update_live_state(rows, id, hit, sell) \in Seq(JournalRows)
  <1>1. ASSUME NEW row \in JournalRows
        PROVE  MarkLive(row, hit, sell) \in JournalRows
    BY DEF MarkLive, PriceOr, JournalRows
  <1>2. \A i \in DOMAIN rows : rows[i] \in JournalRows
    OBVIOUS
  <1>3. QED
    BY <1>1, <1>2 DEF update_live_state

\* resolve makes rows of rows.
LEMMA ResolveType ==
    ASSUME NEW rows \in Seq(JournalRows), NEW id, NEW status \in {"STOP_LOSS", "TARGET_2"},
           NEW exit \in Int, NEW outcome \in Int, NEW time \in Minutes
    PROVE  resolve(rows, id, status, exit, outcome, time) \in Seq(JournalRows)
  <1>1. ASSUME NEW row \in JournalRows
        PROVE  Close(row, status, exit, outcome, time) \in JournalRows
    BY DEF Close, JournalRows
  <1>2. \A i \in DOMAIN rows : rows[i] \in JournalRows
    OBVIOUS
  <1>3. QED
    BY <1>1, <1>2 DEF resolve

\* The scanner's plans carry integers only.
LEMMA PlanType ==
    ASSUME NEW row \in JournalRows
    PROVE  /\ row.plan \in Plans
           /\ row.timestamp \in 1..MaxMinute
           /\ row.plan.stop_loss \in Int /\ row.plan.target_1 \in Int
           /\ row.plan.target_2 \in Int /\ row.plan.risk_reward \in Int
  BY ConstantsAssumption DEF JournalRows, Plans, Minutes

\* What the type of a row says of its fields.
LEMMA RowTypes ==
    ASSUME NEW rows \in Seq(JournalRows), NEW i \in DOMAIN rows
    PROVE  /\ rows[i] \in JournalRows /\ rows[i].timestamp \in Minutes /\ rows[i].timestamp \in Int
           /\ rows[i].plan \in Candidates
  <1>1. rows[i] \in JournalRows
    OBVIOUS
  <1> QED
    BY <1>1, ConstantsAssumption DEF JournalRows, Minutes

\* The row an alert is recorded as is well-formed.
LEMMA NewRecordType ==
    ASSUME NEW c \in Candidates, timestamp \in Minutes
    PROVE  NewRecord(<<c.symbol, c.direction, timestamp>>, c, timestamp) \in JournalRows
  <1>1. c.symbol \in Symbols /\ c.direction \in Directions
    BY ConstantsAssumption DEF Plans
  <1> QED
    BY <1>1 DEF NewRecord, JournalRows, Ids, Flags

-----------------------------------------------------------------------------
\* Type correctness, as one conjunct of the inductive invariant.
LEMMA TypeStep == IInv /\ [Next]_vars => TypeOK'
  <1> SUFFICES ASSUME IInv, [Next]_vars PROVE TypeOK'
    OBVIOUS
  <1> USE ConstantsAssumption DEF Minutes
  <1>0. TypeOK /\ TodoInv /\ WalkInv /\ IdsInv /\ PendingInv
    BY DEF IInv
  <1>1. CASE Clock
    BY <1>0, <1>1 DEF Clock, local, TypeOK
  <1>2. CASE BeginCycle
    BY <1>0, <1>2 DEF BeginCycle, Scans, TypeOK, PcValues
  <1>3. ASSUME NEW c \in pending, SkipCandidate(c) PROVE TypeOK'
    BY <1>0, <1>3 DEF SkipCandidate, TypeOK
  <1>4. ASSUME NEW c \in pending, RecordAlert(c) PROVE TypeOK'
    <2>1. timestamp \in Minutes
      BY <1>0, <1>4 DEF RecordAlert, IdsInv, TypeOK
    <2> QED
      BY <1>0, <1>4, <2>1, NewRecordType DEF RecordAlert, record, TypeOK
  <1>5. CASE BeginOutcomes
    BY <1>0, <1>5 DEF BeginOutcomes, TypeOK, PcValues
  <1>6. ASSUME NEW row \in todo, TooYoung(row) \/ FetchFails(row) PROVE TypeOK'
    BY <1>0, <1>6 DEF TooYoung, FetchFails, PassOver, TypeOK
  <1>7. ASSUME NEW row \in todo, FetchBars(row) PROVE TypeOK'
    BY <1>0, <1>7, PlanType DEF FetchBars, first_closed_bar_start, TypeOK, PcValues
  <1>8. CASE EndCycle
    BY <1>0, <1>8 DEF EndCycle, local, TypeOK, PcValues
  <1>9. CASE BarsExhausted
    BY <1>0, <1>9 DEF BarsExhausted, NextRow, TypeOK, PcValues
  <1>10. CASE SkipBar \/ QuietBar
    <2>1. cursor <= LastFetched(current) /\ cursor' = cursor + 1 /\ pc = "bars"
      BY <1>10 DEF SkipBar, QuietBar, AtBar
    <2>2. current \in JournalRows
      BY <1>0, <2>1 DEF WalkInv, Walking
    <2>3. current.timestamp \in Int /\ cursor \in 0..(MaxMinute + 1) /\ timestamp \in 0..MaxMinute
      BY <1>0, <2>2, PlanType DEF TypeOK
    <2>4. LastFetched(current) <= MaxMinute
      BY <2>3, ConstantsAssumption DEF LastFetched, first_closed_bar_start
    <2>5. cursor' \in 0..(MaxMinute + 1)
      BY <2>1, <2>3, <2>4, ConstantsAssumption DEF LastFetched, first_closed_bar_start
    <2> QED
      BY <1>0, <1>10, <2>5 DEF SkipBar, QuietBar, TypeOK
  <1>11. CASE Target1Bar
    <2>1. current \in JournalRows /\ current.plan.target_1 \in Int
      BY <1>0, <1>11, PlanType DEF Target1Bar, AtBar, WalkInv, Walking
    <2>2. /\ journal' = update_live_state(journal, current.signal_id, {"target_1_achieved"},
                                          current.plan.target_1)
          /\ \E i \in DOMAIN journal' : current' = journal'[i]
      BY <1>11 DEF Target1Bar
    <2>2a. journal' \in Seq(JournalRows)
      BY <1>0, <2>1, <2>2, UpdateType DEF TypeOK, Flags
    <2>2b. \A i \in DOMAIN journal' : journal'[i] \in JournalRows
      BY <2>2a
    <2>3. cursor' \in 0..(MaxMinute + 1)
      BY <1>0, <1>11, <2>1, PlanType DEF Target1Bar, AtBar, LastFetched, first_closed_bar_start, TypeOK
    <2> QED
      BY <1>0, <1>11, <2>2, <2>2a, <2>2b, <2>3 DEF Target1Bar, TypeOK, PcValues
  <1>12. CASE StopBar
    <2>1. /\ current \in JournalRows /\ current.plan.stop_loss \in Int
      BY <1>0, <1>12, PlanType DEF StopBar, AtBar, WalkInv, Walking, JournalRows
    <2>2. journal' \in Seq(JournalRows)
      BY <1>0, <1>12, <2>1, UpdateType DEF StopBar, TypeOK, Flags
    <2> QED
      BY <1>0, <1>12, <2>2 DEF StopBar, local, TypeOK, PcValues
  <1>13. CASE Target2Bar
    <2>1. /\ current \in JournalRows /\ current.plan.target_2 \in Int
      BY <1>0, <1>13, PlanType DEF Target2Bar, AtBar, WalkInv, Walking, JournalRows
    <2>2. journal' \in Seq(JournalRows)
      BY <1>0, <1>13, <2>1, UpdateType DEF Target2Bar, TypeOK, Flags
    <2> QED
      BY <1>0, <1>13, <2>2 DEF Target2Bar, local, TypeOK, PcValues
  <1>14. CASE ResolveStop
    <2>1. /\ current \in JournalRows /\ cursor \in Minutes
          /\ current.plan.stop_loss \in Int /\ current.plan.risk_reward \in Int
      BY <1>0, <1>14, PlanType DEF ResolveStop, WalkInv, Walking, TypeOK
    <2>2. journal' = resolve(journal, current.signal_id, "STOP_LOSS",
                             current.plan.stop_loss, -1, cursor)
      BY <1>14 DEF ResolveStop
    <2>3. -1 \in Int
      OBVIOUS
    <2>4. journal' \in Seq(JournalRows)
      BY <1>0, <2>1, <2>2, <2>3, ResolveType DEF TypeOK
    <2> QED
      BY <1>0, <1>14, <2>4 DEF ResolveStop, NextRow, TypeOK, PcValues
  <1>15. CASE ResolveTarget2
    <2>1. /\ current \in JournalRows /\ cursor \in Minutes
          /\ current.plan.target_2 \in Int /\ current.plan.risk_reward \in Int
      BY <1>0, <1>15, PlanType DEF ResolveTarget2, WalkInv, Walking, TypeOK
    <2>2. journal' \in Seq(JournalRows)
      BY <1>0, <1>15, <2>1, ResolveType DEF ResolveTarget2, TypeOK
    <2> QED
      BY <1>0, <1>15, <2>2 DEF ResolveTarget2, NextRow, TypeOK, PcValues
  <1>16. CASE Crash
    BY <1>0, <1>16 DEF Crash, TypeOK, PcValues
  <1>17. CASE UNCHANGED vars
    BY <1>0, <1>17 DEF vars, TypeOK
  <1> QED
    BY <1>1, <1>2, <1>3, <1>4, <1>5, <1>6, <1>7, <1>8, <1>9, <1>10, <1>11, <1>12, <1>13,
       <1>14, <1>15, <1>16, <1>17 DEF Next, Work, WalkBars

-----------------------------------------------------------------------------
\* What the two rewriting methods do to one row.
LEMMA UpdateEffect ==
    ASSUME NEW rows \in Seq(JournalRows), NEW id, NEW hit, NEW sell,
           NEW new, new = update_live_state(rows, id, hit, sell)
    PROVE  /\ DOMAIN new = DOMAIN rows
           /\ \A i \in DOMAIN rows :
                /\ new[i].signal_id = rows[i].signal_id /\ new[i].timestamp = rows[i].timestamp
                /\ new[i].plan = rows[i].plan /\ new[i].status = rows[i].status
                /\ new[i].exit_price = rows[i].exit_price
                /\ new[i].outcome_r = rows[i].outcome_r
                /\ new[i].resolved_at = rows[i].resolved_at
                /\ ~Selects(rows[i], id) => new[i] = rows[i]
                /\ Selects(rows[i], id) => new[i].hit = rows[i].hit \cup hit
  <1>1. \A i \in DOMAIN rows : rows[i] \in JournalRows
    OBVIOUS
  <1> QED
    BY <1>1 DEF update_live_state, MarkLive, JournalRows

\* resolve closes exactly the open rows with the id and leaves the others.
LEMMA ResolveEffect ==
    ASSUME NEW rows \in Seq(JournalRows), NEW id, NEW status, NEW exit, NEW outcome, NEW time,
           NEW new, new = resolve(rows, id, status, exit, outcome, time)
    PROVE  /\ DOMAIN new = DOMAIN rows
           /\ \A i \in DOMAIN rows :
                /\ new[i].signal_id = rows[i].signal_id /\ new[i].timestamp = rows[i].timestamp
                /\ new[i].plan = rows[i].plan /\ new[i].hit = rows[i].hit
                /\ ~Selects(rows[i], id) => new[i] = rows[i]
                /\ Selects(rows[i], id) =>
                     /\ new[i].status = status /\ new[i].exit_price = exit
                     /\ new[i].outcome_r = outcome /\ new[i].resolved_at = time
  <1>1. \A i \in DOMAIN rows : rows[i] \in JournalRows
    OBVIOUS
  <1> QED
    BY <1>1 DEF resolve, Close, JournalRows

Rewrites == Target1Bar \/ StopBar \/ Target2Bar \/ ResolveStop \/ ResolveTarget2

\* RecordAlert as the rows see it: the old ones, and one more for the candidate.
Appended(c) ==
    /\ journal \in Seq(JournalRows)
    /\ DOMAIN journal = 1..Len(journal) /\ Len(journal) \in Nat
    /\ DOMAIN journal' = DOMAIN journal \cup {Len(journal) + 1}
    /\ \A i \in DOMAIN journal : journal'[i] = journal[i]
    /\ journal'[Len(journal) + 1] = NewRecord(<<c.symbol, c.direction, timestamp>>, c, timestamp)
    /\ pending' = pending \ {c}
    /\ pc = "alerts" /\ Confirmed(c) /\ ~Duplicate(c)
    /\ UNCHANGED <<bars, minute, pc, timestamp, todo, current, cursor, crashes>>

\* Every step leaves the journal, appends to it, or rewrites the current row.
LEMMA StepShape ==
    ASSUME IInv, [Next]_vars
    PROVE  \/ journal' = journal
           \/ \E c \in pending : Appended(c)
           \/ Rewrites
  <1>1. ASSUME NEW c \in pending, RecordAlert(c) PROVE Appended(c)
    BY <1>1 DEF IInv, TypeOK, RecordAlert, record, Appended
  <1> QED
    BY <1>1 DEF Next, Work, WalkBars, Clock, BeginCycle, SkipCandidate, BeginOutcomes, TooYoung,
           FetchFails, PassOver, FetchBars, EndCycle, BarsExhausted, SkipBar, QuietBar, Crash,
           Rewrites, vars, local

\* A rewrite keeps every row's identity, and touches no row but the current one.
LEMMA RewriteShape ==
    ASSUME IInv, Rewrites
    PROVE  /\ journal \in Seq(JournalRows)
           /\ DOMAIN journal' = DOMAIN journal
           /\ current \in JournalRows
           /\ \A i \in DOMAIN journal :
                /\ journal'[i].signal_id = journal[i].signal_id
                /\ journal'[i].timestamp = journal[i].timestamp
                /\ journal'[i].plan = journal[i].plan
                /\ ~Selects(journal[i], current.signal_id) => journal'[i] = journal[i]
           /\ UNCHANGED <<bars, minute, timestamp, pending, todo, crashes>>
  <1>0. Walking
    BY DEF Walking, Rewrites, Target1Bar, StopBar, Target2Bar, AtBar, ResolveStop, ResolveTarget2
  <1>1. journal \in Seq(JournalRows) /\ current \in JournalRows
    BY <1>0 DEF IInv, TypeOK, WalkInv
  <1>2. /\ current.plan.stop_loss \in Int /\ current.plan.target_1 \in Int
        /\ current.plan.target_2 \in Int
    BY <1>1, PlanType
  <1>4. UNCHANGED <<bars, minute, timestamp, pending, todo, crashes>>
    BY DEF Rewrites, Target1Bar, StopBar, Target2Bar, ResolveStop, ResolveTarget2, NextRow, local
  <1>5. CASE Target1Bar
    <2>1. journal' = update_live_state(journal, current.signal_id, {"target_1_achieved"},
                                       current.plan.target_1)
      BY <1>5 DEF Target1Bar
    <2> QED
      BY <1>1, <1>2, <1>4, <2>1, UpdateEffect
  <1>6. CASE StopBar
    <2>1. journal' = update_live_state(journal, current.signal_id,
                                       (current.hit \cap {"target_1_achieved"}) \cup {"stop_loss_hit"},
                                       current.plan.stop_loss)
      BY <1>6 DEF StopBar
    <2> QED
      BY <1>1, <1>2, <1>4, <2>1, UpdateEffect
  <1>7. CASE Target2Bar
    <2>1. journal' = update_live_state(journal, current.signal_id,
                                       {"target_1_achieved", "target_2_achieved"},
                                       current.plan.target_2)
      BY <1>7 DEF Target2Bar
    <2> QED
      BY <1>1, <1>2, <1>4, <2>1, UpdateEffect
  <1>8. CASE ResolveStop
    <2>1. journal' = resolve(journal, current.signal_id, "STOP_LOSS",
                             current.plan.stop_loss, -1, cursor)
      BY <1>8 DEF ResolveStop
    <2> QED
      BY <1>1, <1>4, <2>1, ResolveEffect
  <1>9. CASE ResolveTarget2
    <2>1. journal' = resolve(journal, current.signal_id, "TARGET_2",
                             current.plan.target_2, current.plan.risk_reward, cursor)
      BY <1>9 DEF ResolveTarget2
    <2> QED
      BY <1>1, <1>4, <2>1, ResolveEffect
  <1> QED
    BY <1>5, <1>6, <1>7, <1>8, <1>9 DEF Rewrites

\* The clock and the cycle's timestamp.
LEMMA TimeShape ==
    ASSUME IInv, [Next]_vars
    PROVE  /\ bars' = bars
           /\ minute \in Minutes /\ minute' \in Minutes /\ minute <= minute'
           /\ timestamp' <= minute' /\ (pc' # "idle" => timestamp' >= 1)
           /\ timestamp \in 0..MaxMinute /\ timestamp' \in 0..MaxMinute
           /\ timestamp <= timestamp'
  <1>1. TypeOK /\ IdsInv
    BY DEF IInv
  <1>2. CASE Clock
    BY <1>1, <1>2, ConstantsAssumption DEF Clock, local, TypeOK, IdsInv, Minutes
  <1>3. CASE BeginCycle
    BY <1>1, <1>3, ConstantsAssumption DEF BeginCycle, TypeOK, IdsInv, Minutes
  <1>4. CASE UNCHANGED <<bars, minute, timestamp>> /\ (pc = "idle" => pc' = "idle")
    BY <1>1, <1>4 DEF TypeOK, IdsInv, Minutes
  <1>5. CASE Rewrites
    BY <1>4, <1>5, RewriteShape
       DEF Rewrites, Target1Bar, StopBar, Target2Bar, AtBar, ResolveStop, ResolveTarget2
  <1> QED
    BY <1>2, <1>3, <1>4, <1>5
       DEF Next, Work, WalkBars, SkipCandidate, RecordAlert, BeginOutcomes, TooYoung, FetchFails,
           PassOver, FetchBars, EndCycle, BarsExhausted, SkipBar, QuietBar, AtBar, Rewrites,
           NextRow, Crash, vars, local

\* Ids stay unique: a cycle records one row per setup, and no two cycles share a timestamp.
LEMMA IdsStep == IInv /\ [Next]_vars => IdsInv'
  <1> SUFFICES ASSUME IInv, [Next]_vars PROVE IdsInv'
    OBVIOUS
  <1>1. TypeOK /\ IdsInv /\ PendingInv
    BY DEF IInv
  <1>2. /\ timestamp' <= minute' /\ (pc' # "idle" => timestamp' >= 1)
        /\ timestamp \in Int /\ timestamp' \in Int /\ timestamp <= timestamp'
    BY TimeShape
  <1>3. \A i \in DOMAIN journal : journal[i].timestamp \in Int
    BY <1>1, RowTypes DEF TypeOK
  <1>4. CASE journal' = journal
    BY <1>1, <1>2, <1>3, <1>4 DEF IdsInv
  <1>5. ASSUME NEW c \in pending, Appended(c) PROVE IdsInv'
    <2> DEFINE last == Len(journal) + 1
    <2>1. /\ journal'[last].signal_id = <<c.symbol, c.direction, timestamp>>
          /\ journal'[last].plan = c /\ journal'[last].timestamp = timestamp
      BY <1>5 DEF Appended, NewRecord
    <2>2. \A i \in DOMAIN journal : journal[i].signal_id # journal'[last].signal_id
      <3> SUFFICES ASSUME NEW i \in DOMAIN journal, journal[i].signal_id = journal'[last].signal_id
                   PROVE  FALSE
        OBVIOUS
      <3>1. journal[i].plan.symbol = c.symbol /\ journal[i].timestamp = timestamp
        BY <1>1, <2>1 DEF IdsInv
      <3> QED
        BY <1>1, <3>1 DEF PendingInv
    <2>3. /\ DOMAIN journal' = DOMAIN journal \cup {last}
          /\ \A i \in DOMAIN journal : journal'[i] = journal[i]
          /\ timestamp' = timestamp
      BY <1>5 DEF Appended
    <2> HIDE DEF last
    <2>4. \A i \in DOMAIN journal' :
            /\ journal'[i].signal_id =
                 <<journal'[i].plan.symbol, journal'[i].plan.direction, journal'[i].timestamp>>
            /\ journal'[i].timestamp <= timestamp'
      BY <1>1, <1>2, <2>1, <2>3 DEF IdsInv
    <2>5. \A i, j \in DOMAIN journal' :
            journal'[i].signal_id = journal'[j].signal_id => i = j
      BY <1>1, <2>2, <2>3 DEF IdsInv
    <2> QED
      BY <1>2, <2>4, <2>5 DEF IdsInv
  <1>6. CASE Rewrites
    BY <1>1, <1>2, <1>6, RewriteShape DEF IdsInv
  <1> QED
    BY <1>4, <1>5, <1>6, StepShape

\* What is still pending collides with nothing recorded in the cycle.
LEMMA PendingStep == IInv /\ [Next]_vars => PendingInv'
  <1> SUFFICES ASSUME IInv, [Next]_vars PROVE PendingInv'
    OBVIOUS
  <1>1. TypeOK /\ IdsInv /\ PendingInv
    BY DEF IInv
  <1>2. CASE BeginCycle
    <2>1. pending' = {} \/ (minute > timestamp /\ timestamp' = minute)
      BY <1>2 DEF BeginCycle, Scans
    <2>2. /\ pc' = "alerts" /\ journal' = journal
          /\ \A c, d \in pending' : c.symbol = d.symbol => c = d
      BY <1>2 DEF BeginCycle, Scans
    <2>3. \A i \in DOMAIN journal : journal[i].timestamp <= timestamp /\ journal[i].timestamp \in Int
      BY <1>1, RowTypes DEF IdsInv, TypeOK
    <2> QED
      BY <1>1, <2>1, <2>2, <2>3 DEF PendingInv, TypeOK, Minutes
  <1>3. ASSUME NEW c \in pending, RecordAlert(c) PROVE PendingInv'
    <2>0. Appended(c)
      BY <1>3 DEF IInv, TypeOK, RecordAlert, record, Appended
    <2> DEFINE last == Len(journal) + 1
    <2>1. journal'[last].plan = c
      BY <2>0 DEF Appended, NewRecord
    <2>2. /\ DOMAIN journal' = DOMAIN journal \cup {last}
          /\ \A i \in DOMAIN journal : journal'[i] = journal[i]
          /\ timestamp' = timestamp /\ pending' = pending \ {c} /\ pc' = pc
      BY <2>0 DEF Appended
    <2> HIDE DEF last
    <2> QED
      BY <1>1, <2>1, <2>2 DEF PendingInv
  <1>4. CASE Rewrites
    <2>1. pending = {}
      BY <1>1, <1>4 DEF PendingInv, Rewrites, Target1Bar, StopBar, Target2Bar, AtBar,
                        ResolveStop, ResolveTarget2
    <2> QED
      BY <1>1, <1>4, <2>1, RewriteShape DEF PendingInv
  <1>5. CASE journal' = journal /\ timestamp' = timestamp /\ pending' = pending /\ pc' = pc
    BY <1>1, <1>5 DEF PendingInv
  <1>6. CASE journal' = journal /\ timestamp' = timestamp /\ pending' = {}
    BY <1>1, <1>6 DEF PendingInv
  <1>7. ASSUME NEW c \in pending, SkipCandidate(c) PROVE PendingInv'
    BY <1>1, <1>7 DEF SkipCandidate, PendingInv
  <1> QED
    BY <1>1, <1>2, <1>3, <1>4, <1>5, <1>6, <1>7
       DEF PendingInv, Next, Work, WalkBars, Clock, BeginOutcomes, TooYoung, FetchFails, PassOver,
           FetchBars, EndCycle, BarsExhausted, SkipBar, QuietBar, AtBar, Rewrites, NextRow, Crash,
           vars, local

\* The duplicate test keeps open rows distinct; resolving only makes fewer of them open.
LEMMA NoDuplicateStep == IInv /\ [Next]_vars => NoDuplicateOpenPlan'
  <1> SUFFICES ASSUME IInv, [Next]_vars PROVE NoDuplicateOpenPlan'
    OBVIOUS
  <1>1. TypeOK /\ NoDuplicateOpenPlan
    BY DEF IInv
  <1>2. CASE journal' = journal
    BY <1>1, <1>2 DEF NoDuplicateOpenPlan
  <1>3. ASSUME NEW c \in pending, Appended(c) PROVE NoDuplicateOpenPlan'
    <2> DEFINE last == Len(journal) + 1
    <2>1. journal'[last].plan = c
      BY <1>3 DEF Appended, NewRecord
    <2>2. /\ DOMAIN journal' = DOMAIN journal \cup {last}
          /\ \A i \in DOMAIN journal : journal'[i] = journal[i] /\ i < last
      BY <1>3 DEF Appended
    <2>3. \A i \in DOMAIN journal : IsOpen(journal[i]) => ~SameSetup(journal[i].plan, c, NearScale)
      BY <1>3 DEF Appended, Duplicate
    <2>4. DOMAIN journal \subseteq Int /\ last \in Int
      BY <1>1 DEF TypeOK
    <2> HIDE DEF last
    <2> QED
      BY <1>1, <2>1, <2>2, <2>3, <2>4 DEF NoDuplicateOpenPlan
  <1>4. CASE Rewrites
    <2>1. \A i \in DOMAIN journal : IsOpen(journal'[i]) => IsOpen(journal[i])
      BY <1>4, RewriteShape DEF Selects
    <2> QED
      BY <1>1, <1>4, <2>1, RewriteShape DEF NoDuplicateOpenPlan
  <1> QED
    BY <1>2, <1>3, <1>4, StepShape

\* Rows still to be looked at are as the journal has them: only the current row is written.
LEMMA TodoStep == IInv /\ [Next]_vars => TodoInv'
  <1> SUFFICES ASSUME IInv, [Next]_vars PROVE TodoInv'
    OBVIOUS
  <1>1. TypeOK /\ IdsInv /\ PendingInv /\ TodoInv
    BY DEF IInv
  <1>2. CASE todo' = {}
    BY <1>2 DEF TodoInv
  <1>3. CASE BeginOutcomes
    BY <1>3 DEF BeginOutcomes, TodoInv, Walking
  <1>4. ASSUME NEW row \in todo, TooYoung(row) \/ FetchFails(row) PROVE TodoInv'
    BY <1>1, <1>4 DEF TooYoung, FetchFails, PassOver, TodoInv, Walking
  <1>5. ASSUME NEW row \in todo, FetchBars(row) PROVE TodoInv'
    <2>1. /\ journal' = journal /\ todo' = todo \ {row} /\ current' = row /\ pc' = "bars"
      BY <1>5 DEF FetchBars
    <2>2. \A other \in todo' : other.signal_id # row.signal_id
      BY <1>1, <2>1 DEF TodoInv, IdsInv
    <2> QED
      BY <1>1, <2>1, <2>2 DEF TodoInv, Walking
  <1>6. CASE Rewrites
    <2>1. Walking /\ (pc' = "rows" \/ Walking')
      BY <1>6 DEF Rewrites, Target1Bar, StopBar, Target2Bar, AtBar, ResolveStop, ResolveTarget2,
                  NextRow, Walking
    <2>2. Walking' => current'.signal_id = current.signal_id
      BY <1>6 DEF Rewrites, Target1Bar, StopBar, Target2Bar, ResolveStop, ResolveTarget2,
                  NextRow, Walking, local
    <2>3. /\ todo' = todo /\ DOMAIN journal' = DOMAIN journal
          /\ \A i \in DOMAIN journal :
                ~Selects(journal[i], current.signal_id) => journal'[i] = journal[i]
      BY <1>6, RewriteShape
    <2>4. \A row \in todo : \E i \in DOMAIN journal' : journal'[i] = row
      BY <1>1, <2>1, <2>3 DEF TodoInv, Selects
    <2> QED
      BY <1>1, <2>1, <2>2, <2>3, <2>4 DEF TodoInv
  <1>7. CASE UNCHANGED <<journal, todo, pc, current>>
    BY <1>1, <1>7 DEF TodoInv, Walking
  <1>8. CASE BarsExhausted
    BY <1>1, <1>8 DEF BarsExhausted, NextRow, TodoInv, Walking
  <1>9. ASSUME NEW c \in pending, SkipCandidate(c) \/ RecordAlert(c) PROVE TodoInv'
    BY <1>1, <1>9, <1>2 DEF SkipCandidate, RecordAlert, TodoInv, Walking
  <1>10. CASE BeginCycle
    BY <1>1, <1>10, <1>2 DEF BeginCycle, TodoInv, Walking
  <1>11. CASE SkipBar \/ QuietBar \/ Clock
    BY <1>1, <1>11, <1>7 DEF SkipBar, QuietBar, Clock, local
  <1>12. CASE Crash \/ EndCycle
    BY <1>1, <1>12, <1>2 DEF Crash, EndCycle, local
  <1>13. CASE UNCHANGED vars
    BY <1>13, <1>7 DEF vars
  <1> QED
    BY <1>3, <1>4, <1>5, <1>6, <1>8, <1>9, <1>10, <1>11, <1>12, <1>13
       DEF Next, Work, WalkBars, Rewrites

\* The current row is a row of the journal, and nothing else has its identity.
LEMMA CurrentRow ==
    ASSUME IInv, Walking
    PROVE  /\ current \in JournalRows /\ current.timestamp \in Int /\ current.timestamp >= 1
           /\ \E i \in DOMAIN journal :
                /\ Selects(journal[i], current.signal_id)
                /\ journal[i].plan = current.plan /\ journal[i].timestamp = current.timestamp
                /\ Has(current, "target_1_achieved") \/ pc = "target_2"
                      => Has(journal[i], "target_1_achieved")
                /\ pc = "bars" => journal[i] = current
                /\ \A j \in DOMAIN journal : Selects(journal[j], current.signal_id) => j = i
  <1>1. current \in JournalRows
    BY DEF IInv, WalkInv
  <1>2. current.timestamp \in Int /\ current.timestamp >= 1
    BY <1>1, ConstantsAssumption DEF JournalRows, Minutes
  <1> QED
    BY <1>1, <1>2 DEF IInv, WalkInv, IdsInv, Selects

\* The branch a bar takes, in terms of the levels it touches.
LEMMA VerdictMeaning ==
    ASSUME NEW plan, NEW bar
    PROVE  /\ Verdict(plan, bar) = "STOP_LOSS" <=> HitsStop(plan, bar)
           /\ Verdict(plan, bar) = "TARGET_2" <=> ~HitsStop(plan, bar) /\ HitsTarget2(plan, bar)
           /\ Verdict(plan, bar) = "TARGET_1" <=>
                ~HitsStop(plan, bar) /\ ~HitsTarget2(plan, bar) /\ HitsTarget1(plan, bar)
           /\ Verdict(plan, bar) = "NONE" <=>
                ~HitsStop(plan, bar) /\ ~HitsTarget2(plan, bar) /\ ~HitsTarget1(plan, bar)
  BY DEF Verdict

\* Each step of the walk leaves undecided bars only behind the cursor.
LEMMA WalkStep == IInv /\ [Next]_vars => WalkInv'
  <1> SUFFICES ASSUME IInv, [Next]_vars PROVE WalkInv'
    OBVIOUS
  <1>1. TypeOK /\ TodoInv /\ WalkInv /\ IdsInv
    BY DEF IInv
  <1>t. /\ cursor \in Int /\ timestamp \in Int /\ minute \in Int
        /\ Minutes \subseteq Int /\ bars' = bars
    BY <1>1, TimeShape, ConstantsAssumption DEF TypeOK, Minutes
  <1>2. CASE ~Walking'
    BY <1>2 DEF WalkInv
  <1>3. CASE UNCHANGED <<journal, pc, timestamp, current, cursor>>
    BY <1>1, <1>t, <1>3 DEF WalkInv, Walking, DecisiveAt, BarOf
  <1>4. ASSUME NEW row \in todo, FetchBars(row) PROVE WalkInv'
    <2>1. /\ current' = row /\ cursor' = row.timestamp + 1 /\ pc' = "bars"
          /\ journal' = journal /\ timestamp' = timestamp
      BY <1>4 DEF FetchBars, first_closed_bar_start
    <2>2. PICK i \in DOMAIN journal : journal[i] = row /\ IsOpen(row)
      BY <1>1 DEF TodoInv
    <2>3. row \in JournalRows /\ row.timestamp \in Int
      BY <1>1, <2>2, RowTypes DEF TypeOK
    <2>4. \A k \in Minutes : k < cursor' => ~(row.timestamp < k)
      BY <1>t, <2>1, <2>3
    <2> QED
      BY <1>t, <2>1, <2>2, <2>3, <2>4 DEF WalkInv, Walking, DecisiveAt, Has
  <1>5. CASE SkipBar
    <2>1. /\ pc = "bars" /\ pc' = "bars" /\ cursor' = cursor + 1
          /\ UNCHANGED <<journal, timestamp, current>> /\ ~InWindow(current, cursor)
      BY <1>5 DEF SkipBar
    <2>2. current.timestamp < cursor /\ current.timestamp \in Int
      BY <1>1, <2>1, CurrentRow DEF WalkInv, Walking
    <2>3. cursor >= timestamp
      BY <1>t, <2>1, <2>2 DEF InWindow, first_closed_bar_start
    <2>4. \A k \in Minutes : k < timestamp => k < cursor
      BY <1>t, <2>3
    <2> QED
      BY <1>1, <1>t, <2>1, <2>2, <2>4 DEF WalkInv, Walking, DecisiveAt, BarOf
  <1>7. CASE QuietBar
    <2>1. /\ pc = "bars" /\ current.timestamp < cursor /\ cursor < timestamp
          /\ pc' = "bars" /\ cursor' = cursor + 1 /\ UNCHANGED <<journal, timestamp, current>>
      BY <1>1, <1>7 DEF QuietBar, AtBar, InWindow, WalkInv, Walking
    <2>2. /\ ~HitsStop(current.plan, BarOf(current, cursor))
          /\ ~HitsTarget2(current.plan, BarOf(current, cursor))
          /\ HitsTarget1(current.plan, BarOf(current, cursor)) => Has(current, "target_1_achieved")
      BY <1>7, VerdictMeaning DEF QuietBar, AtBar
    <2>3. \A k \in Minutes : k < cursor' => k < cursor \/ k = cursor
      BY <1>t, <2>1
    <2>4. current.timestamp < cursor'
      BY <1>t, <2>1, CurrentRow DEF Walking
    <2> QED
      BY <1>1, <1>t, <2>1, <2>2, <2>3, <2>4 DEF WalkInv, Walking, DecisiveAt, BarOf
  <1>8. CASE Target1Bar
    <2>1. /\ pc = "bars" /\ current.timestamp < cursor /\ cursor < timestamp
          /\ pc' = "bars" /\ cursor' = cursor + 1 /\ timestamp' = timestamp
      BY <1>1, <1>8 DEF Target1Bar, AtBar, InWindow, WalkInv, Walking
    <2>2. /\ ~HitsStop(current.plan, BarOf(current, cursor))
          /\ ~HitsTarget2(current.plan, BarOf(current, cursor))
      BY <1>8, VerdictMeaning DEF Target1Bar, AtBar
    <2>3. PICK i \in DOMAIN journal :
            /\ Selects(journal[i], current.signal_id)
            /\ journal[i].plan = current.plan /\ journal[i].timestamp = current.timestamp
      BY <2>1, CurrentRow DEF Walking
    <2>4. /\ journal \in Seq(JournalRows)
          /\ journal' = update_live_state(journal, current.signal_id, {"target_1_achieved"},
                                          current.plan.target_1)
      BY <1>1, <1>8 DEF Target1Bar, TypeOK
    <2>5. PICK j \in DOMAIN journal' :
            journal'[j].signal_id = current.signal_id /\ current' = journal'[j]
      BY <1>8 DEF Target1Bar
    <2>6. /\ DOMAIN journal' = DOMAIN journal
          /\ \A n \in DOMAIN journal : /\ journal'[n].signal_id = journal[n].signal_id
                                       /\ journal'[n].plan = journal[n].plan
                                       /\ journal'[n].timestamp = journal[n].timestamp
                                       /\ journal'[n].status = journal[n].status
      BY <2>4, UpdateEffect
    <2>7. j = i
      BY <1>1, <2>3, <2>5, <2>6 DEF IdsInv, Selects
    <2>8. journal'[i].hit = journal[i].hit \cup {"target_1_achieved"}
      BY <2>3, <2>4, UpdateEffect
    <2>9. current' \in JournalRows /\ IsOpen(current') /\ Has(current', "target_1_achieved")
      <3>1. TypeOK'
        BY TypeStep
      <3>2. journal'[i] \in JournalRows
        BY <3>1, <2>6, RowTypes DEF TypeOK
      <3> QED
        BY <3>2, <2>3, <2>5, <2>6, <2>7, <2>8 DEF IsOpen, Has, Selects
    <2>10. /\ current'.plan = current.plan /\ current'.timestamp = current.timestamp
           /\ current' = journal'[i] /\ i \in DOMAIN journal'
      BY <2>3, <2>5, <2>6, <2>7
    <2>11. \A k \in Minutes : k < cursor' => k < cursor \/ k = cursor
      BY <1>t, <2>1
    <2>12. current.timestamp < cursor'
      BY <1>t, <2>1, CurrentRow DEF Walking
    <2> QED
      BY <1>1, <1>t, <2>1, <2>2, <2>9, <2>10, <2>11, <2>12 DEF WalkInv, Walking, DecisiveAt, BarOf
  <1>9. CASE StopBar \/ Target2Bar
    <2>1. /\ pc = "bars" /\ current.timestamp < cursor /\ cursor < timestamp
          /\ UNCHANGED <<timestamp, current, cursor>>
      BY <1>1, <1>9 DEF StopBar, Target2Bar, AtBar, InWindow, WalkInv, Walking, local
    <2>2. \/ pc' = "stop" /\ HitsStop(current.plan, BarOf(current, cursor))
          \/ /\ pc' = "target_2" /\ HitsTarget2(current.plan, BarOf(current, cursor))
             /\ ~HitsStop(current.plan, BarOf(current, cursor))
      BY <1>9, VerdictMeaning DEF StopBar, Target2Bar, AtBar
    <2>3. PICK i \in DOMAIN journal :
            /\ Selects(journal[i], current.signal_id)
            /\ journal[i].plan = current.plan /\ journal[i].timestamp = current.timestamp
            /\ Has(current, "target_1_achieved") => Has(journal[i], "target_1_achieved")
      BY <2>1, CurrentRow DEF Walking
    <2>4. PICK hit, sell :
            /\ journal \in Seq(JournalRows)
            /\ journal' = update_live_state(journal, current.signal_id, hit, sell)
            /\ pc' = "target_2" => "target_1_achieved" \in hit
      BY <1>1, <1>9 DEF StopBar, Target2Bar, TypeOK
    <2>5. /\ i \in DOMAIN journal'
          /\ journal'[i].signal_id = journal[i].signal_id /\ journal'[i].plan = journal[i].plan
          /\ journal'[i].timestamp = journal[i].timestamp /\ journal'[i].status = journal[i].status
          /\ journal'[i].hit = journal[i].hit \cup hit
      BY <2>3, <2>4, UpdateEffect
    <2>6. Has(current, "target_1_achieved") \/ pc' = "target_2"
            => Has(journal'[i], "target_1_achieved")
      BY <2>3, <2>4, <2>5 DEF Has
    <2> QED
      BY <1>1, <1>t, <2>1, <2>2, <2>3, <2>5, <2>6
         DEF WalkInv, Walking, DecisiveAt, BarOf, Selects, IsOpen, Has
  <1>10. CASE ResolveStop \/ ResolveTarget2 \/ BarsExhausted
    BY <1>2, <1>10 DEF ResolveStop, ResolveTarget2, BarsExhausted, NextRow, Walking
  <1>11. CASE Clock \/ UNCHANGED vars
    BY <1>3, <1>11 DEF Clock, vars, local
  <1>12. CASE BeginCycle \/ BeginOutcomes \/ EndCycle \/ Crash
    BY <1>2, <1>12 DEF BeginCycle, BeginOutcomes, EndCycle, Crash, Walking
  <1>13. ASSUME NEW c \in pending, SkipCandidate(c) \/ RecordAlert(c) PROVE WalkInv'
    BY <1>2, <1>13 DEF SkipCandidate, RecordAlert, Walking
  <1>14. ASSUME NEW row \in todo, TooYoung(row) \/ FetchFails(row) PROVE WalkInv'
    BY <1>2, <1>14 DEF TooYoung, FetchFails, PassOver, Walking
  <1> QED
    BY <1>4, <1>5, <1>7, <1>8, <1>9, <1>10, <1>11, <1>12, <1>13, <1>14
       DEF Next, Work, WalkBars

\* Prices are integers, so a bar beyond the second target is beyond the first.
LEMMA Target2ImpliesTarget1 ==
    ASSUME NEW plan \in Candidates, NEW bar \in Bars, HitsTarget2(plan, bar)
    PROVE  HitsTarget1(plan, bar)
  <1>1. /\ plan.target_1 \in Int /\ plan.target_2 \in Int
        /\ bar.low \in Int /\ bar.high \in Int
    BY ConstantsAssumption DEF Plans, Candles
  <1>2. IF Long(plan) THEN plan.target_1 <= plan.target_2 ELSE plan.target_1 >= plan.target_2
    BY ConstantsAssumption
  <1> QED
    BY <1>1, <1>2 DEF HitsTarget1, HitsTarget2

\* Whatever is written to a row is true of its history.
LEMMA HistoryStep == IInv /\ [Next]_vars => HistoryInv'
  <1> SUFFICES ASSUME IInv, [Next]_vars PROVE HistoryInv'
    OBVIOUS
  <1>1. TypeOK /\ HistoryInv /\ WalkInv /\ IdsInv
    BY DEF IInv
  <1>t. /\ cursor \in Int /\ timestamp \in Int /\ minute \in Int /\ minute' \in Int
        /\ Minutes \subseteq Int /\ bars' = bars /\ minute <= minute' /\ timestamp <= minute
    BY <1>1, TimeShape, ConstantsAssumption DEF TypeOK, IdsInv, Minutes
  <1>2. ASSUME NEW i \in DOMAIN journal, i \in DOMAIN journal', journal'[i] = journal[i]
        PROVE  RowInv(journal[i])'
    <2>1. PICK row : row = journal[i]
      OBVIOUS
    <2>2. RowInv(row)
      BY <1>1, <2>1 DEF HistoryInv
    <2>3. ASSUME EarnedTarget1(row) PROVE EarnedTarget1(row)'
      <3>1. PICK m \in Minutes :
              /\ row.timestamp < m /\ m < minute
              /\ HitsTarget1(row.plan, BarOf(row, m)) /\ ~HitsStop(row.plan, BarOf(row, m))
              /\ \A k \in Minutes : k < m => ~DecisiveAt(row, k)
        BY <2>3 DEF EarnedTarget1
      <3>2. m \in Int
        BY <1>t
      <3>3. m < minute'
        BY <1>t, <3>1, <3>2
      <3>4. bars' = bars
        BY <1>t
      <3> QED
        BY <3>1, <3>3, <3>4 DEF EarnedTarget1, DecisiveAt, BarOf
    <2>4. \A m : FirstDecisive(row, m)' <=> FirstDecisive(row, m)
      BY <1>t DEF FirstDecisive, DecisiveAt, BarOf
    <2>5. (WonHistory(row) => WonHistory(row)') /\ (LostHistory(row) => LostHistory(row)')
      BY <1>t DEF WonHistory, LostHistory, FirstDecisive, DecisiveAt, BarOf
    <2>6. /\ WonAt(row, row.resolved_at) => WonAt(row, row.resolved_at)'
          /\ LostAt(row, row.resolved_at) => LostAt(row, row.resolved_at)'
      BY <1>t DEF WonAt, LostAt, FirstDecisive, DecisiveAt, BarOf
    <2>7. ASSUME ~IsOpen(row), EarnedTarget1(row)' PROVE EarnedTarget1(row)
      <3>1. row.resolved_at \in Minutes /\ row.resolved_at < minute /\ DecisiveAt(row, row.resolved_at)
        BY <2>2, <2>7 DEF RowInv, WonAt, LostAt, FirstDecisive
      <3>2. PICK m \in Minutes :
              /\ row.timestamp < m
              /\ HitsTarget1(row.plan, BarOf(row, m)) /\ ~HitsStop(row.plan, BarOf(row, m))
              /\ \A k \in Minutes : k < m => ~DecisiveAt(row, k)
        BY <1>t, <2>7 DEF EarnedTarget1, DecisiveAt, BarOf
      <3>3. ~(row.resolved_at < m) /\ m \in Int /\ row.resolved_at \in Int
        BY <1>t, <3>1, <3>2
      <3>4. m < minute
        BY <1>t, <3>1, <3>3
      <3> QED
        BY <3>2, <3>4 DEF EarnedTarget1
    <2>9. ASSUME ~IsOpen(row)
          PROVE  /\ row.resolved_at \in Minutes /\ row.resolved_at < minute'
                 /\ WonAt(row, row.resolved_at)' \/ LostAt(row, row.resolved_at)'
                 /\ EarnedTarget1(row)' => Has(row, "target_1_achieved")
      <3>1. row.resolved_at \in Minutes /\ row.resolved_at < minute
        BY <2>2, <2>9 DEF RowInv
      <3>2. row.resolved_at \in Int
        BY <1>t, <3>1
      <3>3. row.resolved_at < minute'
        BY <1>t, <3>1, <3>2
      <3>4. WonAt(row, row.resolved_at)' \/ LostAt(row, row.resolved_at)'
        BY <2>2, <2>6, <2>9 DEF RowInv
      <3>5. EarnedTarget1(row)' => Has(row, "target_1_achieved")
        BY <2>2, <2>7, <2>9 DEF RowInv
      <3> QED
        BY <3>1, <3>3, <3>4, <3>5
    <2>8. RowInv(row)'
      BY <2>2, <2>3, <2>5, <2>9 DEF RowInv
    <2> QED
      BY <1>2, <2>1, <2>8
         DEF RowInv, EarnedTarget1, WonHistory, LostHistory, WonAt, LostAt, FirstDecisive,
             DecisiveAt, BarOf, Has, IsOpen
  <1>3. CASE journal' = journal
    BY <1>2, <1>3 DEF HistoryInv
  <1>4. ASSUME NEW c \in pending, Appended(c) PROVE HistoryInv'
    <2> DEFINE last == Len(journal) + 1
    <2>1. /\ journal'[last].hit = {} /\ journal'[last].status = "OPEN"
          /\ journal'[last].exit_price = None /\ journal'[last].outcome_r = None
          /\ journal'[last].resolved_at = None
      BY <1>4 DEF Appended, NewRecord
    <2>2. /\ DOMAIN journal' = DOMAIN journal \cup {last}
          /\ \A i \in DOMAIN journal : journal'[i] = journal[i]
      BY <1>4 DEF Appended
    <2> HIDE DEF last
    <2>3. \A i \in {last} : RowInv(journal[i])'
      BY <2>1 DEF RowInv, Has, IsOpen
    <2>4. \A i \in DOMAIN journal : RowInv(journal[i])'
      BY <1>2, <2>2
    <2> QED
      BY <2>2, <2>3, <2>4 DEF HistoryInv
  <1>5. CASE Rewrites
    <2>1. /\ journal \in Seq(JournalRows) /\ DOMAIN journal' = DOMAIN journal
          /\ \A j \in DOMAIN journal :
                /\ journal'[j].plan = journal[j].plan
                /\ journal'[j].timestamp = journal[j].timestamp
                /\ ~Selects(journal[j], current.signal_id) => journal'[j] = journal[j]
          /\ minute' = minute
      BY <1>5, RewriteShape
    <2>2. Walking
      BY <1>5 DEF Walking, Rewrites, Target1Bar, StopBar, Target2Bar, AtBar,
                  ResolveStop, ResolveTarget2
    <2>3. PICK i \in DOMAIN journal :
            /\ Selects(journal[i], current.signal_id)
            /\ journal[i].plan = current.plan /\ journal[i].timestamp = current.timestamp
            /\ Has(current, "target_1_achieved") \/ pc = "target_2"
                  => Has(journal[i], "target_1_achieved")
            /\ pc = "bars" => journal[i] = current
            /\ \A j \in DOMAIN journal : Selects(journal[j], current.signal_id) => j = i
      BY <2>2, CurrentRow
    <2>4. \A j \in DOMAIN journal \ {i} : RowInv(journal[j])'
      BY <1>2, <2>1, <2>3
    <2>5. PICK old : old = journal[i]
      OBVIOUS
    <2>6. PICK row : row = journal'[i]
      OBVIOUS
    <2>7. /\ RowInv(old) /\ IsOpen(old) /\ old.plan = current.plan
          /\ old.timestamp = current.timestamp /\ row.plan = old.plan
          /\ row.timestamp = old.timestamp
      BY <1>1, <2>1, <2>3, <2>5, <2>6 DEF HistoryInv, Selects
    <2>8. /\ EarnedTarget1(row) <=> EarnedTarget1(old)
          /\ WonHistory(row) <=> WonHistory(old)
          /\ LostHistory(row) <=> LostHistory(old)
      BY <2>7 DEF EarnedTarget1, WonHistory, LostHistory, FirstDecisive, DecisiveAt, BarOf
    <2>9. /\ old.exit_price = None /\ old.outcome_r = None /\ old.resolved_at = None
          /\ Has(old, "target_1_achieved") => EarnedTarget1(row)
          /\ Has(old, "target_2_achieved") => WonHistory(row)
          /\ Has(old, "stop_loss_hit") => LostHistory(row)
      BY <2>7, <2>8 DEF RowInv
    \* The bar under the cursor is the first that can decide the row.
    <2>10. /\ current \in JournalRows /\ current.plan \in Candidates
           /\ current.timestamp < cursor
      BY <1>1, <2>2 DEF WalkInv, JournalRows
    <2>11. \A k \in Minutes : k < cursor /\ k < timestamp => ~DecisiveAt(current, k)
      BY <1>1, <2>2 DEF WalkInv
    <2>12. ASSUME cursor < timestamp
           PROVE  /\ cursor \in Minutes /\ cursor < minute /\ row.timestamp < cursor
                  /\ \A k \in Minutes : k < cursor => ~DecisiveAt(row, k)
      <3>1. cursor < minute /\ row.timestamp < cursor
        BY <1>t, <2>7, <2>10, <2>12
      <3>2. cursor \in Minutes
        BY <1>1, <1>t, <2>2, <2>12, CurrentRow, <2>10, ConstantsAssumption DEF TypeOK, Minutes
      <3>3. \A k \in Minutes : k < cursor => k < timestamp
        BY <1>t, <2>12
      <3>4. \A k \in Minutes : k < cursor => ~DecisiveAt(row, k)
        BY <2>7, <2>11, <3>3 DEF DecisiveAt, BarOf
      <3> QED
        BY <3>1, <3>2, <3>4
    <2>13. ASSUME cursor < timestamp, HitsStop(current.plan, BarOf(current, cursor))
           PROVE  LostHistory(row) /\ FirstDecisive(row, cursor)
                  /\ HitsStop(row.plan, BarOf(row, cursor))
      BY <2>7, <2>12, <2>13 DEF LostHistory, FirstDecisive, DecisiveAt, BarOf
    <2>14. ASSUME cursor < timestamp, HitsTarget2(current.plan, BarOf(current, cursor)),
                  ~HitsStop(current.plan, BarOf(current, cursor))
           PROVE  WonHistory(row) /\ FirstDecisive(row, cursor)
                  /\ ~HitsStop(row.plan, BarOf(row, cursor))
      BY <2>7, <2>12, <2>14 DEF WonHistory, FirstDecisive, DecisiveAt, BarOf
    <2>15. ASSUME cursor < timestamp, HitsTarget1(current.plan, BarOf(current, cursor)),
                  ~HitsStop(current.plan, BarOf(current, cursor))
           PROVE  EarnedTarget1(row)
      BY <2>7, <2>12, <2>15 DEF EarnedTarget1, BarOf
    <2>16. ASSUME Target1Bar \/ StopBar \/ Target2Bar PROVE RowInv(row)
      <3>1. pc = "bars" /\ cursor < timestamp
        BY <1>t, <2>16 DEF Target1Bar, StopBar, Target2Bar, AtBar, InWindow
      <3> DEFINE Marked(hit) ==
            /\ row.status = old.status /\ row.exit_price = old.exit_price
            /\ row.outcome_r = old.outcome_r /\ row.resolved_at = old.resolved_at
            /\ row.hit = old.hit \cup hit
      <3>2. ASSUME NEW hit, NEW sell,
                   journal' = update_live_state(journal, current.signal_id, hit, sell)
            PROVE  Marked(hit)
        BY <2>1, <2>3, <2>5, <2>6, <3>2, UpdateEffect
      <3>3. \E hit \in SUBSET Flags :
              /\ Marked(hit)
              /\ "target_1_achieved" \in hit => EarnedTarget1(row)
              /\ "target_2_achieved" \in hit => WonHistory(row)
              /\ "stop_loss_hit" \in hit => LostHistory(row)
        <4>1. CASE Target1Bar
          <5>1. Marked({"target_1_achieved"})
            BY <3>2, <4>1 DEF Target1Bar
          <5>2. EarnedTarget1(row)
            BY <2>15, <3>1, <4>1, VerdictMeaning DEF Target1Bar, AtBar
          <5> HIDE DEF Marked
          <5> QED
            BY <5>1, <5>2 DEF Flags
        <4>2. CASE StopBar
          <5>1. Marked((current.hit \cap {"target_1_achieved"}) \cup {"stop_loss_hit"})
            BY <3>2, <4>2 DEF StopBar
          <5>2. LostHistory(row)
            BY <2>13, <3>1, <4>2, VerdictMeaning DEF StopBar, AtBar
          <5>3. "target_1_achieved" \in current.hit => EarnedTarget1(row)
            BY <2>3, <2>5, <2>9, <3>1 DEF Has
          <5> HIDE DEF Marked
          <5> QED
            BY <5>1, <5>2, <5>3 DEF Flags
        <4>3. CASE Target2Bar
          <5>1. Marked({"target_1_achieved", "target_2_achieved"})
            BY <3>2, <4>3 DEF Target2Bar
          <5>2. /\ HitsTarget2(current.plan, BarOf(current, cursor))
                /\ ~HitsStop(current.plan, BarOf(current, cursor))
            BY <4>3, VerdictMeaning DEF Target2Bar, AtBar
          <5>3. BarOf(current, cursor) \in Bars
            <6>1. current.plan.symbol \in Symbols
              BY <2>10, ConstantsAssumption DEF Plans
            <6>2. cursor \in Minutes
              BY <2>12, <3>1
            <6> QED
              BY <1>1, <6>1, <6>2 DEF TypeOK, BarOf
          <5>4. EarnedTarget1(row) /\ WonHistory(row)
            BY <2>10, <2>14, <2>15, <3>1, <5>2, <5>3, Target2ImpliesTarget1
          <5> HIDE DEF Marked
          <5> QED
            BY <5>1, <5>4 DEF Flags
        <4> QED
          BY <2>16, <4>1, <4>2, <4>3
      <3> QED
        BY <2>7, <2>9, <3>3 DEF RowInv, Has, IsOpen
    \* What a losing row earned, it earned before the cursor.
    <2>17. ASSUME pc = "stop", cursor < timestamp, FirstDecisive(row, cursor),
                  HitsStop(row.plan, BarOf(row, cursor)), EarnedTarget1(row)
           PROVE  Has(old, "target_1_achieved")
      <3>1. PICK m \in Minutes :
              /\ row.timestamp < m
              /\ HitsTarget1(row.plan, BarOf(row, m)) /\ ~HitsStop(row.plan, BarOf(row, m))
              /\ \A k \in Minutes : k < m => ~DecisiveAt(row, k)
        BY <2>17 DEF EarnedTarget1
      <3>2. ~(cursor < m) /\ m # cursor /\ m \in Int
        BY <1>t, <2>12, <2>17, <3>1 DEF FirstDecisive
      <3>3. m < cursor /\ m < timestamp
        BY <1>t, <2>17, <3>2
      <3>4. HitsTarget1(current.plan, BarOf(current, m)) /\ current.timestamp < m
        BY <2>7, <3>1 DEF BarOf
      <3> QED
        BY <1>1, <2>2, <2>3, <2>5, <3>3, <3>4 DEF WalkInv
    <2>18. ASSUME ResolveStop PROVE RowInv(row)
      <3>1. /\ pc = "stop" /\ cursor < timestamp
            /\ HitsStop(current.plan, BarOf(current, cursor))
        BY <1>1, <2>18 DEF ResolveStop, WalkInv, Walking
      <3>2. /\ row.status = "STOP_LOSS" /\ row.exit_price = row.plan.stop_loss
            /\ row.outcome_r = -1 /\ row.resolved_at = cursor /\ row.hit = old.hit
        <4>1. journal' = resolve(journal, current.signal_id, "STOP_LOSS",
                                 current.plan.stop_loss, -1, cursor)
          BY <2>18 DEF ResolveStop
        <4> QED
          BY <2>1, <2>3, <2>5, <2>6, <2>7, <4>1, ResolveEffect
      <3>3. /\ LostHistory(row) /\ LostAt(row, cursor) /\ FirstDecisive(row, cursor)
        BY <2>13, <3>1, <3>2 DEF LostAt
      <3>4. EarnedTarget1(row) => Has(old, "target_1_achieved")
        BY <2>13, <2>17, <3>1, <3>3
      <3>5. cursor \in Minutes /\ cursor < minute
        BY <2>12, <3>1
      <3> QED
        BY <2>9, <3>2, <3>3, <3>4, <3>5 DEF RowInv, Has, IsOpen
    <2>19. ASSUME ResolveTarget2 PROVE RowInv(row)
      <3>1. /\ pc = "target_2" /\ cursor < timestamp
            /\ HitsTarget2(current.plan, BarOf(current, cursor))
            /\ ~HitsStop(current.plan, BarOf(current, cursor))
        BY <1>1, <2>19 DEF ResolveTarget2, WalkInv, Walking
      <3>2. /\ row.status = "TARGET_2" /\ row.exit_price = row.plan.target_2
            /\ row.outcome_r = row.plan.risk_reward /\ row.resolved_at = cursor
            /\ row.hit = old.hit
        <4>1. journal' = resolve(journal, current.signal_id, "TARGET_2",
                                 current.plan.target_2, current.plan.risk_reward, cursor)
          BY <2>19 DEF ResolveTarget2
        <4> QED
          BY <2>1, <2>3, <2>5, <2>6, <2>7, <4>1, ResolveEffect
      <3>3. /\ WonHistory(row) /\ WonAt(row, cursor) /\ FirstDecisive(row, cursor)
        BY <2>14, <3>1, <3>2 DEF WonAt
      <3>4. Has(old, "target_1_achieved")
        BY <2>3, <2>5, <3>1
      <3>5. cursor \in Minutes /\ cursor < minute
        BY <2>12, <3>1
      <3> QED
        BY <2>9, <3>2, <3>3, <3>4, <3>5 DEF RowInv, Has, IsOpen
    <2>20. RowInv(row)
      BY <1>5, <2>16, <2>18, <2>19 DEF Rewrites
    <2>21. minute' = minute /\ bars' = bars
      BY <1>t, <1>5 DEF Rewrites, Target1Bar, StopBar, Target2Bar, ResolveStop, ResolveTarget2
    <2>22. RowInv(row)'
      BY <2>20, <2>21
         DEF RowInv, EarnedTarget1, WonHistory, LostHistory, WonAt, LostAt, FirstDecisive,
             DecisiveAt, BarOf, Has, IsOpen
    <2>23. \A j \in {i} : RowInv(journal[j])'
      BY ZenonT(30), <2>6, <2>22
         DEF RowInv, EarnedTarget1, WonHistory, LostHistory, WonAt, LostAt, FirstDecisive,
             DecisiveAt, BarOf, Has, IsOpen
    <2> QED
      BY <2>1, <2>4, <2>23 DEF HistoryInv
  <1> QED
    BY <1>3, <1>4, <1>5, StepShape

\* The invariant holds in the empty journal.
LEMMA InitInv == Init => IInv
  <1> SUFFICES ASSUME Init PROVE IInv
    OBVIOUS
  <1> USE DEF Init
  <1>1. TypeOK
    BY ConstantsAssumption DEF TypeOK, Minutes, PcValues
  <1>2. IdsInv /\ PendingInv
    BY DEF IdsInv, PendingInv
  <1>3. HistoryInv /\ NoDuplicateOpenPlan
    BY DEF HistoryInv, NoDuplicateOpenPlan
  <1>4. TodoInv /\ WalkInv
    BY DEF TodoInv, WalkInv, Walking
  <1> QED
    BY <1>1, <1>2, <1>3, <1>4 DEF IInv

\* The inductive invariant holds throughout: a journal row, whenever and by
\* whichever cycle it was written, says of the bars since its signal what they
\* show.  Everything below follows from it.
THEOREM InductiveInvariant == Spec => []IInv
  <1>1. Init => IInv
    BY InitInv
  <1>2. IInv /\ [Next]_vars => IInv'
    BY TypeStep, IdsStep, PendingStep, HistoryStep, TodoStep, WalkStep, NoDuplicateStep DEF IInv
  <1> QED
    BY <1>1, <1>2, PTL DEF Spec

\* Every variable keeps its type, for any market, any plans and any bounds:
\* the rows on disk are always well-formed records, with an id of the setup
\* and the cycle that recorded them.
THEOREM TypeCorrect == Spec => []TypeOK
  <1>1. IInv => TypeOK
    BY DEF IInv
  <1> QED
    BY <1>1, InductiveInvariant, PTL

\* For any number of minutes, plans and crashes and any bars, a closed row of
\* the crypto validation journal has the outcome of the first finished bar
\* after its signal that touched its stop or its second target.
THEOREM OutcomesAreRight == Spec => []ResolvedAtFirstDecisiveBar
  <1>1. IInv => ResolvedAtFirstDecisiveBar
    BY DEF IInv, HistoryInv, RowInv, ResolvedAtFirstDecisiveBar
  <1> QED
    BY <1>1, InductiveInvariant, PTL

\* Target 1 is credited to exactly the closed rows whose history earned it, and
\* to no open row whose history did not, over any number of cycles.
THEOREM Target1IsRight == Spec => []Target1CreditIsEarned
  <1>1. IInv => Target1CreditIsEarned
    BY DEF IInv, HistoryInv, RowInv, Target1CreditIsEarned
  <1> QED
    BY <1>1, InductiveInvariant, PTL

\* However often the process dies between update_live_state and resolve, the
\* flags on a row and its outcome tell one story.
THEOREM FlagsAreRight == Spec => []FlagsAgreeWithOutcome
  <1>1. IInv => FlagsAgreeWithOutcome
    <2> SUFFICES ASSUME IInv PROVE FlagsAgreeWithOutcome
      OBVIOUS
    <2>1. \A i \in DOMAIN journal :
            /\ RowInv(journal[i])
            /\ journal[i].plan.risk_reward \in Int /\ journal[i].plan.risk_reward > 0
      BY RowTypes, PlanType, ConstantsAssumption DEF IInv, HistoryInv, TypeOK
    <2>2. \A i \in DOMAIN journal : ~(WonHistory(journal[i]) /\ LostHistory(journal[i]))
      <3> SUFFICES ASSUME NEW i \in DOMAIN journal, WonHistory(journal[i]), LostHistory(journal[i])
                   PROVE  FALSE
        OBVIOUS
      <3>1. PICK m \in Minutes :
              FirstDecisive(journal[i], m) /\ ~HitsStop(journal[i].plan, BarOf(journal[i], m))
        BY DEF WonHistory
      <3>2. PICK n \in Minutes :
              FirstDecisive(journal[i], n) /\ HitsStop(journal[i].plan, BarOf(journal[i], n))
        BY DEF LostHistory
      <3>3. ~(m < n) /\ ~(n < m) /\ m \in Int /\ n \in Int
        BY <3>1, <3>2, ConstantsAssumption DEF FirstDecisive, Minutes
      <3>4. m = n
        BY <3>3
      <3> QED
        BY <3>1, <3>2, <3>4
    \* What an outcome in the summary says of the row.
    <2>3. \A i \in ClosedRows(journal) :
            \/ /\ journal[i].status = "TARGET_2" /\ journal[i].outcome_r = journal[i].plan.risk_reward
               /\ WonHistory(journal[i])
            \/ /\ journal[i].status = "STOP_LOSS" /\ journal[i].outcome_r = -1
               /\ LostHistory(journal[i])
      BY <2>1 DEF ClosedRows, RowInv, WonAt, LostAt, WonHistory, LostHistory
    <2>4. Losses(journal) \cap Target2Rows(journal) = {}
      BY <2>1, <2>2, <2>3 DEF Losses, ClosedRows, Target2Rows, RowInv
    <2>5. \A i \in Wins(journal) : ~Has(journal[i], "stop_loss_hit") /\ i \in Target1Rows(journal)
      BY <2>1, <2>2, <2>3 DEF Wins, ClosedRows, Target1Rows, RowInv
    <2> QED
      BY <2>1, <2>2, <2>4, <2>5 DEF FlagsAgreeWithOutcome, RowInv
  <1> QED
    BY <1>1, InductiveInvariant, PTL

\* No scan, and no restart in the middle of one, ever leaves two open rows for
\* what the recorder takes for one setup.
THEOREM SetupsAreDistinct == Spec => []NoDuplicateOpenPlan
  <1>1. IInv => NoDuplicateOpenPlan
    BY DEF IInv
  <1> QED
    BY <1>1, InductiveInvariant, PTL

-----------------------------------------------------------------------------
\* The book's judgement of a bar and of a setup is the runner's.
LEMMA SameJudgement ==
    /\ \A plan, bar : Book!HitsStop(plan, bar) <=> HitsStop(plan, bar)
    /\ \A plan, bar : Book!HitsTarget2(plan, bar) <=> HitsTarget2(plan, bar)
    /\ \A p, q, scale : Book!SameSetup(p, q, scale) <=> SameSetup(p, q, scale)
  BY DEF Book!HitsStop, HitsStop, Book!HitsTarget2, HitsTarget2, Book!Long, Long,
         Book!SameSetup, SameSetup, Book!Near, Near, Book!Abs, Abs

\* An empty journal is an empty book.
LEMMA InitRefines == Init => Book!Init
  BY DEF Init, Book!Init, Minutes, BookOf

\* Steps that leave the book alone.
LEMMA SameBook ==
    ASSUME DOMAIN journal' = DOMAIN journal,
           \A i \in DOMAIN journal : BookEntry(journal'[i]) = BookEntry(journal[i])
    PROVE  BookOf' = BookOf
  BY DEF BookOf

\* Recording an alert opens a plan that is not open already.
LEMMA AppendRefines ==
    ASSUME IInv, NEW c \in pending, Appended(c)
    PROVE  Book!OpenPlan(c, timestamp)
  <1> DEFINE last == Len(journal) + 1
             new == [plan |-> c, since |-> timestamp, result |-> Book!Unsettled]
  <1>1. timestamp <= minute
    BY DEF IInv, IdsInv
  <1>2. \A i \in DOMAIN BookOf :
          BookOf[i].result = Book!Unsettled => ~SameSetup(BookOf[i].plan, c, NearScale)
    <2>1. \A i \in DOMAIN journal : IsOpen(journal[i]) => ~SameSetup(journal[i].plan, c, NearScale)
      BY DEF Appended, Duplicate
    <2> QED
      BY <2>1 DEF BookOf, BookEntry, Book!Unsettled, IsOpen
  <1>3. BookEntry(journal'[last]) = new
    BY DEF Appended, NewRecord, BookEntry, Book!Unsettled
  <1>4. /\ Len(journal) \in Nat /\ DOMAIN journal = 1..Len(journal)
        /\ DOMAIN journal' = 1..last
        /\ \A i \in DOMAIN journal : journal'[i] = journal[i]
    BY DEF Appended
  <1>5. BookOf' = Append(BookOf, new)
    <2> DEFINE S == {BookEntry(journal[i]) : i \in DOMAIN journal} \cup {new}
    <2>1. BookOf \in Seq(S) /\ Len(BookOf) = Len(journal)
      BY <1>4 DEF BookOf
    <2>2. /\ \A i \in 1..Len(journal) : BookOf'[i] = BookOf[i]
          /\ BookOf'[last] = new /\ BookOf' \in Seq(S) /\ Len(BookOf') = last
      BY <1>3, <1>4 DEF BookOf
    <2>3. new \in S
      OBVIOUS
    <2> HIDE DEF new, S
    <2>4. /\ Append(BookOf, new) \in Seq(S) /\ Len(Append(BookOf, new)) = last
          /\ \A i \in 1..Len(journal) : Append(BookOf, new)[i] = BookOf[i]
          /\ Append(BookOf, new)[last] = new
      BY <2>1, <2>3, AppendProperties
    <2>5. \A i \in 1..last : BookOf'[i] = Append(BookOf, new)[i]
      BY <1>4, <2>2, <2>4
    <2> QED
      BY <2>2, <2>4, <2>5, SeqEqual
  <1>6. UNCHANGED <<bars, minute>>
    BY DEF Appended
  <1> QED
    BY <1>1, <1>2, <1>5, <1>6, SameJudgement DEF Book!OpenPlan

\* A resolve settles the row's plan by its first decisive bar.
LEMMA ResolveRefines ==
    ASSUME IInv, ResolveStop \/ ResolveTarget2
    PROVE  \E i \in DOMAIN BookOf, m \in 1..MaxMinute : Book!Settle(i, m)
  <1>1. /\ Walking /\ pc # "bars" /\ cursor < timestamp
        /\ pc = "stop" <=> HitsStop(current.plan, BarOf(current, cursor))
        /\ pc = "target_2" => HitsTarget2(current.plan, BarOf(current, cursor))
    BY DEF IInv, WalkInv, Walking, ResolveStop, ResolveTarget2
  <1>2. PICK i \in DOMAIN journal :
          /\ Selects(journal[i], current.signal_id)
          /\ journal[i].plan = current.plan /\ journal[i].timestamp = current.timestamp
          /\ \A j \in DOMAIN journal : Selects(journal[j], current.signal_id) => j = i
    BY <1>1, CurrentRow
  <1>3. /\ cursor \in Int /\ timestamp \in Int /\ timestamp <= minute /\ minute \in 1..MaxMinute
        /\ current.timestamp < cursor /\ current.timestamp \in Int /\ current.timestamp >= 1
    BY <1>1, CurrentRow, ConstantsAssumption DEF IInv, TypeOK, IdsInv, WalkInv, Minutes
  <1>4. cursor \in Minutes /\ cursor < minute /\ timestamp <= MaxMinute
    BY <1>1, <1>3, ConstantsAssumption DEF Minutes
  <1>5. BookOf[i].result = Book!Unsettled
    BY <1>2 DEF IInv, HistoryInv, RowInv, Selects, IsOpen, BookOf, BookEntry, Book!Unsettled
  <1>6. BookOf[i].plan = current.plan /\ BookOf[i].since = current.timestamp /\ i \in DOMAIN BookOf
    BY <1>2 DEF BookOf, BookEntry
  <1>7. Book!Decides(current.plan, cursor)
    BY <1>1, SameJudgement DEF Book!Decides, BarOf, Walking
  <1>8. \A k \in (current.timestamp + 1)..(cursor - 1) : ~Book!Decides(current.plan, k)
    <2> SUFFICES ASSUME NEW k \in (current.timestamp + 1)..(cursor - 1)
                 PROVE  ~Book!Decides(current.plan, k)
      OBVIOUS
    <2>1. k \in Minutes /\ current.timestamp < k /\ k < cursor /\ k < timestamp
      BY <1>1, <1>3, <1>4, ConstantsAssumption DEF Minutes
    <2>2. ~DecisiveAt(current, k)
      BY <1>1, <2>1 DEF IInv, WalkInv
    <2> QED
      BY <2>1, <2>2, SameJudgement DEF DecisiveAt, BarOf, Book!Decides
  <1>9. /\ DOMAIN journal' = DOMAIN journal
        /\ \A j \in DOMAIN journal \ {i} : journal'[j] = journal[j]
        /\ journal'[i].plan = current.plan /\ journal'[i].timestamp = current.timestamp
        /\ UNCHANGED <<bars, minute>>
    <2>1. Rewrites
      BY DEF Rewrites
    <2> QED
      BY <1>2, <2>1, RewriteShape
  <1>10. BookEntry(journal'[i]).result = Book!SettledBy(current.plan, cursor)
    <2>0. journal \in Seq(JournalRows)
      BY DEF IInv, TypeOK
    <2>1. CASE ResolveStop
      <3>1. journal' = resolve(journal, current.signal_id, "STOP_LOSS",
                               current.plan.stop_loss, -1, cursor)
        BY <2>1 DEF ResolveStop
      <3>2. /\ journal'[i].status = "STOP_LOSS" /\ journal'[i].exit_price = current.plan.stop_loss
            /\ journal'[i].outcome_r = -1 /\ journal'[i].resolved_at = cursor
        BY <1>2, <2>0, <3>1, ResolveEffect
      <3> QED
        BY <1>1, <2>1, <3>2, SameJudgement DEF ResolveStop, BookEntry, Book!SettledBy, Book!Loss, BarOf
    <2>2. CASE ResolveTarget2
      <3>1. journal' = resolve(journal, current.signal_id, "TARGET_2",
                               current.plan.target_2, current.plan.risk_reward, cursor)
        BY <2>2 DEF ResolveTarget2
      <3>2. /\ journal'[i].status = "TARGET_2" /\ journal'[i].exit_price = current.plan.target_2
            /\ journal'[i].outcome_r = current.plan.risk_reward /\ journal'[i].resolved_at = cursor
        BY <1>2, <2>0, <3>1, ResolveEffect
      <3>3. ~HitsStop(current.plan, BarOf(current, cursor))
        BY <1>1, <2>2 DEF ResolveTarget2
      <3> QED
        BY <3>2, <3>3, SameJudgement DEF BookEntry, Book!SettledBy, Book!Gain, BarOf
    <2> QED
      BY <2>1, <2>2
  <1>11. BookOf' = [BookOf EXCEPT ![i].result = Book!SettledBy(current.plan, cursor)]
    BY <1>2, <1>9, <1>10 DEF BookOf, BookEntry
  <1>12. Book!Settle(i, cursor)
    BY <1>4, <1>3, <1>5, <1>6, <1>7, <1>8, <1>9, <1>11 DEF Book!Settle
  <1> QED
    BY <1>4, <1>6, <1>12 DEF Minutes

\* Every step is a step of the book or leaves it as it is.
LEMMA StepRefines == IInv /\ [Next]_vars => [Book!Next]_<<bars, minute, BookOf>>
  <1> SUFFICES ASSUME IInv, [Next]_vars
               PROVE  Book!Next \/ UNCHANGED <<bars, minute, BookOf>>
    OBVIOUS
  <1>1. CASE Clock
    <2>1. BookOf' = BookOf
      BY <1>1, SameBook DEF Clock
    <2> QED
      BY <1>1, <2>1 DEF Clock, Book!Clock, Book!Next
  <1>2. ASSUME NEW c \in pending, Appended(c) PROVE Book!Next
    <2>1. c \in Candidates /\ timestamp \in 1..MaxMinute
      BY <1>2, ConstantsAssumption DEF IInv, TypeOK, IdsInv, Appended
    <2> QED
      BY <1>2, <2>1, AppendRefines DEF Book!Next
  <1>3. CASE ResolveStop \/ ResolveTarget2
    BY <1>3, ResolveRefines DEF Book!Next
  <1>4. CASE Target1Bar \/ StopBar \/ Target2Bar
    <2>1. UNCHANGED <<bars, minute>> /\ journal \in Seq(JournalRows)
      BY <1>4 DEF Target1Bar, StopBar, Target2Bar, local, IInv, TypeOK
    <2>2. \E hit, sell : journal' = update_live_state(journal, current.signal_id, hit, sell)
      BY <1>4 DEF Target1Bar, StopBar, Target2Bar
    <2>3. /\ DOMAIN journal' = DOMAIN journal
          /\ \A i \in DOMAIN journal : BookEntry(journal'[i]) = BookEntry(journal[i])
      BY <2>1, <2>2, UpdateEffect DEF BookEntry
    <2> QED
      BY <2>1, <2>3, SameBook
  <1>5. CASE UNCHANGED <<bars, minute, journal>>
    BY <1>5, SameBook
  <1>6. UNCHANGED <<bars, minute>> \/ Clock
    BY DEF Next, Work, WalkBars, BeginCycle, SkipCandidate, RecordAlert, BeginOutcomes, TooYoung,
           FetchFails, PassOver, FetchBars, EndCycle, BarsExhausted, SkipBar, QuietBar,
           Target1Bar, StopBar, Target2Bar, ResolveStop, ResolveTarget2, NextRow, Crash, vars, local
  <1> QED
    BY <1>1, <1>2, <1>3, <1>4, <1>5, <1>6, StepShape DEF Rewrites

\* The runner keeps the book that a paper-trading validation promises: every
\* behaviour of cycles, failed requests and crashes is, seen through the rows'
\* plans and outcomes, one in which plans are opened once and settled once, by
\* the first finished bar that decides them.
THEOREM Implements == Spec => ImplementsPaperBook
  <1>1. Init => Book!Init
    BY InitRefines
  <1>2. IInv /\ [Next]_vars => [Book!Next]_<<bars, minute, BookOf>>
    BY StepRefines
  <1> QED
    BY <1>1, <1>2, InductiveInvariant, PTL DEF Spec, ImplementsPaperBook, Book!Spec
=============================================================================
