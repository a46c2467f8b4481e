-------------------------- MODULE CryptoPage_proofs --------------------------
(***************************************************************************)
(* Proofs about CryptoPage, for every set of sessions, plans and prices:   *)
(* types, and that a closed row stays whatever the sessions are about to   *)
(* do with it.                                                             *)
(***************************************************************************)
EXTENDS CryptoPage, SequenceTheorems, TLAPS

PcValues == {"idle", "recording", "TARGET_1", "TARGET_2", "STOP_LOSS", "won", "lost"}

\* A fragment that goes on has a displayed plan, a scan that goes on a timestamp.
PageInv ==
    /\ TypeOK
    /\ selected \in [Sessions -> Candidates \cup {None}]
    /\ record_id \in [Sessions -> Ids \cup {None}]
    /\ \A s \in Sessions :
         /\ pc[s] \notin {"idle", "recording"} => selected[s] \in Candidates
         /\ pc[s] = "recording" => scan_time[s] \in 1..MaxScans

-----------------------------------------------------------------------------
LEMMA LevelType ==
    ASSUME NEW c \in Candidates, NEW m \in {"TARGET_1", "TARGET_2", "STOP_LOSS"}
    PROVE  Level(c, m) \in Int /\ c.risk_reward \in Int
  BY PageAssumption DEF Plans, Level

LEMMA UpdateType ==
    ASSUME NEW rows \in Seq(JournalRows), NEW id, NEW hit \in SUBSET Flags, NEW sell \in Int
    PROVE  /\ update_live_state(rows, id, hit, sell) \in Seq(JournalRows)
           /\ \A i \in DOMAIN rows :
                ~IsOpen(rows[i]) => update_live_state(rows, id, hit, sell)[i] = rows[i]
<1>1. ASSUME NEW r \in JournalRows PROVE MarkLive(r, hit, sell) \in JournalRows
  <2>1. r.hit \cup hit \in SUBSET Flags /\ PriceOr(sell, r.sell_price) \in Int \cup {None}
    BY DEF JournalRows, PriceOr
  <2> QED
    BY <2>1 DEF JournalRows, MarkLive
<1>2. \A i \in DOMAIN rows : rows[i] \in JournalRows
  OBVIOUS
<1>3. update_live_state(rows, id, hit, sell) \in [1 .. Len(rows) -> JournalRows]
  BY <1>1, <1>2 DEF update_live_state
<1>4. \A i \in DOMAIN rows : ~IsOpen(rows[i]) => update_live_state(rows, id, hit, sell)[i] = rows[i]
  BY DEF update_live_state, Selects
<1> QED
  BY <1>3, <1>4

LEMMA ResolveType ==
    ASSUME NEW rows \in Seq(JournalRows), NEW id, NEW status \in {"TARGET_2", "STOP_LOSS"},
           NEW exit \in Int, NEW out \in Int
    PROVE  /\ resolve(rows, id, status, exit, out, None) \in Seq(JournalRows)
           /\ \A i \in DOMAIN rows :
                ~IsOpen(rows[i]) => resolve(rows, id, status, exit, out, None)[i] = rows[i]
<1>1. ASSUME NEW r \in JournalRows PROVE Close(r, status, exit, out, None) \in JournalRows
  BY DEF JournalRows, Close
<1>2. \A i \in DOMAIN rows : rows[i] \in JournalRows
  OBVIOUS
<1>3. resolve(rows, id, status, exit, out, None) \in [1 .. Len(rows) -> JournalRows]
  BY <1>1, <1>2 DEF resolve
<1>4. \A i \in DOMAIN rows : ~IsOpen(rows[i]) => resolve(rows, id, status, exit, out, None)[i] = rows[i]
  BY DEF resolve, Selects
<1> QED
  BY <1>3, <1>4

-----------------------------------------------------------------------------
LEMMA InitPage == Init => PageInv
  BY EmptySeq, PageAssumption DEF Init, PageInv, TypeOK, PcValues

\* A closed row has not moved or changed.
Stays == \A i \in DOMAIN journal : ~IsOpen(journal[i]) => journal'[i] = journal[i]

LEMMA ScanStep ==
    ASSUME PageInv, NEW s \in Sessions,
           ClickScan(s) \/ EndScan(s) \/ Select(s) \/ \E c \in pending[s] : SkipCandidate(s, c)
    PROVE  PageInv' /\ Stays
<1> USE DEF PageInv, TypeOK
<1>1. CASE ClickScan(s)
  <2>1. PICK S \in Scannable : \E c \in S \cup {None} :
          /\ shown' = [shown EXCEPT ![s] = S] /\ pending' = [pending EXCEPT ![s] = S]
          /\ selected' = [selected EXCEPT ![s] = c]
    BY <1>1 DEF ClickScan
  <2>2. S \in SUBSET Candidates
    BY DEF Scannable
  <2>3. /\ scans' = scans + 1 /\ scans < MaxScans /\ pc[s] = "idle"
        /\ existing' = [existing EXCEPT ![s] = journal]
        /\ scan_time' = [scan_time EXCEPT ![s] = scans + 1]
        /\ pc' = [pc EXCEPT ![s] = "recording"]
        /\ UNCHANGED <<journal, record_id, crashes>>
    BY <1>1 DEF ClickScan
  <2>4. scans + 1 \in 1..MaxScans /\ scans' \in 0..MaxScans
    BY <2>3, PageAssumption
  <2>5. /\ shown' \in [Sessions -> SUBSET Candidates] /\ pending' \in [Sessions -> SUBSET Candidates]
        /\ \A q \in Sessions : selected'[q] \in shown'[q] \cup {None}
        /\ selected' \in [Sessions -> Candidates \cup {None}]
    BY <2>1, <2>2
  <2>6. existing' \in [Sessions -> Seq(JournalRows)] /\ scan_time' \in [Sessions -> 0..MaxScans]
    BY <2>3, <2>4
  <2>7. pc' \in [Sessions -> PcValues]
    BY <2>3 DEF PcValues
  <2>8. /\ \A q \in Sessions : record_id'[q] = None <=> pc'[q] \in {"idle", "recording"}
        /\ \A q \in Sessions : pc'[q] \notin {"idle", "recording"} => selected'[q] \in Candidates
        /\ \A q \in Sessions : pc'[q] = "recording" => scan_time'[q] \in 1..MaxScans
    BY <2>1, <2>3, <2>4
  <2> QED
    BY <2>3, <2>4, <2>5, <2>6, <2>7, <2>8 DEF Stays, PcValues
<1>2. CASE EndScan(s)
  <2>1. existing' \in [Sessions -> Seq(JournalRows)]
    BY <1>2, EmptySeq DEF EndScan
  <2> QED
    BY <1>2, <2>1, PageAssumption DEF EndScan, screen, Stays
<1>3. CASE Select(s)
  BY <1>3 DEF Select, recording, Stays
<1>4. ASSUME NEW c \in pending[s], SkipCandidate(s, c) PROVE PageInv' /\ Stays
  BY <1>4 DEF SkipCandidate, screen, Stays
<1> QED
  BY <1>1, <1>2, <1>3, <1>4

LEMMA RecordStep ==
    ASSUME PageInv, NEW s \in Sessions, NEW c \in pending[s], RecordAlert(s, c)
    PROVE  PageInv' /\ Stays
<1> USE DEF PageInv, TypeOK
<1> DEFINE new == NewRecord(<<c.symbol, c.direction, scan_time[s]>>, c, scan_time[s])
<1>1. c \in Candidates /\ scan_time[s] \in 1..MaxScans
  BY DEF RecordAlert
<1>2. c.symbol \in Symbols /\ c.direction \in Directions
  BY <1>1, PageAssumption DEF Plans
<1>3. new \in JournalRows
  BY <1>1, <1>2 DEF NewRecord, JournalRows, Ids
<1>4. /\ journal' = Append(journal, new) /\ existing' = [existing EXCEPT ![s] = Append(existing[s], new)]
      /\ pending' = [pending EXCEPT ![s] = @ \ {c}]
      /\ UNCHANGED <<scans, shown, selected, pc, scan_time, record_id, crashes>>
  BY DEF RecordAlert, record, screen
<1> HIDE DEF new
<1>5. /\ journal' \in Seq(JournalRows) /\ \A i \in DOMAIN journal : journal'[i] = journal[i]
  BY <1>3, <1>4, AppendProperties
<1>6. Append(existing[s], new) \in Seq(JournalRows)
  BY <1>3, AppendProperties
<1>7. existing' \in [Sessions -> Seq(JournalRows)]
  BY <1>4, <1>6
<1>8. pending' \in [Sessions -> SUBSET Candidates]
  BY <1>4
<1>9. Stays
  BY <1>5 DEF Stays
<1> QED
  BY <1>4, <1>5, <1>7, <1>8, <1>9

LEMMA FragmentStep ==
    ASSUME PageInv, NEW s \in Sessions,
           \/ \E price \in Prices : Look(s, price)
           \/ \E m \in {"TARGET_1", "TARGET_2", "STOP_LOSS"} : Mark(s, m)
           \/ Win(s) \/ Lose(s)
    PROVE  PageInv' /\ Stays
<1> USE DEF PageInv, TypeOK
<1>1. ASSUME NEW price \in Prices, Look(s, price) PROVE PageInv' /\ Stays
  <2>1. PICK i \in Matches(selected[s]) :
          /\ Milestone(selected[s], journal[i], price) # "NONE"
          /\ pc' = [pc EXCEPT ![s] = Milestone(selected[s], journal[i], price)]
          /\ record_id' = [record_id EXCEPT ![s] = journal[i].signal_id]
    BY <1>1 DEF Look
  <2>2. Milestone(selected[s], journal[i], price) \in {"TARGET_1", "TARGET_2", "STOP_LOSS"}
    BY <2>1 DEF Milestone
  <2>3. journal[i] \in JournalRows
    BY DEF Matches
  <2>4. journal[i].signal_id \in Ids /\ journal[i].signal_id # None
    BY <2>3, PageAssumption DEF JournalRows
  <2> DEFINE m == Milestone(selected[s], journal[i], price)
             id == journal[i].signal_id
  <2>5. pc' = [pc EXCEPT ![s] = m] /\ record_id' = [record_id EXCEPT ![s] = id]
    BY <2>1
  <2>6. /\ selected[s] # None /\ pc[s] = "idle"
        /\ UNCHANGED <<journal, scans, shown, selected, scan_time, existing, pending, crashes>>
    BY <1>1 DEF Look, screen, recording
  <2>7. m \in {"TARGET_1", "TARGET_2", "STOP_LOSS"} /\ id \in Ids /\ id # None
    BY <2>2, <2>4
  <2> HIDE DEF m, id
  <2> QED
    BY <2>5, <2>6, <2>7 DEF Stays
<1>2. ASSUME NEW m \in {"TARGET_1", "TARGET_2", "STOP_LOSS"}, Mark(s, m) PROVE PageInv' /\ Stays
  <2> DEFINE level == Level(selected[s], m)
  <2>1. selected[s] \in Candidates
    BY <1>2 DEF Mark
  <2>2. level \in Int /\ Marks(m) \in SUBSET Flags
    BY <2>1, LevelType DEF Marks, Flags
  <2>3. journal' = update_live_state(journal, record_id[s], Marks(m), level)
    BY <1>2 DEF Mark
  <2> HIDE DEF level
  <2>4. journal' \in Seq(JournalRows) /\ Stays
    BY <2>2, <2>3, UpdateType DEF Stays
  <2>5. /\ \/ pc' = [pc EXCEPT ![s] = "idle"] /\ record_id' = [record_id EXCEPT ![s] = None]
           \/ pc' = [pc EXCEPT ![s] = "won"] /\ record_id' = record_id
           \/ pc' = [pc EXCEPT ![s] = "lost"] /\ record_id' = record_id
        /\ pc[s] = m
        /\ UNCHANGED <<scans, shown, selected, scan_time, existing, pending, crashes>>
    BY <1>2 DEF Mark, screen, recording
  <2>6. pc' \in [Sessions -> PcValues]
    BY <2>5 DEF PcValues
  <2>7. record_id' \in [Sessions -> Ids \cup {None}]
    BY <2>5
  <2>8. \A q \in Sessions : record_id'[q] = None <=> pc'[q] \in {"idle", "recording"}
    BY <2>5
  <2>9. \A q \in Sessions : /\ pc'[q] \notin {"idle", "recording"} => selected'[q] \in Candidates
                           /\ pc'[q] = "recording" => scan_time'[q] \in 1..MaxScans
    BY <2>1, <2>5
  <2>10. PageInv'
    BY <2>4, <2>5, <2>6, <2>7, <2>8, <2>9 DEF PcValues
  <2> QED
    BY <2>4, <2>10
<1>3. ASSUME NEW place \in {"won", "lost"}, NEW status \in {"TARGET_2", "STOP_LOSS"},
             NEW out \in Int, ResolveRecord(s, place, status, out)
      PROVE  PageInv' /\ Stays
  <2> DEFINE level == Level(selected[s], status)
  <2>1. selected[s] \in Candidates
    BY <1>3 DEF ResolveRecord
  <2>2. level \in Int
    BY <2>1, LevelType
  <2>3. journal' = resolve(journal, record_id[s], status, level, out, None)
    BY <1>3 DEF ResolveRecord
  <2> HIDE DEF level
  <2>4. journal' \in Seq(JournalRows) /\ Stays
    <3> HIDE DEF TypeOK, PageInv
    <3>1. journal \in Seq(JournalRows)
      BY DEF PageInv, TypeOK
    <3>2. /\ resolve(journal, record_id[s], status, level, out, None) \in Seq(JournalRows)
          /\ \A i \in DOMAIN journal : ~IsOpen(journal[i])
               => resolve(journal, record_id[s], status, level, out, None)[i] = journal[i]
      BY <2>2, <3>1, ResolveType
    <3> QED
      BY <2>3, <3>2 DEF Stays
  <2>5. /\ pc' = [pc EXCEPT ![s] = "idle"] /\ record_id' = [record_id EXCEPT ![s] = None]
        /\ UNCHANGED <<scans, shown, selected, scan_time, existing, pending, crashes>>
    BY <1>3 DEF ResolveRecord, screen, recording
  <2> QED
    BY <2>4, <2>5
<1>4. CASE Win(s)
  <2>1. selected[s].risk_reward \in Int
    BY <1>4, LevelType DEF Win
  <2> QED
    BY <1>3, <1>4, <2>1 DEF Win
<1>5. CASE Lose(s)
  BY <1>3, <1>5 DEF Lose
<1> QED
  BY <1>1, <1>2, <1>4, <1>5

LEMMA CrashStep ==
    ASSUME PageInv, Crash
    PROVE  PageInv' /\ Stays
  BY EmptySeq, PageAssumption DEF Crash, PageInv, TypeOK, Stays

LEMMA PageStep ==
    ASSUME PageInv, [Next]_vars
    PROVE  PageInv' /\ [Stays]_vars
<1>1. CASE Next
  <2>1. CASE Crash
    BY <2>1, CrashStep
  <2>2. ASSUME NEW s \in Sessions,
               ClickScan(s) \/ Select(s) \/ Step(s) \/ \E price \in Prices : Look(s, price)
        PROVE  PageInv' /\ Stays
    BY <2>2, ScanStep, RecordStep, FragmentStep DEF Step
  <2> QED
    BY <1>1, <2>1, <2>2 DEF Next
<1>2. CASE UNCHANGED vars
  BY <1>2 DEF vars, screen, recording, PageInv, TypeOK
<1> QED
  BY <1>1, <1>2

-----------------------------------------------------------------------------
\* However the sessions interleave, what they hold is of its type: a fragment that
\* has found a row has its id until it is done, and a session has selected one of
\* the candidates it shows.
THEOREM TypesAreKept == Spec => []TypeOK
<1>1. PageInv /\ [Next]_vars => PageInv'
  BY PageStep
<1>2. PageInv => TypeOK
  BY DEF PageInv
<1> QED
  BY <1>1, <1>2, InitPage, PTL DEF Spec

\* A row that one session has closed stays as it is, though another one may have
\* found it open, and goes on to mark and to close it.
THEOREM ClosedRowsStay == Spec => ClosedForGood
<1>1. PageInv /\ [Next]_vars => PageInv'
  BY PageStep
<1>2. PageInv /\ [Next]_vars => [Stays]_vars
  BY PageStep
<1> QED
  BY <1>1, <1>2, InitPage, PTL DEF Spec, ClosedForGood, Stays
=============================================================================
