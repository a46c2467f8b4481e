------------------------------- MODULE CryptoPage -------------------------------
(***************************************************************************)
(* pages/2_Crypto.py: the browser sessions of the crypto dashboard and the *)
(* paper-trading journal they share.  A scan replaces the candidates of a  *)
(* session and records the confirmed ones; a fragment looks every five     *)
(* seconds whether the price has reached a level of the displayed plan,    *)
(* and closes the journal row it takes for that plan's.                    *)
(*                                                                         *)
(* A method of the journal is one step here (what a rewrite can do to the  *)
(* file is in NseJournal); the steps of the sessions interleave, and the   *)
(* server may die between two of them.                                     *)
(***************************************************************************)
EXTENDS SignalJournal, TradePlan, FiniteSets

CONSTANTS
    Sessions,     \* browser sessions
    Candidates,   \* the plans a scan can return
    Prices,       \* the live prices
    NearScale,    \* 1/0.0005
    MaxScans,     \* bound: scans ever clicked
    MaxCrashes    \* bound: how often the server dies

\* f"{symbol}-{direction}-{timestamp}": what tells the rows apart.
Ids == Symbols \X Directions \X (1..MaxScans)

ASSUME PageAssumption ==
    /\ Candidates \subseteq Plans
    /\ Prices \subseteq Int
    /\ NearScale \in Nat /\ MaxScans \in Nat /\ MaxCrashes \in Nat
    /\ None \notin Candidates \cup Ids

VARIABLES
    journal,      \* the rows of reports/signal_journal.csv
    scans,        \* how many scans there were: the timestamps
    shown,        \* st.session_state.crypto_candidates of each session
    selected,     \* the candidate in its "Select a Coin to Trade" box
    pc,           \* where the session's script or fragment is
    scan_time,    \* the timestamp of its scan; 0 when none runs
    existing,     \* the rows its scan read, and what it added to them
    pending,      \* candidates of the scan not yet looked at
    record_id,    \* signal_id of the record the fragment has found
    crashes

\* What the script keeps while it records a scan, and what a user sees.
recording == <<scan_time, existing, pending>>
screen    == <<shown, selected>>
vars == <<journal, scans, screen, pc, recording, record_id, crashes>>

-----------------------------------------------------------------------------
Confirmed(candidate) == candidate.score >= 75

IsDuplicate(rows, candidate) ==
    \E i \in DOMAIN rows : IsOpen(rows[i]) /\ SameSetup(rows[i].plan, candidate, NearScale)

\* One candidate per symbol.
Scannable == {S \in SUBSET Candidates : \A c, d \in S : c.symbol = d.symbol => c = d}

\* _find_open_record: positions of the open rows taken for the plan's.
Matches(candidate) ==
    {i \in DOMAIN journal : IsOpen(journal[i]) /\ SameSetup(journal[i].plan, candidate, NearScale)}

\* new_t2, else new_stop, else new_t1: reached now and not yet marked.
Milestone(candidate, row, price) ==
    IF HitsTarget2(candidate, Tick(price)) /\ ~Has(row, "target_2_achieved") THEN "TARGET_2"
    ELSE IF HitsStop(candidate, Tick(price)) /\ ~Has(row, "stop_loss_hit") THEN "STOP_LOSS"
    ELSE IF HitsTarget1(candidate, Tick(price)) /\ ~Has(row, "target_1_achieved") THEN "TARGET_1"
    ELSE "NONE"

Marks(milestone) ==
    CASE milestone = "TARGET_2"  -> {"target_1_achieved", "target_2_achieved"}
      [] milestone = "STOP_LOSS" -> {"stop_loss_hit"}
      [] milestone = "TARGET_1"  -> {"target_1_achieved"}

Level(candidate, milestone) ==
    CASE milestone = "TARGET_2"  -> candidate.target_2
      [] milestone = "STOP_LOSS" -> candidate.stop_loss
      [] milestone = "TARGET_1"  -> candidate.target_1

-----------------------------------------------------------------------------
Init ==
    /\ journal = <<>>
    /\ scans = 0
    /\ shown = [s \in Sessions |-> {}]
    /\ selected = [s \in Sessions |-> None]
    /\ pc = [s \in Sessions |-> "idle"]
    /\ scan_time = [s \in Sessions |-> 0]
    /\ existing = [s \in Sessions |-> <<>>]
    /\ pending = [s \in Sessions |-> {}]
    /\ record_id = [s \in Sessions |-> None]
    /\ crashes = 0

\* The scan button.  The selection is kept by symbol if the symbol is offered
\* again, and is any other candidate (the first of the ranking) if not.
ClickScan(s) ==
    /\ pc[s] = "idle" /\ scans < MaxScans
    /\ scans' = scans + 1
    /\ \E S \in Scannable :
          LET same == {c \in S : selected[s] # None /\ c.symbol = selected[s].symbol}
          IN  /\ shown' = [shown EXCEPT ![s] = S]
              /\ \E c \in (IF S = {} THEN {None} ELSE IF same # {} THEN same ELSE S) :
                    selected' = [selected EXCEPT ![s] = c]
              /\ pending' = [pending EXCEPT ![s] = S]
    /\ existing' = [existing EXCEPT ![s] = journal]
    /\ scan_time' = [scan_time EXCEPT ![s] = scans + 1]
    /\ pc' = [pc EXCEPT ![s] = "recording"]
    /\ UNCHANGED <<journal, record_id, crashes>>

SkipCandidate(s, c) ==
    /\ pc[s] = "recording" /\ c \in pending[s]
    /\ ~Confirmed(c) \/ IsDuplicate(existing[s], c)
    /\ pending' = [pending EXCEPT ![s] = @ \ {c}]
    /\ UNCHANGED <<journal, scans, screen, pc, scan_time, existing, record_id, crashes>>

RecordAlert(s, c) ==
    /\ pc[s] = "recording" /\ c \in pending[s]
    /\ Confirmed(c) /\ ~IsDuplicate(existing[s], c)
    /\ LET new == NewRecord(<<c.symbol, c.direction, scan_time[s]>>, c, scan_time[s])
       IN  /\ journal' = record(journal, new)
           /\ existing' = [existing EXCEPT ![s] = Append(@, new)]
    /\ pending' = [pending EXCEPT ![s] = @ \ {c}]
    /\ UNCHANGED <<scans, screen, pc, scan_time, record_id, crashes>>

EndScan(s) ==
    /\ pc[s] = "recording" /\ pending[s] = {}
    /\ existing' = [existing EXCEPT ![s] = <<>>]
    /\ scan_time' = [scan_time EXCEPT ![s] = 0]
    /\ pc' = [pc EXCEPT ![s] = "idle"]
    /\ UNCHANGED <<journal, scans, screen, pending, record_id, crashes>>

Select(s) ==
    /\ pc[s] = "idle"
    /\ \E c \in shown[s] : c # selected[s] /\ selected' = [selected EXCEPT ![s] = c]
    /\ UNCHANGED <<journal, scans, shown, pc, recording, record_id, crashes>>

\* The fragment reads the last row that matches the displayed plan and holds
\* the price against the plan's levels.
Look(s, price) ==
    /\ pc[s] = "idle" /\ selected[s] # None
    /\ \E i \in Matches(selected[s]) :
          /\ \A j \in Matches(selected[s]) : j <= i
          /\ LET milestone == Milestone(selected[s], journal[i], price)
             IN  /\ milestone # "NONE"
                 /\ pc' = [pc EXCEPT ![s] = milestone]
          /\ record_id' = [record_id EXCEPT ![s] = journal[i].signal_id]
    /\ UNCHANGED <<journal, scans, screen, recording, crashes>>

\* update_live_state, then resolve unless it was the first target.
Mark(s, milestone) ==
    /\ pc[s] = milestone
    /\ journal' = update_live_state(journal, record_id[s], Marks(milestone),
                                    Level(selected[s], milestone))
    /\ IF milestone = "TARGET_1"
       THEN /\ pc' = [pc EXCEPT ![s] = "idle"]
            /\ record_id' = [record_id EXCEPT ![s] = None]
       ELSE /\ pc' = [pc EXCEPT ![s] = IF milestone = "TARGET_2" THEN "won" ELSE "lost"]
            /\ UNCHANGED record_id
    /\ UNCHANGED <<scans, screen, recording, crashes>>

ResolveRecord(s, place, milestone, outcome) ==
    /\ pc[s] = place
    /\ journal' = resolve(journal, record_id[s], milestone, Level(selected[s], milestone),
                          outcome, None)   \* the time it was resolved at is left out
    /\ pc' = [pc EXCEPT ![s] = "idle"]
    /\ record_id' = [record_id EXCEPT ![s] = None]
    /\ UNCHANGED <<scans, screen, recording, crashes>>

Win(s)  == pc[s] = "won" /\ ResolveRecord(s, "won", "TARGET_2", selected[s].risk_reward)
Lose(s) == pc[s] = "lost" /\ ResolveRecord(s, "lost", "STOP_LOSS", -1)

\* The server dies: every session ends, and a new one begins with no candidates.
Crash ==
    /\ crashes < MaxCrashes
    /\ crashes' = crashes + 1
    /\ shown' = [s \in Sessions |-> {}]
    /\ selected' = [s \in Sessions |-> None]
    /\ pc' = [s \in Sessions |-> "idle"]
    /\ scan_time' = [s \in Sessions |-> 0]
    /\ existing' = [s \in Sessions |-> <<>>]
    /\ pending' = [s \in Sessions |-> {}]
    /\ record_id' = [s \in Sessions |-> None]
    /\ UNCHANGED <<journal, scans>>

\* What a script or fragment that runs goes on with.
Step(s) ==
    \/ \E c \in pending[s] : SkipCandidate(s, c) \/ RecordAlert(s, c)
    \/ EndScan(s)
    \/ \E milestone \in {"TARGET_1", "TARGET_2", "STOP_LOSS"} : Mark(s, milestone)
    \/ Win(s) \/ Lose(s)

Next ==
    \/ \E s \in Sessions :
          ClickScan(s) \/ Select(s) \/ Step(s) \/ \E price \in Prices : Look(s, price)
    \/ Crash

Spec == Init /\ [][Next]_vars

\* Nothing makes a user click or a price move; but a script or a fragment that
\* has begun runs on (neither function has a call at which Streamlit stops it).
FairSpec == Spec /\ \A s \in Sessions : WF_vars(Step(s))

-----------------------------------------------------------------------------
JournalRows ==
    [signal_id : Ids, timestamp : 1..MaxScans, plan : Candidates,
     status : {"OPEN", "STOP_LOSS", "TARGET_2"},
     exit_price : Int \cup {None}, outcome_r : Int \cup {None}, resolved_at : {None},
     hit : SUBSET Flags, sell_price : Int \cup {None}]

\* Every variable keeps its type, and what a session has selected is one of the
\* candidates it shows.
TypeOK ==
    /\ journal \in Seq(JournalRows)
    /\ scans \in 0..MaxScans
    /\ shown \in [Sessions -> SUBSET Candidates]
    /\ \A s \in Sessions : selected[s] \in shown[s] \cup {None}
    /\ pc \in [Sessions -> {"idle", "recording", "TARGET_1", "TARGET_2", "STOP_LOSS", "won", "lost"}]
    /\ existing \in [Sessions -> Seq(JournalRows)]
    /\ pending \in [Sessions -> SUBSET Candidates]
    /\ scan_time \in [Sessions -> 0..MaxScans]
    /\ \A s \in Sessions : record_id[s] = None <=> pc[s] \in {"idle", "recording"}
    /\ crashes \in 0..MaxCrashes

\* A row that is closed stays as it is, though another session may have found
\* it open and be about to mark or to close it.
ClosedForGood ==
    [][\A i \in DOMAIN journal : ~IsOpen(journal[i]) => journal'[i] = journal[i]]_vars

\* "the journal record that belongs to the currently displayed plan": a row is
\* closed at a level of its own plan.
ClosedOnItsOwnPlan ==
    \A i \in DOMAIN journal :
        journal[i].exit_price \in {None, journal[i].plan.stop_loss, journal[i].plan.target_2}

\* "Persist target/stop milestones and close the paper trade when resolved": a
\* row that is marked as having reached its stop or its second target gets
\* closed, by whichever session, before the server dies or after it was started
\* again.  It must not die in between: a milestone is only looked at until it is
\* marked, so nothing comes back to a row that was not closed then.
Marked(n) == n \in DOMAIN journal /\ journal[n].hit \cap {"target_2_achieved", "stop_loss_hit"} # {}

MarkedRowsClose ==
    \A n \in 1..(MaxScans * Cardinality(Symbols)), c \in 0..MaxCrashes :
        [](~Marked(n) /\ crashes = c =>
               (Marked(n) ~> ((n \in DOMAIN journal /\ ~IsOpen(journal[n])) \/ crashes > c)))
=============================================================================
