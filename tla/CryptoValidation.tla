--------------------------- MODULE CryptoValidation ---------------------------
(***************************************************************************)
(* tools/crypto_validation_runner.py: a cycle scans the market, records    *)
(* confirmed alerts, and walks the one-minute bars since each open alert   *)
(* to find out whether its stop or its targets were hit.                   *)
(*                                                                         *)
(* A cycle is many steps: each append, each update_live_state and each     *)
(* resolve is a step of its own on the persistent journal, the process may *)
(* die between any two of them, and the clock moves on while it works.     *)
(* What a killed process leaves is the journal; all else is local.         *)
(*                                                                         *)
(* The market's bars are fixed in the initial state and become visible as  *)
(* their minutes pass: a step may only use bars of minutes before the      *)
(* current one, which is what the properties hold it to.                   *)
(***************************************************************************)
EXTENDS SignalJournal, TradePlan, FiniteSets

CONSTANTS
    Candidates,   \* the plans a scan can return
    Bars,         \* the bars a minute can have
    Limit,        \* bars one request returns at most: 1000 (data/crypto.py)
    NearScale,    \* 1/0.0005: how close two entries are the same setup
    MaxMinute,    \* bound: the clock stops here and no scan finds anything new
    MaxCrashes    \* bound: how often the process dies

ASSUME ConstantsAssumption ==
    /\ Candidates \subseteq Plans
    /\ Bars \subseteq Candles
    /\ \A c \in Candidates :  \* the first target lies before the second, and both in profit
          /\ IF Long(c) THEN c.target_1 <= c.target_2 ELSE c.target_1 >= c.target_2
          /\ c.risk_reward > 0
    /\ Limit \in Nat \ {0}
    /\ NearScale \in Nat
    /\ MaxMinute \in Nat \ {0}
    /\ MaxCrashes \in Nat

VARIABLES
    bars,        \* bars[s][m]: symbol s in minute m
    minute,      \* the clock
    journal,     \* the rows on disk
    pc,          \* where the runner is in its cycle
    timestamp,   \* the minute the cycle took its timestamp in
    pending,     \* candidates of this cycle not yet looked at
    todo,        \* open rows of this cycle not yet looked at
    current,     \* the local "record" whose bars are being walked
    cursor,      \* minute of the bar being looked at
    crashes

local == <<timestamp, pending, todo, current, cursor>>
vars  == <<bars, minute, journal, pc, timestamp, pending, todo, current, cursor, crashes>>

Minutes == 1..MaxMinute

-----------------------------------------------------------------------------
\* Mutants of the definitions below (a comparison the wrong way round; target
\* 1 looked at before the stop; the target before the stop; only the latest
\* bar; the forming bar too; one bar too few).
DuplicateReversed(candidate) ==
    \E i \in DOMAIN journal :
        IsOpen(journal[i]) /\ SameSetup(candidate, journal[i].plan, NearScale)

VerdictTarget1First(plan, bar) ==
    IF HitsTarget2(plan, bar) THEN IF HitsStop(plan, bar) THEN "STOP_LOSS" ELSE "TARGET_2"
    ELSE IF HitsTarget1(plan, bar) THEN "TARGET_1"
    ELSE IF HitsStop(plan, bar) THEN "STOP_LOSS" ELSE "NONE"

VerdictTarget2First(plan, bar) ==
    IF HitsTarget2(plan, bar) THEN "TARGET_2"
    ELSE IF HitsStop(plan, bar) THEN "STOP_LOSS"
    ELSE IF HitsTarget1(plan, bar) THEN "TARGET_1" ELSE "NONE"

InWindowLatestOnly(row, m) == row.timestamp < m /\ m = timestamp - 1

InWindowForming(row, m) == row.timestamp < m /\ m <= timestamp

LastFetchedShort(row) ==
    IF row.timestamp + Limit - 1 < timestamp THEN row.timestamp + Limit - 1 ELSE timestamp

-----------------------------------------------------------------------------
Duplicate(candidate) ==
    \E i \in DOMAIN journal : IsOpen(journal[i]) /\ SameSetup(journal[i].plan, candidate, NearScale)

Confirmed(candidate) == candidate.score >= 75

\* One candidate per symbol; nothing new in the bounding minute.
Scans ==
    IF minute = MaxMinute
    THEN {{}}
    ELSE {S \in SUBSET Candidates : \A c, d \in S : c.symbol = d.symbol => c = d}

\* _first_closed_bar_start: the first full candle that begins after the signal.
first_closed_bar_start(row) == row.timestamp + 1

\* The last bar a request from there returns: endTime is included, and the
\* exchange answers with the first Limit bars.
LastFetched(row) ==
    LET full == first_closed_bar_start(row) + Limit - 1
    IN  IF full < timestamp THEN full ELSE timestamp

\* Never a candle from before the alert or the still-forming candle.
InWindow(row, m) == first_closed_bar_start(row) <= m /\ m < timestamp

\* The branch the bar takes; stop first when the bar holds both.
Verdict(plan, bar) ==
    IF HitsStop(plan, bar) THEN "STOP_LOSS"
    ELSE IF HitsTarget2(plan, bar) THEN "TARGET_2"
    ELSE IF HitsTarget1(plan, bar) THEN "TARGET_1"
    ELSE "NONE"

BarOf(row, m) == bars[row.plan.symbol][m]

-----------------------------------------------------------------------------
Init ==
    /\ bars \in [Symbols -> [Minutes -> Bars]]
    /\ minute = 1
    /\ journal = <<>>
    /\ pc = "idle"
    /\ timestamp = 0
    /\ pending = {}
    /\ todo = {}
    /\ current = None
    /\ cursor = 0
    /\ crashes = 0

Clock ==
    /\ minute < MaxMinute
    /\ minute' = minute + 1
    /\ UNCHANGED <<bars, journal, pc, local, crashes>>

\* run_cycle's timestamp and scan.  Cycles are at least 60 s apart.
BeginCycle ==
    /\ pc = "idle"
    /\ minute > timestamp \/ minute = MaxMinute
    /\ timestamp' = minute
    /\ pending' \in Scans
    /\ pc' = "alerts"
    /\ UNCHANGED <<bars, minute, journal, todo, current, cursor, crashes>>

SkipCandidate(c) ==
    /\ pc = "alerts" /\ c \in pending
    /\ ~Confirmed(c) \/ Duplicate(c)
    /\ pending' = pending \ {c}
    /\ UNCHANGED <<bars, minute, journal, pc, timestamp, todo, current, cursor, crashes>>

RecordAlert(c) ==
    /\ pc = "alerts" /\ c \in pending
    /\ Confirmed(c) /\ ~Duplicate(c)
    /\ journal' = record(journal, NewRecord(<<c.symbol, c.direction, timestamp>>, c, timestamp))
    /\ pending' = pending \ {c}
    /\ UNCHANGED <<bars, minute, pc, timestamp, todo, current, cursor, crashes>>

\* _update_outcomes reads the open rows once.
BeginOutcomes ==
    /\ pc = "alerts" /\ pending = {}
    /\ todo' = {journal[i] : i \in {j \in DOMAIN journal : IsOpen(journal[j])}}
    /\ pc' = "rows"
    /\ UNCHANGED <<bars, minute, journal, timestamp, pending, current, cursor, crashes>>

\* No full bar since the signal yet, or the request failed: next row.
PassOver(row) ==
    /\ pc = "rows" /\ row \in todo
    /\ todo' = todo \ {row}
    /\ UNCHANGED <<bars, minute, journal, pc, timestamp, pending, current, cursor, crashes>>

TooYoung(row) == first_closed_bar_start(row) >= timestamp /\ PassOver(row)

FetchFails(row) == first_closed_bar_start(row) < timestamp /\ PassOver(row)

FetchBars(row) ==
    /\ pc = "rows" /\ row \in todo
    /\ first_closed_bar_start(row) < timestamp
    /\ todo' = todo \ {row}
    /\ current' = row
    /\ cursor' = first_closed_bar_start(row)
    /\ pc' = "bars"
    /\ UNCHANGED <<bars, minute, journal, timestamp, pending, crashes>>

EndCycle ==
    /\ pc = "rows" /\ todo = {}
    /\ pc' = "idle"
    /\ UNCHANGED <<bars, minute, journal, local, crashes>>

-----------------------------------------------------------------------------
\* The loop over the fetched bars.  Leaving it, the row and its bars are dead.
NextRow == pc' = "rows" /\ current' = None /\ cursor' = 0

AtBar(verdict) ==
    /\ pc = "bars"
    /\ cursor <= LastFetched(current)
    /\ InWindow(current, cursor)
    /\ Verdict(current.plan, BarOf(current, cursor)) = verdict

BarsExhausted ==
    /\ pc = "bars"
    /\ cursor > LastFetched(current)
    /\ NextRow
    /\ UNCHANGED <<bars, minute, journal, timestamp, pending, todo, crashes>>

SkipBar ==
    /\ pc = "bars"
    /\ cursor <= LastFetched(current)
    /\ ~InWindow(current, cursor)
    /\ cursor' = cursor + 1
    /\ UNCHANGED <<bars, minute, journal, pc, timestamp, pending, todo, current, crashes>>

QuietBar ==
    /\ AtBar("NONE") \/ (AtBar("TARGET_1") /\ Has(current, "target_1_achieved"))
    /\ cursor' = cursor + 1
    /\ UNCHANGED <<bars, minute, journal, pc, timestamp, pending, todo, current, crashes>>

\* The row is marked and read back, and the loop goes on.
Target1Bar ==
    /\ AtBar("TARGET_1")
    /\ ~Has(current, "target_1_achieved")
    /\ journal' = update_live_state(journal, current.signal_id, {"target_1_achieved"},
                                    current.plan.target_1)
    /\ \E i \in DOMAIN journal' :
          journal'[i].signal_id = current.signal_id /\ current' = journal'[i]
    /\ cursor' = cursor + 1
    /\ UNCHANGED <<bars, minute, pc, timestamp, pending, todo, crashes>>

StopBar ==
    /\ AtBar("STOP_LOSS")
    /\ journal' = update_live_state(journal, current.signal_id,
                                    (current.hit \cap {"target_1_achieved"}) \cup {"stop_loss_hit"},
                                    current.plan.stop_loss)
    /\ pc' = "stop"
    /\ UNCHANGED <<bars, minute, local, crashes>>

Target2Bar ==
    /\ AtBar("TARGET_2")
    /\ journal' = update_live_state(journal, current.signal_id,
                                    {"target_1_achieved", "target_2_achieved"},
                                    current.plan.target_2)
    /\ pc' = "target_2"
    /\ UNCHANGED <<bars, minute, local, crashes>>

ResolveStop ==
    /\ pc = "stop"
    /\ journal' = resolve(journal, current.signal_id, "STOP_LOSS",
                          current.plan.stop_loss, -1, cursor)
    /\ NextRow
    /\ UNCHANGED <<bars, minute, timestamp, pending, todo, crashes>>

ResolveTarget2 ==
    /\ pc = "target_2"
    /\ journal' = resolve(journal, current.signal_id, "TARGET_2",
                          current.plan.target_2, current.plan.risk_reward, cursor)
    /\ NextRow
    /\ UNCHANGED <<bars, minute, timestamp, pending, todo, crashes>>

\* The process is killed or an exception leaves run_cycle; the next cycle is
\* another process that knows the journal only.
Crash ==
    /\ pc # "idle"
    /\ crashes < MaxCrashes
    /\ crashes' = crashes + 1
    /\ pc' = "idle"
    /\ pending' = {} /\ todo' = {} /\ current' = None /\ cursor' = 0
    /\ UNCHANGED <<bars, minute, journal, timestamp>>

WalkBars ==
    \/ BarsExhausted \/ SkipBar \/ QuietBar \/ Target1Bar \/ StopBar \/ Target2Bar
    \/ ResolveStop \/ ResolveTarget2

Work ==
    \/ BeginCycle
    \/ \E c \in pending : SkipCandidate(c) \/ RecordAlert(c)
    \/ BeginOutcomes
    \/ \E row \in todo : TooYoung(row) \/ FetchFails(row) \/ FetchBars(row)
    \/ EndCycle
    \/ WalkBars

Next == Clock \/ Work \/ Crash

Spec == Init /\ [][Next]_vars

\* The schedule runs cycles for ever and the clock does not stop; a request
\* that is tried again and again succeeds again and again.  Nothing is
\* promised about crashes, except that they are finitely many (MaxCrashes).
Fairness ==
    /\ WF_vars(Clock)
    /\ WF_vars(Work)
    /\ \A c \in Candidates : SF_vars(\E row \in todo : row.plan = c /\ FetchBars(row))

FairSpec == Spec /\ Fairness

-----------------------------------------------------------------------------
PcValues == {"idle", "alerts", "rows", "bars", "stop", "target_2"}

Ids == Symbols \X Directions \X Minutes

JournalRows ==
    [signal_id : Ids, timestamp : Minutes, plan : Candidates,
     status : {"OPEN", "STOP_LOSS", "TARGET_2"},
     exit_price : Int \cup {None}, outcome_r : Int \cup {None},
     resolved_at : Minutes \cup {None},
     hit : SUBSET Flags, sell_price : Int \cup {None}]

\* Every variable keeps its type: the rows on disk are well-formed records, a
\* row's id names the setup and the cycle that recorded it, and the walk over
\* the bars stays inside the clock.
TypeOK ==
    /\ bars \in [Symbols -> [Minutes -> Bars]]
    /\ minute \in Minutes
    /\ journal \in Seq(JournalRows)
    /\ pc \in PcValues
    /\ timestamp \in 0..MaxMinute
    /\ pending \subseteq Candidates
    /\ todo \subseteq JournalRows
    /\ current \in JournalRows \cup {None}
    /\ cursor \in 0..(MaxMinute + 1)
    /\ crashes \in 0..MaxCrashes

\* The history a row is judged by: the bars since the signal, in order.
DecisiveAt(row, m) ==
    /\ row.timestamp < m
    /\ HitsStop(row.plan, BarOf(row, m)) \/ HitsTarget2(row.plan, BarOf(row, m))

FirstDecisive(row, m) ==
    /\ DecisiveAt(row, m)
    /\ \A k \in Minutes : k < m => ~DecisiveAt(row, k)

\* The outcome that history gives it, written down independently of the walk.
WonAt(row, m) ==
    /\ FirstDecisive(row, m) /\ ~HitsStop(row.plan, BarOf(row, m))
    /\ row.status = "TARGET_2"
    /\ row.exit_price = row.plan.target_2
    /\ row.outcome_r = row.plan.risk_reward

LostAt(row, m) ==
    /\ FirstDecisive(row, m) /\ HitsStop(row.plan, BarOf(row, m))
    /\ row.status = "STOP_LOSS"
    /\ row.exit_price = row.plan.stop_loss
    /\ row.outcome_r = -1

\* A closed row has the outcome of the first bar after the signal, closed by
\* now, that touched its stop or its second target, however its evaluation was
\* spread over cycles, failed requests and crashes: no later bar, no bar from
\* before the alert and no unfinished bar can have decided it.
ResolvedAtFirstDecisiveBar ==
    \A i \in DOMAIN journal :
        ~IsOpen(journal[i]) =>
            \E m \in Minutes :
                /\ journal[i].resolved_at = m /\ m < minute
                /\ WonAt(journal[i], m) \/ LostAt(journal[i], m)

\* A row is credited with target 1 only for a bar that touched it, without
\* touching the stop, before the trade was decided; and a row that lost after
\* such a bar has kept the credit, whichever cycle saw the bar.
EarnedTarget1(row) ==
    \E m \in Minutes :
        /\ row.timestamp < m /\ m < minute
        /\ HitsTarget1(row.plan, BarOf(row, m)) /\ ~HitsStop(row.plan, BarOf(row, m))
        /\ \A k \in Minutes : k < m => ~DecisiveAt(row, k)

Target1CreditIsEarned ==
    \A i \in DOMAIN journal :
        /\ Has(journal[i], "target_1_achieved") => EarnedTarget1(journal[i])
        /\ ~IsOpen(journal[i]) /\ EarnedTarget1(journal[i]) => Has(journal[i], "target_1_achieved")

\* The process may die between update_live_state and resolve, and a later
\* cycle then closes the row.  The flag written first and the outcome written
\* last never contradict each other: summary() counts no row among the losses
\* and among the target-2 hits, no winner is marked as stopped out, and no row,
\* open or closed, carries the marks of both endings.
FlagsAgreeWithOutcome ==
    /\ Losses(journal) \cap Target2Rows(journal) = {}
    /\ \A i \in Wins(journal) : ~Has(journal[i], "stop_loss_hit") /\ i \in Target1Rows(journal)
    /\ \A i \in DOMAIN journal :
          ~(Has(journal[i], "target_2_achieved") /\ Has(journal[i], "stop_loss_hit"))

\* At no time are two plans open that the recorder takes for the same setup.
NoDuplicateOpenPlan ==
    \A i, j \in DOMAIN journal :
        i < j /\ IsOpen(journal[i]) /\ IsOpen(journal[j])
            => ~SameSetup(journal[i].plan, journal[j].plan, NearScale)

-----------------------------------------------------------------------------
\* The inductive invariant behind these properties.
Walking == pc \in {"bars", "stop", "target_2"}

\* A row's identity: its setup and the cycle that recorded it.
IdsInv ==
    /\ timestamp <= minute /\ (pc # "idle" => timestamp >= 1)
    /\ \A i \in DOMAIN journal :
          /\ journal[i].signal_id =
                <<journal[i].plan.symbol, journal[i].plan.direction, journal[i].timestamp>>
          /\ journal[i].timestamp <= timestamp
    /\ \A i, j \in DOMAIN journal : journal[i].signal_id = journal[j].signal_id => i = j

\* What is still to be recorded collides with nothing recorded in this cycle.
PendingInv ==
    /\ pending # {} => pc = "alerts"
    /\ \A c, d \in pending : c.symbol = d.symbol => c = d
    /\ \A c \in pending, i \in DOMAIN journal :
          journal[i].timestamp = timestamp => journal[i].plan.symbol # c.symbol

\* What a row says of its own history: flags before the outcome, then both.
LostHistory(row) ==
    \E m \in Minutes : m < minute /\ FirstDecisive(row, m) /\ HitsStop(row.plan, BarOf(row, m))

WonHistory(row) ==
    \E m \in Minutes : m < minute /\ FirstDecisive(row, m) /\ ~HitsStop(row.plan, BarOf(row, m))

RowInv(row) ==
    /\ Has(row, "target_1_achieved") => EarnedTarget1(row)
    /\ Has(row, "target_2_achieved") => WonHistory(row)
    /\ Has(row, "stop_loss_hit") => LostHistory(row)
    /\ IsOpen(row) => row.exit_price = None /\ row.outcome_r = None /\ row.resolved_at = None
    /\ ~IsOpen(row) =>
          /\ row.resolved_at \in Minutes /\ row.resolved_at < minute
          /\ WonAt(row, row.resolved_at) \/ LostAt(row, row.resolved_at)
          /\ EarnedTarget1(row) => Has(row, "target_1_achieved")

HistoryInv == \A i \in DOMAIN journal : RowInv(journal[i])

\* The rows still to be looked at are open and as the journal has them.
TodoInv ==
    /\ todo # {} => pc = "rows" \/ Walking
    /\ \A row \in todo : IsOpen(row) /\ \E i \in DOMAIN journal : journal[i] = row
    /\ Walking => \A row \in todo : row.signal_id # current.signal_id

\* The walk: every bar behind the cursor left the plan undecided, and a bar
\* that touched target 1 is in the flag.
WalkInv ==
    Walking =>
        /\ current \in JournalRows
        /\ current.timestamp < cursor
        /\ \E i \in DOMAIN journal :
              /\ journal[i].signal_id = current.signal_id /\ IsOpen(journal[i])
              /\ journal[i].plan = current.plan /\ journal[i].timestamp = current.timestamp
              /\ Has(current, "target_1_achieved") \/ pc = "target_2"
                    => Has(journal[i], "target_1_achieved")
              /\ pc = "bars" => journal[i] = current
        /\ \A k \in Minutes : k < cursor /\ k < timestamp => ~DecisiveAt(current, k)
        /\ \A k \in Minutes :
              /\ current.timestamp < k /\ k < cursor /\ k < timestamp
              /\ HitsTarget1(current.plan, BarOf(current, k))
              => Has(current, "target_1_achieved")
        /\ pc = "stop" =>
              cursor < timestamp /\ HitsStop(current.plan, BarOf(current, cursor))
        /\ pc = "target_2" =>
              /\ cursor < timestamp /\ HitsTarget2(current.plan, BarOf(current, cursor))
              /\ ~HitsStop(current.plan, BarOf(current, cursor))

\* The inductive invariant of the proofs: all of the above.
IInv ==
    /\ TypeOK /\ IdsInv /\ PendingInv /\ HistoryInv /\ TodoInv /\ WalkInv
    /\ NoDuplicateOpenPlan

-----------------------------------------------------------------------------
\* The journal keeps the book PaperBook promises: every append opens a plan,
\* every resolve settles one, and all other steps, the live flags and the
\* crashes among them, are invisible in it.
BookEntry(row) ==
    [plan |-> row.plan, since |-> row.timestamp,
     result |-> [status |-> row.status, exit_price |-> row.exit_price,
                 outcome_r |-> row.outcome_r, resolved_at |-> row.resolved_at]]

BookOf == [i \in DOMAIN journal |-> BookEntry(journal[i])]

Book == INSTANCE PaperBook WITH book <- BookOf

\* Seen through the plans and outcomes of its rows, every run of the recorder is
\* a run of the abstract book.
ImplementsPaperBook == Book!Spec

\* A plan that history has decided, within the bars one request returns, does
\* not stay open: the repeated evaluation from the signal on makes up for
\* every failed request and every crash.
DecidedWithin(n, c) ==
    \E i \in DOMAIN journal :
        /\ IsOpen(journal[i]) /\ journal[i].plan = c
        /\ \E m \in Minutes :
              m < minute /\ m <= journal[i].timestamp + n /\ DecisiveAt(journal[i], m)

DecidedPlanCloses == \A c \in Candidates : DecidedWithin(Limit, c) ~> ~DecidedWithin(Limit, c)

\* The same without the reservation: an open alert's outcome is found out
\* however long after the alert its levels are touched.
EveryDecidedPlanCloses ==
    \A c \in Candidates : DecidedWithin(MaxMinute, c) ~> ~DecidedWithin(MaxMinute, c)
=============================================================================
