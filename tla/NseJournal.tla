------------------------------ MODULE NseJournal ------------------------------
(***************************************************************************)
(* reports/nse_signal_journal.csv and the programs that write it: the      *)
(* runner of tools/nse_validation_runner.py, the terminal fragment of      *)
(* app.py and the fragments of pages/1_NSE_Intraday.py, every one with its *)
(* own SignalJournal on the one file and no lock between them.             *)
(*                                                                         *)
(* The grain is the write to the file.  Reading is one step and so is an   *)
(* append, whose one line is written when the file is closed.  A rewrite   *)
(* is open("w"), which truncates; then a write whenever the I/O buffer is  *)
(* full, wherever in a line that is; and the rest when the file is closed. *)
(* In between the process may die, or another program read what is there.  *)
(* Two programs that have the file open for writing at once are left out:  *)
(* what the bytes of both make of each other is not modelled.              *)
(***************************************************************************)
EXTENDS SignalJournal, TradePlan, FiniteSets

CONSTANTS
    Runners,      \* programs that build their journal once and go on with it
    Pages,        \* dashboard fragments, which build it on every run
    Alerts,       \* the plans that the analysis can confirm
    Prices,       \* the prices a one-minute bar can close at
    OneAtATime,   \* whether a program is only started while no other one runs
    Overlaps,     \* whether one may use the file inside another one's rewrite
    TornWrites,   \* whether a process may die inside a rewrite
    Fresh,        \* whether the file is yet to be created
    MaxAlerts,    \* bound: no scan finds alerts beyond so many, recorded or found
    MaxCrashes    \* bound: how often a process dies

Writers == Runners \cup Pages

ASSUME JournalAssumption ==
    /\ Runners \cap Pages = {}
    /\ Alerts \subseteq Plans /\ IsFiniteSet(Alerts)
    /\ Prices \subseteq Int
    /\ OneAtATime \in BOOLEAN /\ Overlaps \in BOOLEAN /\ TornWrites \in BOOLEAN /\ Fresh \in BOOLEAN
    /\ OneAtATime => ~Overlaps
    /\ MaxAlerts \in Nat /\ MaxCrashes \in Nat

\* The levels of a confirmed plan are in order, and its second target is worth
\* the risk at least (build_risk_plan refuses the others; Analysis has it).
ASSUME PlansAssumption ==
    \A plan \in Alerts :
        IF Long(plan)
        THEN plan.stop_loss < plan.entry /\ plan.target_2 - plan.entry >= plan.entry - plan.stop_loss
        ELSE plan.entry < plan.stop_loss /\ plan.entry - plan.target_2 >= plan.stop_loss - plan.entry

VARIABLES
    file,         \* whether it starts with the header line, its rows, and its "tail":
                  \* the line it breaks off in, if any, as it would be read
    alerts,       \* history: the rows ever appended, in order
    pc,           \* where each writer is
    results,      \* the analysed alerts it has yet to record
    existing,     \* its list of the rows it read
    todo,         \* the open rows it has yet to look at
    row,          \* the row it is looking at
    replacement,  \* the rows it is about to write
    return,       \* where it goes on after the rewrite
    crashes

vars == <<file, alerts, pc, results, existing, todo, row, replacement, return, crashes>>

Contents(rows) == [header |-> TRUE, rows |-> rows, tail |-> <<>>]

Empty == [header |-> FALSE, rows |-> <<>>, tail |-> <<>>]

-----------------------------------------------------------------------------
\* A mutant of IsDuplicate: an alert at another entry is another setup.
IsDuplicateSamePlan(rows, alert) ==
    \E i \in DOMAIN rows : IsOpen(rows[i]) /\ rows[i].plan = alert

\* The recorders' test: an open row of the same symbol and direction.
IsDuplicate(rows, alert) ==
    \E i \in DOMAIN rows :
        /\ IsOpen(rows[i])
        /\ rows[i].plan.symbol = alert.symbol /\ rows[i].plan.direction = alert.direction

\* The analysis has one result per symbol, and BUY or SELL for some of them.
Found == UNION {{p} \X results[p] : p \in Writers}

Scans ==
    {S \in SUBSET Alerts :
        /\ S = {} \/ Len(alerts) + Cardinality(Found) + Cardinality(S) <= MaxAlerts
        /\ \A a, b \in S : a.symbol = b.symbol => a = b}

\* A line that makes _from_row raise.
Torn == [signal_id |-> 0, status |-> "TORN"]

\* records(): DictReader takes the first line for the header.  Without the real
\* one the first row is lost on it, and any further row has the wrong keys.
Rows(f) == IF f.header THEN f.rows \o f.tail ELSE <<>>

Readable(f) ==
    IF f.header
    THEN \A i \in DOMAIN Rows(f) : Rows(f)[i] # Torn
    ELSE Len(f.rows) <= 1

\* A number that is cut short: nothing of it, its first digits, or all of it.
Parts(n) == IF n = None THEN {None} ELSE {None, n \div 10, n}

\* How the line of a row reads when it is cut, wherever that is.  The columns up
\* to risk_reward have to be there; the later ones default if they are not, and
\* a status of which a part is there is that part.
Cuts(r) ==
    LET plain(rr) == NewRecord(r.signal_id, [r.plan EXCEPT !.risk_reward = rr], r.timestamp)
        ended(exit, outcome) ==
            [plain(r.plan.risk_reward) EXCEPT
                !.status = r.status, !.exit_price = exit, !.outcome_r = outcome]
        flagged == {{}, {"target_1_achieved"}, {"target_1_achieved", "target_2_achieved"}, Flags}
    IN  {Torn}
        \cup {plain(rr) : rr \in Parts(r.plan.risk_reward) \ {None}}
        \cup {[plain(r.plan.risk_reward) EXCEPT !.status = "PART"]}
        \cup {ended(exit, None) : exit \in Parts(r.exit_price)}
        \cup {ended(r.exit_price, outcome) : outcome \in Parts(r.outcome_r)}
        \cup {[r EXCEPT !.hit = @ \cap flags, !.sell_price = None] : flags \in flagged}
        \cup {[r EXCEPT !.sell_price = price] : price \in Parts(r.sell_price)}

\* The file after an append.  Onto a line that breaks off the new one is written
\* without a line break; the columns of the two then make a line that raises,
\* but for the id alone running into the whole of the new line.
Appended(f, new) ==
    IF f.tail = <<>>
    THEN {[f EXCEPT !.rows = record(@, new)]}
    ELSE {[f EXCEPT !.rows = Append(@, line), !.tail = <<>>] :
             line \in {Torn} \cup (IF f.tail = <<Torn>> THEN {[new EXCEPT !.signal_id = 0]} ELSE {})}

\* What a rewrite to these rows has written when it writes a full buffer: the
\* header, some more of the lines than before, and perhaps a part of the next.
Pieces(f, rows) ==
    UNION {{[Contents(SubSeq(rows, 1, n)) EXCEPT !.tail = tail] :
               tail \in {<<>>} \cup {<<line>> : line \in Cuts(rows[n + 1])}} :
           n \in {k \in 0 .. (Len(rows) - 1) : f = Empty \/ k > Len(f.rows)}}

OpenRows(rows, symbols) ==
    {rows[i] : i \in {j \in DOMAIN rows : IsOpen(rows[j]) /\ rows[j].plan.symbol \in symbols}}

\* Fractional outcomes are rounded; only the sign is ever looked at.
outcome_r(plan, exit) ==
    LET risk == Abs(plan.entry - plan.stop_loss)
    IN  IF risk = 0 THEN 0
        ELSE (IF Long(plan) THEN exit - plan.entry ELSE plan.entry - exit) \div risk

-----------------------------------------------------------------------------
\* No other writer is inside a rewrite, that is between reading the rows it is
\* computed from and closing the file; or nothing keeps this one from the file.
Free(p) == Overlaps \/ \A q \in Writers \ {p} : pc[q] \notin {"truncate", "write"}

\* No other writer has the file open for a rewrite.
Closed(p) == \A q \in Writers \ {p} : pc[q] # "write"

\* Moving one writer on.
Goto(p, place) == pc' = [pc EXCEPT ![p] = place]

\* _rewrite(rows), then on to "place".
Rewrite(p, rows, place) ==
    /\ replacement' = [replacement EXCEPT ![p] = rows]
    /\ return' = [return EXCEPT ![p] = place]
    /\ Goto(p, "truncate")

Continue(p, place) == Goto(p, place) /\ UNCHANGED <<replacement, return>>

\* After one result: the pages read the file again for each of them.
NextResult(p) == IF p \in Runners THEN "results" ELSE "read"

\* The cycle is over and its locals are gone.
Forget(p) ==
    /\ results' = [results EXCEPT ![p] = {}]
    /\ existing' = [existing EXCEPT ![p] = <<>>]
    /\ todo' = [todo EXCEPT ![p] = {}]
    /\ row' = [row EXCEPT ![p] = None]

Init ==
    /\ file = IF Fresh THEN Empty ELSE Contents(<<>>)   \* one that is not there is created like an empty one
    /\ alerts = <<>>
    /\ pc = [p \in Writers |-> "down"]
    /\ results = [p \in Writers |-> {}]
    /\ existing = [p \in Writers |-> <<>>]
    /\ todo = [p \in Writers |-> {}]
    /\ row = [p \in Writers |-> None]
    /\ replacement = [p \in Writers |-> <<>>]
    /\ return = [p \in Writers |-> "idle"]
    /\ crashes = 0

\* SignalJournal(path): a file without the header is migrated, that is
\* rewritten with the rows that can be read from it.
Construct(p) ==
    /\ pc[p] = "down"
    /\ OneAtATime => \A q \in Writers : pc[q] = "down"
    /\ Free(p)
    /\ \/ file.header /\ Continue(p, "idle")
       \/ ~file.header /\ Readable(file) /\ Rewrite(p, Rows(file), "idle")
    /\ UNCHANGED <<file, alerts, results, existing, todo, row, crashes>>

BeginCycle(p) ==
    /\ pc[p] = "idle"
    /\ \E S \in Scans : results' = [results EXCEPT ![p] = S]
    /\ Continue(p, "read")
    /\ UNCHANGED <<file, alerts, existing, todo, row, crashes>>

ReadExisting(p) ==
    /\ pc[p] = "read" /\ results[p] # {}
    /\ Free(p) /\ Readable(file)
    /\ existing' = [existing EXCEPT ![p] = Rows(file)]
    /\ Continue(p, "results")
    /\ UNCHANGED <<file, alerts, results, todo, row, crashes>>

SkipResult(p, alert) ==
    /\ pc[p] = "results" /\ alert \in results[p]
    /\ IsDuplicate(existing[p], alert)
    /\ results' = [results EXCEPT ![p] = @ \ {alert}]
    /\ Continue(p, NextResult(p))
    /\ UNCHANGED <<file, alerts, existing, todo, row, crashes>>

\* The append; open("a") writes at the end of whatever the file is by now.
RecordResult(p, alert) ==
    /\ pc[p] = "results" /\ alert \in results[p]
    /\ ~IsDuplicate(existing[p], alert)
    /\ Free(p) /\ Closed(p)
    /\ LET new == NewRecord(Len(alerts) + 1, alert, None)
       IN  /\ file' \in Appended(file, new)
           /\ alerts' = Append(alerts, new)
    /\ results' = [results EXCEPT ![p] = @ \ {alert}]
    /\ Continue(p, IF p \in Runners THEN "readback" ELSE "read")
    /\ UNCHANGED <<existing, todo, row, crashes>>

\* existing.append(journal.records()[-1]): the last row, whoever wrote it.
ReadBack(p) ==
    /\ pc[p] = "readback"
    /\ Free(p) /\ Readable(file) /\ Rows(file) # <<>>
    /\ existing' = [existing EXCEPT ![p] = Append(@, Rows(file)[Len(Rows(file))])]
    /\ Continue(p, "results")
    /\ UNCHANGED <<file, alerts, results, todo, row, crashes>>

\* _update_outcomes: the runner looks at every open row, a page at those of its
\* symbol; the alert engine of a page at none.
BeginOutcomes(p) ==
    /\ pc[p] \in {"read", "results"} /\ results[p] = {}
    /\ Free(p) /\ Readable(file)
    /\ \E symbols \in (IF p \in Runners THEN {Symbols} ELSE {{}} \cup {{s} : s \in Symbols}) :
          todo' = [todo EXCEPT ![p] = OpenRows(Rows(file), symbols)]
    /\ existing' = [existing EXCEPT ![p] = <<>>]
    /\ Continue(p, "outcomes")
    /\ UNCHANGED <<file, alerts, results, row, crashes>>

\* The runner goes on without a row whose price it cannot get.
PassOver(p, r) ==
    /\ pc[p] = "outcomes" /\ r \in todo[p] /\ p \in Runners
    /\ todo' = [todo EXCEPT ![p] = @ \ {r}]
    /\ Continue(p, "outcomes")
    /\ UNCHANGED <<file, alerts, results, existing, row, crashes>>

\* The live flags of a price, the price the row would be sold at, and the end.
Hits(plan, price) ==
    (IF HitsTarget1(plan, Tick(price)) THEN {"target_1_achieved"} ELSE {})
    \cup (IF HitsTarget2(plan, Tick(price)) THEN {"target_2_achieved"} ELSE {})
    \cup (IF HitsStop(plan, Tick(price)) THEN {"stop_loss_hit"} ELSE {})

Ending(plan, price) ==
    IF HitsTarget2(plan, Tick(price)) THEN "TARGET_2_ACHIEVED"
    ELSE IF HitsStop(plan, Tick(price)) THEN "STOP_LOSS_HIT"
    ELSE "OPEN"

ExitPrice(plan, ending) ==
    IF ending = "TARGET_2_ACHIEVED" THEN plan.target_2
    ELSE IF ending = "STOP_LOSS_HIT" THEN plan.stop_loss
    ELSE None

\* update_live_state reads the file and rewrites it whenever the row is open,
\* hit or not.
Evaluate(p, r, price) ==
    /\ pc[p] = "outcomes" /\ r \in todo[p]
    /\ Free(p) /\ Readable(file)
    /\ LET ending == Ending(r.plan, price)
           place  == IF ending = "OPEN" THEN "outcomes" ELSE ending
       IN  /\ row' = [row EXCEPT ![p] = IF ending = "OPEN" THEN None ELSE r]
           /\ IF Updates(Rows(file), r.signal_id)
              THEN Rewrite(p, update_live_state(Rows(file), r.signal_id, Hits(r.plan, price),
                                                ExitPrice(r.plan, ending)), place)
              ELSE Continue(p, place)
    /\ todo' = [todo EXCEPT ![p] = @ \ {r}]
    /\ UNCHANGED <<file, alerts, results, existing, crashes>>

Resolve(p, ending) ==
    /\ pc[p] = ending
    /\ Free(p) /\ Readable(file)
    /\ LET r    == row[p]
           exit == ExitPrice(r.plan, ending)
       IN  IF Updates(Rows(file), r.signal_id)
           THEN Rewrite(p, resolve(Rows(file), r.signal_id, ending, exit,
                                   outcome_r(r.plan, exit), None), "outcomes")
           ELSE Continue(p, "outcomes")
    /\ row' = [row EXCEPT ![p] = None]
    /\ UNCHANGED <<file, alerts, results, existing, todo, crashes>>

\* _rewrite: open("w"), and the header and the rows on their way to the file.
Truncate(p) ==
    /\ pc[p] = "truncate" /\ Closed(p)
    /\ file' = Empty
    /\ Goto(p, "write")
    /\ UNCHANGED <<alerts, results, existing, todo, row, replacement, return, crashes>>

Flush(p) ==
    /\ pc[p] = "write"
    /\ file' \in Pieces(file, replacement[p])
    /\ UNCHANGED <<alerts, pc, results, existing, todo, row, replacement, return, crashes>>

CloseFile(p) ==
    /\ pc[p] = "write"
    /\ file' = Contents(replacement[p])
    /\ Goto(p, return[p])
    /\ replacement' = [replacement EXCEPT ![p] = <<>>]
    /\ return' = [return EXCEPT ![p] = "idle"]
    /\ UNCHANGED <<alerts, results, existing, todo, row, crashes>>

\* The runner exits when the market has closed; a page's next run may be a
\* fragment with its journal or a new script run.
EndCycle(p) ==
    /\ pc[p] = "outcomes" /\ todo[p] = {}
    /\ \E place \in {"idle", "down"} : Continue(p, place)
    /\ Forget(p)
    /\ UNCHANGED <<file, alerts, crashes>>

\* An exception (rows that cannot be read, no last row) ends the cycle
\* ("Retrying on the next cycle."), and the runner too if it was its first.
CycleFails(p) ==
    /\ Free(p)
    /\ \/ pc[p] \in {"read", "results", "readback", "outcomes", "TARGET_2_ACHIEVED", "STOP_LOSS_HIT"}
          /\ ~Readable(file)
       \/ pc[p] = "readback" /\ Rows(file) = <<>>
    /\ \E place \in {"idle", "down"} : Continue(p, place)
    /\ Forget(p)
    /\ UNCHANGED <<file, alerts, crashes>>

Crash(p) ==
    /\ pc[p] # "down" /\ crashes < MaxCrashes
    /\ pc[p] # "write" \/ TornWrites
    /\ crashes' = crashes + 1
    /\ Goto(p, "down")
    /\ replacement' = [replacement EXCEPT ![p] = <<>>]
    /\ return' = [return EXCEPT ![p] = "idle"]
    /\ Forget(p)
    /\ UNCHANGED <<file, alerts>>

Recording(p) ==
    \/ Construct(p) \/ BeginCycle(p) \/ ReadExisting(p)
    \/ \E alert \in results[p] : SkipResult(p, alert) \/ RecordResult(p, alert)
    \/ ReadBack(p)

Evaluating(p) ==
    \/ BeginOutcomes(p)
    \/ \E r \in todo[p] : PassOver(p, r) \/ \E price \in Prices : Evaluate(p, r, price)
    \/ \E ending \in {"TARGET_2_ACHIEVED", "STOP_LOSS_HIT"} : Resolve(p, ending)
    \/ EndCycle(p)

Rewriting(p) == Truncate(p) \/ Flush(p) \/ CloseFile(p)

Next ==
    \E p \in Writers :
        \/ Recording(p) \/ Evaluating(p) \/ Rewriting(p) \/ CycleFails(p) \/ Crash(p)

Spec == Init /\ [][Next]_vars

-----------------------------------------------------------------------------
PcValues == {"down", "idle", "read", "results", "readback", "outcomes",
             "TARGET_2_ACHIEVED", "STOP_LOSS_HIT", "truncate", "write"}

JournalRows ==
    [signal_id : Nat, timestamp : {None}, plan : Plans,
     status : {"OPEN", "TARGET_2_ACHIEVED", "STOP_LOSS_HIT", "PART"},
     exit_price : Int \cup {None}, outcome_r : Int \cup {None}, resolved_at : {None},
     hit : SUBSET Flags, sell_price : Int \cup {None}]

FileLines == JournalRows \cup {Torn}

\* Every variable keeps its type: what a writer has read is complete records,
\* whatever the lines of the file are.
TypeOK ==
    /\ file \in [header : BOOLEAN, rows : Seq(FileLines), tail : Seq(FileLines)]
    /\ alerts \in Seq(JournalRows)
    /\ pc \in [Writers -> PcValues]
    /\ results \in [Writers -> SUBSET Alerts]
    /\ existing \in [Writers -> Seq(JournalRows)]
    /\ todo \in [Writers -> SUBSET JournalRows]
    /\ row \in [Writers -> JournalRows \cup {None}]
    /\ replacement \in [Writers -> Seq(JournalRows)]
    /\ return \in [Writers -> PcValues]
    /\ crashes \in 0..MaxCrashes

\* What the journal will hold once the rewrite under way is through.
Settled ==
    IF \E p \in Writers : pc[p] = "write"
    THEN replacement[CHOOSE p \in Writers : pc[p] = "write"]
    ELSE Rows(file)

\* Every alert that was ever appended is in the journal, with the plan it was
\* recorded with: no rewrite, whichever rows it was computed from, drops one.
NothingLost ==
    \A i \in DOMAIN alerts :
        \E j \in DOMAIN Settled :
            Settled[j].signal_id = alerts[i].signal_id /\ Settled[j].plan = alerts[i].plan

\* At most one row is open for a symbol and a direction, also when what a dying
\* program left of a closed row reads as an open one.
OneOpenPerSide ==
    \A i, j \in DOMAIN Settled :
        /\ IsOpen(Settled[i]) /\ IsOpen(Settled[j])
        /\ Settled[i].plan.symbol = Settled[j].plan.symbol
        /\ Settled[i].plan.direction = Settled[j].plan.direction
        => i = j

\* The same plan to trade: risk_reward, which nothing acts on, may be cut short.
SameLevels(a, b) == [a EXCEPT !.risk_reward = b.risk_reward] = b

\* Wherever a program dies and whatever is written after it, each line that can
\* be read is an alert that was recorded, under its own id and with the levels
\* it was recorded with; the lines are in the order of recording, none twice.
PlansSurvive ==
    \A i \in DOMAIN Rows(file) :
        LET line == Rows(file)[i]
        IN  line # Torn =>
              /\ \E j \in DOMAIN alerts :
                    alerts[j].signal_id = line.signal_id /\ SameLevels(line.plan, alerts[j].plan)
              /\ \A k \in 1 .. (i - 1) :
                    Rows(file)[k] # Torn => Rows(file)[k].signal_id < line.signal_id

\* However the cycles of the programs interleave, each row is one that was
\* recorded, with the plan it was recorded with, and a closed row has the exit
\* and the result that its plan gives its status: an outcome computed from one
\* reading of the file never lands on another row, or on one that another
\* program has closed differently since.
OutcomesFitPlans ==
    \A i \in DOMAIN Settled :
        LET r == Settled[i]
        IN  /\ \E j \in DOMAIN alerts : alerts[j].signal_id = r.signal_id /\ alerts[j].plan = r.plan
            /\ r.status = "TARGET_2_ACHIEVED" =>
                  r.exit_price = r.plan.target_2 /\ r.sell_price = r.plan.target_2 /\ r.outcome_r > 0
            /\ r.status = "STOP_LOSS_HIT" =>
                  r.exit_price = r.plan.stop_loss /\ r.sell_price = r.plan.stop_loss /\ r.outcome_r = -1

\* A closed row is never opened again, resolved again or taken out.
ClosedForGood ==
    [][\A i \in DOMAIN Settled :
          ~IsOpen(Settled[i]) => \E j \in DOMAIN Settled' : Settled'[j] = Settled[i]]_vars
=============================================================================
