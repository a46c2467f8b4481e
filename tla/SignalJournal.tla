---------------------------- MODULE SignalJournal ----------------------------
(***************************************************************************)
(* The paper-trading journal of monitoring/signal_journal.py: one CSV file *)
(* of SignalRecord rows, and what each method of SignalJournal makes of    *)
(* the rows it read.  The rows are a sequence in file order.  A row keeps  *)
(* the alert's risk plan in "plan" (market, score and reason are left out: *)
(* nothing here depends on them) and its live and final outcome beside it. *)
(*                                                                         *)
(* The operators are pure: whether a method's read and rewrite of the file *)
(* happen in one step, can be torn by a crash or interleaved with another  *)
(* process is said by the modules that use them.                           *)
(***************************************************************************)
EXTENDS Integers, Sequences

CONSTANT None   \* Python's None: no price, no outcome, no time

ASSUME NoneAssumption == None \notin Int

-----------------------------------------------------------------------------
\* The three live flags of a row; its "hit" is the set of those that are true.
Flags == {"target_1_achieved", "target_2_achieved", "stop_loss_hit"}

\* SignalRecord as it is appended: the outcome fields have their defaults.
NewRecord(id, plan, time) ==
    [signal_id |-> id, timestamp |-> time, plan |-> plan,
     status |-> "OPEN", exit_price |-> None, outcome_r |-> None, resolved_at |-> None,
     hit |-> {}, sell_price |-> None]

Has(row, flag) == flag \in row.hit

IsOpen(row) == row.status = "OPEN"

\* Mutants of Selects: closed rows too; only rows without a mark.
SelectsAny(row, id) == row.signal_id = id
SelectsUnmarked(row, id) == row.signal_id = id /\ IsOpen(row) /\ row.hit = {}

\* The rows a method's loop replaces: those with the id that are still open.
Selects(row, id) == row.signal_id = id /\ IsOpen(row)

\* "sell_price or record.sell_price": None and 0.0 are both false in Python.
PriceOr(price, old) == IF price \in {None, 0} THEN old ELSE price

\* The live flags are or-ed into the row and never taken back.
MarkLive(row, hit, sell) ==
    [row EXCEPT !.hit = @ \cup hit, !.sell_price = PriceOr(sell, @)]

\* A mutant of Close: exit price and time changed places.
CloseSwapped(row, status, exit, outcome, time) ==
    [row EXCEPT !.status = status, !.exit_price = time, !.sell_price = exit,
                !.outcome_r = outcome, !.resolved_at = exit]

\* The row resolve writes: closed, sold at the exit price, flags as they were.
Close(row, status, exit, outcome, time) ==
    [row EXCEPT !.status = status, !.exit_price = exit, !.sell_price = exit,
                !.outcome_r = outcome, !.resolved_at = time]

-----------------------------------------------------------------------------
record(rows, row) == Append(rows, row)

\* Mutants of the two: the marked rows are added behind the others, only open
\* rows make it into "replacement", or only rows other than the resolved ones.
UpdateAppends(rows, id, hit, sell) ==
    LET IsFound(row) == Selects(row, id)
        found == SelectSeq(rows, IsFound)
    IN  rows \o [i \in DOMAIN found |-> MarkLive(found[i], hit, sell)]

UpdateOpenRows(rows, id, hit, sell) ==
    LET IsKept(row) == IsOpen(row)
    IN  SelectSeq([i \in DOMAIN rows |->
                      IF Selects(rows[i], id) THEN MarkLive(rows[i], hit, sell) ELSE rows[i]],
                  IsKept)

ResolveDropsRow(rows, id, status, exit, outcome, time) ==
    LET IsKept(row) == ~Selects(row, id)
    IN  SelectSeq(rows, IsKept)

update_live_state(rows, id, hit, sell) ==
    [i \in DOMAIN rows |->
        IF Selects(rows[i], id) THEN MarkLive(rows[i], hit, sell) ELSE rows[i]]

resolve(rows, id, status, exit, outcome, time) ==
    [i \in DOMAIN rows |->
        IF Selects(rows[i], id)
        THEN Close(rows[i], status, exit, outcome, time)
        ELSE rows[i]]

\* What "updated" says: whether the method rewrites the file at all.
Updates(rows, id) == \E i \in DOMAIN rows : Selects(rows[i], id)

-----------------------------------------------------------------------------
\* summary(): the sets of rows (as positions) behind the figures it reports.
ClosedRows(rows) == {i \in DOMAIN rows : rows[i].outcome_r # None}
Wins(rows)       == {i \in ClosedRows(rows) : rows[i].outcome_r > 0}
Losses(rows)     == {i \in ClosedRows(rows) : rows[i].outcome_r < 0}
Target1Rows(rows) ==
    {i \in DOMAIN rows : Has(rows[i], "target_1_achieved") \/ rows[i].status \in {"TARGET_1", "TARGET_2"}}
Target2Rows(rows) ==
    {i \in DOMAIN rows : Has(rows[i], "target_2_achieved") \/ rows[i].status = "TARGET_2"}
=============================================================================
