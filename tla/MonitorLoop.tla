------------------------------ MODULE MonitorLoop ------------------------------
(***************************************************************************)
(* The watchlist and the one-minute monitor built over it: cycles on a     *)
(* schedule, each of which calls process_symbol for every symbol in turn.  *)
(* A call takes time, or raises; the user edits the watchlist meanwhile.   *)
(***************************************************************************)
EXTENDS Integers, FiniteSets, SequencesExt

CONSTANTS
    Symbols,     \* every symbol once, in the order of their names
    Inputs,      \* what the user types for a symbol
    normalized,  \* what strip and upper make of it; NoSymbol for nothing
    NoSymbol,
    Session,     \* the times of the regular session
    Interval,    \* interval_seconds, in units of the clock
    MaxWork,     \* bound: how long one call takes
    MaxTime,     \* bound: the clock
    MaxChanges   \* bound: edits of the watchlist

ASSUME MonitorAssumption ==
    /\ Symbols \in Seq(Range(Symbols)) /\ IsInjective(Symbols)
    /\ normalized \in [Inputs -> Range(Symbols) \cup {NoSymbol}] /\ NoSymbol \notin Range(Symbols)
    /\ Interval \in Nat \ {0} /\ MaxWork \in Nat /\ MaxTime \in Nat /\ MaxChanges \in Nat

VARIABLES
    items,      \* the symbols of Watchlist._items; when each was added is left out
    changes,
    clock,
    mode,       \* "off", "ready", "due", "cycle", "sleep", or "once" for process_cycle
    symbols,    \* OneMinuteMonitor.symbols
    todo,       \* the rest of the loop over the symbols
    started,    \* history: when run was called
    next_run, completed,
    served      \* history: calls per symbol since run was called

schedule == <<symbols, started, next_run, completed>>
monitorVars == <<items, changes, clock, mode, todo, schedule, served>>

Precedes(x, y) == \E i, j \in DOMAIN Symbols : i < j /\ x = Symbols[i] /\ y = Symbols[j]

\* Watchlist.symbols: sorted.  There is one such sequence.
Selected ==
    {q \in [1 .. Cardinality(items) -> items] :
        \A i, j \in DOMAIN q : i < j => Precedes(q[i], q[j])}

NoCalls == [s \in Range(Symbols) |-> 0]

MonitorInit ==
    /\ items = {} /\ changes = 0
    /\ clock = 0
    /\ mode = "off" /\ symbols = <<>> /\ todo = <<>>
    /\ started = 0 /\ next_run = 0 /\ completed = 0
    /\ served = NoCalls

-----------------------------------------------------------------------------
\* An empty name raises; a name in the list gets a new time, and no second entry.
AddItem(i) ==
    /\ normalized[i] # NoSymbol
    /\ changes < MaxChanges /\ changes' = changes + 1
    /\ items' = items \cup {normalized[i]}
    /\ UNCHANGED <<clock, mode, todo, schedule, served>>

RemoveItem(i) ==
    /\ normalized[i] \in items
    /\ changes < MaxChanges /\ changes' = changes + 1
    /\ items' = items \ {normalized[i]}
    /\ UNCHANGED <<clock, mode, todo, schedule, served>>

Wait ==
    /\ mode = "off" /\ clock < MaxTime
    /\ clock' = clock + 1
    /\ UNCHANGED <<items, changes, mode, todo, schedule, served>>

-----------------------------------------------------------------------------
\* build_monitor takes the symbols of the moment.
BuildMonitor ==
    /\ mode = "off"
    /\ mode' = "ready" /\ symbols' \in Selected
    /\ UNCHANGED <<items, changes, clock, todo, started, next_run, completed, served>>

Run ==
    /\ mode = "ready"
    /\ mode' = "due"
    /\ started' = clock /\ next_run' = clock /\ completed' = 0
    /\ served' = NoCalls
    /\ UNCHANGED <<items, changes, clock, todo, symbols>>

\* A mutant of BeginCycle: the symbols are those of the watchlist.
BeginCurrentCycle ==
    /\ mode = "due" /\ clock < MaxTime
    /\ mode' = "cycle"
    /\ todo' \in IF clock \in Session THEN Selected ELSE {<<>>}
    /\ UNCHANGED <<items, changes, clock, schedule, served>>

\* Outside the session a cycle has nothing to do.
BeginCycle ==
    /\ mode = "due" /\ clock < MaxTime
    /\ mode' = "cycle"
    /\ todo' = IF clock \in Session THEN symbols ELSE <<>>
    /\ UNCHANGED <<items, changes, clock, schedule, served>>

\* WatchlistMonitor.process_cycle: the current symbols, at any time of day.
ProcessCycle ==
    /\ mode = "off" /\ clock < MaxTime
    /\ mode' = "once" /\ todo' \in Selected
    /\ served' = NoCalls
    /\ UNCHANGED <<items, changes, clock, schedule>>

ProcessSymbol ==
    /\ mode \in {"cycle", "once"} /\ todo # <<>>
    /\ served' = [served EXCEPT ![Head(todo)] = @ + 1]
    /\ todo' = Tail(todo)
    /\ clock' \in clock .. clock + MaxWork
    /\ UNCHANGED <<items, changes, mode, schedule>>

\* An exception leaves the loop, and run.
ProcessFails ==
    /\ mode \in {"cycle", "once"} /\ todo # <<>>
    /\ mode' = "off" /\ todo' = <<>>
    /\ UNCHANGED <<items, changes, clock, schedule, served>>

\* A mutant of EndCycle: the next cycle is one interval from now.
EndCycleDrifting ==
    /\ mode = "cycle" /\ todo = <<>>
    /\ completed' = completed + 1
    /\ next_run' = clock + Interval
    /\ mode' = "sleep"
    /\ UNCHANGED <<items, changes, clock, todo, symbols, started, served>>

\* The schedule is kept whatever the cycle took.
EndCycle ==
    /\ mode = "cycle" /\ todo = <<>>
    /\ completed' = completed + 1
    /\ next_run' = next_run + Interval
    /\ mode' = "sleep"
    /\ UNCHANGED <<items, changes, clock, todo, symbols, started, served>>

EndOnce ==
    /\ mode = "once" /\ todo = <<>>
    /\ mode' = "off"
    /\ UNCHANGED <<items, changes, clock, todo, schedule, served>>

\* sleep takes what is left until the next run, if anything, or longer.
Sleep ==
    /\ mode = "sleep"
    /\ mode' = "due"
    /\ \E late \in {0, 1} : clock' = late + IF clock < next_run THEN next_run ELSE clock
    /\ UNCHANGED <<items, changes, todo, schedule, served>>

\* run has an end when it was given a number of cycles.
Stop ==
    /\ mode = "sleep"
    /\ mode' = "off"
    /\ UNCHANGED <<items, changes, clock, todo, schedule, served>>

MonitorNext ==
    \/ \E i \in Inputs : AddItem(i) \/ RemoveItem(i)
    \/ Wait \/ BuildMonitor \/ Run \/ BeginCycle \/ ProcessCycle \/ ProcessSymbol
    \/ ProcessFails \/ EndCycle \/ EndOnce \/ Sleep \/ Stop

MonitorSpec == MonitorInit /\ [][MonitorNext]_monitorVars

-----------------------------------------------------------------------------
\* Whenever the monitor rests, it has run as many cycles as have come due since
\* it started: those that overran their interval were made up for, none was
\* dropped and none run twice.
RestsOnSchedule ==
    mode = "sleep" /\ clock < next_run => (clock - started) \div Interval + 1 = completed

\* Symbols are served in turn: between two of the monitor's symbols, the earlier
\* one is at most one call ahead, whatever is added, removed or raised meanwhile.
ServedInTurn ==
    mode \in {"due", "cycle", "sleep"} =>
        \A i, j \in DOMAIN symbols :
            i < j => served[symbols[i]] - served[symbols[j]] \in {0, 1}
=============================================================================
