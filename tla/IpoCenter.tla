------------------------------- MODULE IpoCenter -------------------------------
(***************************************************************************)
(* The IPO page: the feed, live or built in, is loaded once per session or *)
(* on request, and kept; every script filters what is kept by its day.     *)
(* The day is asked for several times, and midnight may come in between.   *)
(***************************************************************************)
EXTENDS Integers

CONSTANTS
    Calendars,     \* what the public calendar may list: sets of [company, open, close]
    FALLBACK_IPOS,
    NoDate,        \* a date that cannot be parsed
    LastDay        \* bound: the calendar day

ASSUME IpoAssumption ==
    /\ LastDay \in Nat /\ NoDate \notin Int
    /\ \A table \in Calendars : \A r \in table : {r.open, r.close} \subseteq Int \cup {NoDate}
    /\ \A r \in FALLBACK_IPOS : {r.open, r.close} \subseteq Int

VARIABLES
    today,        \* date.today()
    ipo_step,     \* "load", "fallback", "filter", "render", "shown"
    loaded,       \* whether the session has a list
    open_ipos, source_mode,
    checked,      \* the script's local today
    filtered,
    ipo_rows      \* per issue shown: the days remaining

feed == <<loaded, open_ipos, source_mode>>
ipoVars == <<today, ipo_step, feed, checked, filtered, ipo_rows>>

NoIssues == [r \in {} |-> 0]

Dated(r) == r.open # NoDate /\ r.close # NoDate
OpenOn(records, day) == {r \in records : r.open <= day /\ day <= r.close}

IpoInit ==
    /\ today = 1
    /\ ipo_step = "load"
    /\ loaded = FALSE /\ open_ipos = {} /\ source_mode = "unknown"
    /\ checked = 0 /\ filtered = {} /\ ipo_rows = NoIssues

Midnight ==
    /\ today < LastDay /\ today' = today + 1
    /\ UNCHANGED <<ipo_step, feed, checked, filtered, ipo_rows>>

\* A script that is not the session's first, and no refresh: the list is kept.
KeepList ==
    /\ ipo_step = "load" /\ loaded
    /\ ipo_step' = "filter"
    /\ UNCHANGED <<today, feed, checked, filtered, ipo_rows>>

LoadCalendar(table) ==
    LET open == OpenOn({r \in table : Dated(r)}, today)
    IN  /\ ipo_step = "load" /\ open # {}
        /\ ipo_step' = "filter"
        /\ loaded' = TRUE /\ open_ipos' = open /\ source_mode' = "live public IPO calendar"
        /\ UNCHANGED <<today, checked, filtered, ipo_rows>>

\* The calendar cannot be read, or lists nothing that is open.
CalendarFails ==
    /\ ipo_step = "load"
    /\ ipo_step' = "fallback"
    /\ UNCHANGED <<today, feed, checked, filtered, ipo_rows>>

LoadFallback ==
    /\ ipo_step = "fallback"
    /\ ipo_step' = "filter"
    /\ loaded' = TRUE /\ open_ipos' = OpenOn(FALLBACK_IPOS, today)
    /\ source_mode' = "verified fallback snapshot"
    /\ UNCHANGED <<today, checked, filtered, ipo_rows>>

\* A mutant of FilterOpen: what the feed answered was open.
FilterNothing ==
    /\ ipo_step = "filter"
    /\ checked' = today
    /\ filtered' = open_ipos
    /\ ipo_step' = IF filtered' = {} THEN "shown" ELSE "render"
    /\ UNCHANGED <<today, feed, ipo_rows>>

\* Nothing that is open: a warning, and the script ends.
FilterOpen ==
    /\ ipo_step = "filter"
    /\ checked' = today
    /\ filtered' = OpenOn(open_ipos, today)
    /\ ipo_step' = IF filtered' = {} THEN "shown" ELSE "render"
    /\ UNCHANGED <<today, feed, ipo_rows>>

\* _days_remaining asks for the day again, for each issue.
DaysRemaining(r) == IF r.close < today THEN 0 ELSE r.close - today

RenderRow(r) ==
    /\ ipo_step = "render"
    /\ r \in filtered \ DOMAIN ipo_rows
    /\ ipo_rows' = [x \in DOMAIN ipo_rows \cup {r} |->
                       IF x = r THEN DaysRemaining(r) ELSE ipo_rows[x]]
    /\ ipo_step' = IF filtered = DOMAIN ipo_rows' THEN "shown" ELSE "render"
    /\ UNCHANGED <<today, feed, checked, filtered>>

RerunIpos ==
    /\ ipo_step = "shown"
    /\ ipo_step' = "load"
    /\ filtered' = {} /\ ipo_rows' = NoIssues
    /\ UNCHANGED <<today, feed, checked>>

IpoNext ==
    \/ Midnight \/ KeepList \/ CalendarFails \/ LoadFallback \/ FilterOpen \/ RerunIpos
    \/ \E table \in Calendars : LoadCalendar(table)
    \/ \E r \in open_ipos : RenderRow(r)

IpoSpec == IpoInit /\ [][IpoNext]_ipoVars

-----------------------------------------------------------------------------
\* The time left of an issue is counted from some day between the filter and now,
\* however old the session's list is; only an issue whose last day has just ended
\* may still read "Closes today".
TimeLeftIsTrue ==
    \A r \in DOMAIN ipo_rows :
        \E day \in checked .. today :
            \/ r.open <= day /\ ipo_rows[r] = r.close - day
            \/ r.close >= checked /\ r.close < day /\ ipo_rows[r] = 0
=============================================================================
