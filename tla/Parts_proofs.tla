----------------------------- MODULE Parts_proofs -----------------------------
(***************************************************************************)
(* Proofs about five of the parts that MCParts checks side by side: the open *)
(* issues of the IPO page, the monitor with its schedule and its symbols, the*)
(* repository with its workflow and daemons, the broker session, and the file*)
(* of evaluated signals.  For every instance of each.                      *)
(***************************************************************************)
EXTENDS IpoCenter, MonitorLoop, RepositorySync, BrokerConnection,
        PerformanceStore, SequenceLemmas

-----------------------------------------------------------------------------
\* Issues with dates: those kept can be compared with a day.
WithDates(list) == \A r \in list : r.open \in Int /\ r.close \in Int

\* Rows are made of issues that were open when the script filtered its list.
IssuesInv ==
    /\ today \in Nat /\ checked \in Nat /\ checked <= today
    /\ WithDates(open_ipos) /\ WithDates(filtered)
    /\ filtered = OpenOn(filtered, checked)
    /\ DOMAIN ipo_rows \subseteq filtered
    /\ ipo_step \notin {"render", "shown"} => DOMAIN ipo_rows = {}
    /\ TimeLeftIsTrue

\* The row of an issue, whatever day it has become since the filter.
LEMMA RowStep ==
    ASSUME IssuesInv, NEW r, RenderRow(r)
    PROVE  IssuesInv'
<1>1. /\ r \in filtered /\ r.open \in Int /\ r.close \in Int
      /\ r.open <= checked /\ checked <= r.close
  BY DEF IssuesInv, RenderRow, WithDates, OpenOn
<1>2. UNCHANGED <<today, open_ipos, checked, filtered>>
  BY DEF RenderRow, feed
<1>3. /\ DOMAIN ipo_rows' = DOMAIN ipo_rows \cup {r}
      /\ ipo_rows'[r] = DaysRemaining(r)
      /\ \A x \in DOMAIN ipo_rows : x # r => ipo_rows'[x] = ipo_rows[x]
      /\ r \notin DOMAIN ipo_rows
      /\ ipo_step' \in {"render", "shown"}
  BY DEF RenderRow
<1>4. \E day \in checked .. today :
        \/ r.open <= day /\ DaysRemaining(r) = r.close - day
        \/ r.close >= checked /\ r.close < day /\ DaysRemaining(r) = 0
  <2>1. today \in checked .. today
    BY DEF IssuesInv
  <2> QED
    BY <1>1, <2>1 DEF DaysRemaining, IssuesInv
<1>5. TimeLeftIsTrue'
  BY <1>2, <1>3, <1>4 DEF TimeLeftIsTrue, IssuesInv
<1> QED
  BY <1>1, <1>2, <1>3, <1>5 DEF IssuesInv, WithDates, OpenOn

\* Across midnights, reruns and old lists, the time left shown is that of a day
\* since the filter.
THEOREM TimeLeftShown == IpoSpec => []TimeLeftIsTrue
<1>1. IpoInit => IssuesInv
  BY DEF IpoInit, IssuesInv, WithDates, OpenOn, TimeLeftIsTrue, NoIssues
<1>2. IssuesInv /\ [IpoNext]_ipoVars => IssuesInv'
  <2> SUFFICES ASSUME IssuesInv, [IpoNext]_ipoVars PROVE IssuesInv'
    OBVIOUS
  <2>1. CASE Midnight
    <3>1. /\ today' = today + 1 /\ today' \in Nat
          /\ UNCHANGED <<ipo_step, open_ipos, checked, filtered, ipo_rows>>
      BY <2>1 DEF Midnight, IssuesInv, feed
    <3>2. checked .. today \subseteq (checked .. today)'
      BY <3>1 DEF IssuesInv
    <3>3. TimeLeftIsTrue'
      BY <3>1, <3>2 DEF TimeLeftIsTrue, IssuesInv
    <3> QED
      BY <3>1, <3>3 DEF IssuesInv, WithDates, OpenOn
  <2>2. CASE KeepList \/ CalendarFails \/ UNCHANGED ipoVars
    BY <2>2 DEF KeepList, CalendarFails, ipoVars, feed, IssuesInv, WithDates, OpenOn, TimeLeftIsTrue
  <2>3. CASE LoadFallback \/ \E table \in Calendars : LoadCalendar(table)
    <3>1. /\ WithDates(open_ipos)' /\ ipo_step \in {"load", "fallback"}
          /\ UNCHANGED <<today, checked, filtered, ipo_rows>>
      <4>1. CASE LoadFallback
        BY <4>1, IpoAssumption DEF LoadFallback, WithDates, OpenOn
      <4>2. ASSUME NEW table \in Calendars, LoadCalendar(table)
            PROVE  /\ WithDates(open_ipos)' /\ ipo_step \in {"load", "fallback"}
                   /\ UNCHANGED <<today, checked, filtered, ipo_rows>>
        BY <4>2, IpoAssumption DEF LoadCalendar, WithDates, OpenOn, Dated
      <4> QED
        BY <2>3, <4>1, <4>2
    <3> QED
      BY <3>1 DEF IssuesInv, WithDates, OpenOn, TimeLeftIsTrue
  <2>4. CASE FilterOpen
    BY <2>4 DEF FilterOpen, feed, IssuesInv, WithDates, OpenOn, TimeLeftIsTrue
  <2>5. CASE RerunIpos
    BY <2>5 DEF RerunIpos, feed, NoIssues, IssuesInv, WithDates, OpenOn, TimeLeftIsTrue
  <2> QED
    BY <2>1, <2>2, <2>3, <2>4, <2>5, RowStep DEF IpoNext
<1>3. IssuesInv => TimeLeftIsTrue
  BY DEF IssuesInv
<1> QED
  BY <1>1, <1>2, <1>3, PTL DEF IpoSpec

-----------------------------------------------------------------------------
\* The monitor, for every list of symbols, every interval and every time a call
\* may take.
Names == Range(Symbols)

Modes == {"off", "ready", "due", "cycle", "sleep", "once"}

Running == {"due", "cycle", "sleep"}

MonitorTypes ==
    /\ items \subseteq Names
    /\ clock \in Nat
    /\ mode \in Modes
    /\ symbols \in Seq(Names)
    /\ todo \in Seq(Names)
    /\ started \in Nat /\ next_run \in Int /\ completed \in Nat
    /\ served \in [Names -> Nat]

\* The next cycle is the interval's multiple that follows the completed ones, and
\* none is begun before it is due.
OnSchedule ==
    mode \in Running =>
        /\ next_run = started + Interval * completed
        /\ started <= clock
        /\ mode # "sleep" => next_run <= clock
        /\ mode = "sleep" => completed >= 1 /\ next_run - Interval <= clock

\* The symbols served in this cycle are the first ones, and each of them has been
\* served once more than the others.
InTurn ==
    /\ mode = "cycle" =>
         \E k \in 0 .. Len(symbols), c \in Int :
            /\ todo = SubSeq(symbols, k + 1, Len(symbols))
            /\ \A i \in DOMAIN symbols : served[symbols[i]] = IF i <= k THEN c + 1 ELSE c
    /\ mode \in {"due", "sleep"} =>
         \E c \in Int : \A i \in DOMAIN symbols : served[symbols[i]] = c

MonitorInv == MonitorTypes /\ IsInjective(symbols) /\ OnSchedule /\ InTurn

\* A sorted list of the items holds each of them once.
LEMMA SelectedDistinct ==
    ASSUME items \subseteq Names, NEW q \in Selected
    PROVE  q \in Seq(Names) /\ IsInjective(q)
<1>1. IsFiniteSet(Names)
  <2>1. Symbols \in Surjection(1 .. Len(Symbols), Names)
    BY MonitorAssumption DEF Names, Range, Surjection
  <2> QED
    BY <2>1, FS_Interval, FS_Surjection, MonitorAssumption
<1>2. Cardinality(items) \in Nat
  BY <1>1, FS_Subset, FS_CardinalityType
<1>3. q \in [1 .. Cardinality(items) -> items]
  BY DEF Selected
<1>4. q \in Seq(Names)
  BY <1>2, <1>3
<1>5. ASSUME NEW i \in DOMAIN q, NEW j \in DOMAIN q, i < j
      PROVE  q[i] # q[j]
  <2>1. PICK m \in DOMAIN Symbols, n \in DOMAIN Symbols : m < n /\ q[i] = Symbols[m] /\ q[j] = Symbols[n]
    BY <1>5 DEF Selected, Precedes
  <2> QED
    BY <2>1, MonitorAssumption DEF IsInjective
<1>6. IsInjective(q)
  BY <1>2, <1>3, <1>5 DEF IsInjective
<1> QED
  BY <1>4, <1>6

\* A quotient is determined by its bounds.
LEMMA Quotient ==
    ASSUME NEW a \in Int, NEW n \in Nat \ {0}, NEW q \in Int, n * q <= a, a < n * (q + 1)
    PROVE  a \div n = q
<1> DEFINE d == a \div n
<1>1. d \in Int /\ n * d <= a /\ a < n * (d + 1)
  <2>1. d \in Int /\ a = n * d + (a % n) /\ a % n \in 0 .. n - 1
    OBVIOUS
  <2>2. n * (d + 1) = n * d + n
    BY <2>1
  <2> QED
    BY <2>1, <2>2
<1>2. ASSUME NEW x \in Int, NEW y \in Int, x < y PROVE n * (x + 1) <= n * y
  <2>1. y - (x + 1) \in Nat
    BY <1>2
  <2>2. n * (y - (x + 1)) \in Nat
    BY <2>1
  <2>3. n * y = n * (x + 1) + n * (y - (x + 1))
    OBVIOUS
  <2> QED
    BY <2>2, <2>3
<1> HIDE DEF d
<1>3. ~(d < q) /\ ~(q < d)
  BY <1>1, <1>2
<1>4. d = q
  BY <1>1, <1>3
<1> QED
  BY <1>4 DEF d

LEMMA MonitorBegins == MonitorInit => MonitorInv
<1> SUFFICES ASSUME MonitorInit PROVE MonitorInv
  OBVIOUS
<1>1. MonitorTypes
  BY DEF MonitorInit, MonitorTypes, NoCalls, Names, Modes
<1> QED
  BY <1>1 DEF MonitorInit, MonitorInv, OnSchedule, InTurn, Running, IsInjective

\* What is outside run leaves the promises about it without content.
LEMMA IdleStep ==
    ASSUME MonitorInv,
           \/ \E i \in Inputs : AddItem(i) \/ RemoveItem(i)
           \/ Wait \/ BuildMonitor \/ ProcessCycle \/ ProcessFails \/ EndOnce \/ Stop
    PROVE  MonitorInv'
<1>1. CASE \E i \in Inputs : AddItem(i) \/ RemoveItem(i)
  BY <1>1, MonitorAssumption DEF MonitorInv, MonitorTypes, OnSchedule, InTurn, AddItem, RemoveItem, schedule, Names
<1>2. CASE Wait \/ ProcessFails \/ EndOnce \/ Stop
  <2>1. /\ UNCHANGED <<items, symbols, started, next_run, completed, served>>
        /\ mode' = "off" /\ clock' \in Nat /\ todo' \in Seq(Names)
    <3>1. CASE Wait
      BY <1>2, <3>1 DEF MonitorInv, MonitorTypes, Wait, schedule
    <3>2. CASE ProcessFails
      BY <1>2, <3>2, EmptySeq DEF MonitorInv, MonitorTypes, ProcessFails, schedule
    <3>3. CASE EndOnce \/ Stop
      BY <1>2, <3>3 DEF MonitorInv, MonitorTypes, EndOnce, Stop, schedule
    <3> QED
      BY <1>2, <3>1, <3>2, <3>3
  <2> QED
    BY <2>1 DEF MonitorInv, MonitorTypes, OnSchedule, InTurn, Running, Modes
<1>3. CASE BuildMonitor
  <2>1. PICK q \in Selected : symbols' = q
    BY <1>3 DEF BuildMonitor
  <2>2. q \in Seq(Names) /\ IsInjective(q)
    BY SelectedDistinct DEF MonitorInv, MonitorTypes
  <2> QED
    BY <1>3, <2>1, <2>2 DEF MonitorInv, MonitorTypes, OnSchedule, InTurn, Running, Modes, BuildMonitor
<1>4. CASE ProcessCycle
  <2>1. PICK q \in Selected : todo' = q
    BY <1>4 DEF ProcessCycle
  <2>2. q \in Seq(Names)
    BY SelectedDistinct DEF MonitorInv, MonitorTypes
  <2>3. NoCalls \in [Names -> Nat]
    BY DEF NoCalls, Names
  <2> QED
    BY <1>4, <2>1, <2>2, <2>3 DEF MonitorInv, MonitorTypes, OnSchedule, InTurn, Running, Modes, ProcessCycle,
       schedule
<1> QED
  BY <1>1, <1>2, <1>3, <1>4

LEMMA RunStep ==
    ASSUME MonitorInv, Run
    PROVE  MonitorInv'
<1>1. NoCalls \in [Names -> Nat] /\ \A i \in DOMAIN symbols : NoCalls[symbols[i]] = 0
  BY DEF NoCalls, Names, MonitorInv, MonitorTypes
<1>2. MonitorTypes' /\ IsInjective(symbols)'
  BY <1>1 DEF MonitorInv, MonitorTypes, Modes, Run
<1>3. OnSchedule'
  BY MonitorAssumption DEF MonitorInv, MonitorTypes, OnSchedule, Run
<1>4. InTurn'
  BY <1>1 DEF InTurn, Run
<1> QED
  BY <1>2, <1>3, <1>4 DEF MonitorInv

LEMMA BeginStep ==
    ASSUME MonitorInv, BeginCycle
    PROVE  MonitorInv'
<1> DEFINE n == Len(symbols)
<1>1. n \in Nat /\ symbols \in Seq(Names) /\ DOMAIN symbols = 1 .. n
  BY DEF MonitorInv, MonitorTypes
<1>2. symbols = SubSeq(symbols, 1, n) /\ <<>> = SubSeq(symbols, n + 1, n)
  BY <1>1
<1>3. UNCHANGED <<items, clock, symbols, started, next_run, completed, served>>
  BY DEF BeginCycle, schedule
<1>4. mode = "due" /\ mode' = "cycle" /\ todo' \in {symbols, <<>>}
  BY DEF BeginCycle
<1>5. PICK c \in Int : \A i \in DOMAIN symbols : served[symbols[i]] = c
  BY <1>4 DEF MonitorInv, InTurn
<1>6. InTurn'
  <2>1. CASE todo' = symbols
    <3>1. \A i \in DOMAIN symbols : served[symbols[i]] = IF i <= 0 THEN c + 1 ELSE c
      BY <1>1, <1>5
    <3>2. 0 \in 0 .. n /\ todo' = SubSeq(symbols, 0 + 1, n)
      BY <1>1, <1>2, <2>1
    <3> QED
      BY <1>3, <1>4, <3>1, <3>2 DEF InTurn
  <2>2. CASE todo' = <<>>
    <3>1. \A i \in DOMAIN symbols : served[symbols[i]] = IF i <= n THEN (c - 1) + 1 ELSE c - 1
      BY <1>1, <1>5
    <3>2. n \in 0 .. n /\ todo' = SubSeq(symbols, n + 1, n) /\ c - 1 \in Int
      BY <1>1, <1>2, <2>2
    <3> QED
      BY <1>3, <1>4, <3>1, <3>2 DEF InTurn
  <2> QED
    BY <1>4, <2>1, <2>2
<1>7. MonitorTypes' /\ IsInjective(symbols)'
  <2>1. todo' \in Seq(Names)
    BY <1>1, <1>4, EmptySeq
  <2> QED
    BY <1>3, <1>4, <2>1 DEF MonitorInv, MonitorTypes, Modes
<1>8. OnSchedule'
  BY <1>3, <1>4 DEF MonitorInv, OnSchedule, Running
<1> QED
  BY <1>6, <1>7, <1>8 DEF MonitorInv

\* The next symbol gets its call, and the rest of the cycle is one shorter.
LEMMA CallStep ==
    ASSUME MonitorInv, ProcessSymbol
    PROVE  MonitorInv'
<1> DEFINE n == Len(symbols)
<1>1. n \in Nat /\ symbols \in Seq(Names) /\ DOMAIN symbols = 1 .. n
  BY DEF MonitorInv, MonitorTypes
<1>2. /\ UNCHANGED <<items, mode, symbols, started, next_run, completed>>
      /\ mode \in {"cycle", "once"} /\ todo # <<>> /\ todo' = Tail(todo)
      /\ served' = [served EXCEPT ![Head(todo)] = @ + 1]
  BY DEF ProcessSymbol, schedule
<1>3. clock' \in Nat /\ clock <= clock'
  BY MonitorAssumption DEF ProcessSymbol, MonitorInv, MonitorTypes
<1>4. Head(todo) \in Names /\ Tail(todo) \in Seq(Names)
  BY <1>2 DEF MonitorInv, MonitorTypes
<1>5. MonitorTypes' /\ IsInjective(symbols)'
  BY <1>2, <1>3, <1>4 DEF MonitorInv, MonitorTypes
<1>6. OnSchedule'
  BY <1>2, <1>3, MonitorAssumption DEF MonitorInv, OnSchedule, MonitorTypes, Running
<1>7. InTurn'
  <2>1. SUFFICES ASSUME mode = "cycle"
                 PROVE  \E k \in 0 .. n, c \in Int :
                          /\ todo' = SubSeq(symbols, k + 1, n)
                          /\ \A i \in DOMAIN symbols : served'[symbols[i]] = IF i <= k THEN c + 1 ELSE c
    BY <1>2 DEF InTurn
  <2>2. PICK k \in 0 .. n, c \in Int :
          /\ todo = SubSeq(symbols, k + 1, n)
          /\ \A i \in DOMAIN symbols : served[symbols[i]] = IF i <= k THEN c + 1 ELSE c
    BY <2>1 DEF MonitorInv, InTurn
  <2>3. k < n
    BY <1>1, <1>2, <2>2
  <2>4. Head(todo) = symbols[k + 1] /\ Tail(todo) = SubSeq(symbols, (k + 1) + 1, n)
    BY <1>1, <2>2, <2>3
  <2>5. ASSUME NEW i \in DOMAIN symbols
        PROVE  served'[symbols[i]] = IF i <= k + 1 THEN c + 1 ELSE c
    <3>1. symbols[i] = symbols[k + 1] <=> i = k + 1
      BY <1>1, <2>3 DEF MonitorInv, IsInjective
    <3>2. symbols[i] \in Names
      BY <1>1
    <3>3. served'[symbols[i]] = IF i = k + 1 THEN served[symbols[i]] + 1 ELSE served[symbols[i]]
      BY <1>2, <2>4, <3>1, <3>2 DEF MonitorInv, MonitorTypes
    <3> QED
      BY <1>1, <2>2, <3>3
  <2>6. k + 1 \in 0 .. n
    BY <1>1, <2>3
  <2> QED
    BY <1>2, <2>4, <2>5, <2>6
<1> QED
  BY <1>5, <1>6, <1>7 DEF MonitorInv

\* With nothing left to do, every symbol has had its call.
LEMMA EndStep ==
    ASSUME MonitorInv, EndCycle
    PROVE  MonitorInv'
<1> DEFINE n == Len(symbols)
<1>1. n \in Nat /\ symbols \in Seq(Names) /\ DOMAIN symbols = 1 .. n
  BY DEF MonitorInv, MonitorTypes
<1>2. MonitorTypes' /\ IsInjective(symbols)'
  BY MonitorAssumption DEF MonitorInv, MonitorTypes, Modes, EndCycle
<1>3. OnSchedule'
  <2>1. completed \in Nat /\ next_run = started + Interval * completed /\ next_run <= clock /\ started <= clock
    BY DEF MonitorInv, MonitorTypes, OnSchedule, Running, EndCycle
  <2>2. Interval * (completed + 1) = Interval * completed + Interval
    BY <2>1, MonitorAssumption
  <2> QED
    BY <2>1, <2>2, MonitorAssumption DEF MonitorInv, MonitorTypes, OnSchedule, EndCycle
<1>4. InTurn'
  <2>1. PICK k \in 0 .. n, c \in Int :
          /\ todo = SubSeq(symbols, k + 1, n)
          /\ \A i \in DOMAIN symbols : served[symbols[i]] = IF i <= k THEN c + 1 ELSE c
    BY DEF MonitorInv, InTurn, EndCycle
  <2>2. k = n
    <3>1. Len(SubSeq(symbols, k + 1, n)) = IF k < n THEN n - k ELSE 0
      BY <1>1, <2>1
    <3>2. Len(SubSeq(symbols, k + 1, n)) = 0
      BY <2>1, EmptySeq DEF EndCycle
    <3> HIDE DEF n
    <3> QED
      BY <1>1, <2>1, <3>1, <3>2
  <2>3. c + 1 \in Int /\ \A i \in DOMAIN symbols : served[symbols[i]] = c + 1
    BY <1>1, <2>1, <2>2
  <2> QED
    BY <2>3 DEF InTurn, EndCycle
<1> QED
  BY <1>2, <1>3, <1>4 DEF MonitorInv

LEMMA SleepStep ==
    ASSUME MonitorInv, Sleep
    PROVE  MonitorInv'
<1>1. clock' \in Nat /\ clock <= clock' /\ next_run <= clock'
  BY DEF MonitorInv, MonitorTypes, Sleep
<1> QED
  BY <1>1 DEF MonitorInv, MonitorTypes, OnSchedule, InTurn, Running, Modes, Sleep, schedule

\* The inductive invariant of the monitor and the watchlist.
THEOREM MonitorInvariant == MonitorSpec => []MonitorInv
<1>1. MonitorInv /\ [MonitorNext]_monitorVars => MonitorInv'
  <2>1. CASE UNCHANGED monitorVars
    BY <2>1 DEF monitorVars, schedule, MonitorInv, MonitorTypes, OnSchedule, InTurn
  <2> QED
    BY <2>1, IdleStep, RunStep, BeginStep, CallStep, EndStep, SleepStep DEF MonitorNext
<1> QED
  BY <1>1, MonitorBegins, PTL DEF MonitorSpec

\* Whatever calls take, and whenever they end, the number of cycles at rest is the
\* number of those that have come due.
THEOREM ScheduleIsKept == MonitorSpec => []RestsOnSchedule
<1>1. MonitorInv => RestsOnSchedule
  <2> SUFFICES ASSUME MonitorInv, mode = "sleep", clock < next_run
               PROVE  (clock - started) \div Interval + 1 = completed
    BY DEF RestsOnSchedule
  <2>1. /\ clock \in Int /\ started \in Int /\ completed \in Int /\ Interval \in Nat \ {0}
        /\ next_run = started + Interval * completed /\ next_run - Interval <= clock
    BY MonitorAssumption DEF MonitorInv, MonitorTypes, OnSchedule, Running
  <2>2. Interval * ((completed - 1) + 1) = Interval * completed
    BY <2>1
  <2>3. Interval * (completed - 1) = Interval * completed - Interval
    BY <2>1
  <2>4. (clock - started) \div Interval = completed - 1
    BY <2>1, <2>2, <2>3, Quotient
  <2> QED
    BY <2>1, <2>4
<1> QED
  BY <1>1, MonitorInvariant, PTL

\* Whatever is added and removed meanwhile, the monitor's symbols take turns.
THEOREM SymbolsTakeTurns == MonitorSpec => []ServedInTurn
<1>1. MonitorInv => ServedInTurn
  <2> SUFFICES ASSUME MonitorInv, mode \in Running,
                      NEW i \in DOMAIN symbols, NEW j \in DOMAIN symbols, i < j
               PROVE  served[symbols[i]] - served[symbols[j]] \in {0, 1}
    BY DEF ServedInTurn, Running
  <2>1. CASE mode = "cycle"
    <3>1. PICK k \in 0 .. Len(symbols), c \in Int :
            \A x \in DOMAIN symbols : served[symbols[x]] = IF x <= k THEN c + 1 ELSE c
      BY <2>1 DEF MonitorInv, InTurn
    <3> QED
      BY <3>1 DEF MonitorInv, MonitorTypes
  <2>2. CASE mode # "cycle"
    BY <2>2 DEF MonitorInv, InTurn, Running
  <2> QED
    BY <2>1, <2>2
<1> QED
  BY <1>1, MonitorInvariant, PTL

-----------------------------------------------------------------------------
Commits == [alerts : SUBSET Alerts, manifest : Manifests]

\* Positions in master are positions of a commit that is there.
SyncTypes ==
    /\ master \in Seq(Commits) /\ Len(master) >= 1
    /\ found \subseteq Alerts
    /\ base \in 1 .. Len(master)
    /\ lock \in BOOLEAN
    /\ daemon \in [Daemons -> {"off", "check", "fetch", "pull", "install", "sleep"}]
    /\ local_head \in [Daemons -> 1 .. Len(master)]
    /\ branch \in Branches
    /\ heads \in [Branches -> 1 .. Len(master)]
    /\ ahead \in [Branches -> BOOLEAN]
    /\ synced \in 1 .. Len(master)
    /\ missed \in BOOLEAN

\* Whoever runs holds the lock; so nobody can start beside it.
LockHeld == (\E d \in Daemons : daemon[d] # "off") => lock

SyncInv == SyncTypes /\ OneDaemon /\ LockHeld /\ DependenciesFollow

LEMMA SyncBegins == SyncInit => SyncInv
<1> SUFFICES ASSUME SyncInit PROVE SyncInv
  OBVIOUS
<1>1. /\ master = <<[alerts |-> {}, manifest |-> 0]>>
      /\ [alerts |-> {}, manifest |-> 0] \in Commits
  BY DEF SyncInit, Commits, Manifests
<1>2. master \in Seq(Commits) /\ Len(master) = 1 /\ master[1].manifest = 0
  BY <1>1
<1>3. 1 \in 1 .. Len(master)
  BY <1>2
<1>4. SyncTypes
  <2>1. /\ found \subseteq Alerts /\ base = 1 /\ synced = 1
        /\ lock \in BOOLEAN /\ missed \in BOOLEAN
        /\ daemon \in [Daemons -> {"off", "check", "fetch", "pull", "install", "sleep"}]
        /\ branch \in Branches /\ ahead \in [Branches -> BOOLEAN]
    BY DEF SyncInit, Branches
  <2>2. local_head \in [Daemons -> 1 .. Len(master)] /\ heads \in [Branches -> 1 .. Len(master)]
    BY <1>3 DEF SyncInit
  <2> QED
    BY <1>2, <1>3, <2>1, <2>2 DEF SyncTypes
<1>5. installed = Manifest(synced)
  BY <1>2 DEF SyncInit, Manifest
<1> QED
  BY <1>4, <1>5 DEF SyncInit, SyncInv, OneDaemon, LockHeld, DependenciesFollow

\* What a commit appended to master leaves as it was.
LEMMA MasterGrows ==
    ASSUME SyncTypes, NEW c \in Commits, master' = Append(master, c)
    PROVE  /\ master' \in Seq(Commits)
           /\ Len(master') = Len(master) + 1
           /\ \A n \in 1 .. Len(master) : master'[n] = master[n]
           /\ IsPrefix(master, master')
<1>1. /\ master' \in Seq(Commits)
      /\ Len(master') = Len(master) + 1
      /\ \A n \in 1 .. Len(master) : master'[n] = master[n]
  BY AppendProperties DEF SyncTypes
<1>2. SubSeq(master, 1, Len(master)) = SubSeq(master', 1, Len(master))
  BY <1>1 DEF SyncTypes
<1> QED
  BY <1>1, <1>2 DEF IsPrefix, SyncTypes

\* The two ways in which a commit gets onto master.
LEMMA Pushes ==
    ASSUME SyncTypes, DeveloperPush \/ Push
    PROVE  \E c \in Commits : master' = Append(master, c)
<1>1. Last(master) \in Commits
  BY DEF SyncTypes, Last
<1>2. master[base] \in Commits
  BY DEF SyncTypes
<1>3. CASE DeveloperPush
  <2>1. PICK manifest \in Manifests :
          master' = Append(master, [alerts |-> Last(master).alerts, manifest |-> manifest])
    BY <1>3 DEF DeveloperPush
  <2> QED
    BY <2>1, <1>1 DEF Commits
<1>4. CASE Push
  BY <1>4, <1>2 DEF Push, Commits, Manifest, SyncTypes
<1> QED
  BY <1>3, <1>4

\* A step that appends to master and starts, stops or installs nothing.
LEMMA PushStep ==
    ASSUME SyncInv, NEW c \in Commits, master' = Append(master, c),
           base' \in {1, base}, found' \in {{}, found}, UNCHANGED <<daemons, tree>>
    PROVE  SyncInv'
<1>1. /\ master' \in Seq(Commits)
      /\ Len(master') = Len(master) + 1
      /\ \A n \in 1 .. Len(master) : master'[n] = master[n]
  BY MasterGrows DEF SyncInv
<1> QED
  BY <1>1 DEF SyncInv, SyncTypes, OneDaemon, LockHeld, DependenciesFollow, Manifest, daemons, tree,
     environment

\* The steps of the workflow that do not push.
LEMMA WorkflowStep ==
    ASSUME SyncInv, Checkout \/ ValidationCycle \/ JobFails
    PROVE  SyncInv'
<1>1. Last(master).alerts \subseteq Alerts
  <2>1. Last(master) \in Commits
    BY DEF SyncInv, SyncTypes, Last
  <2> QED
    BY <2>1 DEF Commits
<1>2. found' \subseteq Alerts /\ base' \in 1 .. Len(master) /\ UNCHANGED <<master, daemons, tree>>
  BY <1>1 DEF SyncInv, SyncTypes, Checkout, ValidationCycle, JobFails, EndJob
<1> QED
  BY <1>2 DEF SyncInv, SyncTypes, OneDaemon, LockHeld, DependenciesFollow, Manifest, daemons, tree,
     environment

\* The user touches nothing that a daemon wrote.
LEMMA UserStep ==
    ASSUME SyncInv, Edit \/ Commit \/ SwitchBranch
    PROVE  SyncInv'
  BY DEF SyncInv, SyncTypes, OneDaemon, LockHeld, DependenciesFollow, Manifest, daemons, workflow,
     environment, Edit, Commit, SwitchBranch

\* Steps of a daemon that neither pull nor install.
LEMMA QuietStep ==
    ASSUME SyncInv, NEW d \in Daemons,
           \/ StartDaemon(d) \/ StartRefused(d) \/ Check(d) \/ Wake(d)
           \/ Fetch(d) \/ GitFails(d)
    PROVE  SyncInv'
<1> USE DEF SyncInv, SyncTypes, workflow, environment, tree, At, Step
<1>1. SyncTypes'
  BY DEF StartDaemon, StartRefused, Check, Wake, Fetch, GitFails, Branches
<1>2. OneDaemon' /\ LockHeld'
  BY DEF OneDaemon, LockHeld, StartDaemon, StartRefused, Check, Wake, Fetch, GitFails
<1>3. DependenciesFollow'
  <2>1. \A e \in Daemons : daemon'[e] = "install" <=> daemon[e] = "install"
    BY DEF StartDaemon, StartRefused, Check, Wake, Fetch, GitFails
  <2>2. UNCHANGED <<master, synced, installed, missed>>
    BY DEF StartDaemon, StartRefused, Check, Wake, Fetch, GitFails
  <2> QED
    BY <2>1, <2>2 DEF DependenciesFollow, Manifest
<1> QED
  BY <1>1, <1>2, <1>3

\* The pull compares with the commit that was installed, unless something was missed.
LEMMA PullStep ==
    ASSUME SyncInv, NEW d \in Daemons, Pull(d)
    PROVE  SyncInv'
<1> USE DEF SyncInv, SyncTypes, workflow, tree, At, Step
<1>1. SyncTypes'
  BY DEF Pull, Branches
<1>2. OneDaemon' /\ LockHeld'
  BY DEF OneDaemon, LockHeld, Pull
<1>3. DependenciesFollow'
  <2>1. SUFFICES ASSUME ~missed', \A e \in Daemons : daemon'[e] # "install"
                 PROVE  installed' = Manifest(synced)'
    BY DEF DependenciesFollow
  <2>2. ~missed /\ local_head[d] = synced
    BY <2>1 DEF Pull
  <2>3. \A e \in Daemons : daemon[e] # "install"
    BY DEF Pull, OneDaemon
  <2>4. installed = Manifest(synced)
    BY <2>2, <2>3 DEF DependenciesFollow
  <2>5. Manifest(local_head[d]) = Manifest(Len(master))
    BY <2>1 DEF Pull
  <2> QED
    BY <2>2, <2>4, <2>5 DEF Pull, Manifest
<1> QED
  BY <1>1, <1>2, <1>3

LEMMA InstallStep ==
    ASSUME SyncInv, NEW d \in Daemons, NEW ok \in BOOLEAN, Install(d, ok)
    PROVE  SyncInv'
<1> USE DEF SyncInv, SyncTypes, workflow, tree, At, Step
<1>1. SyncTypes'
  BY DEF Install
<1>2. OneDaemon' /\ LockHeld'
  BY DEF OneDaemon, LockHeld, Install
<1>3. DependenciesFollow'
  BY DEF DependenciesFollow, Install, Manifest
<1> QED
  BY <1>1, <1>2, <1>3

\* Killed or not, the daemon that ends was the only one.
LEMMA DieStep ==
    ASSUME SyncInv, NEW d \in Daemons, NEW trapped \in BOOLEAN, Die(d, trapped)
    PROVE  SyncInv'
<1> USE DEF SyncInv, SyncTypes, workflow, tree, At, Step
<1>1. SyncTypes'
  BY DEF Die
<1>2. OneDaemon' /\ LockHeld'
  BY DEF OneDaemon, LockHeld, Die
<1>3. DependenciesFollow'
  BY DEF DependenciesFollow, Die, Manifest
<1> QED
  BY <1>1, <1>2, <1>3

\* The inductive invariant of the workflow and the daemons.
THEOREM SyncInvariant == SyncSpec => []SyncInv
<1>1. SyncInv /\ [SyncNext]_syncVars => SyncInv'
  <2> SUFFICES ASSUME SyncInv, [SyncNext]_syncVars PROVE SyncInv'
    OBVIOUS
  <2>1. CASE DeveloperPush \/ Push
    <3>1. PICK c \in Commits : master' = Append(master, c)
      BY <2>1, Pushes DEF SyncInv
    <3> QED
      BY <2>1, <3>1, PushStep DEF DeveloperPush, Push, EndJob, workflow
  <2>2. CASE Checkout \/ ValidationCycle \/ JobFails
    BY <2>2, WorkflowStep
  <2>3. CASE Edit \/ Commit \/ SwitchBranch
    BY <2>3, UserStep
  <2>4. ASSUME NEW d \in Daemons,
               StartDaemon(d) \/ StartRefused(d) \/ Round(d) \/ Fetch(d) \/ GitFails(d)
        PROVE  SyncInv'
    BY <2>4, QuietStep, PullStep, InstallStep DEF Round
  <2>5. ASSUME NEW d \in Daemons, NEW trapped \in BOOLEAN, Die(d, trapped)
        PROVE  SyncInv'
    BY <2>5, DieStep
  <2>6. CASE UNCHANGED syncVars
    BY <2>6 DEF syncVars, workflow, daemons, tree, environment, SyncInv, SyncTypes, OneDaemon, LockHeld,
       DependenciesFollow, Manifest
  <2> QED
    BY <2>1, <2>2, <2>3, <2>4, <2>5, <2>6 DEF SyncNext
<1> QED
  BY <1>1, SyncBegins, PTL DEF SyncSpec

\* However daemons are started, refused, stopped and killed, one works on the clone.
THEOREM LockExcludes == SyncSpec => []OneDaemon
  BY SyncInvariant, PTL DEF SyncInv

\* Whatever is pulled and installed in whatever order, what is installed is what
\* the last pulled commit asks for.
THEOREM InstalledIsPulled == SyncSpec => []DependenciesFollow
  BY SyncInvariant, PTL DEF SyncInv

\* Every step of the workflow, the daemons and the user only adds commits.
THEOREM CommitsStay == SyncSpec => NoCommitLost
<1>1. SyncInv /\ [SyncNext]_syncVars =>
        [/\ IsPrefix(master, master')
         /\ \A b \in Branches : ahead[b] => ahead'[b]]_syncVars
  <2> SUFFICES ASSUME SyncInv, SyncNext
               PROVE  /\ IsPrefix(master, master')
                      /\ \A b \in Branches : ahead[b] => ahead'[b]
    OBVIOUS
  <2>1. IsPrefix(master, master')
    <3>1. CASE DeveloperPush \/ Push
      BY <3>1, Pushes, MasterGrows DEF SyncInv
    <3>2. CASE ~(DeveloperPush \/ Push)
      <4>1. master' = master
        BY <3>2 DEF SyncNext, Checkout, ValidationCycle, JobFails, Edit, Commit, SwitchBranch,
           StartDaemon, StartRefused, Round, Check, Pull, Wake, Install, Fetch, GitFails, Die
      <4> QED
        BY <4>1 DEF IsPrefix, SyncInv, SyncTypes
    <3> QED
      BY <3>1, <3>2
  <2>2. \A b \in Branches : ahead[b] => ahead'[b]
    <3>1. CASE Commit
      BY <3>1 DEF Commit, SyncInv, SyncTypes
    <3>2. CASE ~Commit
      BY <3>2 DEF SyncNext, DeveloperPush, Push, Checkout, ValidationCycle, JobFails, Edit,
         SwitchBranch, StartDaemon, StartRefused, Round, Check, Pull, Wake, Install, Fetch, GitFails,
         Die, tree
    <3> QED
      BY <3>1, <3>2
  <2> QED
    BY <2>1, <2>2
<1> QED
  BY <1>1, SyncInvariant, PTL DEF SyncSpec, NoCommitLost

-----------------------------------------------------------------------------
\* One script at a time; what it has found so far; and what is left between its
\* writes to the service and to the session record.
ScriptInv ==
    /\ \A t, u \in Tabs : pc[t] # "idle" /\ pc[u] # "idle" => t = u
    /\ \A t \in Tabs :
          /\ pc[t] = "request" => broker[t] \in token
          /\ pc[t] = "settle" /\ accepted[t] => broker[t] \in token
          /\ pc[t] = "accept" => active = IF accepted[t] THEN broker[t] ELSE None
          /\ pc[t] = "clear" => active = None
    /\ (\A t \in Tabs : pc[t] \notin {"accept", "clear"}) => session = active

\* A verified broker has its token.  It is the active one, except while a script
\* that connects it has not told the service, and none is once it was refused.
VerifiedInv ==
    /\ verified \subseteq token
    /\ (\A t \in Tabs : pc[t] # "settle") => verified \subseteq {active}
    /\ \A t \in Tabs :
          /\ pc[t] \in {"start", "request"} => verified \subseteq {broker[t]}
          /\ pc[t] = "settle" => verified \subseteq (IF accepted[t] THEN {broker[t]} ELSE {})

ConnectInv == TypeOK /\ ScriptInv /\ VerifiedInv

LEMMA ConnectBegins == Init => ConnectInv
  BY BrokerAssumption DEF Init, ConnectInv, TypeOK, ScriptInv, VerifiedInv, Steps

\* Every step keeps the types, whether tabs take turns or not.
LEMMA TypeStep ==
    ASSUME TypeOK, [Next]_vars
    PROVE  TypeOK'
  <1> USE BrokerAssumption DEF TypeOK, Goto, Steps, shared
  <1>1. ASSUME NEW t \in Tabs, NEW b \in Brokers, UseToken(t, b)
        PROVE  TypeOK'
    BY <1>1 DEF UseToken, Click
  <1>2. ASSUME NEW t \in Tabs, NEW b \in Brokers, ClickConnect(t, b)
        PROVE  TypeOK'
    BY <1>2 DEF ClickConnect, Click, DisconnectOther, Disconnected
  <1>3. ASSUME NEW t \in Tabs, Start(t) PROVE TypeOK'
    BY <1>3 DEF Start
  <1>4. ASSUME NEW t \in Tabs, NEW ok \in BOOLEAN, Reply(t, ok) PROVE TypeOK'
    BY <1>4 DEF Reply
  <1>5. ASSUME NEW t \in Tabs, OddReply(t) PROVE TypeOK'
    BY <1>5 DEF OddReply
  <1>6. ASSUME NEW t \in Tabs, Settle(t) PROVE TypeOK'
    BY <1>6 DEF Settle
  <1>7. ASSUME NEW t \in Tabs, Accept(t) PROVE TypeOK'
    BY <1>7 DEF Accept
  <1>8. ASSUME NEW t \in Tabs, Build(t) \/ BuildFails(t) PROVE TypeOK'
    BY <1>8 DEF Build, BuildFails
  <1>9. ASSUME NEW t \in Tabs, ClickDisconnect(t) PROVE TypeOK'
    BY <1>9 DEF ClickDisconnect, Click, Disconnected
  <1>10. ASSUME NEW t \in Tabs, ClearSession(t) \/ Forget(t) \/ Interrupt(t) PROVE TypeOK'
    BY <1>10 DEF ClearSession, Forget, Interrupt
  <1>11. CASE UNCHANGED vars
    BY <1>11 DEF vars
  <1> QED
    BY <1>1, <1>2, <1>3, <1>4, <1>5, <1>6, <1>7, <1>8, <1>9, <1>10, <1>11 DEF Next

\* Every step keeps what a script knows, when tabs take turns.
LEMMA ScriptStep ==
    ASSUME OneAtATime, ConnectInv, [Next]_vars
    PROVE  ScriptInv'
  <1> USE BrokerAssumption DEF ConnectInv, TypeOK, ScriptInv, Goto, Steps, shared
  <1>1. ASSUME NEW t \in Tabs, NEW b \in Brokers, UseToken(t, b)
        PROVE  ScriptInv'
    BY <1>1 DEF UseToken, Click
  <1>2. ASSUME NEW t \in Tabs, NEW b \in Brokers, ClickConnect(t, b)
        PROVE  ScriptInv'
    BY <1>2 DEF ClickConnect, Click
  <1>3. ASSUME NEW t \in Tabs, Start(t) PROVE ScriptInv'
    BY <1>3 DEF Start
  <1>4. ASSUME NEW t \in Tabs, NEW ok \in BOOLEAN, Reply(t, ok) PROVE ScriptInv'
    BY <1>4 DEF Reply
  <1>5. ASSUME NEW t \in Tabs, OddReply(t) PROVE ScriptInv'
    BY <1>5 DEF OddReply
  <1>6. ASSUME NEW t \in Tabs, Settle(t) PROVE ScriptInv'
    BY <1>6 DEF Settle
  <1>7. ASSUME NEW t \in Tabs, Accept(t) PROVE ScriptInv'
    BY <1>7 DEF Accept
  <1>8. ASSUME NEW t \in Tabs, Build(t) \/ BuildFails(t) PROVE ScriptInv'
    BY <1>8 DEF Build, BuildFails
  <1>9. ASSUME NEW t \in Tabs, ClickDisconnect(t) PROVE ScriptInv'
    BY <1>9 DEF ClickDisconnect, Click
  <1>10. ASSUME NEW t \in Tabs, ClearSession(t) \/ Forget(t) \/ Interrupt(t) PROVE ScriptInv'
    BY <1>10 DEF ClearSession, Forget, Interrupt
  <1>11. CASE UNCHANGED vars
    BY <1>11 DEF vars
  <1> QED
    BY <1>1, <1>2, <1>3, <1>4, <1>5, <1>6, <1>7, <1>8, <1>9, <1>10, <1>11 DEF Next

\* Every step keeps what is known of the verified brokers, when tabs take turns.
LEMMA VerifiedStep ==
    ASSUME OneAtATime, ConnectInv, [Next]_vars
    PROVE  VerifiedInv'
  <1> USE BrokerAssumption DEF ConnectInv, TypeOK, ScriptInv, VerifiedInv, Goto, Steps, shared
  <1>1. ASSUME NEW t \in Tabs, NEW b \in Brokers, UseToken(t, b)
        PROVE  VerifiedInv'
    BY <1>1 DEF UseToken, Click
  <1>2. ASSUME NEW t \in Tabs, NEW b \in Brokers, ClickConnect(t, b)
        PROVE  VerifiedInv'
    BY <1>2 DEF ClickConnect, Click, DisconnectOther, Disconnected
  <1>3. ASSUME NEW t \in Tabs, Start(t) PROVE VerifiedInv'
    BY <1>3 DEF Start
  <1>4. ASSUME NEW t \in Tabs, NEW ok \in BOOLEAN, Reply(t, ok) PROVE VerifiedInv'
    BY <1>4 DEF Reply
  <1>5. ASSUME NEW t \in Tabs, OddReply(t) PROVE VerifiedInv'
    BY <1>5 DEF OddReply
  <1>6. ASSUME NEW t \in Tabs, Settle(t) PROVE VerifiedInv'
    BY <1>6 DEF Settle
  <1>7. ASSUME NEW t \in Tabs, Accept(t) PROVE VerifiedInv'
    BY <1>7 DEF Accept
  <1>8. ASSUME NEW t \in Tabs, Build(t) \/ BuildFails(t) PROVE VerifiedInv'
    BY <1>8 DEF Build, BuildFails
  <1>9. ASSUME NEW t \in Tabs, ClickDisconnect(t) PROVE VerifiedInv'
    BY <1>9 DEF ClickDisconnect, Click, Disconnected
  <1>10. ASSUME NEW t \in Tabs, ClearSession(t) \/ Forget(t) \/ Interrupt(t) PROVE VerifiedInv'
    BY <1>10 DEF ClearSession, Forget, Interrupt
  <1>11. CASE UNCHANGED vars
    BY <1>11 DEF vars
  <1> QED
    BY <1>1, <1>2, <1>3, <1>4, <1>5, <1>6, <1>7, <1>8, <1>9, <1>10, <1>11 DEF Next

\* Every variable keeps its type, however the scripts of tabs interleave.
THEOREM TypeCorrect == Spec => []TypeOK
  <1>1. Init => TypeOK
    BY ConnectBegins DEF ConnectInv
  <1>2. TypeOK /\ [Next]_vars => TypeOK'
    BY TypeStep
  <1> QED
    BY <1>1, <1>2, PTL DEF Spec

\* When tabs take turns, what the scripts know holds in every reachable state.
THEOREM ConnectInvariant ==
    ASSUME OneAtATime
    PROVE  Spec => []ConnectInv
  <1>1. ConnectInv /\ [Next]_vars => ConnectInv'
    BY OneAtATime, TypeStep, ScriptStep, VerifiedStep DEF ConnectInv
  <1> QED
    BY <1>1, ConnectBegins, PTL DEF Spec

\* Between scripts the session record names the active broker, whatever was
\* refused, raised or stopped half way.
THEOREM SessionIsActive ==
    ASSUME OneAtATime
    PROVE  Spec => []SessionFollowsActive
  <1>1. ConnectInv => SessionFollowsActive
    BY DEF ConnectInv, ScriptInv, SessionFollowsActive, AtRest
  <1> QED
    BY <1>1, OneAtATime, ConnectInvariant, PTL

\* Switching leaves at most one broker connected.
THEOREM SwitchingDisconnects ==
    ASSUME OneAtATime
    PROVE  Spec => []OneBrokerConnected
  <1>1. ASSUME ConnectInv
        PROVE  OneBrokerConnected
    <2>1. PICK x : verified \subseteq {x}
      BY <1>1 DEF ConnectInv, ScriptInv, VerifiedInv
    <2>2. IsFiniteSet({x}) /\ Cardinality({x}) = 1
      BY FS_Singleton
    <2>3. Cardinality(verified) <= Cardinality({x})
      BY <2>1, <2>2, FS_Subset
    <2> QED
      BY <2>2, <2>3 DEF OneBrokerConnected
  <1> QED
    BY <1>1, OneAtATime, ConnectInvariant, PTL

-----------------------------------------------------------------------------
\* The records that belong to observations.
RecordsOf(seen) == [i \in DOMAIN seen |-> evaluate_signal(seen[i])]

\* append's list is the file it has read; only a truncated file is behind it.
StoreInv ==
    /\ evaluated \in Seq(Observations)
    /\ writing \in {"idle", "loaded", "truncated"}
    /\ writing \in {"loaded", "truncated"} => records = RecordsOf(evaluated)
    /\ file # Torn => file = RecordsOf(evaluated)

\* Appending the record of one more observation keeps records and observations aligned.
LEMMA RecordAppended ==
    ASSUME NEW seen \in Seq(Observations), NEW o \in Observations
    PROVE  Append(RecordsOf(seen), evaluate_signal(o)) = RecordsOf(Append(seen, o))
<1> DEFINE f(x) == evaluate_signal(x)
           Results == {f(x) : x \in Observations}
<1> HIDE DEF f
<1>1. RecordsOf(seen) = [i \in 1 .. Len(seen) |-> f(seen[i])]
  BY DEF RecordsOf, f
<1>2. RecordsOf(seen) \in Seq(Results) /\ Len(RecordsOf(seen)) = Len(seen)
  BY <1>1
<1>3. Append(seen, o) \in Seq(Observations) /\ Len(Append(seen, o)) = Len(seen) + 1
  BY AppendProperties
<1>4. RecordsOf(Append(seen, o)) = [i \in 1 .. Len(seen) + 1 |-> f(Append(seen, o)[i])]
  BY <1>3 DEF RecordsOf, f
<1>5. Append(RecordsOf(seen), f(o))
        = [i \in 1 .. Len(seen) + 1 |-> IF i = Len(seen) + 1 THEN f(o) ELSE RecordsOf(seen)[i]]
  <2>1. f(o) \in Results
    OBVIOUS
  <2>2. Append(RecordsOf(seen), f(o)) \in [1 .. Len(seen) + 1 -> Results]
    BY <1>2, <2>1, AppendProperties, LenProperties
  <2>3. \A i \in 1 .. Len(seen) + 1 :
          Append(RecordsOf(seen), f(o))[i] = IF i = Len(seen) + 1 THEN f(o) ELSE RecordsOf(seen)[i]
    BY <1>2, <2>1, AppendProperties
  <2> QED
    BY <2>2, <2>3
<1>6. ASSUME NEW i \in 1 .. Len(seen) + 1
      PROVE  f(Append(seen, o)[i]) = IF i = Len(seen) + 1 THEN f(o) ELSE RecordsOf(seen)[i]
  BY <1>1, AppendProperties
<1>7. Append(RecordsOf(seen), f(o)) = RecordsOf(Append(seen, o))
  BY <1>4, <1>5, <1>6
<1> QED
  BY <1>7 DEF f

\* However appends are cut short, the invariant of the file holds.
LEMMA StoreAligned == PerformanceSpec => []StoreInv
<1>1. PerformanceInit => StoreInv
  <2> SUFFICES ASSUME PerformanceInit PROVE StoreInv
    OBVIOUS
  <2>1. evaluated \in Seq(Observations)
    BY EmptySeq DEF PerformanceInit
  <2>2. file = RecordsOf(evaluated)
    BY DEF PerformanceInit, RecordsOf
  <2> QED
    BY <2>1, <2>2 DEF PerformanceInit, StoreInv
<1>2. StoreInv /\ [PerformanceNext]_performanceVars => StoreInv'
  <2> SUFFICES ASSUME StoreInv, [PerformanceNext]_performanceVars PROVE StoreInv'
    OBVIOUS
  <2> USE DEF StoreInv
  <2>1. CASE LoadRecords
    BY <2>1 DEF LoadRecords
  <2>2. CASE TruncateFile
    BY <2>2 DEF TruncateFile
  <2>3. CASE StoreCrash
    BY <2>3 DEF StoreCrash
  <2>4. ASSUME NEW o \in Observations, WriteRecords(o)
        PROVE  StoreInv'
    <3>1. file' = RecordsOf(Append(evaluated, o))
      BY <2>4, RecordAppended DEF WriteRecords
    <3>2. Append(evaluated, o) \in Seq(Observations)
      BY AppendProperties
    <3> QED
      BY <2>4, <3>1, <3>2 DEF WriteRecords
  <2>5. CASE UNCHANGED performanceVars
    BY <2>5 DEF performanceVars
  <2> QED
    BY <2>1, <2>2, <2>3, <2>4, <2>5 DEF PerformanceNext
<1> QED
  BY <1>1, <1>2, PTL DEF PerformanceSpec

\* A signal's prices and levels are numbers, and there are finitely many prices.
LEMMA ObservedPrices ==
    ASSUME NEW o \in Observations
    PROVE  /\ Prices(o) \subseteq Int /\ IsFiniteSet(Prices(o))
           /\ o.signal_price \in Int /\ o.stop_loss \in Int
           /\ o.target_1 \in Int /\ o.target_2 \in Int
           /\ \A p \in Int : Move(o, p) \in Int
<1>1. /\ o.prices \in Seq([at : Int, price : Int])
      /\ {o.signal_price, o.stop_loss, o.target_1, o.target_2} \subseteq Int
  BY PerformanceAssumption
<1>2. /\ o.signal_price \in Int /\ o.stop_loss \in Int
      /\ o.target_1 \in Int /\ o.target_2 \in Int
  BY <1>1
<1>3. \A i \in DOMAIN o.prices : o.prices[i].price \in Int
  <2>0. \A T : \A s \in Seq(T) : \A i \in DOMAIN s : s[i] \in T
    OBVIOUS
  <2>1. ASSUME NEW i \in DOMAIN o.prices PROVE o.prices[i] \in [at : Int, price : Int]
    BY <1>1, <2>0, Zenon
  <2> QED
    BY <2>1
<1>4. Len(o.prices) \in Nat /\ DOMAIN o.prices = 1 .. Len(o.prices)
  BY <1>1
<1>5. IsFiniteSet(DOMAIN o.prices)
  BY <1>4, FS_Interval
<1>6. IsFiniteSet(Prices(o))
  <2> DEFINE g == [i \in DOMAIN o.prices |-> o.prices[i].price]
  <2>1. Prices(o) = {g[i] : i \in DOMAIN o.prices}
    BY DEF Prices
  <2> HIDE DEF g
  <2> QED
    BY <1>5, <2>1, FiniteImage
<1>7. \A p \in Int : Move(o, p) \in Int
  BY <1>2 DEF Move
<1> QED
  BY <1>2, <1>3, <1>6, <1>7 DEF Prices

\* The excursions are the moves of the extreme prices.
LEMMA ExcursionsBound ==
    ASSUME NEW o \in Observations
    PROVE  /\ evaluate_signal(o).max_favorable \in Int
           /\ evaluate_signal(o).max_adverse \in Int
           /\ Prices(o) = {} => /\ evaluate_signal(o).max_favorable = 0
                                /\ evaluate_signal(o).max_adverse = 0
           /\ \A p \in Prices(o) : /\ Move(o, p) <= evaluate_signal(o).max_favorable
                                   /\ evaluate_signal(o).max_adverse <= Move(o, p)
           /\ Prices(o) # {} =>
                /\ \E p \in Prices(o) : evaluate_signal(o).max_favorable = Move(o, p)
                /\ \E p \in Prices(o) : evaluate_signal(o).max_adverse = Move(o, p)
<1> DEFINE f(p) == Move(o, p)
           moves == {f(p) : p \in Prices(o)}
           best == IF moves = {} THEN 0 ELSE CHOOSE m \in moves : \A n \in moves : n <= m
           worst == IF moves = {} THEN 0 ELSE CHOOSE m \in moves : \A n \in moves : m <= n
<1>1. evaluate_signal(o).max_favorable = best /\ evaluate_signal(o).max_adverse = worst
  BY DEF evaluate_signal
<1>2. \A p \in Prices(o) : f(p) \in Int
  BY ObservedPrices
<1>3. IsFiniteSet(Prices(o))
  BY ObservedPrices
<1> SUFFICES /\ best \in Int /\ worst \in Int
             /\ Prices(o) = {} => best = 0 /\ worst = 0
             /\ \A p \in Prices(o) : f(p) <= best /\ worst <= f(p)
             /\ Prices(o) # {} => /\ \E p \in Prices(o) : best = f(p)
                                  /\ \E p \in Prices(o) : worst = f(p)
  <2> HIDE DEF best, worst
  <2> QED
    BY <1>1, Zenon
<1> HIDE DEF f
<1>4. moves \in SUBSET Int /\ IsFiniteSet(moves)
  <2> DEFINE g == [p \in Prices(o) |-> f(p)]
  <2>1. moves = {g[p] : p \in Prices(o)} /\ moves \in SUBSET Int
    BY <1>2
  <2> HIDE DEF g, moves
  <2> QED
    BY <1>3, <2>1, FiniteImage
<1>5. CASE moves = {}
  BY <1>5
<1>6. CASE moves # {}
  <2>1. (\E m \in moves : \A n \in moves : n <= m) /\ (\E m \in moves : \A n \in moves : m <= n)
    <3> HIDE DEF moves
    <3> QED
      BY <1>4, <1>6, Extremes
  <2>2. best \in moves /\ \A n \in moves : n <= best
    <3> HIDE DEF moves
    <3> QED
      BY <1>6, <2>1
  <2>3. worst \in moves /\ \A n \in moves : worst <= n
    <3> HIDE DEF moves
    <3> QED
      BY <1>6, <2>1
  <2> HIDE DEF best, worst
  <2> QED
    BY <1>4, <1>6, <2>2, <2>3
<1> QED
  BY <1>5, <1>6

\* What the record says was reached.
LEMMA HitsOf ==
    ASSUME NEW o \in Observations
    PROVE  /\ evaluate_signal(o).target_1_hit <=> \E p \in Prices(o) : Reaches(o, p, o.target_1)
           /\ evaluate_signal(o).target_2_hit <=> \E p \in Prices(o) : Reaches(o, p, o.target_2)
           /\ evaluate_signal(o).stop_loss_hit <=> \E p \in Prices(o) :
                IF o.action = "BUY" THEN p <= o.stop_loss ELSE p >= o.stop_loss
<1>1. ASSUME NEW a, NEW b, NEW c, NEW d, NEW e, NEW g
      PROVE  LET r == [returns |-> a, max_favorable |-> b, max_adverse |-> c,
                       target_1_hit |-> d, target_2_hit |-> e, stop_loss_hit |-> g]
             IN  r.target_1_hit = d /\ r.target_2_hit = e /\ r.stop_loss_hit = g
  OBVIOUS
<1>2. /\ evaluate_signal(o).target_1_hit = (\E p \in Prices(o) : Reaches(o, p, o.target_1))
      /\ evaluate_signal(o).target_2_hit = (\E p \in Prices(o) : Reaches(o, p, o.target_2))
      /\ evaluate_signal(o).stop_loss_hit = (\E p \in Prices(o) :
                IF o.action = "BUY" THEN p <= o.stop_loss ELSE p >= o.stop_loss)
  BY <1>1, Zenon DEF evaluate_signal
<1> QED
  BY <1>2, Zenon

\* In one record levels and excursions agree.
LEMMA HitsAgree ==
    ASSUME NEW o \in Observations
    PROVE  /\ evaluate_signal(o).target_1_hit <=>
                evaluate_signal(o).max_favorable >= Move(o, o.target_1)
           /\ evaluate_signal(o).target_2_hit <=>
                evaluate_signal(o).max_favorable >= Move(o, o.target_2)
           /\ evaluate_signal(o).stop_loss_hit <=>
                evaluate_signal(o).max_adverse <= Move(o, o.stop_loss)
<1> DEFINE best == evaluate_signal(o).max_favorable
           worst == evaluate_signal(o).max_adverse
<1>1. /\ best \in Int /\ worst \in Int
      /\ Prices(o) = {} => best = 0 /\ worst = 0
      /\ \A p \in Prices(o) : Move(o, p) <= best /\ worst <= Move(o, p)
      /\ Prices(o) # {} => /\ \E p \in Prices(o) : best = Move(o, p)
                           /\ \E p \in Prices(o) : worst = Move(o, p)
  BY ExcursionsBound
<1>2. \A level \in Int : (\E p \in Prices(o) : Reaches(o, p, level)) <=>
                           \E p \in Prices(o) : Move(o, p) >= Move(o, level)
  BY ObservedPrices DEF Reaches, Move
<1>3. (\E p \in Prices(o) : IF o.action = "BUY" THEN p <= o.stop_loss ELSE p >= o.stop_loss) <=>
        \E p \in Prices(o) : Move(o, p) <= Move(o, o.stop_loss)
  BY ObservedPrices DEF Move
<1>4. Move(o, o.target_1) > 0 /\ Move(o, o.target_2) > 0 /\ Move(o, o.stop_loss) < 0
  <2>1. PlanInOrder(o)
    BY PerformanceAssumption
  <2> QED
    BY <2>1, ObservedPrices DEF PlanInOrder, Move
<1>5. \A level \in Int : Move(o, level) > 0 =>
        ((\E p \in Prices(o) : Move(o, p) >= Move(o, level)) <=> best >= Move(o, level))
  <2> HIDE DEF best, worst
  <2> QED
    BY <1>1, ObservedPrices
<1>6. (\E p \in Prices(o) : Move(o, p) <= Move(o, o.stop_loss)) <=> worst <= Move(o, o.stop_loss)
  <2> HIDE DEF best, worst
  <2> QED
    BY <1>1, <1>4, ObservedPrices
<1> HIDE DEF best, worst
<1>7. /\ (\E p \in Prices(o) : Reaches(o, p, o.target_1)) <=> best >= Move(o, o.target_1)
      /\ (\E p \in Prices(o) : Reaches(o, p, o.target_2)) <=> best >= Move(o, o.target_2)
  BY <1>2, <1>4, <1>5, ObservedPrices
<1>8. (\E p \in Prices(o) : IF o.action = "BUY" THEN p <= o.stop_loss ELSE p >= o.stop_loss)
        <=> worst <= Move(o, o.stop_loss)
  BY <1>3, <1>6
<1> QED
  BY <1>7, <1>8, HitsOf, Zenon DEF best, worst

\* In one record a second target comes with a first, a first target with a
\* favorable move, and a return that is not negative with a move that is not.
LEMMA RecordIsNested ==
    ASSUME NEW o \in Observations
    PROVE  /\ evaluate_signal(o).target_2_hit => evaluate_signal(o).target_1_hit
           /\ evaluate_signal(o).target_1_hit => evaluate_signal(o).max_favorable > 0
           /\ \A h \in DOMAIN evaluate_signal(o).returns :
                evaluate_signal(o).returns[h] >= 0 => evaluate_signal(o).max_favorable >= 0
<1> DEFINE best == evaluate_signal(o).max_favorable
<1>1. best \in Int /\ \A p \in Prices(o) : Move(o, p) <= best
  BY ExcursionsBound
<1>2. Move(o, o.target_1) > 0 /\ Move(o, o.target_1) <= Move(o, o.target_2)
  <2>1. PlanInOrder(o)
    BY PerformanceAssumption
  <2> QED
    BY <2>1, ObservedPrices DEF PlanInOrder, Move
<1>3. Move(o, o.target_1) \in Int /\ Move(o, o.target_2) \in Int
  BY ObservedPrices
<1>a. /\ best >= Move(o, o.target_2) => best >= Move(o, o.target_1)
      /\ best >= Move(o, o.target_1) => best > 0
  <2> HIDE DEF best
  <2> QED
    BY <1>1, <1>2, <1>3
<1>4. /\ evaluate_signal(o).target_2_hit => evaluate_signal(o).target_1_hit
      /\ evaluate_signal(o).target_1_hit => best > 0
  BY <1>a, HitsAgree, Zenon
<1>5. ASSUME NEW h \in DOMAIN evaluate_signal(o).returns, evaluate_signal(o).returns[h] >= 0
      PROVE  best >= 0
  <2>1. evaluate_signal(o).returns = Returns(o)
    BY DEF evaluate_signal
  <2>2. /\ h \in Horizons /\ Eligible(o, h) # {}
        /\ Returns(o)[h] = Move(o, o.prices[Min(Eligible(o, h))].price)
    BY <1>5, <2>1 DEF Returns
  <2>3. Len(o.prices) \in Nat /\ DOMAIN o.prices = 1 .. Len(o.prices)
    BY PerformanceAssumption
  <2>4. Eligible(o, h) \in SUBSET (DOMAIN o.prices)
    BY DEF Eligible
  <2>5. Eligible(o, h) \in SUBSET Int /\ IsFiniteSet(Eligible(o, h))
    <3>1. IsFiniteSet(1 .. Len(o.prices)) /\ 1 .. Len(o.prices) \subseteq Int
      BY <2>3, FS_Interval
    <3>2. Eligible(o, h) \subseteq 1 .. Len(o.prices)
      BY <2>3, <2>4
    <3> QED
      BY <3>1, <3>2, FS_Subset
  <2>6. Min(Eligible(o, h)) \in DOMAIN o.prices
    BY <2>2, <2>4, <2>5, Extremes
  <2>7. o.prices[Min(Eligible(o, h))].price \in Prices(o)
    BY <2>6 DEF Prices
  <2>8. PICK p \in Prices(o) : Returns(o)[h] = Move(o, p)
    BY <2>2, <2>7
  <2>9. Move(o, p) >= 0 /\ Move(o, p) \in Int /\ Move(o, p) <= best
    BY <1>1, <1>5, <2>1, <2>8, ObservedPrices
  <2> HIDE DEF best
  <2> QED
    BY <1>1, <2>9
<1> QED
  BY <1>4, <1>5

\* A property that implies another one holds of no more of the records.
LEMMA CountsAreNested ==
    ASSUME NEW n \in Nat, NEW A \in SUBSET (1..n), NEW B \in SUBSET (1..n), A \subseteq B
    PROVE  Cardinality(A) <= Cardinality(B)
<1>1. IsFiniteSet(1..n)
  BY FS_Interval
<1>2. IsFiniteSet(B)
  BY <1>1, FS_Subset
<1> QED
  BY <1>2, FS_Subset

\* The files of the invariant agree with their excursions.
LEMMA StoredHits == StoreInv => HitsAgreeWithExcursion
<1> SUFFICES ASSUME StoreInv, file # Torn, NEW i \in DOMAIN file
             PROVE  /\ file[i].target_1_hit <=> file[i].max_favorable >= Move(evaluated[i], evaluated[i].target_1)
                    /\ file[i].target_2_hit <=> file[i].max_favorable >= Move(evaluated[i], evaluated[i].target_2)
                    /\ file[i].stop_loss_hit <=> file[i].max_adverse <= Move(evaluated[i], evaluated[i].stop_loss)
  BY Zenon DEF HitsAgreeWithExcursion
<1>1. evaluated \in Seq(Observations) /\ file = RecordsOf(evaluated)
  BY DEF StoreInv
<1>2. i \in DOMAIN evaluated /\ file[i] = evaluate_signal(evaluated[i])
  BY <1>1 DEF RecordsOf
<1>3. evaluated[i] \in Observations
  BY <1>1, <1>2
<1> QED
  BY <1>2, <1>3, HitsAgree, Zenon

\* The report's counts over the files of the invariant are nested.
LEMMA StoredRates == StoreInv => RatesAreNested
<1> SUFFICES ASSUME StoreInv, file # Torn
             PROVE  /\ target_2_count <= target_1_count /\ target_1_count <= favorable_signals
                    /\ \A h \in Horizons : accurate(h) <= Count(LAMBDA r : r.max_favorable >= 0)
  BY DEF RatesAreNested
<1>1. evaluated \in Seq(Observations) /\ file = RecordsOf(evaluated)
  BY DEF StoreInv
<1>2. Len(evaluated) \in Nat /\ DOMAIN file = 1 .. Len(evaluated)
  BY <1>1 DEF RecordsOf
<1>3. ASSUME NEW i \in DOMAIN file
      PROVE  /\ file[i].target_2_hit => file[i].target_1_hit
             /\ file[i].target_1_hit => file[i].max_favorable > 0
             /\ \A h \in DOMAIN file[i].returns : file[i].returns[h] >= 0 => file[i].max_favorable >= 0
  <2>1. file[i] = evaluate_signal(evaluated[i]) /\ evaluated[i] \in Observations
    BY <1>1, <1>2 DEF RecordsOf
  <2> QED
    BY <2>1, RecordIsNested, Zenon
<1>4. {i \in DOMAIN file : file[i].target_2_hit} \subseteq {i \in DOMAIN file : file[i].target_1_hit}
  BY <1>3, Zenon
<1>5. {i \in DOMAIN file : file[i].target_1_hit} \subseteq {i \in DOMAIN file : file[i].max_favorable > 0}
  BY <1>3, Zenon
<1>6. \A h \in Horizons :
        {i \in DOMAIN file : h \in DOMAIN file[i].returns /\ file[i].returns[h] >= 0}
          \subseteq {i \in DOMAIN file : file[i].max_favorable >= 0}
  BY <1>3, Zenon
<1>7. target_2_count <= target_1_count
  BY <1>2, <1>4, CountsAreNested DEF target_2_count, target_1_count, Count
<1>8. target_1_count <= favorable_signals
  BY <1>2, <1>5, CountsAreNested DEF favorable_signals, target_1_count, Count
<1>9. ASSUME NEW h \in Horizons
      PROVE  accurate(h) <= Count(LAMBDA r : r.max_favorable >= 0)
  BY <1>2, <1>6, CountsAreNested DEF accurate, Count
<1> QED
  BY <1>7, <1>8, <1>9

\* However appends are cut short, a file that can be parsed is complete.
THEOREM StoreIsComplete == PerformanceSpec => []ReadableIsComplete
<1>1. StoreInv => ReadableIsComplete
  BY DEF StoreInv, ReadableIsComplete, RecordsOf
<1> QED
  BY <1>1, StoreAligned, PTL

\* Whatever prices were seen, targets and stops are hit in a record just where
\* its excursions reach them.
THEOREM HitsAreConsistent == PerformanceSpec => []HitsAgreeWithExcursion
  BY StoredHits, StoreAligned, PTL

\* However many records there are, the report's rates never contradict each other:
\* second targets are among first targets, these among favorable signals.
THEOREM RatesNest == PerformanceSpec => []RatesAreNested
  BY StoredRates, StoreAligned, PTL
=============================================================================
