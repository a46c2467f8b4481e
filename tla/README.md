# Trading Assistant: the verification project

TLA+ models of the parts of Trading Assistant that keep state over time, the
TLC runs that check them on small instances, and TLAPS proofs of what matters
most about them for every instance. `PROJECT.json` is the index: which
definition stands for which lines, which run checks what, and which mutated
definition each property has been seen to reject.

Trading Assistant places no orders. What it is trusted with is a *record*: a
confirmed setup becomes a row of a CSV journal (a paper trade with an entry, a
stop and two targets), and later cycles find out how the market decided it. A
strategy is judged by these rows. So the questions are: is every alert in the
journal once, is every row closed by what the market did first, and do crashes,
failed requests and concurrent writers leave that true?

## 1. Inventory

### Signal journal (`monitoring/signal_journal.py`)
State: one CSV file of rows (`SignalRecord`): plan, status, exit, result in R,
live flags. Operations: `record` appends a line; `update_live_state` and
`resolve` read the whole file, change the open row of an id and rewrite the
file; the constructor migrates a file without the header; `summary` counts.
Used by every component below, each with an object of its own and no lock.
Hard: read-modify-write races, a rewrite that dies half way, ids by timestamp.
Correct if no row is lost or mixed, and a closed row stays as it is.

### Crypto validation runner (`tools/crypto_validation_runner.py`, `data/crypto.py`, the workflow)
State: its journal file; all else is local to a cycle. A cycle scans, records
the confirmed candidates that are not open already, and walks the one-minute
bars since each open alert: live flag first, then the outcome. It runs every
five minutes as a job with a five-minute limit, or as a loop. Hard: a job killed
between two writes, failed requests, a bar that touches several levels, the
forming bar, the bars that one request can return. Correct if each closed row
has the outcome of its first decisive finished bar and decided rows do close.

### NSE validation runner and NSE dashboards (`tools/nse_validation_runner.py`, `app.py`, `pages/1`)
State: one journal file that three programs write. Each cycle records BUY/SELL
analyses without an open row on that side, and judges open rows by the price of
the moment. Hard: the programs interleave at every file operation.

### Crypto dashboard page (`pages/2`)
State: per browser session the scanned candidates and the selection; shared, a
journal file. A scan records; a fragment every five seconds matches the
displayed plan to an open row, marks milestones and resolves. Hard: sessions
interleave, the displayed plan is not the recorded one, restarts.

### Broker connection and dashboard session (`brokers/`, `application/__init__.py`, `app.py`)
State: one application object for all browser sessions with the active broker,
the session record and a token per connector; per browser session a live
service. Operations: connect (disconnect the old broker, verify the new one,
accept the session, build the live service), disconnect, load a token. Hard:
steps of two sessions interleave; a connect that fails half way.

### Live analysis, monitoring loop and alert dispatch (`application/live_analysis.py`, `monitoring/market_data_input.py`, `signal_dispatch.py`, `state.py`, `notifier.py`, `loop.py`, `watchlist*.py`)
State: per browser session a live service with a dispatcher that remembers the
last trigger per symbol, and the notifier's list; the watchlist. An analysis of
a symbol loads levels and scores from one request for candles, takes entry and
setup from a second, decides, and announces when the trigger changed. Hard: the
price moves between the requests, one symbol fails and the others go on, results
without an action lie between actionable ones, a reconnect starts from nothing,
overruns of the loop, symbols added and removed while it runs, and whether the
exchange's hours hold the candles an analysis demands. Correct if every announced
trade is a plan in order, announcements neither repeat nor skip a change, the
loop keeps its schedule and its symbols take turns.

### Analysis pipeline (`analysis/`)
Pure functions from candles to scores, decisions and plans. Correct if the gates
and the order of the rules give what the definitions say at the boundaries.

### Market, sector and swing scanners (`monitoring/market_scanner.py`, `swing_scanner.py`, `sector_scanner.py`, `data/dynamic_cap_classification.py`, `cap_universe.py`, `pages/1`)
State: the intraday scanner's cached universe with its time and source, and the
errors of a scan; the classification workbook on disk; the swing scanner's
classification. A scan resolves a universe, asks for each stock's candles twice,
scores, ranks, analyses and groups. Hard: cached lists beyond their age, one
stock's failure among others, a download that dies between writing the cache and
parsing it, rankings with limits per group. Correct if what is scanned is recent
or named as built in, no stock vanishes, and what is not shown was outdone.

### Crypto scanner (`monitoring/crypto_scanner.py`, `crypto_intraday_scanner.py`)
State: the page's locked candidate, and the last analysis of its coin. Two score
functions, the list of marked conditions and the page's health of a locked plan are
separate pieces of code over the same indicators. Correct if what is drawn together
agrees: the marks of a fresh analysis and the health of the locked plan. (The alert
that the page draws is the locked plan's, by its caption "the historical scan
decision", and need agree with neither.)

### Signal performance (`monitoring/performance*.py`)
State: a JSON file of evaluated signals, rewritten by every append. Only tests
call it. Hard: a write that dies half way; two computations of one fact.

### Long-term and multibagger research (`pages/3`, `pages/5`, `data/yfinance_fundamentals.py`, `analysis/multibagger_*`)
State: whether the Yahoo package can be imported, a bootstrap that runs once per
process, and a session's rows, errors and board. Hard: the package comes and goes
while a scan runs; missing figures in every place; rankings within sectors.
Correct if no stock is dropped in silence and a better one is not ranked lower.

### IPO centre (`ipo_feed.py`, `pages/4`)
State: a session's list of issues and its source. Hard: the list is kept across
midnight, and one script asks for the date several times.

### Repository automation (`.github/workflows/crypto-validation.yml`, `scripts/auto-sync.sh`)
State: master, a job's checkout, a clone with its branches and tree, the lock
directory, the installed dependencies. A job runs a cycle, commits the journal
and pushes; a daemon fetches, pulls and installs every thirty seconds. Hard:
others push, edit, commit and switch branches between any two of its steps, it
is killed with or without its trap, requests and `pip` fail. Correct if no commit
is lost, one daemon works at a time, and a clone left alone catches up.

### Data providers (`data/upstox.py`, `groww.py`, `crypto.py`, `yfinance_fundamentals.py`, ...)
HTTP, authentication and parsing, with windows and guards of their own. A failed
or odd answer is an action of the modules that use them.

### Indicators; validation reports; domain models, configuration and theme
Numeric recurrences; read-only pages 6 and 7; records and constants.

## 2. Modules

| module | models | grain of a step |
| --- | --- | --- |
| `SignalJournal` | rows and the three journal operations as operators on a sequence of rows; the sets `summary` counts | – |
| `TradePlan` | a candidate's plan, what a bar or a price touches, when two plans are one setup | – |
| `CryptoValidation` | the crypto runner's cycles, the clock and the market | one journal operation, one bar, one request |
| `PaperBook` | the abstract paper-trading book: plans opened once, settled once by their first decisive bar | one plan opened or settled |
| `NseJournal` | the NSE runner and dashboard fragments on one file | one reading or append; a rewrite is a truncation, any number of flushed pieces and the closing |
| `CryptoPage` | browser sessions of the crypto page | one journal operation |
| `Analysis` | setup detection, trend continuation, timeframe alignment, risk plan, decision and the pipeline, as operators | – |
| `LiveAnalysis` | a session's live service, input builder, dispatcher and notifier, and reconnecting | one request for candles, one dispatch |
| `BrokerConnection` | the shared connection service, session record and connectors, and the connection panel of several tabs | one write to the shared object, one request, one access to a tab's state |
| `MonitorLoop` | the watchlist, the monitor built over it, its schedule and its calls | one edit, one call, one sleep |
| `CandleHistory` | the windows of the loader's requests against an exchange's week | one request |
| `RepositorySync` | the workflow's job and the sync daemons around one branch and one clone | one git or pip command |
| `Ranking` | sorting by score, selecting and cutting lists, for both scanners | – |
| `MarketScan` | the intraday scanner, its universe and the alert engine's page | one stock's answer |
| `SwingScan` | the loading of the classification, and the swing scan over it | one step of the load; one scan |
| `CryptoSignals` | the score, alert, levels and health rules of one coin | one analysis or redraw |
| `PerformanceStore` | evaluating a signal, the store's file, the report's counts | load, truncate, write |
| `LongTermResearch` | the Yahoo provider, pages 3 and 5, their scores and rankings | one stock's answer |
| `IpoCenter` | the feed, the kept list and the page's rows | one use of the date |
| `MCParts` | all of these but `CandleHistory`, and `BrokerConnection`, side by side | – |
| `SequenceLemmas` | lemmas about finite sets of numbers, folds, selections, orders and joined lists | – |
| `Scans_proofs` | theorems about `MarketScan`, `SwingScan` and `CryptoSignals` | – |
| `Parts_proofs` | about `IpoCenter`, `MonitorLoop`, `RepositorySync`, `BrokerConnection` and `PerformanceStore` | – |
| the other `..._proofs` | about the module they are named for | – |
| other `MC...` | instances for TLC | – |

`CryptoValidation`, `NseJournal` and `CryptoPage` all EXTEND `SignalJournal` and
`TradePlan`: the journal's code is one and so is its model, and a mutant in
`SignalJournal` is a mutant of all three. `LiveAnalysis` EXTENDS `Analysis`.

**Correspondence.** Variables are named for the code's: `journal` or `file` is
what is on disk, `todo` the list `_update_outcomes` iterates over, `current` the
local `record`, `pending`/`results` the analysed setups not yet looked at,
`existing` the rows read for the duplicate test. `pc` says where a cycle is.
An action is one journal call or request with the code up to the next one. A
row is a record with the fields that something depends on; `market`, `score`,
`reason` and texts are left out. `status`, `exit_price`, `outcome_r` and
`resolved_at` are the code's, `hit` is the set of the three live flags,
`sell_price` the last price they were set at.

**Abstractions.**
- `CryptoValidation`: a rewrite of the file is one step (half-done ones are in
  `NseJournal`; this journal has one writer, the workflow's `concurrency` group
  sees to it). The bars of all minutes are chosen in the initial state and no
  step looks at one that has not passed, which `ResolvedAtFirstDecisiveBar`
  would reveal. Time is in minutes; a cycle's timestamp is its minute and two
  cycles are at least one minute apart, so ids of two cycles differ (a runner
  restarted within the same minute is not covered). Rows and candidates of a
  cycle are sets: the code's order is one of the orders explored.
- `NseJournal`: a rewrite truncates the file, writes whenever the I/O buffer is full,
  and writes the rest when it is closed. The buffer may be full anywhere in a row
  (the real one holds 8 KB, some twenty rows, so TLC's short journals stand for long
  ones), but not inside the header line, which is shorter. A row that is cut is read as `_from_row` reads it,
  column by column (`Cuts`): without its `risk_reward` it raises, later columns
  default, a number may have lost digits; the rows have quoted commas in `reason` only.
  A line that raises stays where it is, and from then on nobody can read the
  journal. Two programs that have the file open for writing at the same time are left
  out (`Closed`): what remains of both depends on the lengths of their lines and the
  offsets of their buffers. Reading is one step. The price of each evaluation is
  arbitrary. Results in R are rounded. Timestamps of appends differ, so ids do. An
  exception in the runner's first cycle ends the process, later ones end the cycle.
- `CryptoPage`: a journal method is one step; `resolved_at` is left out.
- `Analysis`, `LiveAnalysis`: a chart is the record of the signs that setup
  detection compares (close against an average, histogram against zero, at the
  last two candles); which chart goes with which price and which evidence is
  arbitrary, as the two requests may see different candles. Scores are integers
  in tenths of a point, sums in thousandths. Where target 1 is exactly 1.5
  times the risk, which is what the loader aims at, the floating-point quotient
  may come out below 1.5: `rounds_down` is either. The reasons for which a request
  or the validation of its candles fails are one action each. A request for
  metadata is one step although it is five, as the levels depend on the first
  alone. `latest` is a history variable.
- `BrokerConnection`: tokens are there or not; `verified` is a history variable,
  the brokers whose last answer was an acceptance and whose connector was not
  disconnected since. Reading `_active` and disconnecting the other broker is one
  step. `Misconfigured` brokers are those whose settings the provider factory
  refuses. A restart of the server is another initial state.
- `MonitorLoop`: time is counted in the units of `Interval`; the order of names is the order
  of the constant `Symbols`. When an item was added is left out: nothing reads it.
- `CandleHistory`: a week is like every other, without holidays; every request is
  answered with all that was traded, so the shortage is the windows' own.
- `RepositorySync`: a commit is its journal and its manifests; a branch of the
  clone is a prefix of master and perhaps local commits. `missed` remembers what
  excuses an installation that was not made (pip failed, was killed, or read
  another branch's tree).
- `MarketScan`, `SwingScan`, `CryptoSignals`: a reading is what the rules see of a
  stock's indicators (signs, RSI, volume in tenths). Scores are the code's numbers
  in tenths. A comparison with NaN is false, and so is one with a negative volume
  here. A stock's price for a plan is an integer. `ScanSwing` is one step, as
  nothing it reads can change while it runs.
- `PerformanceStore`: a move is a price difference, without the division by the
  signal's positive price.
- `LongTermResearch`: growth and ROCE in whole percent, component scores in
  hundredths, both rounded down, the score then to the tenth that is shown; Yahoo's
  statements are functions from whole years. Growth is the greatest percentage whose
  power fits and stops at `GrowthCap`: page 3 gives full marks from a mean of 34 % on.
- `IpoCenter`: a day is a number; an undated issue has `NoDate`. What
  the public calendar lists is any of a few tables.
- External: a click in a tab stops its running script where it touches
  `st.session_state` (Streamlit); the exchange's answer to a bars request is modelled from how
  `data/crypto.py` asks for it (a start, an end and a limit: the first bars from
  the start on).

## 3. Runs

| run | instance | shows |
| --- | --- | --- |
| `crypto_outcomes` | a long and a short plan on a symbol, six kinds of bar (quiet, each level, both targets with the stop, target 1 with the stop), four minutes, one crash | outcomes and target-1 credits are those of the first decisive finished bar; live flags never contradict them; the runner implements `PaperBook` |
| `crypto_setups` | five plans on two symbols with entries near each other (one pair in one direction only), one bar per request, three minutes, a crash, failing requests, fairness | no two open rows are one setup; a plan decided within a request's bars is closed in the end |
| `crypto_limit` | one plan, one bar per request, four minutes | **violation**: a plan decided later than the request reaches stays open |
| `nse_alone` | runner and page one at a time, three plans on one stock, three prices, two alerts, two deaths anywhere, inside a rewrite too | what can be read is what was recorded, in order and once; one open row per side |
| `nse_shared` | runner and page interleaved between their journal calls, a buy and a sale of one stock, the prices that end them, two alerts, a death | no row is lost, no outcome lands on another row, closed rows stay |
| `nse_race` | runner and page, one uses the file inside the other's rewrite, two alerts | **violation**: a starting program takes a truncated file for one of an old schema, and its rewrite drops a row |
| `page_tabs` | two tabs, three plans, two scans, a restart, fairness | closed rows stay as they are; marked rows close |
| `live_alerts` | two stocks, two prices, bullish and bearish charts and evidence in every combination, timeframes in conflict, failing requests, three analysed stocks, one reconnect | announced trades are plans in order; announcements neither repeat nor withhold |
| `parts` | nine parts that share no state, one per initial state (below) | the promises of each part |
| `candle_history` | a week of sessions, looked at every quarter of an hour, fairness | **violation**: no stock is ever analysed |
| `live_conflict` | one stock, every chart, indicator and trend of the module | **violation**: timeframes in conflict do not stop a trade |
| `page_levels` | one tab, two plans with near entries | **violation**: a row is closed at another plan's level |

**The run `parts`.** The initial state picks a part and every step is one of that
part's: the parts have no variable in common, so an interleaving of two of them
would add states and no behaviour of either. What each shows:

| part | instance | properties |
| --- | --- | --- |
| sync | two daemons, three starts, three commits on master, two edits of the clone's user, one alert | `OneDaemon`, `NoCommitLost`, `DependenciesFollow`, `CatchesUp` (under fairness) |
| monitor | two symbols typed in four ways, calls of up to one and a half intervals, six units of time, three edits | `RestsOnSchedule`, `ServedInTurn` |
| performance | a purchase and a sale with up to two prices each, two horizons, two appends, deaths between any two steps | `HitsAgreeWithExcursion`, `RatesAreNested`, `ReadableIsComplete` |
| signals | every mixture of signs, trends, three RSI and three volumes; prices at and beyond the levels; two charts | `MarksAgree`, `NearestLevelsShown` |
| market | four stocks of two sectors, three answers of NSE, three readings, a cache of two seconds | `UniverseIsRecent`, `NoStockLost` |
| swing | three workbooks (segment by category, sheet, rank or position; duplicates; empty), three readings, two loads | `SegmentsShowTheirBest` |
| research | two stocks, some thirty companies, the package comes and goes twice | `NothingSilent`, `BetterIsNotOutranked` |
| ipo | five days, three calendars and the built-in list | `TimeLeftIsTrue` |
| brokers | two tabs that take turns, two brokers, any tokens at the start, one broker misconfigured, five clicks | `SessionFollowsActive`, `OneBrokerConnected` |

`TypeOK` in this run is that of `BrokerConnection`. The types of `RepositorySync`
and `MonitorLoop` are part of the inductive invariants of their proofs.

**Why the bounds are enough.** Every hazard needs few actors and steps. Four
minutes hold an alert, a bar that earns target 1, a decisive bar and the forming
bar, so a credit in one cycle and a decision in a later one occur, with a crash
at each place. `MaxMinute` also stands for "from then on": the clock stops,
cycles go on and no scan finds anything new. `Limit` is 1 where the bound on a
request is the subject and the code's 1000 elsewhere. `NearScale` is the code's
2000 in `CryptoPage`; in `MCCryptoValidation` it is 100 with entries 100, 101
and 103, the same test at a size where its asymmetry shows. In the journal of the NSE
programs two writers and two alerts let a stale list, a stale row and a
foreign last row occur, each with another row whose plan or outcome could be mixed in.
`nse_alone` and `nse_shared` divide the hazards. The first has deaths inside a rewrite
(`TornWrites`), two in a row so that a torn file is migrated by a program that dies as
well, and one program at a time (`OneAtATime`). It has no `NothingLost`: a death inside
a rewrite does lose the rows that were not written yet, by design of `_rewrite` (no
temporary file). The second has the interleavings of whole journal calls
(`~OneAtATime`, `~Overlaps`). Together they would need programs that read each other's
half-written files, and there the journal keeps nothing, as `nse_race` shows.
`OneAtATime` is also assumed for the brokers of `parts`.

In `live_alerts` three analysed stocks let a result repeat after one without an
action or after another stock's, change its score or its side, or follow on a reconnect; the two
prices differ by more than the least risk and less than target 2, so that a plan
computed at one of them is refused, or accepted, at the other. In `parts` five
clicks are a connect, a switch, a switch back, a disconnect and a late token, with
every answer and interruption of each. With `OneAtATime` FALSE TLC finds both
properties broken: a disconnect in one tab between another's writes
to the service and to the session, or two connects that wait for their brokers at
once. Nothing in the repository promises that tabs may be used at once.

In `parts`, three commits let the workflow and a developer push into one another's
checkout, and a manifest change and change back; three starts are a daemon, one
refused and one after a death. A call of the monitor may overrun an interval, and
two overruns in a row make cycles follow each other back to back. Two prices are
enough to order a first and a last, a best and a worst. `SectorLimit`,
`AlertLimit` and `SwingLimit` are 1, so that two stocks of a group compete. The
scanned readings hold a tie and a score that is not a number. Two research stocks
meet in one sector, or not, with each figure present, absent, better or worse.

**Fairness.** `CryptoValidation`: weak fairness of the clock and of the runner
(the schedule is `*/5 * * * *` and the loop retries for ever), strong fairness
of a row's request (it is repeated every cycle; an exchange that never answers
again would keep any row open). Crashes are bounded, not excluded.
`RepositorySync`: weak fairness of a daemon's round (a loop that sleeps thirty
seconds), strong fairness of its fetch and its pull (they are tried again every
round; a network that never works again is not covered). `CandleHistory`: weak
fairness of the page's refresh and of the answer to each request, as the violation
is to be the windows' and nobody else's.
`CryptoPage`: weak fairness of a script that has begun (neither recording nor
resolving contains a call at which Streamlit stops a script); none of clicks
and prices. `NseJournal` has safety properties only: the price of the moment
need never reach a level; so has `LiveAnalysis`, as nothing calls analyze but a
user or a fragment. `CHECK_DEADLOCK FALSE` is set where the system may
rest: a page nobody clicks on, a service nobody calls any more, parts whose clock
or counter is at its bound, and a journal that has lost its header under two
rows, which no program can open any more.

## 4. What the violations say

- `crypto_limit`: `get_ohlcv` asks for the bars from the alert on with a limit of
  1000, so an alert older than 1000 minutes is judged by the same first bars for
  ever. The runner's docstring says it checks with *recent* bars.
- `nse_race`: the journal is said to append "without overwriting historical records".
  A page records an alert and evaluates it; the rewrite of `update_live_state` has
  truncated the file when the runner starts. Its constructor finds no header, takes
  the file for one of an old schema with no rows (`_migrate_schema`), and when the
  page has written its row the runner truncates the file once more and writes the
  header alone: the recorded row is gone. No process died and no two handles were
  open for writing at once.
- `page_levels`: the fragment resolves the row it finds at the levels of the
  *displayed* candidate; a second scan may have replaced it by one with a near
  entry and another range.
- `live_conflict`: `evaluate_trade` says that conflicting evidence falls back to
  WATCH or NO_TRADE; the alignment of the timeframes is only one term of the
  score, worth 10 points of 100 at best and 2.5 in conflict. A trade at 75 points
  with half of the timeframes against it is announced.
- `candle_history`: `_bars` turns 40 one-hour candles into 2400 minutes of the
  calendar and demands 30. A session has seven one-hour candles and forty hours
  touch two of them, so there are at most 14, and `load` raises for every stock at
  every time: no confirmation is announced. The test's provider returns 40 candles
  whatever it is asked for, which is why the tests pass.

## 5. Proofs

`CryptoValidation_proofs` proves, for all candidates, bars, limits and clocks:
type correctness, `ResolvedAtFirstDecisiveBar`, `Target1CreditIsEarned`,
`FlagsAgreeWithOutcome`, `NoDuplicateOpenPlan`, and that the runner implements `PaperBook`.

*Assumptions* (`ConstantsAssumption`, evaluated by TLC): candidates and bars
carry integers, a plan's first target lies before its second, its risk-reward is
positive (`crypto_scanner.py` computes the targets as multiples of the risk), the
limit is positive. `NoneAssumption`: the empty field is no integer.

*Argument.* None of the properties is inductive: a crash between
`update_live_state` and `resolve` leaves a row with a flag and no outcome, and
what the later cycle does with it depends on the bars. `IInv` adds
- `WalkInv`: while a row is walked, no bar behind the cursor decided it, a bar
  that earned target 1 is in the flag, and the row on disk is the one walked;
- `RowInv`: a flag on disk is true of the bars (a stop mark only if the first
  decisive bar touches the stop), so the next walk must end as it announced;
- `IdsInv`, `PendingInv`, `TodoInv`: ids are unique, nothing recorded twice in a
  cycle, rows in `todo` are as on disk.

Each part has a lemma `...Step`; `InductiveInvariant` puts them together, and
the properties follow from it. The refinement maps rows to book entries
(`BookOf`); appends open, resolves settle (`ResolveRefines` uses `WalkInv`), all
else stutters.

`LiveAnalysis_proofs` proves all four properties of `live_alerts`, for all prices,
charts, indicators, stocks and connections. Assumptions: prices are positive
integers, a chart whose averages are defined has a relative volume
(`LiveAssumption`), None is no result (`NoneAssumption`). `TradesAreSound` rests
on lemmas about the operators: the levels the loader computes are integers, a
plan that is not refused is in order, a BUY or SELL has a plan and the setup's
side (`TradeIsSound`); types then say that what is announced is a result of the
pipeline. `AnnouncedOnce` and `ChangesAnnounced` need `Consistent`: for each stock
the dispatcher remembers nothing and nothing was announced of it on this
connection, or it remembers the last announcement, and that was on this
connection. Only `Connect` (which forgets, and makes every announcement an
earlier connection's) and `Process` can disturb it.

`Parts_proofs`, for all tabs, brokers and environments: type correctness, and under `OneAtATime` the two
other properties of the brokers. Neither
is inductive, as they speak of states between scripts: `ScriptInv` says what is
left between the writes of the one running script, `VerifiedInv` that a verified
broker has its token and is the active one, except while the script that
connects it has not told the service.

`NseJournal_proofs`, for all runners, pages, plans, prices and bounds:
- `TypeOK` without a condition, however programs overlap and wherever they die: what
  can be read of a file that broke off is a row of the right form (`CutsKeep`,
  `PiecesType`), and an unreadable line ends the reader's cycle.
- `PlansSurvive` and `OneOpenPerSide` under `OneAtATime`, with deaths anywhere.
  `AloneInv` adds to the types `Alone` (one program is not down), `FileInv` (past
  its construction a program sees a header, unless it writes), `AlertIds`, `ReadInv`
  (what an alert is compared with is what the file holds) and `GoodInv`: the rows of the
  file and those about to be written are `Good`, that is each readable one has an alert's
  id and levels, ids ascend, and the rows before one of its side are closed. `GoodPieces`
  is the heart: a prefix of a `Good` list with its next line cut is `Good` too. The cut
  line of a closed row may read as open, but it is the last line, and the rows of its side
  before it are closed.
- `NothingLost`, `ClosedForGood` and `OutcomesFitPlans` under `~Overlaps` and
  `~TornWrites`, for any number of programs whose journal calls interleave. `JournalInv`
  is `NothingLost` with `FitInv`: every row that a program holds (to look at, to
  compare with, to write back) and every row of the file `Fits` an alert, that is has its
  id and plan, and if it is closed the exit and the result of that plan; rewrites take turns
  (`TurnsInv`), and a file that nobody writes is whole (`WholeFile`). `SettledStep`
  then says that a step keeps the journal, appends a row, or replaces the rows by rows that
  follow them (same ids and plans, none opened, closed ones as they were). A win has a
  positive result because a plan's levels are in order and its second target is worth
  at least its risk (`PlansAssumption`; `build_risk_plan` refuses the others).

`nse_race` shows why `~Overlaps` is needed. Plans are finitely many, so that a scan's
results can be counted against `MaxAlerts`.

`CryptoPage_proofs`, for all sessions, plans and prices: `TypeOK` and `ClosedForGood`.
`PageInv` adds to the types that a session past its look has a displayed plan, and
one that records a timestamp; `UpdateType` and `ResolveType` say that the journal's
operations pass over closed rows, whichever id a session still holds.

`Parts_proofs`, for all daemons, alerts and bounds: `OneDaemon` and
`DependenciesFollow` from `SyncInv` (the types, the two properties, and that whoever
works in the clone holds the lock), and the action property `NoCommitLost`. For all
symbols, intervals and durations: `RestsOnSchedule` and `ServedInTurn` from
`MonitorInv`, which ties `next_run` to the cycles begun and each symbol's calls to the
position in the cycle; it uses that `Symbols` has no name twice (`MonitorAssumption`).
And `TimeLeftIsTrue` from `IssuesInv` (what is on show passed the filter on the day the
script noted; dates are numbers or `NoDate`, `IpoAssumption`).

`Scans_proofs`, for all stocks, universes, workbooks, readings and limits:
- `UniverseIsRecent`: the cache is what NSE answered when its time was noted, and the
  age is positive (`MarketAssumption`);
- `NoStockLost` from `ScanInv`: while a scan runs, each stock of its universe is
  still unscanned, qualified or among the errors, and what is qualified and unscanned
  together are no more than the ranking keeps. `EndShowsTheBest` then says what ranking,
  cutting and grouping by sector leave out, and by what it was outdone. This needs
  that a scan's limit is no less than a universe's size (`MarketAssumption`): the
  alert engine of `pages/1` asks for 60, `_resolve_universe` keeps 60 and the built-in
  list has 50, so the cut at `ScanLimit` never bites. (The dashboard in `app.py` asks
  for 5 to 15 and shows no sectors; it is not this module's page.);
- `SegmentsShowTheirBest` from `SwingInv`: every classification in the cache, in
  a download or in the scanner names one of the three segments. Without that an odd name
  would have candidates the page has no table for. The assumption says so of the
  workbook's categories and sheets, as the parser of
  `dynamic_cap_classification.py` maps every label to one of the three or passes over it. `SelectionShowsTheBest` follows the list through
  `_select_candidates`: the three segments' best joined, and cut to the limit.

- `MarksAgree` from `ShownTogether`: what is on show is one analysis of a reading and
  the health that the same reading gives the locked plan. `Marks` and `HealthSays` tell
  the two rules by their sides, which need not be the same one; `RulesAgree` compares them;
- `NearestLevelsShown`: `NearestCovers` says that the fold which collects the levels
  omits only what is as far as what it kept, whatever the frame's length.

`Parts_proofs` also has the performance store:
- `HitsAgreeWithExcursion` and `RatesAreNested` from `StoreInv`: append's list is the
  file it read, and the file holds the records of the signals appended, in their order.
  `ExcursionsBound` says that the greatest and the least move bound each price's;
  with `PlanInOrder`, target 2 lies beyond target 1 and the stop on the other side.
  This is what `build_risk_plan` makes (`analysis/risk_plan.py` refuses a plan without
  risk, and its targets are 1.5 risks and at least that from the entry);
- `ReadableIsComplete`: a load is what was written, until it is written again.

`LongTermResearch_proofs`, for all universes, answers, limits and failures:
- `NothingSilent` from `Accounted`: each stock of a scan is unread, has a row or an
  error; page 3 scans only after its script imported the package, which a process keeps.
- `BetterIsNotOutranked` (of two companies that miss the same figures, neither with a loss
  in its history) from `Boarded`: while page 3 scans, each row is one that
  `Row` makes of a company's figures; at rest, rows that have a class are what
  `ScoreRows` makes of such rows, and the board is theirs. What a single assignment
  cannot tell is that every term of the score moves the right way, so the proof
  compares two companies `AsGood` term by term:
  `GrowthGrows` (growth is found by search, and powers grow with their base,
  `PowerGrows`), `MeanKeeps` (a mean of what is there keeps the order when the same
  terms are missing, as `AsGood` asks), `CashKeeps` (one has free cash in each
  year in which the other has), `PercentileKeeps` and `ValuationKeeps`
  (a lower ratio has no more peers below it, so its percentile is no higher and its
  valuation no lower), and `ScoreKeeps` (the weights are then the same, and so is the
  divisor). `BoardDescends` says that a board lists its sector in order and what it
  cuts off comes after all it shows; with ties settled by `Place`, the order is total.

  Assumptions (`ResearchAssumption`): a company's figures are numbers, in the units
  named above, or `Missing`; statements cover finitely many years; a sector shows at
  least one stock. Nothing is assumed of the figures' signs: that neither company had a
  loss is in `AsGood`, because `_cagr` leaves the years with a loss out and
  may then find more growth in the worse of two histories.

*Lists and counts.* The provers have no induction over an operator, so
`SequenceLemmas` states it with sets: a set of numbers that has 0 and the next of each
of its members is everything up to its bound (`Induction`); a fold has the functional
equation of its steps (`FoldExists`), given as a function. From these come that
a finite set of integers has its extremes (`Extremes`), that a selection has the
elements it should and in their order (`Filter`), that a total order on a
finite set puts it in a sequence (`Sorting`), and how lists split and join. Sorting by
score is written as the one permutation that is in order (`Ranking`), not as an
algorithm, so that these lemmas apply.

*Only model-checked*: liveness, which is out of the provers' reach: `DecidedPlanCloses`, `MarkedRowsClose`,
`CatchesUp`. Every invariant and every action property of the passing runs is proved.

## 6. Not modelled

- Indicators: numeric recurrences over floating-point series. The modules start
  from what is compared with them.
- Validation reports (pages 6 and 7) and the averages of the reports: read-only
  arithmetic and layout over rows whose sets are modelled (`summary`, `build_report`).
- Domain models, configuration, theme, payload texts: records, constants, wording.
- Providers' HTTP, authentication and parsing, and the parsing of IPO pages.
- Code that only tests call and that keeps no state: `assess_long_term`,
  `rank_stocks`, `select_candidates`, the scores of `analysis/market.py`;
  `sector_scanner.py`'s own scan. `assess_ipo`'s result is never shown, as the keys
  the page tests for do not occur in the feed.

*Met on the way*, and kept in the models as the code has it:
- a candle series without volume makes the intraday score NaN, and the order of the
  candidates arbitrary from there on (`NoStockLost` sets such scans apart);
- `score_multibagger` counts a component of zero as a missing one;
- an empty classification still calls its source "AMFI"; a candidate without a
  segment is left out of the swing page once another one has one;
- two sessions of the crypto page can record one setup twice (`CryptoPage` has the
  interleaving; the docstring says otherwise);
- after "Use token" the connectors still have the token they were built with;
- the crypto page counts its "live core conditions" on whichever side the indicators are:
  a locked purchase whose market has turned is drawn with 6/6 of them and REVERSAL WATCH
  (`MarksAgree` says that this is the only other case);
- a server that dies between marking a row and resolving it leaves the row open for good;
- a journal with a line that raises is never read again by any program;
- a push that is rejected loses the cycle's journal with its machine, and a tree that a
  local program keeps dirty is never synchronised (both in `RepositorySync`).

## 7. Plan

What a continuation would take up, in this order:
1. The connection of `MonitorLoop` with `LiveAnalysis`: what an exception that ends the
   loop means for the dispatcher's memory.
2. `sector_scanner.py`'s scan, and a provider's token and instrument caches.
