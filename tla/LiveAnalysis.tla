----------------------------- MODULE LiveAnalysis -----------------------------
(***************************************************************************)
(* application/live_analysis.py with the input builder, the pipeline and   *)
(* the signal dispatcher behind it: one browser session's live service     *)
(* analyses symbols one after the other and announces what has changed.    *)
(*                                                                         *)
(* The levels of a plan come from one request for candles and its entry    *)
(* from a later one; the price moves in between.  A request may fail, at   *)
(* any symbol.  Connecting again makes a new service with a new            *)
(* dispatcher; what was announced stays with the session's notifier.       *)
(***************************************************************************)
EXTENDS Analysis, FiniteSets

CONSTANTS
    Symbols,
    Closes,         \* the last prices, in a unit small enough for 0.5% and 1.5 R
    Swings,         \* how far the extremes of 20 candles are from the last price
    Evidence,       \* what the metadata loader's indicators can say
    Trends,         \* the directions of 1h, 15m, 5m, 1m
    Charts,         \* the frames the pipeline can be given
    MaxAnalyses,    \* bound: stocks whose candles arrive
    MaxConnections  \* bound: times the session connects

ASSUME LiveAssumption ==
    /\ Closes \subseteq Nat \ {0} /\ Swings \subseteq Nat
    /\ Evidence \subseteq
          [bullish : BOOLEAN, ema_aligned : BOOLEAN, supertrend_aligned : BOOLEAN,
           macd_aligned : BOOLEAN, rvol : Nat, rsi_confirmed : BOOLEAN]
    /\ Trends \subseteq Seq({"bullish", "bearish", "neutral"})
    /\ Charts \subseteq Frames /\ \A f \in Charts : f.defined => f.rvol # None
    /\ MaxAnalyses \in Nat /\ MaxConnections \in Nat \ {0}
    /\ None \notin Nat

VARIABLES
    close,        \* the market: last price of each symbol
    pc,           \* "idle", "load" (metadata), "build" (input), "process" (dispatch)
    todo,         \* symbols of this call not yet looked at
    metadata,     \* AnalysisMetadata of the symbol being analysed
    result,       \* its analysis
    symbol,       \* that symbol
    errors,       \* symbols of this call that failed
    signals,      \* the dispatcher's last state and trigger key per symbol
    sent,         \* history: the notifier's list, with the connection it was made in
    latest,       \* history: last actionable result per symbol since connecting
    connection,   \* how often the session has connected
    analyses

vars == <<close, pc, todo, metadata, result, symbol, errors, signals, sent, latest,
          connection, analyses>>

local == <<todo, metadata, result, symbol, errors>>

-----------------------------------------------------------------------------
Score(conditions) == Cardinality({i \in DOMAIN conditions : conditions[i]})

\* TechnicalMetadataLoader.load of a symbol with last price c, whose last 20
\* candles reach down or up to "swing" from it.
load(c, swing, e, trends) ==
    LET risk == IF swing > c \div 200 THEN swing ELSE c \div 200
        sign == IF e.bullish THEN 1 ELSE -1
    IN  [market_score |-> 500, sector_score |-> 500,
         stock_score |-> 500 + 100 * Score(<<e.ema_aligned, e.supertrend_aligned, e.macd_aligned,
                                             e.rvol >= 10, e.rsi_confirmed>>),
         confirmation_score |-> 500 + 150 * Score(<<e.supertrend_aligned, e.macd_aligned>>)
                                + (IF e.rvol >= 12 THEN 200 ELSE 0),
         timeframe_trends |-> trends,
         stop_loss |-> c - sign * risk,
         target_1 |-> c + sign * ((3 * risk) \div 2),
         target_2 |-> c + sign * 3 * risk]

\* _ACTION_ALERTS: actions that are announced, and the state they stand for.
Actionable(action) == action \in {"BUY", "SELL", "WATCH"}
StateOf(action) == IF action = "WATCH" THEN "trigger_near" ELSE "active"

Trigger(r)  == <<r.action, r.score>>
Snapshot(r) == [state |-> StateOf(r.action), trigger_key |-> Trigger(r)]

\* What the loader, the pipeline and the notifier can produce.
Metadata == {load(c, swing, e, trends) : c \in Closes, swing \in Swings, e \in Evidence, trends \in Trends}
Results  == {analyze_stock(f, m, c, rounds_down) :
                f \in Charts, m \in Metadata, c \in Closes, rounds_down \in BOOLEAN}
Alerts   == [symbol : Symbols, connection : 1..MaxConnections, result : Results \ {None}]

ASSUME NoneAssumption ==
    \A r \in Results \ {None} : Trigger(r) # None /\ Snapshot(r) # None

\* A mutant of should_alert: only a change of state is announced.
StateChanged(previous, current) == previous = None \/ previous.state # current.state

should_alert(previous, current) ==
    \/ previous = None
    \/ previous.state # current.state
    \/ previous.trigger_key # current.trigger_key

-----------------------------------------------------------------------------
Init ==
    /\ close \in [Symbols -> Closes]
    /\ pc = "idle"
    /\ todo = {} /\ metadata = None /\ result = None /\ symbol = None /\ errors = {}
    /\ signals = [s \in Symbols |-> None]
    /\ sent = <<>>
    /\ latest = [s \in Symbols |-> None]
    /\ connection = 1
    /\ analyses = 0

\* The market, at any time.
PriceMoves ==
    /\ \E s \in Symbols, c \in Closes : close' = [close EXCEPT ![s] = c]
    /\ UNCHANGED <<pc, local, signals, sent, latest, connection, analyses>>

\* A mutant of Connect: the old dispatcher stays.
ConnectSameDispatcher ==
    /\ pc = "idle" /\ connection < MaxConnections
    /\ connection' = connection + 1
    /\ latest' = [s \in Symbols |-> None]
    /\ errors' = {}
    /\ UNCHANGED <<close, pc, todo, metadata, result, symbol, signals, sent, analyses>>

\* The "Connect" button: another service, dispatcher and state machine.
Connect ==
    /\ pc = "idle" /\ connection < MaxConnections
    /\ connection' = connection + 1
    /\ signals' = [s \in Symbols |-> None]
    /\ latest' = [s \in Symbols |-> None]
    /\ errors' = {}
    /\ UNCHANGED <<close, pc, todo, metadata, result, symbol, sent, analyses>>

\* analyze: of the selected stock, or of the scanner's best.
Analyze ==
    /\ pc = "idle" /\ analyses < MaxAnalyses
    /\ todo' \in SUBSET Symbols \ {{}}
    /\ errors' = {}
    /\ pc' = "load"
    /\ UNCHANGED <<close, metadata, result, symbol, signals, sent, latest, connection, analyses>>

\* The candles of the last 250 minutes and of the longer timeframes.
LoadMetadata(s) ==
    /\ pc = "load" /\ s \in todo
    /\ analyses < MaxAnalyses /\ analyses' = analyses + 1
    /\ symbol' = s
    /\ \E swing \in Swings, e \in Evidence, trends \in Trends :
          metadata' = load(close[s], swing, e, trends)
    /\ pc' = "build"
    /\ UNCHANGED <<close, todo, result, errors, signals, sent, latest, connection>>

\* Too few candles, a gap, a stale one, or no answer: the others go on.
LoadFails(s) ==
    /\ pc = "load" /\ s \in todo
    /\ todo' = todo \ {s}
    /\ errors' = errors \cup {s}
    /\ UNCHANGED <<close, pc, metadata, result, symbol, signals, sent, latest, connection, analyses>>

NextSymbol ==
    /\ todo' = todo \ {symbol}
    /\ metadata' = None /\ result' = None /\ symbol' = None
    /\ pc' = "load"

BuildFails ==
    /\ pc = "build"
    /\ errors' = errors \cup {symbol}
    /\ NextSymbol
    /\ UNCHANGED <<close, signals, sent, latest, connection, analyses>>

\* The candles again: the entry is the last price by now.
BuildInput ==
    /\ pc = "build"
    /\ \E f \in Charts, rounds_down \in BOOLEAN :
          result' = analyze_stock(f, metadata, close[symbol], rounds_down)
    /\ pc' = "process"
    /\ UNCHANGED <<close, todo, metadata, symbol, errors, signals, sent, latest, connection, analyses>>

Announceable == result # None /\ Actionable(result.action)

\* A mutant of Quiet: what was announced last is forgotten.
QuietForgets ==
    /\ pc = "process"
    /\ ~Announceable
    /\ signals' = [signals EXCEPT ![symbol] = None]
    /\ NextSymbol
    /\ UNCHANGED <<close, errors, sent, latest, connection, analyses>>

\* No setup, or nothing to announce of it; the dispatcher forgets nothing.
Quiet ==
    /\ pc = "process"
    /\ ~Announceable
    /\ NextSymbol
    /\ UNCHANGED <<close, errors, signals, sent, latest, connection, analyses>>

Process ==
    /\ pc = "process"
    /\ Announceable
    /\ signals' = [signals EXCEPT ![symbol] = Snapshot(result)]
    /\ sent' = IF should_alert(signals[symbol], Snapshot(result))
               THEN Append(sent, [symbol |-> symbol, connection |-> connection, result |-> result])
               ELSE sent
    /\ latest' = [latest EXCEPT ![symbol] = Trigger(result)]
    /\ NextSymbol
    /\ UNCHANGED <<close, errors, connection, analyses>>

EndAnalyze ==
    /\ pc = "load" /\ todo = {}
    /\ pc' = "idle"
    /\ UNCHANGED <<close, local, signals, sent, latest, connection, analyses>>

Next ==
    \/ PriceMoves \/ Connect \/ Analyze
    \/ \E s \in todo : LoadMetadata(s) \/ LoadFails(s)
    \/ BuildFails \/ BuildInput \/ Quiet \/ Process \/ EndAnalyze

Spec == Init /\ [][Next]_vars

-----------------------------------------------------------------------------
\* Every variable keeps its type; there is metadata exactly while a symbol is
\* worked on, and the dispatcher knows exactly the symbols that have had an
\* actionable result since it was made.
TypeOK ==
    /\ close \in [Symbols -> Closes]
    /\ pc \in {"idle", "load", "build", "process"}
    /\ todo \subseteq Symbols /\ errors \subseteq Symbols
    /\ IF pc \in {"build", "process"}
       THEN symbol \in todo /\ metadata \in Metadata
       ELSE symbol = None /\ metadata = None
    /\ IF pc = "process" THEN result \in Results \cup {None} ELSE result = None
    /\ sent \in Seq(Alerts)
    /\ DOMAIN signals = Symbols /\ DOMAIN latest = Symbols
    /\ \A s \in Symbols : signals[s] = None <=> latest[s] = None
    /\ connection \in 1..MaxConnections
    /\ analyses \in 0..MaxAnalyses

\* A trade worth announcing.
Sound(r) ==
    r.action \in {"BUY", "SELL"} =>
        /\ ~(r.score < MIN_TRADE_SCORE)
        /\ r.plan # None
        /\ IF r.action = "BUY"
           THEN /\ r.plan.stop_loss < r.plan.entry
                /\ r.plan.entry < r.plan.target_1 /\ r.plan.target_1 <= r.plan.target_2
                /\ 2 * (r.plan.target_1 - r.plan.entry) >= 3 * (r.plan.entry - r.plan.stop_loss)
           ELSE /\ r.plan.entry < r.plan.stop_loss
                /\ r.plan.target_1 < r.plan.entry /\ r.plan.target_2 <= r.plan.target_1
                /\ 2 * (r.plan.entry - r.plan.target_1) >= 3 * (r.plan.stop_loss - r.plan.entry)

\* What is announced as BUY or SELL is a trade: there is a plan, its levels lie
\* on the sides of the entry that the action says, target 1 is worth 1.5 times
\* the risk, and the score is a trade's; though the levels were computed from
\* another price than the entry, and from another trend than the setup.
TradesAreSound == \A n \in DOMAIN sent : Sound(sent[n].result)

Key(n) == Trigger(sent[n].result)

LastOf(s, n) == sent[n].symbol = s /\ \A k \in DOMAIN sent : sent[k].symbol = s => k <= n

\* Two announcements of a stock that follow each other on one connection differ:
\* a repetition is suppressed, whatever lay in between (a result without an
\* action, a failed request, results of the other stocks).
AnnouncedOnce ==
    \A m, n \in DOMAIN sent :
        /\ m < n /\ sent[m].symbol = sent[n].symbol /\ sent[m].connection = sent[n].connection
        /\ \A k \in DOMAIN sent : m < k /\ k < n => sent[k].symbol # sent[m].symbol
        => Key(m) # Key(n)

\* The notifier's last word on a stock is its last actionable result since the
\* session connected: nothing that changed goes unannounced, and a new
\* connection announces again.
ChangesAnnounced ==
    \A s \in Symbols :
        latest[s] # None =>
            \E n \in DOMAIN sent : LastOf(s, n) /\ sent[n].connection = connection /\ Key(n) = latest[s]

\* "Conflicting or incomplete evidence falls back to WATCH or NO_TRADE rather
\* than forcing a directional recommendation": no trade against the timeframes.
ConflictFallsBack ==
    \A n \in DOMAIN sent :
        sent[n].result.timeframe = "conflicting" => sent[n].result.action \notin {"BUY", "SELL"}
=============================================================================
