------------------------------ MODULE MarketScan ------------------------------
(***************************************************************************)
(* The intraday scanner and the alert engine of the NSE page over it: the  *)
(* universe comes from NSE's two lists of most active stocks, is kept for  *)
(* a while, and has a built-in substitute; each stock's candles are asked  *)
(* for twice; what qualifies is ranked, analysed and grouped by sector.    *)
(*                                                                         *)
(* A reading is what the score sees of a stock's candles: signs of the     *)
(* averages' difference and of the histogram, the RSI, the five-minute     *)
(* change in tenths of a percent and the relative volume in tenths.        *)
(***************************************************************************)
EXTENDS Ranking

CONSTANTS
    FallbackUniverse,  \* _FALLBACK_UNIVERSE
    ActiveLists,       \* what NSE may answer for one list
    StockReadings,     \* [cross, macd, rsi, change, rvol]
    sector,            \* symbol_sector, per stock
    UniverseCap,       \* of the merged lists
    ScanLimit, AlertLimit, SectorLimit,
    CacheAge,          \* how long a discovered universe is kept
    MaxSeconds         \* bound: the clock

ASSUME MarketAssumption ==
    /\ {UniverseCap, ScanLimit, AlertLimit, SectorLimit, MaxSeconds} \subseteq Nat
    /\ CacheAge \in Nat \ {0}
    /\ ActiveLists \subseteq Seq(DOMAIN sector)
    /\ FallbackUniverse \in Seq(DOMAIN sector) /\ FallbackUniverse # <<>>
    /\ StockReadings \subseteq [cross : Int, macd : Int, rsi : Int, change : Int, rvol : Int]
    \* The alert engine asks for 60 stocks, which are no fewer than a universe has.
    /\ UniverseCap <= ScanLimit /\ Len(FallbackUniverse) <= ScanLimit

VARIABLES
    seconds,
    cached, loaded_at,   \* _cached_universe, _universe_loaded_at
    universe_source,
    universe,            \* of the scan in progress or the last one
    unscanned, tries,    \* the rest of the loop; failed requests for its first stock
    last_scan_errors, errors,
    candidates,          \* of the scan in progress
    result,              \* history: what the last scan qualified
    alerting, board,     \* the stocks analysed; per sector those shown
    scanning, began,
    answered             \* history: NSE's last list and when it came

discovery == <<cached, loaded_at, universe_source, answered>>
progress == <<unscanned, tries, errors, candidates>>
page == <<result, alerting, board>>
marketVars == <<seconds, discovery, universe, progress, page, last_scan_errors, scanning, began>>

Sectors == {sector[s] : s \in DOMAIN sector}
EmptyBoard == [n \in Sectors |-> <<>>]

\* Both lists, each stock once.
Merge(by_volume, by_value) ==
    FoldLeft(LAMBDA seen, s : IF Contains(seen, s) THEN seen ELSE Append(seen, s),
             <<>>, by_volume \o by_value)

MarketInit ==
    /\ seconds = 0
    /\ cached = <<>> /\ loaded_at = 0
    /\ universe_source = "not loaded" /\ universe = <<>>
    /\ unscanned = <<>> /\ tries = 0
    /\ last_scan_errors = {} /\ errors = {} /\ candidates = <<>>
    /\ result = <<>> /\ alerting = <<>> /\ board = EmptyBoard
    /\ scanning = FALSE /\ began = 0
    /\ answered = [list |-> <<>>, at |-> 0]

-----------------------------------------------------------------------------
BestOfTwo(a, b) == IF a < b THEN b ELSE a
AtMost(n, cap) == IF n < cap THEN n ELSE cap
Votes(conditions) == Cardinality({i \in DOMAIN conditions : conditions[i]})

Bull(r) == Votes(<<r.cross > 0, r.change > 0, r.macd > 0, r.rsi >= 50>>)
Bear(r) == Votes(<<r.cross < 0, r.change < 0, r.macd < 0, r.rsi < 50>>)

\* No volume in the whole window: the relative volume, and so the score, is NaN.
NaN == -1

MarketScore(r) ==
    LET size == IF r.change < 0 THEN -r.change ELSE r.change
    IN  IF r.rvol = NaN THEN NaN
        ELSE AtMost(35 + 10 * BestOfTwo(Bull(r), Bear(r)) + AtMost(size, 15) + AtMost(r.rvol, 20), 100)

Candidate(s, r) ==
    [symbol |-> s, direction |-> IF Bull(r) >= Bear(r) THEN "BULLISH" ELSE "BEARISH",
     score |-> MarketScore(r)]

\* Sorting by score is stable, and has no meaning over NaN.
Rankings(s) ==
    IF \E i \in DOMAIN s : s[i].score = NaN
    THEN {[k \in DOMAIN s |-> s[order[k]]] : order \in SetToSeqs(DOMAIN s)}
    ELSE {ByScore(s)}

Group(s, n) == Select(s, {c \in ToSet(s) : sector[c.symbol] = n})

-----------------------------------------------------------------------------
Clock5s ==
    /\ ~scanning /\ seconds < MaxSeconds
    /\ seconds' = seconds + 1
    /\ UNCHANGED <<discovery, universe, progress, page, last_scan_errors, scanning, began>>

\* scan starts with the errors of the scans before.
Begin(stocks) ==
    /\ ~scanning /\ scanning' = TRUE
    /\ began' = seconds
    /\ universe' = stocks /\ unscanned' = stocks /\ tries' = 0
    /\ errors' = last_scan_errors /\ candidates' = <<>>
    /\ result' = <<>> /\ alerting' = <<>> /\ board' = EmptyBoard
    /\ UNCHANGED <<seconds, last_scan_errors>>

Recent == cached # <<>> /\ seconds - loaded_at < CacheAge

ScanCached ==
    /\ Recent
    /\ Begin(cached)
    /\ UNCHANGED discovery

ScanDiscovered(by_volume, by_value) ==
    LET merged == First(Merge(by_volume, by_value), UniverseCap)
    IN  /\ ~Recent /\ merged # <<>>
        /\ Begin(merged)
        /\ cached' = merged /\ loaded_at' = seconds
        /\ universe_source' = "NSE most-active"
        /\ answered' = [list |-> merged, at |-> seconds]

\* A mutant of ScanFallback: what was discovered last, while there is anything.
ScanStale ==
    /\ ~Recent
    /\ Begin(IF cached # <<>> THEN cached ELSE FallbackUniverse)
    /\ universe_source' = IF cached # <<>> THEN universe_source ELSE "fallback"
    /\ UNCHANGED <<cached, loaded_at, answered>>

\* Either request fails, or both lists are empty.  What discovery notes in
\* last_scan_errors is lost when the scan ends.
ScanFallback ==
    /\ ~Recent
    /\ Begin(FallbackUniverse)
    /\ universe_source' = "fallback"
    /\ UNCHANGED <<cached, loaded_at, answered>>

Scanned ==
    /\ unscanned' = Tail(unscanned) /\ tries' = 0
    /\ UNCHANGED <<seconds, discovery, universe, page, last_scan_errors, scanning, began>>

Qualify(r) ==
    /\ unscanned # <<>>
    /\ candidates' = Append(candidates, Candidate(Head(unscanned), r))
    /\ UNCHANGED errors
    /\ Scanned

TooFewCandles ==
    /\ unscanned # <<>>
    /\ errors' = errors \cup {Head(unscanned)}
    /\ UNCHANGED candidates
    /\ Scanned

RequestFails ==
    /\ unscanned # <<>> /\ tries = 0
    /\ tries' = 1
    /\ UNCHANGED <<seconds, discovery, universe, unscanned, errors, candidates, page,
                   last_scan_errors, scanning, began>>

\* A mutant of GiveUp: the loop goes on without a note.
GiveUpSilently ==
    /\ unscanned # <<>> /\ tries = 1
    /\ UNCHANGED <<errors, candidates>>
    /\ Scanned

\* The second attempt is the last one.
GiveUp ==
    /\ unscanned # <<>> /\ tries = 1
    /\ errors' = errors \cup {Head(unscanned)}
    /\ UNCHANGED candidates
    /\ Scanned

\* _run_market_alert_engine and _top_by_sector, of what the scan returned.
Present(ranked) ==
    LET Groups(n) == {First(g, SectorLimit) : g \in Rankings(Group(ranked, n))}
    IN  /\ alerting' = First(ranked, AlertLimit)
        /\ board' \in {b \in [Sectors -> UNION {Groups(n) : n \in Sectors}] :
                         \A n \in Sectors : b[n] \in Groups(n)}

EndScan ==
    /\ scanning /\ unscanned = <<>>
    /\ scanning' = FALSE
    /\ \E ranked \in Rankings(candidates) : Present(First(ranked, ScanLimit))
    /\ result' = candidates
    /\ last_scan_errors' = errors
    /\ errors' = {} /\ candidates' = <<>>
    /\ UNCHANGED <<seconds, discovery, universe, unscanned, tries, began>>

MarketNext ==
    \/ Clock5s \/ ScanCached \/ ScanFallback
    \/ \E by_volume, by_value \in ActiveLists : ScanDiscovered(by_volume, by_value)
    \/ \E r \in StockReadings : Qualify(r)
    \/ TooFewCandles \/ RequestFails \/ GiveUp \/ EndScan

MarketSpec == MarketInit /\ [][MarketNext]_marketVars

-----------------------------------------------------------------------------
\* What is scanned was published by NSE within the cache's age before the scan,
\* or is the built-in universe; and the source shown with it says which, however
\* answers, failures and cached scans follow one another.
UniverseIsRecent ==
    scanning =>
        IF universe_source = "NSE most-active"
        THEN universe = answered.list /\ began - answered.at < CacheAge
        ELSE universe_source = "fallback" /\ universe = FallbackUniverse

Symbolic(s) == {c.symbol : c \in ToSet(s)}
Ahead(s, c) == Cardinality({i \in DOMAIN s : s[i].score >= c.score})

\* A scan loses no stock of its universe: each qualified or has an error; and a
\* qualified one is analysed, and shown in its sector, unless as many that score
\* no lower are.  (Where every score is a number: NaN ruins the order.)
NoStockLost ==
    ~scanning =>
        /\ ToSet(universe) \subseteq Symbolic(result) \cup last_scan_errors
        /\ (\A i \in DOMAIN result : result[i].score # NaN) =>
             \A c \in ToSet(result) :
                /\ c \in ToSet(alerting) \/ Ahead(alerting, c) = AlertLimit
                /\ LET shown == board[sector[c.symbol]]
                   IN  c \in ToSet(shown) \/ Ahead(shown, c) = SectorLimit
=============================================================================
