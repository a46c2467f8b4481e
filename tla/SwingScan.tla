------------------------------- MODULE SwingScan -------------------------------
(***************************************************************************)
(* The swing scanner, which is built with AMFI's classification of stocks  *)
(* by market capitalisation, and the loading of that classification: from  *)
(* the published workbook, or from the file that the last download left.   *)
(*                                                                         *)
(* A sheet of the workbook has a segment in its name, or none; a row has a *)
(* stock, the segment in its category column, or none, and a rank (0: no   *)
(* number there).                                                          *)
(***************************************************************************)
EXTENDS Ranking, Functions, TLC

CONSTANTS
    SwingUniverse,   \* SWING_UNIVERSE
    Workbooks,       \* what AMFI may publish: sequences of sheets [segment, rows]
    DailyReadings,   \* [trend, momentum, volume, breakout, price, low]
    SwingLimit,
    MaxLoads         \* bound: loads of the classification

Segments == <<"Large Cap", "Mid Cap", "Small Cap">>

ASSUME SwingAssumption ==
    /\ SwingLimit \in Nat /\ MaxLoads \in Nat
    /\ SwingUniverse \in Seq(ToSet(SwingUniverse))
    /\ \A w \in Workbooks :
         /\ w \in Seq(ToSet(w))
         /\ \A sheet \in ToSet(w) :
              /\ sheet.segment \in ToSet(Segments) \cup {""}
              /\ sheet.rows \in Seq(ToSet(sheet.rows))
              /\ \A row \in ToSet(sheet.rows) : row.category \in ToSet(Segments) \cup {""}
    /\ \A r \in DailyReadings : r.low <= r.price /\ r.price > 0

VARIABLES
    cap_file,       \* whether the cache file is "absent", "torn" or "whole"
    cap_cache,      \* what is in it
    downloaded,     \* a classification between download and the end of its writing
    loading,
    loads,
    scanner,        \* whether the page has a swing scanner
    symbol_to_cap,
    swing_errors,   \* last_scan_errors
    qualified,      \* history: the candidates of the last scan, in the universe's order
    swing_candidates

loader == <<cap_file, cap_cache, downloaded, loading, loads>>
scans == <<swing_errors, qualified, swing_candidates>>
swingVars == <<loader, scanner, symbol_to_cap, scans>>

NoClassification == [s \in {} |-> "Unclassified"]

-----------------------------------------------------------------------------
\* The segment of a row: its category, its sheet's, or its rank's.
SegmentOf(sheet, row, position) ==
    LET rank == IF row.rank > 0 THEN row.rank ELSE position
    IN  IF row.category # "" THEN row.category
        ELSE IF sheet.segment # "" THEN sheet.segment
        ELSE IF rank <= 100 THEN "Large Cap"
        ELSE IF rank <= 250 THEN "Mid Cap"
        ELSE "Small Cap"

\* Rows without a stock are left out, and do not count for the position.
SheetSegments(sheet) ==
    LET named == {j \in DOMAIN sheet.rows : sheet.rows[j].symbol # ""}
    IN  [j \in named |-> SegmentOf(sheet, sheet.rows[j], Cardinality(named \cap 1..j))]

RowsOf(sheet, s) == {j \in DOMAIN SheetSegments(sheet) : sheet.rows[j].symbol = s}

\* A stock that occurs again has the segment of its last row in its last sheet.
parse_excel(workbook) ==
    LET stocks == {row.symbol : row \in UNION {ToSet(sheet.rows) : sheet \in ToSet(workbook)}} \ {""}
        last(s) == workbook[Max({i \in DOMAIN workbook : RowsOf(workbook[i], s) # {}})]
    IN  [s \in stocks |-> SheetSegments(last(s))[Max(RowsOf(last(s), s))]]

SwingInit ==
    /\ cap_file = "absent" /\ cap_cache = NoClassification
    /\ downloaded = NoClassification /\ loading = FALSE /\ loads = 0
    /\ scanner = FALSE /\ symbol_to_cap = NoClassification
    /\ swing_errors = {} /\ qualified = <<>> /\ swing_candidates = <<>>

\* A scanner for the stocks of the universe among those classified.
Construct(classification) ==
    /\ scanner' = TRUE
    /\ symbol_to_cap' = Restrict(classification, DOMAIN classification \cap ToSet(SwingUniverse))
    /\ swing_errors' = {} /\ qualified' = <<>>
    /\ UNCHANGED swing_candidates

\* A workbook without a stock is an error, as is a request that fails.
Download(w) ==
    /\ ~loading /\ loads < MaxLoads /\ loads' = loads + 1
    /\ DOMAIN parse_excel(w) # {}
    /\ loading' = TRUE /\ downloaded' = parse_excel(w)
    /\ cap_file' = "torn"
    /\ UNCHANGED <<cap_cache, scanner, symbol_to_cap, scans>>

WriteCache ==
    /\ loading /\ loading' = FALSE
    /\ cap_file' = "whole" /\ cap_cache' = downloaded
    /\ downloaded' = NoClassification
    /\ Construct(downloaded)
    /\ UNCHANGED loads

\* The file cannot be written: what is left of it is read, and raises; the page
\* goes on without a classification.
WriteFails ==
    /\ loading /\ loading' = FALSE
    /\ downloaded' = NoClassification
    /\ Construct(NoClassification)
    /\ UNCHANGED <<cap_file, cap_cache, loads>>

LoaderCrash ==
    /\ loading /\ loading' = FALSE
    /\ downloaded' = NoClassification
    /\ scanner' = FALSE /\ symbol_to_cap' = NoClassification
    /\ swing_errors' = {} /\ qualified' = <<>> /\ swing_candidates' = <<>>
    /\ UNCHANGED <<cap_file, cap_cache, loads>>

DownloadFails ==
    /\ ~loading /\ loads < MaxLoads /\ loads' = loads + 1
    /\ Construct(IF cap_file = "whole" THEN cap_cache ELSE NoClassification)
    /\ UNCHANGED <<cap_file, cap_cache, downloaded, loading>>

-----------------------------------------------------------------------------
SwingScore(r) ==
    45 + (IF r.trend THEN 20 ELSE 0) + (IF r.momentum THEN 15 ELSE 0)
       + (IF r.volume THEN 10 ELSE 0) + (IF r.breakout THEN 10 ELSE 0)

\* The risk is the distance to the lowest of twenty days, at least 3 %; the
\* levels are in 200ths.
SwingCandidate(s, r) ==
    LET down == 100 * (r.price - r.low)
        risk == IF down > 3 * r.price THEN down ELSE 3 * r.price
    IN  [symbol |-> s, score |-> SwingScore(r),
         direction |-> IF r.trend /\ SwingScore(r) >= 70 THEN "BUY" ELSE "WATCH",
         stop_loss |-> 200 * r.price - 2 * risk,
         target_1 |-> 200 * r.price + 3 * risk,
         target_2 |-> 200 * r.price + 6 * risk,
         cap_segment |-> IF s \in DOMAIN symbol_to_cap THEN symbol_to_cap[s] ELSE "Unclassified"]

Leading(s) == First(s, SwingLimit)

InSegment(s, segment) == Select(s, {c \in ToSet(s) : c.cap_segment = segment})

Classified(s) == \E c \in ToSet(s) : c.cap_segment \in ToSet(Segments)

\* A mutant of Selection: the limit comes before the segments.
SelectionOfLeading(s) ==
    LET of(k) == InSegment(Leading(ByScore(s)), Segments[k])
    IN  IF Classified(s) THEN of(1) \o of(2) \o of(3) ELSE Leading(ByScore(s))

\* As many as the limit of each segment; those without one only where all are.
Selection(s) ==
    LET best(k) == Leading(InSegment(ByScore(s), Segments[k]))
    IN  IF Classified(s) THEN best(1) \o best(2) \o best(3) ELSE Leading(ByScore(s))

\* A scan: some stocks have an answer of 200 finished candles, the others an
\* error: too few, or a request that failed twice.  (Bound: a scanner with a
\* result scans no more; nothing of an earlier scan would enter it.)
ScanSwing(reading) ==
    LET answering == Select(SwingUniverse, DOMAIN reading)
        found == [i \in DOMAIN answering |-> SwingCandidate(answering[i], reading[answering[i]])]
    IN  /\ scanner /\ ~loading
        /\ qualified = <<>>
        /\ swing_errors' = ToSet(SwingUniverse) \ DOMAIN reading
        /\ qualified' = found
        /\ swing_candidates' = Selection(found)
        /\ UNCHANGED <<loader, scanner, symbol_to_cap>>

SwingNext ==
    \/ \E w \in Workbooks : Download(w)
    \/ DownloadFails \/ WriteCache \/ WriteFails \/ LoaderCrash
    \/ \E answering \in SUBSET ToSet(SwingUniverse) :
         \E reading \in [answering -> DailyReadings] : ScanSwing(reading)

SwingSpec == SwingInit /\ [][SwingNext]_swingVars

-----------------------------------------------------------------------------
\* What a scan leaves out was outdone: of a candidate's segment as many as the
\* limit are shown, none scoring lower; wherever the classification came from.
\* (A candidate without a segment is left out when another one has a segment.)
SegmentsShowTheirBest ==
    \A c \in ToSet(qualified) \ ToSet(swing_candidates) :
        \/ c.cap_segment = "Unclassified" /\ Classified(qualified)
        \/ LET shown == {i \in DOMAIN swing_candidates : swing_candidates[i].cap_segment = c.cap_segment}
           IN  Cardinality(shown) = SwingLimit /\ \A i \in shown : swing_candidates[i].score >= c.score
=============================================================================
