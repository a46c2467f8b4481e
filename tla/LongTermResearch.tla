--------------------------- MODULE LongTermResearch ---------------------------
(***************************************************************************)
(* The two long-term pages over Yahoo's fundamentals: the provider, whose  *)
(* package may be missing and is installed once per process; the scan of   *)
(* page 3 with its scores within sectors, and the scan of page 5.          *)
(*                                                                         *)
(* Yahoo's answer: statements by year and ratios, None where missing.      *)
(* Growth, returns and scores are rounded down: growth and ROCE to a       *)
(* percent, the rest to hundredths, then rounded to a tenth; ROE comes in  *)
(* hundredths of what Yahoo gives, debt to equity in tenths.               *)
(***************************************************************************)
EXTENDS Ranking

CONSTANTS
    ResearchUniverse,  \* DEFAULT_NSE_LONG_TERM_UNIVERSE
    Companies,         \* what Yahoo may answer: [income, cashflow, balance: by year, sector, roe, debt, pe, pb]
    Missing,           \* None
    SectorTop,         \* stocks shown per sector on page 3
    CandidateLimit,    \* candidates shown on page 5
    MaxChurn           \* bound: how often the package appears or disappears

ASSUME ResearchAssumption ==
    /\ SectorTop \in Nat \ {0} /\ CandidateLimit \in Nat /\ MaxChurn \in Nat
    /\ Missing \notin Int
    /\ ResearchUniverse \in Seq(ToSet(ResearchUniverse))
    /\ \A c \in Companies :
         /\ DOMAIN c.income \subseteq Int /\ IsFiniteSet(DOMAIN c.income)
         /\ \A y \in DOMAIN c.income :
              {c.income[y].revenue, c.income[y].earnings, c.income[y].ebit} \subseteq Int \cup {Missing}
         /\ \A y \in DOMAIN c.balance :
              {c.balance[y].debt, c.balance[y].equity} \subseteq Int \cup {Missing}
         /\ \A y \in DOMAIN c.cashflow :
              {c.cashflow[y].ocf, c.cashflow[y].fcf} \subseteq Int \cup {Missing}
         /\ {c.roe, c.debt, c.pe, c.pb} \subseteq Int \cup {Missing}

VARIABLES
    on_disk, churn,     \* whether the package can be imported
    imported,           \* it was: the process keeps it
    bootstrapped,       \* _bootstrap_attempted
    provider_available, \* of the script of page 3
    researching,        \* "none", "page 3" or "page 5": whose loop runs
    unread,             \* the rest of the universe
    rows,               \* page 3: per stock its row; page 5: its score
    skipped,            \* the stocks with an error or a failure
    long_term_board     \* page 3: per sector the stocks shown; page 5: the candidates

package == <<on_disk, churn>>
loop == <<researching, unread, rows, skipped, long_term_board>>
researchVars == <<package, imported, bootstrapped, provider_available, loop>>

NoRows == [s \in {} |-> Missing]

-----------------------------------------------------------------------------
IsPositive(v) == IF v = Missing THEN FALSE ELSE v > 0
Bounded(v) == IF v = Missing THEN Missing ELSE IF v < 0 THEN 0 ELSE IF v > 10000 THEN 10000 ELSE v

\* What is missing has no weight in a mean.
Weight(v, w) == IF v = Missing THEN 0 ELSE w
Weighted(v, w) == IF v = Missing THEN 0 ELSE v * w

\* The mean of those of the two that are there, times a scale.
Mean(x, y, scale) ==
    IF x = Missing /\ y = Missing THEN Missing
    ELSE (Weighted(x, scale) + Weighted(y, scale)) \div (Weight(x, 1) + Weight(y, 1))

Ratio(x, y) == IF y < 0 THEN (-x) \div (-y) ELSE x \div y

Power(x, n) ==
    LET power[k \in 0..n] == IF k = 0 THEN 1 ELSE x * power[k - 1] IN power[n]

\* Whether new is old with a yearly growth of g percent, or more.
GrowsBy(g, new, old, years) == Power(100 + g, years) * old <= new * Power(100, years)

\* bound: growth is cut here; for much less page 3 gives full marks
GrowthCap == 300

\* The yearly growth, in percent.
Growth(new, old, years) ==
    CHOOSE g \in -100 .. GrowthCap :
        /\ g = GrowthCap \/ ~GrowsBy(g + 1, new, old, years)
        /\ GrowsBy(g, new, old, years)

\* Page 3: over the years with a positive value, three of them at most.
cagr(values) ==
    LET clean == {i \in DOMAIN values : IsPositive(values[i])}
        years == IF Cardinality(clean) > 4 THEN 3 ELSE Cardinality(clean) - 1
    IN  IF Cardinality(clean) < 2 THEN Missing
        ELSE Growth(values[Min(clean)], values[Max(clean)], years)

\* A return of at most 1 is a fraction.
Percent(v) == IF v = Missing \/ v \in -100 .. 100 THEN v ELSE v \div 100

\* Newest first, those in both statements.
Years(c) ==
    CHOOSE q \in SetToSeqs(DOMAIN c.income \cap DOMAIN c.balance) :
        \A i, j \in DOMAIN q : i < j => q[i] > q[j]

Capital(b) == IF b.debt = Missing \/ b.equity = Missing THEN Missing ELSE b.debt + b.equity

\* The latest EBIT over the mean capital of at most two years.
roce(c) ==
    LET years == Years(c)
        current == Capital(c.balance[years[1]])
        before == IF Len(years) < 2 THEN Missing ELSE Capital(c.balance[years[2]])
        total == Weighted(current, 1) + Weighted(before, 1)
    IN  IF years = <<>> THEN Missing
        ELSE IF c.income[years[1]].ebit = Missing \/ total <= 0 THEN Missing
        ELSE (100 * c.income[years[1]].ebit * (Weight(current, 1) + Weight(before, 1))) \div total

\* get_fundamentals: the periods, and the ratios.  A cash flow of a year that the
\* statement lacks is missing.
Snapshot(c) ==
    LET years == Years(c)
        flow(y) == IF y \in DOMAIN c.cashflow THEN c.cashflow[y] ELSE [ocf |-> Missing, fcf |-> Missing]
        latest == IF years = <<>> THEN [debt |-> Missing, equity |-> Missing] ELSE c.balance[years[1]]
        ratio == IF latest.debt = Missing \/ latest.equity \in {Missing, 0} THEN Missing
                 ELSE Ratio(10 * latest.debt, latest.equity)
    IN  [sector |-> c.sector, years |-> years,
         revenue |-> [i \in DOMAIN years |-> c.income[years[i]].revenue],
         earnings |-> [i \in DOMAIN years |-> c.income[years[i]].earnings],
         ocf |-> [i \in DOMAIN years |-> flow(years[i]).ocf],
         fcf |-> [i \in DOMAIN years |-> flow(years[i]).fcf],
         roe |-> Percent(c.roe), roce |-> roce(c),
         debt |-> IF c.debt # Missing THEN c.debt ELSE ratio,
         pe |-> c.pe, pb |-> c.pb]

Complete(s) == {i \in DOMAIN s.years : s.revenue[i] # Missing /\ s.earnings[i] # Missing}

-----------------------------------------------------------------------------
Financial(s) == IF s.debt = Missing THEN Missing ELSE Bounded(10000 - 400 * s.debt)

\* The share of years with free cash, and whether the latest is one.
Cash(s) ==
    LET positive == {i \in DOMAIN s.fcf : IsPositive(s.fcf[i])}
    IN  IF s.fcf = <<>> THEN Missing
        ELSE Bounded((7000 * Cardinality(positive)) \div Len(s.fcf) + (IF 1 \in positive THEN 3000 ELSE 0))

\* The row of page 3, with its components; valuation waits for the sector.
Row(s) ==
    [of |-> s,
     growth |-> Bounded(Mean(cagr(s.revenue), cagr(s.earnings), 300)),
     profitability |-> Bounded(Mean(s.roe, s.roce, 250)),
     financial |-> Financial(s),
     cash |-> Cash(s)]

\* The share of the sector's positive values that are no greater.
Percentile(v, values) ==
    IF v = Missing \/ DOMAIN values = {} THEN Missing
    ELSE (10000 * Cardinality({s \in DOMAIN values : values[s] <= v})) \div Cardinality(DOMAIN values)

\* A mutant of Valuation: the dearest is the best.
ValuationOfDearest(row, pes, pbs) == Mean(Percentile(row.of.pe, pes), Percentile(row.of.pb, pbs), 1)

Valuation(row, pes, pbs) ==
    LET rank == Mean(Percentile(row.of.pe, pes), Percentile(row.of.pb, pbs), 1)
    IN  IF rank = Missing THEN Missing ELSE 10000 - rank

Classification(score, confidence, valuation) ==
    IF confidence < 3 THEN "Insufficient Evidence"
    ELSE IF score >= 7500 THEN "Strong Long-Term Candidate"
    ELSE IF score >= 6000 THEN "Watchlist"
    ELSE IF valuation # Missing /\ valuation < 2500 THEN "High Valuation / Risk"
    ELSE "Weak Fundamentals"

\* round(score, 1)
Rounded(score) == (score + 5) \div 10

\* The weighted mean of the components there are; with none of them, 0.
ScoreRow(row, pes, pbs) ==
    LET valuation == Valuation(row, pes, pbs)
        confidence == Weight(row.growth, 1) + Weight(row.profitability, 1) + Weight(row.financial, 1)
                        + Weight(row.cash, 1) + Weight(valuation, 1)
        weight == Weight(row.growth, 30) + Weight(row.profitability, 25) + Weight(row.financial, 20)
                    + Weight(row.cash, 15) + Weight(valuation, 10)
        sum == Weighted(row.growth, 30) + Weighted(row.profitability, 25)
                 + Weighted(row.financial, 20) + Weighted(row.cash, 15) + Weighted(valuation, 10)
        score == IF weight = 0 THEN 0 ELSE sum \div weight
    IN  [of |-> row.of, score |-> Rounded(score), confidence |-> confidence,
         class |-> Classification(score, confidence, valuation)]

\* _score_rows: every row against those of its sector.
Positive(rs, ratio) ==
    [s \in {s \in DOMAIN rs : IsPositive(rs[s].of[ratio])} |-> rs[s].of[ratio]]

Peers(rs, sec) == [s \in {s \in DOMAIN rs : rs[s].of.sector = sec} |-> rs[s]]

ScoreRows(rs) ==
    [s \in DOMAIN rs |->
        LET peers == Peers(rs, rs[s].of.sector)
        IN  ScoreRow(rs[s], Positive(peers, "pe"), Positive(peers, "pb"))]

\* The order of the symbols stands for that of their names.
Place(s) == Min({i \in DOMAIN ResearchUniverse : ResearchUniverse[i] = s})

Before(scored, a, b) ==
    \/ scored[a].score > scored[b].score
    \/ scored[a].score = scored[b].score /\ scored[a].confidence > scored[b].confidence
    \/ /\ scored[a].score = scored[b].score /\ scored[a].confidence = scored[b].confidence
       /\ Place(a) < Place(b)

Board(scored, sec) ==
    LET order == CHOOSE q \in SetToSeqs({s \in DOMAIN scored : scored[s].of.sector = sec}) :
                    \A i, j \in DOMAIN q : i < j => Before(scored, q[i], q[j])
    IN  First(order, SectorTop)

-----------------------------------------------------------------------------
\* score_multibagger: growth over the periods with neither value missing or zero.
\* A ratio below zero has no real root: Python goes on with a complex number, and
\* comparing it raises.
Grown(s, values) ==
    LET full == {i \in DOMAIN s.years : {s.revenue[i], s.earnings[i]} \cap {Missing, 0} = {}}
        new == values[Min(full)]
        old == values[Max(full)]
        gap == s.years[Min(full)] - s.years[Max(full)]
        years == IF gap < 1 THEN 1 ELSE gap
        sign == IF old < 0 THEN -1 ELSE 1
    IN  IF Cardinality(full) < 2 THEN [raises |-> FALSE, percent |-> Missing]
        ELSE IF sign * new > 0
             THEN [raises |-> FALSE, percent |-> Growth(sign * new, sign * old, years)]
        ELSE IF years = 1 THEN [raises |-> FALSE, percent |-> Ratio(100 * new, old) - 100]
        ELSE [raises |-> TRUE, percent |-> Missing]

Raises(s) == Grown(s, s.revenue).raises \/ Grown(s, s.earnings).raises

Average(f, S) == MapThenSumSet(LAMBDA x : f[x], S) \div Cardinality(S)

\* What is zero counts as missing: coverage is the number of positive components.
score_multibagger(s) ==
    LET revenue == Grown(s, s.revenue).percent
        earnings == Grown(s, s.earnings).percent
        paid == {i \in DOMAIN s.years : s.ocf[i] # Missing /\ s.earnings[i] \notin {Missing, 0}}
        conversion == [i \in paid |-> (10000 * s.ocf[i])
                                        \div (IF s.earnings[i] < 0 THEN -s.earnings[i] ELSE s.earnings[i])]
        parts == <<IF revenue = Missing THEN 0 ELSE Bounded(5000 + 100 * revenue + 75 * earnings),
                   Weighted(Bounded(Mean(s.roe, s.roce, 300)), 1),
                   Weighted(Financial(s), 1),
                   IF paid = {} THEN 0 ELSE Bounded(Average(conversion, paid)),
                   IF IsPositive(s.pe) THEN Bounded(10000 - 200 * s.pe) ELSE 0>>
        available == {i \in DOMAIN parts : parts[i] > 0}
    IN  [coverage |-> Cardinality(available),
         overall |-> IF available = {} THEN 0 ELSE Rounded(Average(parts, available))]

Ranked(scores) ==
    LET before(a, b) == \/ scores[a].overall > scores[b].overall
                        \/ scores[a].overall = scores[b].overall /\ Place(a) < Place(b)
        order == CHOOSE q \in SetToSeqs(DOMAIN scores) :
                    \A i, j \in DOMAIN q : i < j => before(q[i], q[j])
    IN  First(order, CandidateLimit)

-----------------------------------------------------------------------------
ResearchInit ==
    /\ on_disk = FALSE /\ churn = 0
    /\ imported = FALSE /\ bootstrapped = FALSE
    /\ provider_available = FALSE
    /\ researching = "none" /\ unread = <<>>
    /\ rows = NoRows /\ skipped = {} /\ long_term_board = <<>>

\* Another program installs or removes the package.
Churn ==
    /\ churn < MaxChurn /\ churn' = churn + 1
    /\ on_disk' = ~on_disk
    /\ UNCHANGED <<imported, bootstrapped, provider_available, loop>>

\* is_available, with its outcome: what was imported stays so; without it, the
\* first call of the process installs it, which may fail.
Available(outcome) ==
    LET present == imported \/ on_disk
    IN  \E installs \in IF present \/ bootstrapped THEN {FALSE} ELSE BOOLEAN :
            /\ outcome = (present \/ installs)
            /\ imported' = outcome
            /\ bootstrapped' = (bootstrapped \/ ~present)
            /\ on_disk' = (on_disk \/ installs)
            /\ churn' = churn

OpenPage3 ==
    /\ researching = "none"
    /\ Available(provider_available')
    /\ provider_available' \in BOOLEAN
    /\ UNCHANGED loop

\* A mutant of ScanPage3: the button is always enabled.
ScanPage3Anyway ==
    /\ researching = "none" /\ researching' = "page 3"
    /\ unread' = ResearchUniverse /\ rows' = NoRows /\ skipped' = {} /\ long_term_board' = <<>>
    /\ UNCHANGED <<package, imported, bootstrapped, provider_available>>

\* The button is disabled while the provider was not available to the script.
ScanPage3 ==
    /\ provider_available
    /\ researching = "none" /\ researching' = "page 3"
    /\ unread' = ResearchUniverse /\ rows' = NoRows /\ skipped' = {} /\ long_term_board' = <<>>
    /\ UNCHANGED <<package, imported, bootstrapped, provider_available>>

ScanPage5 ==
    /\ researching = "none" /\ researching' = "page 5"
    /\ unread' = ResearchUniverse /\ rows' = NoRows /\ skipped' = {} /\ long_term_board' = <<>>
    /\ UNCHANGED <<package, imported, bootstrapped, provider_available>>

Skip ==
    /\ skipped' = skipped \cup {Head(unread)}
    /\ UNCHANGED rows

Keep(row) ==
    /\ rows' = [s \in DOMAIN rows \cup {Head(unread)} |-> IF s = Head(unread) THEN row ELSE rows[s]]
    /\ UNCHANGED skipped

Answer(c) ==
    /\ unread # <<>> /\ unread' = Tail(unread)
    /\ Available(TRUE)
    /\ LET s == Snapshot(c)
       IN  IF researching = "page 3"
           THEN IF Cardinality(Complete(s)) < 3 THEN Skip ELSE Keep(Row(s))
           ELSE IF Raises(s) THEN Skip
           ELSE IF score_multibagger(s).coverage < 3 THEN Skip ELSE Keep(score_multibagger(s))
    /\ UNCHANGED <<provider_available, researching, long_term_board>>

AnswerFails ==
    /\ unread # <<>> /\ unread' = Tail(unread)
    /\ Available(TRUE)
    /\ Skip
    /\ UNCHANGED <<provider_available, researching, long_term_board>>

\* Without the package page 3 ends its loop, page 5 goes on to the next stock.
Unavailable ==
    /\ unread # <<>>
    /\ Available(FALSE)
    /\ unread' = IF researching = "page 3" THEN <<>> ELSE Tail(unread)
    /\ Skip
    /\ UNCHANGED <<provider_available, researching, long_term_board>>

EndResearch ==
    /\ researching # "none" /\ unread = <<>>
    /\ IF researching = "page 3"
       THEN LET scored == ScoreRows(rows)
            IN  /\ rows' = scored
                /\ long_term_board' = [sec \in {scored[s].of.sector : s \in DOMAIN scored} |-> Board(scored, sec)]
       ELSE /\ long_term_board' = Ranked(rows)
            /\ UNCHANGED rows
    /\ researching' = "none"
    /\ UNCHANGED <<package, imported, bootstrapped, provider_available, unread, skipped>>

ResearchNext ==
    \/ Churn \/ OpenPage3 \/ ScanPage3 \/ ScanPage5
    \/ \E c \in Companies : Answer(c)
    \/ AnswerFails \/ Unavailable \/ EndResearch

ResearchSpec == ResearchInit /\ [][ResearchNext]_researchVars

-----------------------------------------------------------------------------
\* A scan hides nothing: each stock of the universe is in the ranking or has its
\* error on the page, also if the package came or went while the scan ran.
NothingSilent ==
    researching # "none" /\ unread = <<>> => DOMAIN rows \cup skipped = ToSet(ResearchUniverse)

\* At least as good: both missing, or no worse where both are there.
NoLess(a, b) == IF a = Missing \/ b = Missing THEN a = b ELSE a >= b
NoMore(a, b) == IF a = Missing \/ b = Missing THEN a = b ELSE 0 < a /\ a <= b

\* Of two series of profits the first ends, with the newest, no lower and starts no higher.
GrowsAsMuch(x, y) ==
    \A i \in DOMAIN x :
        /\ IsPositive(x[i]) /\ IsPositive(y[i])
        /\ i = 1 => y[i] <= x[i]
        /\ i = Len(x) => x[i] <= y[i]

AsGood(a, b) ==
    /\ a.sector = b.sector /\ Len(a.years) = Len(b.years)
    /\ GrowsAsMuch(a.revenue, b.revenue) /\ GrowsAsMuch(a.earnings, b.earnings)
    /\ \A i \in DOMAIN a.years : NoLess(a.fcf[i], b.fcf[i])
    /\ NoLess(a.roe, b.roe) /\ NoLess(a.roce, b.roce)
    /\ NoLess(b.debt, a.debt) /\ NoMore(a.pe, b.pe) /\ NoMore(a.pb, b.pb)

OnPage3 == researching = "none" /\ \A s \in DOMAIN rows : "class" \in DOMAIN rows[s]

\* b stands above a in their sector, or is shown and a is not.
Outranks(b, a) ==
    LET shown == long_term_board[rows[b].of.sector]
    IN  /\ Contains(shown, b)
        /\ \E i \in DOMAIN shown : shown[i] = b /\ a \notin ToSet(SubSeq(shown, 1, i))

\* On page 3 a stock is not outranked, but for a tie, by one of its sector that is
\* no better in anything the score is made of, where the same figures are missing
\* of both and neither has a loss in its history.
BetterIsNotOutranked ==
    OnPage3 => \A a, b \in DOMAIN rows :
        (AsGood(rows[a].of, rows[b].of) /\ Outranks(b, a)) => rows[a].score = rows[b].score
=============================================================================
