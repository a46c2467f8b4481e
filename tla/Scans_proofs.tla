---------------------------- MODULE Scans_proofs ----------------------------
(***************************************************************************)
(* Proofs about the scanners: the universe of the intraday scanner and what*)
(* becomes of its stocks, the segments of the swing scanner, and what the  *)
(* crypto scanner's rules say together.  For every list of stocks, every   *)
(* market, every workbook and every reading.                               *)
(***************************************************************************)
EXTENDS MarketScan, SwingScan, CryptoSignals, SequenceLemmas

-----------------------------------------------------------------------------
\* What is cached is the last list published, at the time it was published; while
\* it is recent, no substitute has been scanned since.
UniverseInv ==
    /\ seconds \in Nat /\ loaded_at \in Nat /\ scanning \in BOOLEAN
    /\ cached # <<>> => answered.list = cached /\ answered.at = loaded_at
    /\ Recent => universe_source = "NSE most-active"
    /\ UniverseIsRecent

\* Differences of times, apart from the lists.
LEMMA Ages ==
    /\ \A now \in Nat : now - now < CacheAge
    /\ \A now, at \in Nat : (now + 1) - at < CacheAge => now - at < CacheAge
<1>1. CacheAge \in Nat \ {0}
  BY MarketAssumption
<1> QED
  BY <1>1

\* A list just published is recent, if lists are kept at all; a scan of it begins now.
LEMMA DiscoveryStep ==
    ASSUME UniverseInv, NEW by_volume, NEW by_value, ScanDiscovered(by_volume, by_value)
    PROVE  UniverseInv'
<1> DEFINE merged == First(Merge(by_volume, by_value), UniverseCap)
<1> HIDE DEF merged
<1>1. /\ merged # <<>> /\ scanning' = TRUE /\ seconds' = seconds /\ began' = seconds /\ universe' = merged
      /\ cached' = merged /\ loaded_at' = seconds /\ universe_source' = "NSE most-active"
      /\ answered'.list = merged /\ answered'.at = seconds
  BY DEF ScanDiscovered, Begin, merged
<1>2. seconds - seconds < CacheAge
  BY Ages DEF UniverseInv
<1>3. UniverseIsRecent'
  BY <1>1, <1>2 DEF UniverseIsRecent
<1> QED
  BY <1>1, <1>3 DEF UniverseInv

\* However answers, failures, cached scans and time follow one another, a scanned
\* universe is a recent one, or the built-in one under its own name.
THEOREM UniverseKept == MarketSpec => []UniverseIsRecent
<1>1. MarketInit => UniverseInv
  <2> SUFFICES ASSUME MarketInit PROVE UniverseInv
    OBVIOUS
  <2>1. seconds = 0 /\ loaded_at = 0 /\ cached = <<>> /\ scanning = FALSE
    BY DEF MarketInit
  <2>2. ~Recent
    BY <2>1 DEF Recent
  <2>3. UniverseIsRecent
    BY <2>1 DEF UniverseIsRecent
  <2> QED
    BY <2>1, <2>2, <2>3 DEF UniverseInv
<1>2. UniverseInv /\ [MarketNext]_marketVars => UniverseInv'
  <2> SUFFICES ASSUME UniverseInv, [MarketNext]_marketVars PROVE UniverseInv'
    OBVIOUS
  <2> USE DEF UniverseInv, UniverseIsRecent, Recent
  <2>1. CASE Clock5s
    <3>1. /\ ~scanning' /\ seconds' = seconds + 1 /\ scanning' \in BOOLEAN
          /\ UNCHANGED <<cached, loaded_at, answered, universe_source>>
      BY <2>1 DEF Clock5s, discovery
    <3>2. (seconds + 1) - loaded_at < CacheAge => seconds - loaded_at < CacheAge
      BY Ages
    <3>3. Recent' => Recent
      BY <3>1, <3>2
    <3>4. seconds \in Nat
      OBVIOUS
    <3>5. seconds' \in Nat
      <4> HIDE DEF UniverseInv
      <4> QED
        BY <3>1, <3>4
    <3> HIDE DEF Recent
    <3> QED
      BY <3>1, <3>3, <3>5
  <2>2. CASE ScanCached
    BY <2>2 DEF ScanCached, Begin, discovery
  <2>3. CASE ScanFallback
    BY <2>3 DEF ScanFallback, Begin
  <2>4. ASSUME NEW by_volume \in ActiveLists, NEW by_value \in ActiveLists,
               ScanDiscovered(by_volume, by_value)
        PROVE  UniverseInv'
    BY <2>4, DiscoveryStep
  <2>5. CASE \/ \E r \in StockReadings : Qualify(r)
             \/ TooFewCandles \/ RequestFails \/ GiveUp
    <3>1. UNCHANGED <<seconds, discovery, universe, scanning, began>>
      BY <2>5 DEF Qualify, TooFewCandles, RequestFails, GiveUp, Scanned
    <3> QED
      BY <3>1 DEF discovery
  <2>6. CASE EndScan
    BY <2>6 DEF EndScan, discovery
  <2>7. CASE UNCHANGED marketVars
    BY <2>7 DEF marketVars, discovery
  <2> QED
    BY <2>1, <2>2, <2>3, <2>4, <2>5, <2>6, <2>7 DEF MarketNext
<1>3. UniverseInv => UniverseIsRecent
  BY DEF UniverseInv
<1> QED
  BY <1>1, <1>2, <1>3, PTL DEF MarketSpec

-----------------------------------------------------------------------------
\* What a scan makes of a stock.
Candidates == [symbol : DOMAIN sector, direction : {"BULLISH", "BEARISH"}, score : Int]

\* Each stock of the universe is still unscanned, qualified or has an error; a
\* scan ranks no more stocks than it keeps.
ScanInv ==
    /\ cached \in Seq(DOMAIN sector) /\ Len(cached) <= ScanLimit
    /\ unscanned \in Seq(DOMAIN sector) /\ candidates \in Seq(Candidates)
    /\ scanning \in BOOLEAN
    /\ ~scanning => unscanned = <<>>
    /\ scanning => /\ Len(candidates) + Len(unscanned) <= ScanLimit
                   /\ ToSet(universe) \subseteq Symbolic(candidates) \cup errors \cup ToSet(unscanned)
    /\ NoStockLost

\* The votes of four conditions are a number.
LEMMA VotesCount == ASSUME NEW a, NEW b, NEW c, NEW d PROVE Votes(<<a, b, c, d>>) \in Nat
<1>1. IsFiniteSet(1..4)
  <2>1. \A n \in Int : IsFiniteSet(1..n)
    BY FS_Interval
  <2>2. 4 \in Int
    OBVIOUS
  <2> QED
    BY <2>1, <2>2, Zenon
<1>2. ASSUME NEW V \in SUBSET (1..4) PROVE Cardinality(V) \in Nat
  BY <1>1, FS_Subset, FS_CardinalityType
<1>3. ASSUME NEW q, DOMAIN q = 1..4 PROVE Votes(q) \in Nat
  BY <1>2, <1>3 DEF Votes
<1>4. DOMAIN <<a, b, c, d>> = 1..4
  OBVIOUS
<1> QED
  BY <1>3, <1>4, Zenon

\* A candidate's score is a number, or the one that stands for NaN.
LEMMA CandidateTyped ==
    ASSUME NEW s \in DOMAIN sector, NEW r \in StockReadings
    PROVE  Candidate(s, r) \in Candidates
<1>1. r.cross \in Int /\ r.macd \in Int /\ r.rsi \in Int /\ r.change \in Int /\ r.rvol \in Int
  BY MarketAssumption
<1>2. Bull(r) \in Nat /\ Bear(r) \in Nat
  BY VotesCount DEF Bull, Bear
<1>3. BestOfTwo(Bull(r), Bear(r)) \in Nat
  BY <1>2 DEF BestOfTwo
<1>4. \A a, b, c \in Int : AtMost(35 + 10 * a + AtMost(b, 15) + AtMost(c, 20), 100) \in Int
  BY DEF AtMost
<1>5. \A b \in Int : (IF b < 0 THEN -b ELSE b) \in Int
  OBVIOUS
<1>6. MarketScore(r) \in Int
  <2> DEFINE best == BestOfTwo(Bull(r), Bear(r))
             size == IF r.change < 0 THEN -r.change ELSE r.change
  <2>1. best \in Int /\ size \in Int /\ r.rvol \in Int
    BY <1>1, <1>3, <1>5
  <2>2. MarketScore(r) = IF r.rvol = NaN THEN NaN
                         ELSE AtMost(35 + 10 * best + AtMost(size, 15) + AtMost(r.rvol, 20), 100)
    BY DEF MarketScore
  <2> HIDE DEF best, size
  <2> QED
    BY <1>4, <2>1, <2>2 DEF NaN
<1> QED
  BY <1>6 DEF Candidate, Candidates

\* Merged lists are lists of stocks.
LEMMA MergeTyped ==
    ASSUME NEW T, NEW by_volume \in Seq(T), NEW by_value \in Seq(T)
    PROVE  Merge(by_volume, by_value) \in Seq(T)
<1> DEFINE s == by_volume \o by_value
           n == Len(s)
           step == [p \in (1..n) \X Seq(T) |->
                      IF Contains(p[2], s[p[1]]) THEN p[2] ELSE Append(p[2], s[p[1]])]
           Folded(g) == g = [X \in SUBSET (1..n) |->
                               IF X = {} THEN <<>>
                               ELSE IF Contains(g[X \ {Max(X)}], s[Max(X)])
                                    THEN g[X \ {Max(X)}]
                                    ELSE Append(g[X \ {Max(X)}], s[Max(X)])]
           fold == CHOOSE g : Folded(g)
           P == {k \in 0..n : fold[1..k] \in Seq(T)}
<1>0. s \in Seq(T)
  OBVIOUS
<1> HIDE DEF s
<1>1. n \in Nat /\ DOMAIN s = 1..n
  BY <1>0
<1>2. Merge(by_volume, by_value) = fold[1..n]
  BY <1>1 DEF Merge, FoldLeft, MapThenFoldSet, s
<1>3. Folded(fold)
  <2>1. <<>> \in Seq(T) /\ step \in [(1..n) \X Seq(T) -> Seq(T)]
    BY <1>0, EmptySeq, AppendProperties
  <2>2. PICK g \in FoldFunctions(n, Seq(T), <<>>, step) : TRUE
    <3> HIDE DEF step, n
    <3> QED
      BY <1>1, <2>1, FoldExists
  <2>3. ASSUME NEW X \in SUBSET (1..n), X # {}
        PROVE  step[<<Max(X), g[X \ {Max(X)}]>>] =
                 IF Contains(g[X \ {Max(X)}], s[Max(X)])
                 THEN g[X \ {Max(X)}] ELSE Append(g[X \ {Max(X)}], s[Max(X)])
    <3>1. Max(X) \in 1..n /\ X \ {Max(X)} \in SUBSET (1..n)
      BY <1>1, <2>3, TakeGreatest
    <3>2. g[X \ {Max(X)}] \in Seq(T)
      BY <3>1 DEF FoldFunctions
    <3> QED
      BY <3>1, <3>2
  <2>4. Folded(g)
    <3> HIDE DEF step
    <3> QED
      BY <2>2, <2>3 DEF FoldFunctions
  <2> HIDE DEF Folded
  <2> QED
    BY <2>4
<1>4. 0 \in P
  <2>1. fold[{}] = <<>>
    <3> HIDE DEF fold
    <3> QED
      BY <1>3
  <2>2. 1..0 = {} /\ 0 \in 0..n
    BY <1>1
  <2> HIDE DEF fold
  <2> QED
    BY <2>1, <2>2, EmptySeq
<1>5. ASSUME NEW k \in 0 .. n - 1, k \in P PROVE k + 1 \in P
  <2>0. k + 1 \in 1..n /\ k + 1 \in 0..n /\ (k + 1) - 1 = k
    BY <1>1
  <2>1. /\ 1 .. k + 1 \in SUBSET (1..n) /\ 1 .. k + 1 # {} /\ Max(1 .. k + 1) = k + 1
        /\ (1 .. k + 1) \ {k + 1} = 1..k
    BY <1>1, <2>0, PrefixOf
  <2>2. fold[1 .. k + 1] = IF Contains(fold[1..k], s[k + 1]) THEN fold[1..k]
                           ELSE Append(fold[1..k], s[k + 1])
    <3> HIDE DEF fold
    <3> QED
      BY <1>3, <2>1
  <2>3. fold[1..k] \in Seq(T) /\ s[k + 1] \in T
    <3> HIDE DEF fold, n
    <3> QED
      BY <1>0, <1>1, <1>5, <2>0
  <2>4. fold[1 .. k + 1] \in Seq(T)
    <3> HIDE DEF fold, n
    <3> QED
      BY <2>2, <2>3, AppendProperties
  <2> HIDE DEF fold
  <2> QED
    BY <2>0, <2>4
<1> HIDE DEF P, n
<1>6. n \in P
  <2>1. \A k \in 0..n : k \in P
    BY <1>1, <1>4, <1>5, Induction
  <2> QED
    BY <1>1, <2>1
<1> QED
  BY <1>2, <1>6 DEF P

\* Who is not shown among the first has the whole board ahead.
LEMMA ShownOrOutdone ==
    ASSUME NEW T, NEW s \in Seq(T), \A x \in T : x.score \in Int, NEW n \in Nat,
           \A i, j \in DOMAIN s : i < j => s[j].score <= s[i].score,
           NEW c \in ToSet(s)
    PROVE  c \in ToSet(First(s, n)) \/ Ahead(First(s, n), c) = n
<1> DEFINE g == First(s, n)
<1>1. /\ g \in Seq(T)
      /\ c \notin ToSet(g) => Len(g) = n /\ \A i \in DOMAIN g : c.score <= g[i].score
  BY FirstOutdo
<1> HIDE DEF g
<1>2. c \in T
  BY DEF ToSet
<1>3. ASSUME c \notin ToSet(g) PROVE Ahead(g, c) = n
  <2>1. DOMAIN g = 1..n /\ \A i \in DOMAIN g : g[i].score >= c.score
    <3>1. \A i \in DOMAIN g : g[i].score \in Int /\ c.score \in Int
      BY <1>1, <1>2
    <3> QED
      BY <1>1, <1>3, <3>1
  <2>2. {i \in DOMAIN g : g[i].score >= c.score} = 1..n
    BY <2>1
  <2>3. Cardinality(1..n) = n
    BY FS_Interval
  <2> QED
    BY <2>2, <2>3 DEF Ahead
<1> QED
  BY <1>3 DEF g

\* The end of a scan without NaN: what it qualified is analysed and shown, or outdone.
LEMMA EndShowsTheBest ==
    ASSUME ScanInv, EndScan, \A i \in DOMAIN candidates : candidates[i].score # NaN,
           NEW c \in ToSet(candidates)
    PROVE  /\ c \in ToSet(alerting') \/ Ahead(alerting', c) = AlertLimit
           /\ LET shown == board'[sector[c.symbol]]
              IN  c \in ToSet(shown) \/ Ahead(shown, c) = SectorLimit
<1> DEFINE s == candidates
           ranked == ByScore(s)
           n == sector[c.symbol]
           group == Group(ranked, n)
<1>1. /\ scanning /\ unscanned = <<>>
      /\ \E q \in Rankings(s) : Present(First(q, ScanLimit))
  BY DEF EndScan
<1>2. s \in Seq(Candidates) /\ Len(s) \in Nat /\ Len(s) <= ScanLimit
  <2>1. s \in Seq(Candidates) /\ Len(s) + Len(unscanned) <= ScanLimit /\ Len(unscanned) = 0
    BY <1>1 DEF ScanInv
  <2>2. Len(s) \in Nat
    BY <2>1
  <2> QED
    BY <2>1, <2>2
<1>3. \A x \in Candidates : x.score \in Int
  BY DEF Candidates
<1>4. AlertLimit \in Nat /\ SectorLimit \in Nat /\ ScanLimit \in Nat
  BY MarketAssumption
<1>5. Rankings(s) = {ranked}
  BY DEF Rankings
<1>6. /\ ranked \in Seq(Candidates) /\ Len(ranked) = Len(s) /\ ToSet(ranked) = ToSet(s)
      /\ \A i, j \in DOMAIN ranked : i < j => ranked[j].score <= ranked[i].score
  BY <1>2, <1>3, ScoresDescend
<1>7. Present(ranked)
  <2>1. First(ranked, ScanLimit) = ranked
    <3> HIDE DEF ranked
    <3> QED
      BY <1>2, <1>3, <1>4, <1>6, FirstOutdo
  <2> QED
    BY <1>1, <1>5, <2>1
<1> HIDE DEF ranked
<1>8. alerting' = First(ranked, AlertLimit)
  BY <1>7 DEF Present
<1>9. c \in ToSet(alerting') \/ Ahead(alerting', c) = AlertLimit
  BY <1>3, <1>4, <1>6, <1>8, ShownOrOutdone
<1>10. c \in Candidates /\ c \in ToSet(ranked)
  <2>1. c \in ToSet(ranked)
    BY <1>6
  <2> QED
    BY <1>6, <2>1 DEF ToSet
<1>11. n \in Sectors
  BY <1>10 DEF Candidates, Sectors
<1>12. board'[n] \in {First(g, SectorLimit) : g \in Rankings(group)}
  <2> DEFINE Groups(m) == {First(g, SectorLimit) : g \in Rankings(Group(ranked, m))}
  <2>1. board' \in {b \in [Sectors -> UNION {Groups(m) : m \in Sectors}] :
                      \A m \in Sectors : b[m] \in Groups(m)}
    BY <1>7 DEF Present
  <2> HIDE DEF Groups
  <2>2. board'[n] \in Groups(n)
    BY <1>11, <2>1
  <2> QED
    BY <2>2 DEF Groups
<1>13. group \in Seq(Candidates) /\ ToSet(group) = ToSet(ranked) \cap {x \in ToSet(ranked) : sector[x.symbol] = n}
  <2>1. Ordered(ranked, Candidates \X Candidates)
    BY <1>6 DEF Ordered
  <2> QED
    BY <1>6, <2>1, Selecting DEF Group
<1>14. c \in ToSet(group)
  BY <1>10, <1>13
<1>15. \A i \in DOMAIN group : group[i].score # NaN
  <2>1. ASSUME NEW x \in ToSet(ranked) PROVE x.score # NaN
    BY <1>6 DEF ToSet
  <2>2. ASSUME NEW i \in DOMAIN group PROVE group[i] \in ToSet(ranked)
    <3>1. group[i] \in ToSet(group)
      BY DEF ToSet
    <3> QED
      BY <1>13, <3>1
  <2> QED
    BY <2>1, <2>2
<1> HIDE DEF group
<1>16. Rankings(group) = {ByScore(group)}
  BY <1>15 DEF Rankings
<1>17. board'[n] = First(ByScore(group), SectorLimit)
  BY <1>12, <1>16
<1>18. /\ ByScore(group) \in Seq(Candidates) /\ ToSet(ByScore(group)) = ToSet(group)
       /\ \A i, j \in DOMAIN ByScore(group) : i < j => ByScore(group)[j].score <= ByScore(group)[i].score
  BY <1>3, <1>13, ScoresDescend
<1>19. c \in ToSet(board'[n]) \/ Ahead(board'[n], c) = SectorLimit
  <2> DEFINE g == ByScore(group)
  <2> HIDE DEF g
  <2>1. /\ g \in Seq(Candidates) /\ c \in ToSet(g) /\ board'[n] = First(g, SectorLimit)
        /\ \A i, j \in DOMAIN g : i < j => g[j].score <= g[i].score
    BY <1>14, <1>17, <1>18 DEF g
  <2>2. c \in ToSet(First(g, SectorLimit)) \/ Ahead(First(g, SectorLimit), c) = SectorLimit
    BY <1>3, <1>4, <2>1, ShownOrOutdone
  <2> QED
    BY <2>1, <2>2
<1> QED
  BY <1>9, <1>19

\* A universe is a list of stocks, no longer than a scan.
LEMMA BeginStep ==
    ASSUME ScanInv, NEW stocks, Begin(stocks), stocks \in Seq(DOMAIN sector), Len(stocks) <= ScanLimit,
           cached' \in Seq(DOMAIN sector), Len(cached') <= ScanLimit
    PROVE  ScanInv'
<1>1. /\ scanning' = TRUE /\ universe' = stocks /\ unscanned' = stocks /\ candidates' = <<>>
  BY DEF Begin
<1>2. candidates' \in Seq(Candidates) /\ Len(candidates') = 0 /\ Len(stocks) \in Nat
  BY <1>1, EmptySeq
<1>3. NoStockLost'
  BY <1>1 DEF NoStockLost
<1>4. Len(candidates') + Len(unscanned') <= ScanLimit
  BY <1>1, <1>2
<1>5. ToSet(universe') = ToSet(unscanned')
  BY <1>1
<1> QED
  BY <1>1, <1>2, <1>3, <1>4, <1>5 DEF ScanInv

\* The loop takes a stock off and notes it.
LEMMA ScannedStep ==
    ASSUME ScanInv, Scanned, unscanned # <<>>,
           \/ /\ \E r \in StockReadings : candidates' = Append(candidates, Candidate(Head(unscanned), r))
              /\ errors' = errors
           \/ /\ errors' = errors \cup {Head(unscanned)}
              /\ candidates' = candidates
    PROVE  ScanInv'
<1> DEFINE u == unscanned
           cs == candidates
<1>0. u \in Seq(DOMAIN sector) /\ cs \in Seq(Candidates) /\ u # <<>> /\ scanning
  BY DEF ScanInv
<1>1. /\ Tail(u) \in Seq(DOMAIN sector) /\ Head(u) \in DOMAIN sector
      /\ ToSet(u) = {Head(u)} \cup ToSet(Tail(u)) /\ Len(Tail(u)) = Len(u) - 1 /\ Len(u) \in Nat
  BY <1>0, HeadAndTail, HeadTailProperties
<1>2. /\ unscanned' = Tail(u) /\ scanning' /\ scanning' = scanning
      /\ cached' = cached /\ universe' = universe
  BY <1>0 DEF Scanned, discovery
<1>3. NoStockLost'
  BY <1>2 DEF NoStockLost
<1>4. Len(cs) \in Nat /\ Len(cs) + Len(u) <= ScanLimit /\ ToSet(universe) \subseteq Symbolic(cs) \cup errors \cup ToSet(u)
  BY <1>0 DEF ScanInv
<1>5. CASE errors' = errors \cup {Head(u)} /\ candidates' = cs
  <2>1. Len(cs) + Len(Tail(u)) <= ScanLimit
    BY <1>1, <1>4, MarketAssumption
  <2>2. candidates' = cs /\ ToSet(universe) \subseteq Symbolic(cs) \cup errors' \cup ToSet(Tail(u))
    BY <1>1, <1>4, <1>5
  <2> QED
    BY <1>0, <1>1, <1>2, <1>3, <2>1, <2>2 DEF ScanInv
<1>6. ASSUME NEW r \in StockReadings, candidates' = Append(cs, Candidate(Head(u), r)), errors' = errors
      PROVE  ScanInv'
  <2> DEFINE new == Candidate(Head(u), r)
             ds == Append(cs, new)
  <2>1. new \in Candidates /\ new.symbol = Head(u)
    BY <1>1, CandidateTyped DEF Candidate
  <2> HIDE DEF new
  <2>2. /\ ds \in Seq(Candidates) /\ Len(ds) = Len(cs) + 1
        /\ \A i \in DOMAIN cs : i \in DOMAIN ds /\ ds[i] = cs[i]
        /\ Len(ds) \in DOMAIN ds /\ ds[Len(ds)] = new
    BY <1>0, <2>1, AppendProperties
  <2>3. Symbolic(cs) \cup {Head(u)} \subseteq Symbolic(ds)
    BY <2>1, <2>2 DEF Symbolic, ToSet
  <2>4. candidates' = ds
    BY <1>6 DEF new
  <2>5. Len(ds) + Len(Tail(u)) <= ScanLimit
    BY <1>1, <1>4, <2>2, MarketAssumption
  <2>6. ToSet(universe) \subseteq Symbolic(ds) \cup errors \cup ToSet(Tail(u))
    BY <1>1, <1>4, <2>3
  <2> HIDE DEF ds
  <2> QED
    BY <1>0, <1>1, <1>2, <1>3, <1>6, <2>2, <2>4, <2>5, <2>6 DEF ScanInv
<1> QED
  BY <1>5, <1>6

\* Every step of a scan keeps ScanInv.
LEMMA Scanning == ASSUME ScanInv, [MarketNext]_marketVars PROVE ScanInv'
<1> DEFINE Lists == Seq(DOMAIN sector)
<1>0. cached \in Lists /\ Len(cached) <= ScanLimit
  BY DEF ScanInv
<1>1. CASE Clock5s
  <2>1. UNCHANGED <<discovery, universe, progress, page, last_scan_errors, scanning>>
    BY <1>1 DEF Clock5s
  <2>2. NoStockLost' = NoStockLost
    BY <2>1 DEF NoStockLost, page
  <2> QED
    BY <2>1, <2>2 DEF ScanInv, discovery, progress
<1>2. CASE ScanCached
  <2>1. Begin(cached) /\ cached' = cached
    BY <1>2 DEF ScanCached, discovery
  <2> QED
    BY <1>0, <2>1, BeginStep
<1>3. CASE ScanFallback
  <2>1. /\ Begin(FallbackUniverse) /\ cached' = cached
        /\ FallbackUniverse \in Lists /\ Len(FallbackUniverse) <= ScanLimit
    BY <1>3, MarketAssumption DEF ScanFallback
  <2> QED
    BY <1>0, <2>1, BeginStep
<1>4. ASSUME NEW by_volume \in ActiveLists, NEW by_value \in ActiveLists,
             ScanDiscovered(by_volume, by_value)
      PROVE  ScanInv'
  <2> DEFINE all == Merge(by_volume, by_value)
             merged == First(all, UniverseCap)
  <2>1. Begin(merged) /\ cached' = merged
    BY <1>4 DEF ScanDiscovered
  <2>2. by_volume \in Lists /\ by_value \in Lists /\ UniverseCap \in Nat /\ ScanLimit \in Nat /\ UniverseCap <= ScanLimit
    BY MarketAssumption
  <2>3. all \in Lists
    BY <2>2, MergeTyped
  <2> HIDE DEF all
  <2>4. merged \in Lists /\ Len(merged) <= UniverseCap
    BY <2>2, <2>3, FirstOfList
  <2> HIDE DEF merged
  <2>5. Len(merged) <= ScanLimit
    <3>1. Len(merged) \in Nat
      BY <2>4
    <3> QED
      BY <2>2, <2>4, <3>1
  <2> QED
    BY <2>1, <2>4, <2>5, BeginStep
<1>5. ASSUME NEW r \in StockReadings, Qualify(r)
      PROVE  ScanInv'
  BY <1>5, ScannedStep DEF Qualify
<1>6. CASE TooFewCandles
  BY <1>6, ScannedStep DEF TooFewCandles
<1>7. CASE GiveUp
  BY <1>7, ScannedStep DEF GiveUp
<1>8. CASE RequestFails
  <2>1. UNCHANGED <<discovery, universe, unscanned, errors, candidates, page, last_scan_errors, scanning>>
    BY <1>8 DEF RequestFails
  <2>2. NoStockLost' = NoStockLost
    BY <2>1 DEF NoStockLost, page
  <2> QED
    BY <2>1, <2>2 DEF ScanInv, discovery
<1>9. CASE EndScan
  <2>1. /\ scanning /\ scanning' = FALSE /\ unscanned = <<>>
        /\ result' = candidates /\ last_scan_errors' = errors /\ candidates' = <<>>
        /\ UNCHANGED <<discovery, universe, unscanned>>
    BY <1>9 DEF EndScan
  <2>2. ToSet(universe) \subseteq Symbolic(candidates) \cup errors
    <3>1. ToSet(<<>>) = {}
      BY DEF ToSet
    <3> QED
      BY <2>1, <3>1 DEF ScanInv
  <2>3. NoStockLost'
    <3>1. ToSet(universe') \subseteq Symbolic(result') \cup last_scan_errors'
      BY <2>1, <2>2
    <3>2. ASSUME \A i \in DOMAIN result' : result'[i].score # NaN, NEW c \in ToSet(result')
          PROVE  /\ c \in ToSet(alerting') \/ Ahead(alerting', c) = AlertLimit
                 /\ LET shown == board'[sector[c.symbol]]
                    IN  c \in ToSet(shown) \/ Ahead(shown, c) = SectorLimit
      <4>1. (\A i \in DOMAIN candidates : candidates[i].score # NaN) /\ c \in ToSet(candidates)
        BY <2>1, <3>2
      <4> QED
        BY <1>9, <4>1, EndShowsTheBest
    <3> QED
      BY <3>1, <3>2 DEF NoStockLost
  <2>4. candidates' \in Seq(Candidates)
    BY <2>1, EmptySeq
  <2> QED
    BY <2>1, <2>3, <2>4 DEF ScanInv, discovery
<1>10. CASE UNCHANGED marketVars
  <2>1. UNCHANGED <<discovery, universe, progress, page, last_scan_errors, scanning>>
    BY <1>10 DEF marketVars
  <2>2. NoStockLost' = NoStockLost
    BY <2>1 DEF NoStockLost, page
  <2> QED
    BY <2>1, <2>2 DEF ScanInv, discovery, progress
<1> QED
  BY <1>1, <1>2, <1>3, <1>4, <1>5, <1>6, <1>7, <1>8, <1>9, <1>10 DEF MarketNext

\* A scan loses no stock: it qualified or has an error, and if it qualified, it is
\* shown or outdone by as many as are shown.
THEOREM StocksAreKept == MarketSpec => []NoStockLost
<1>1. MarketInit => ScanInv
  <2> SUFFICES ASSUME MarketInit PROVE ScanInv
    OBVIOUS
  <2>1. /\ cached = <<>> /\ unscanned = <<>> /\ candidates = <<>> /\ universe = <<>>
        /\ scanning = FALSE /\ result = <<>>
    BY DEF MarketInit
  <2>2. <<>> \in Seq(DOMAIN sector) /\ <<>> \in Seq(Candidates) /\ Len(<<>>) <= ScanLimit
    BY EmptySeq, MarketAssumption
  <2>3. NoStockLost
    BY <2>1 DEF NoStockLost, ToSet
  <2> QED
    BY <2>1, <2>2, <2>3 DEF ScanInv
<1>2. ScanInv /\ [MarketNext]_marketVars => ScanInv'
  BY Scanning
<1>3. ScanInv => NoStockLost
  BY DEF ScanInv
<1> QED
  BY <1>1, <1>2, <1>3, PTL DEF MarketSpec

-----------------------------------------------------------------------------
\* Classifications name segments.
NamesSegments(m) == \A s \in DOMAIN m : m[s] \in ToSet(Segments)

\* What comes from a workbook, a file or a download names segments, and so does
\* what a scanner is made with.
SwingInv ==
    /\ NamesSegments(cap_cache) /\ NamesSegments(downloaded) /\ NamesSegments(symbol_to_cap)
    /\ SegmentsShowTheirBest

\* The names of the three segments, in their order.
LEMMA SegmentNames ==
    /\ ToSet(Segments) = {"Large Cap", "Mid Cap", "Small Cap"}
    /\ Segments[1] = "Large Cap" /\ Segments[2] = "Mid Cap" /\ Segments[3] = "Small Cap"
<1>1. /\ DOMAIN Segments = {1, 2, 3}
      /\ Segments[1] = "Large Cap" /\ Segments[2] = "Mid Cap" /\ Segments[3] = "Small Cap"
  BY DEF Segments
<1>2. ToSet(Segments) = {Segments[1], Segments[2], Segments[3]}
  <2> HIDE DEF Segments
  <2> QED
    BY <1>1 DEF ToSet
<1> QED
  BY <1>1, <1>2

\* A row that counts has one of the segments.
LEMMA RowsHaveSegments ==
    ASSUME NEW w \in Workbooks, NEW i \in DOMAIN w, NEW j \in DOMAIN SheetSegments(w[i])
    PROVE  SheetSegments(w[i])[j] \in ToSet(Segments) /\ j \in DOMAIN w[i].rows
<1> DEFINE sheet == w[i]
           named == {k \in DOMAIN sheet.rows : sheet.rows[k].symbol # ""}
           row == sheet.rows[j]
<1>1. sheet \in ToSet(w)
  BY DEF ToSet
<1>2. j \in named
  BY DEF SheetSegments
<1>3. j \in DOMAIN sheet.rows /\ row \in ToSet(sheet.rows)
  BY <1>2 DEF ToSet
<1>4. /\ sheet.segment \in ToSet(Segments) \cup {""}
      /\ row.category \in ToSet(Segments) \cup {""}
  BY <1>1, <1>3, SwingAssumption
<1>5. SheetSegments(sheet)[j] = SegmentOf(sheet, row, Cardinality(named \cap 1..j))
  BY <1>2 DEF SheetSegments
<1>6. \A n : SegmentOf(sheet, row, n) \in ToSet(Segments)
  <2> HIDE DEF row, sheet
  <2> QED
    BY <1>4, SegmentNames DEF SegmentOf
<1> QED
  BY <1>3, <1>5, <1>6

\* A finite set of positions has its greatest among them.
LEMMA LastOf ==
    ASSUME NEW n \in Nat, NEW X \in SUBSET (1..n), X # {}
    PROVE  Max(X) \in X
BY TakeGreatest

\* So has every stock of a workbook.
LEMMA WorkbookNamesSegments ==
    ASSUME NEW w \in Workbooks
    PROVE  NamesSegments(parse_excel(w))
<1> SUFFICES ASSUME NEW s \in DOMAIN parse_excel(w)
             PROVE  parse_excel(w)[s] \in ToSet(Segments)
  BY DEF NamesSegments
<1> DEFINE stocks == {row.symbol : row \in UNION {ToSet(sheet.rows) : sheet \in ToSet(w)}} \ {""}
           sheets == {i \in DOMAIN w : RowsOf(w[i], s) # {}}
           n == Max(sheets)
           m == Max(RowsOf(w[n], s))
<1>1. s \in stocks /\ parse_excel(w)[s] = SheetSegments(w[n])[m]
  BY DEF parse_excel
<1>2. w \in Seq(ToSet(w)) /\ \A sheet \in ToSet(w) : sheet.rows \in Seq(ToSet(sheet.rows))
  BY SwingAssumption
<1>3. \A T : \A q \in Seq(T) : Len(q) \in Nat /\ DOMAIN q = 1 .. Len(q)
  OBVIOUS
<1>4. PICK i \in DOMAIN w : \E j \in DOMAIN w[i].rows : w[i].rows[j].symbol = s /\ s # ""
  <2>1. PICK sheet \in ToSet(w) : \E row \in ToSet(sheet.rows) : row.symbol = s /\ s # ""
    BY <1>1
  <2>2. PICK i \in DOMAIN w : sheet = w[i]
    BY DEF ToSet
  <2>3. \E j \in DOMAIN sheet.rows : sheet.rows[j].symbol = s /\ s # ""
    BY <2>1 DEF ToSet
  <2> QED
    BY <2>2, <2>3
<1>9. PICK j \in DOMAIN w[i].rows : w[i].rows[j].symbol = s /\ s # ""
  BY <1>4
<1>5. j \in RowsOf(w[i], s)
  BY <1>9 DEF RowsOf, SheetSegments
<1>6. n \in sheets
  <2>1. Len(w) \in Nat /\ sheets \in SUBSET (1 .. Len(w)) /\ sheets # {}
    BY <1>2, <1>3, <1>5
  <2> HIDE DEF sheets
  <2> QED
    BY <2>1, LastOf
<1> HIDE DEF n
<1>7. m \in RowsOf(w[n], s)
  <2> DEFINE X == RowsOf(w[n], s)
             l == Len(w[n].rows)
  <2>1. w[n] \in ToSet(w)
    BY <1>6 DEF ToSet
  <2>2. l \in Nat /\ DOMAIN w[n].rows = 1..l
    BY <1>2, <1>3, <2>1
  <2>3. X \in SUBSET (1..l)
    BY <1>6, <2>2, RowsHaveSegments DEF RowsOf
  <2>4. X # {}
    BY <1>6
  <2> HIDE DEF X, l
  <2>5. Max(X) \in X
    BY <2>2, <2>3, <2>4, LastOf
  <2> QED
    BY <2>5 DEF X
<1>8. m \in DOMAIN SheetSegments(w[n]) /\ n \in DOMAIN w
  BY <1>6, <1>7 DEF RowsOf
<1> HIDE DEF m
<1> QED
  BY <1>1, <1>8, RowsHaveSegments

\* A list has what another one has of a segment.
SegmentOfList(z, segment, b) ==
    LET shown == {i \in DOMAIN z : z[i].cap_segment = segment}
    IN  /\ Cardinality(shown) = Len(b)
        /\ \A i \in shown : z[i] \in ToSet(b)
        /\ ToSet(b) \subseteq ToSet(z)

\* The three orders of looking at the same result: each segment is its middle.
LEMMA EachSegmentIsShown ==
    ASSUME NEW T, NEW best \in [1..3 -> Seq(T)], NEW k \in 1..3,
           \A x \in T : x.cap_segment \in ToSet(Segments) \cup {"Unclassified"},
           \A j \in 1..3 : \A x \in ToSet(best[j]) : x.cap_segment = Segments[j]
    PROVE  SegmentOfList((best[1] \o best[2]) \o best[3], Segments[k], best[k])
<1> DEFINE z == (best[1] \o best[2]) \o best[3]
           S == {x \in T : x.cap_segment = Segments[k]}
           a == IF k = 1 THEN <<>> ELSE IF k = 2 THEN best[1] ELSE best[1] \o best[2]
           c == IF k = 1 THEN best[2] \o best[3] ELSE IF k = 2 THEN best[3] ELSE <<>>
<1>1. /\ 1 \in 1..3 /\ 2 \in 1..3 /\ 3 \in 1..3 /\ (k = 1 \/ k = 2 \/ k = 3)
      /\ best[1] \in Seq(T) /\ best[2] \in Seq(T) /\ best[3] \in Seq(T)
  OBVIOUS
<1>2. /\ best[1] \o best[2] \in Seq(T) /\ best[2] \o best[3] \in Seq(T)
      /\ <<>> \in Seq(T) /\ <<>> \o best[1] = best[1]
  BY <1>1, EmptySeq, ConcatProperties, ConcatEmptySeq, Zenon
<1>3. z \in Seq(T) /\ z \o <<>> = z
  BY <1>1, <1>2, ConcatProperties, ConcatEmptySeq, Zenon
<1>4. a \in Seq(T) /\ c \in Seq(T)
  BY <1>1, <1>2, Zenon
<1>5. z = (a \o best[k]) \o c
  <2>1. CASE k = 1
    <3>1. z = best[1] \o (best[2] \o best[3])
      <4>1. Joined(best[1], best[2], best[3])
        BY <1>1, Regrouped, Zenon
      <4> QED
        BY <4>1, Zenon DEF Joined
    <3>2. a = <<>> /\ c = best[2] \o best[3] /\ best[k] = best[1]
      BY <2>1
    <3> QED
      BY <1>2, <3>1, <3>2, Zenon
  <2>2. CASE k = 2
    BY <2>2
  <2>3. CASE k = 3
    <3>1. a = best[1] \o best[2] /\ c = <<>> /\ best[k] = best[3]
      BY <2>3
    <3> QED
      BY <1>3, <3>1, Zenon
  <2> QED
    BY <1>1, <2>1, <2>2, <2>3
<1>6. /\ ToSet(best[1] \o best[2]) = ToSet(best[1]) \cup ToSet(best[2])
      /\ ToSet(best[2] \o best[3]) = ToSet(best[2]) \cup ToSet(best[3])
  <2>1. \A x, y \in Seq(T) : ToSet(x \o y) = ToSet(x) \cup ToSet(y)
    BY ElementsOfBoth
  <2> QED
    BY <1>1, <2>1, Zenon
<1>7. \A j \in 1..3 : j # k => ToSet(best[j]) \cap S = {}
  <2>1. \A j \in 1..3 : j = 1 \/ j = 2 \/ j = 3
    OBVIOUS
  <2>2. \A j \in 1..3 : j # k => Segments[j] # Segments[k]
    <3>1. /\ Segments[1] # Segments[2] /\ Segments[2] # Segments[1] /\ Segments[1] # Segments[3]
          /\ Segments[3] # Segments[1] /\ Segments[2] # Segments[3] /\ Segments[3] # Segments[2]
      BY SegmentNames
    <3> QED
      BY <1>1, <2>1, <3>1, Zenon
  <2> QED
    BY <2>2
<1>8. ToSet(a) \cap S = {} /\ ToSet(c) \cap S = {}
  <2>1. ToSet(<<>>) = {}
    BY DEF ToSet
  <2>2. CASE k = 1
    BY <1>6, <1>7, <2>1, <2>2
  <2>3. CASE k = 2
    BY <1>6, <1>7, <2>1, <2>3
  <2>4. CASE k = 3
    BY <1>6, <1>7, <2>1, <2>4
  <2> QED
    BY <1>1, <2>2, <2>3, <2>4
<1>9. ToSet(best[k]) \subseteq S
  <2>1. \A x \in ToSet(best[k]) : x \in T
    BY <1>1 DEF ToSet
  <2> QED
    BY <2>1
<1> HIDE DEF a, c, S
<1>10. PartIn(z, S, best[k])
  <2>1. best[k] \in Seq(T)
    OBVIOUS
  <2> HIDE DEF z
  <2> QED
    BY <1>4, <1>5, <1>8, <1>9, <2>1, OneAfterTheOther, Zenon
<1> HIDE DEF z
<1>11. {i \in DOMAIN z : z[i] \in S} = {i \in DOMAIN z : z[i].cap_segment = Segments[k]}
  <2>1. \A i \in DOMAIN z : z[i] \in T
    BY <1>3
  <2> QED
    BY <2>1 DEF S
<1> QED
  BY <1>10, <1>11 DEF z, SegmentOfList, PartIn

\* A candidate's score is a number, and it has a segment or is unclassified.
LEMMA SwingCandidateTyped ==
    ASSUME NamesSegments(symbol_to_cap), NEW s, NEW r
    PROVE  /\ SwingCandidate(s, r).score \in Int
           /\ SwingCandidate(s, r).cap_segment \in ToSet(Segments) \cup {"Unclassified"}
<1>1. SwingScore(r) \in Int
  <2> DEFINE a == IF r.trend THEN 20 ELSE 0
             b == IF r.momentum THEN 15 ELSE 0
             c == IF r.volume THEN 10 ELSE 0
             d == IF r.breakout THEN 10 ELSE 0
  <2>1. SwingScore(r) = 45 + a + b + c + d
    BY DEF SwingScore
  <2>2. a \in Int /\ b \in Int /\ c \in Int /\ d \in Int
    OBVIOUS
  <2> HIDE DEF a, b, c, d
  <2> QED
    BY <2>1, <2>2
<1>2. SwingCandidate(s, r).score = SwingScore(r)
  BY DEF SwingCandidate
<1>3. SwingCandidate(s, r).cap_segment
        = IF s \in DOMAIN symbol_to_cap THEN symbol_to_cap[s] ELSE "Unclassified"
  BY DEF SwingCandidate
<1>4. SwingCandidate(s, r).cap_segment \in ToSet(Segments) \cup {"Unclassified"}
  BY <1>3, Zenon DEF NamesSegments
<1> QED
  BY <1>1, <1>2, <1>4

\* The candidates of a scan are a list, typed as above.
LEMMA FoundTyped ==
    ASSUME NamesSegments(symbol_to_cap), NEW A \in SUBSET ToSet(SwingUniverse),
           NEW reading \in [A -> DailyReadings],
           NEW found, found = [i \in DOMAIN Select(SwingUniverse, DOMAIN reading) |->
                                 SwingCandidate(Select(SwingUniverse, DOMAIN reading)[i],
                                                reading[Select(SwingUniverse, DOMAIN reading)[i]])]
    PROVE  /\ found \in Seq(ToSet(found))
           /\ \A x \in ToSet(found) : /\ x.score \in Int
                                      /\ x.cap_segment \in ToSet(Segments) \cup {"Unclassified"}
<1> DEFINE T == ToSet(SwingUniverse)
           answering == Select(SwingUniverse, DOMAIN reading)
           f(i) == SwingCandidate(answering[i], reading[answering[i]])
<1>1. SwingUniverse \in Seq(T)
  BY SwingAssumption
<1>2. Ordered(SwingUniverse, T \X T)
  BY <1>1 DEF Ordered
<1>3. answering \in Seq(T)
  <2> HIDE DEF T
  <2> QED
    BY <1>1, <1>2, Selecting
<1> HIDE DEF answering
<1>4. Len(answering) \in Nat /\ DOMAIN answering = 1 .. Len(answering)
  BY <1>3
<1>5. found = [i \in 1 .. Len(answering) |-> f(i)]
  BY <1>4 DEF answering
<1>6. \A i \in DOMAIN found : /\ found[i].score \in Int
                              /\ found[i].cap_segment \in ToSet(Segments) \cup {"Unclassified"}
  BY <1>5, SwingCandidateTyped
<1> HIDE DEF f
<1>7. found \in Seq(ToSet(found))
  BY <1>4, <1>5 DEF ToSet
<1> QED
  BY <1>6, <1>7 DEF ToSet

\* What is selected of a list in the order of scores is in that order.
LEMMA SegmentDescends ==
    ASSUME NEW T, NEW s \in Seq(T), \A x \in T : x.score \in Int, NEW segment,
           \A i, j \in DOMAIN s : i < j => s[j].score <= s[i].score
    PROVE  /\ InSegment(s, segment) \in Seq(T)
           /\ ToSet(InSegment(s, segment)) = {c \in ToSet(s) : c.cap_segment = segment}
           /\ \A i, j \in DOMAIN InSegment(s, segment) :
                i < j => InSegment(s, segment)[j].score <= InSegment(s, segment)[i].score
<1> DEFINE R == {p \in T \X T : p[2].score <= p[1].score}
           S == {c \in ToSet(s) : c.cap_segment = segment}
           q == Select(s, S)
<1>1. Ordered(s, R)
  <2>1. ASSUME NEW i \in DOMAIN s, NEW j \in DOMAIN s, i < j PROVE <<s[i], s[j]>> \in R
    <3>1. s[i] \in T /\ s[j] \in T /\ s[j].score <= s[i].score
      BY <2>1
    <3> QED
      BY <3>1
  <2> QED
    BY <2>1 DEF Ordered
<1>2. InSegment(s, segment) = q
  BY DEF InSegment
<1> HIDE DEF q, R, S
<1>3. q \in Seq(T) /\ ToSet(q) = ToSet(s) \cap S /\ Ordered(q, R)
  BY <1>1, Selecting DEF q
<1>4. ToSet(q) = {c \in ToSet(s) : c.cap_segment = segment}
  BY <1>3 DEF S
<1>5. ASSUME NEW i \in DOMAIN q, NEW j \in DOMAIN q, i < j PROVE q[j].score <= q[i].score
  <2>1. <<q[i], q[j]>> \in R
    BY <1>3, <1>5 DEF Ordered
  <2> QED
    BY <2>1 DEF R
<1> QED
  BY <1>2, <1>3, <1>4, <1>5

\* Of what was found, each segment's best are selected; unless nothing has a segment.
LEMMA SelectionShowsTheBest ==
    ASSUME NEW s, s \in Seq(ToSet(s)),
           \A x \in ToSet(s) : /\ x.score \in Int
                               /\ x.cap_segment \in ToSet(Segments) \cup {"Unclassified"},
           NEW z, z = Selection(s), NEW c \in ToSet(s) \ ToSet(z)
    PROVE  \/ c.cap_segment = "Unclassified" /\ Classified(s)
           \/ LET shown == {i \in DOMAIN z : z[i].cap_segment = c.cap_segment}
              IN  Cardinality(shown) = SwingLimit /\ \A i \in shown : z[i].score >= c.score
<1> DEFINE T == ToSet(s)
           ranked == ByScore(s)
           shown == {i \in DOMAIN z : z[i].cap_segment = c.cap_segment}
<1>0. s \in Seq(T) /\ c \in T /\ SwingLimit \in Nat /\ \A x \in T : x.score \in Int
  BY SwingAssumption
<1>1. /\ ranked \in Seq(T) /\ ToSet(ranked) = T
      /\ \A i, j \in DOMAIN ranked : i < j => ranked[j].score <= ranked[i].score
  <2> HIDE DEF T
  <2>1. \A x \in T : x.score \in Int
    BY <1>0
  <2> QED
    BY <1>0, <2>1, ScoresDescend DEF T
<1>2. CASE ~Classified(s)
  <2>1. z = First(ranked, SwingLimit)
    BY <1>2 DEF Selection, Leading
  <2>2. /\ z \in Seq(T) /\ Len(z) = SwingLimit
        /\ \A i \in DOMAIN z : c.score <= z[i].score
    <3> HIDE DEF ranked, T
    <3>1. c \in ToSet(ranked) \ ToSet(First(ranked, SwingLimit))
      BY <1>0, <1>1, <2>1
    <3> QED
      BY <1>0, <1>1, <2>1, <3>1, FirstOutdo
  <2>3. \A x \in T : x.cap_segment = "Unclassified"
    BY <1>2 DEF Classified
  <2> HIDE DEF T
  <2>4. shown = 1 .. SwingLimit
    BY <1>0, <2>2, <2>3
  <2>5. Cardinality(1 .. SwingLimit) = SwingLimit
    BY <1>0, FS_Interval
  <2>6. \A i \in shown : z[i].score >= c.score
    BY <1>0, <2>2
  <2> QED
    BY <2>4, <2>5, <2>6
<1>3. CASE Classified(s) /\ c.cap_segment # "Unclassified"
  <2> DEFINE group(k) == InSegment(ranked, Segments[k])
             best == [k \in 1..3 |-> First(group(k), SwingLimit)]
  <2>1. z = (best[1] \o best[2]) \o best[3]
    BY <1>3 DEF Selection, Leading
  <2>2. ASSUME NEW k \in 1..3
        PROVE  /\ group(k) \in Seq(T)
               /\ ToSet(group(k)) = {x \in T : x.cap_segment = Segments[k]}
               /\ \A i, j \in DOMAIN group(k) : i < j => group(k)[j].score <= group(k)[i].score
    <3> HIDE DEF ranked, T
    <3> QED
      BY <1>0, <1>1, SegmentDescends
  <2> HIDE DEF group
  <2>3. ASSUME NEW k \in 1..3
        PROVE  /\ best[k] \in Seq(T) /\ ToSet(best[k]) \subseteq ToSet(group(k))
               /\ \A x \in ToSet(group(k)) \ ToSet(best[k]) :
                    /\ Len(best[k]) = SwingLimit
                    /\ \A i \in DOMAIN best[k] : x.score <= best[k][i].score
    <3> DEFINE g == group(k)
    <3>1. best[k] = First(g, SwingLimit)
      OBVIOUS
    <3> HIDE DEF ranked, T, best
    <3>2. g \in Seq(T) /\ \A i, j \in DOMAIN g : i < j => g[j].score <= g[i].score
      BY <2>2
    <3> HIDE DEF g
    <3>3. /\ First(g, SwingLimit) \in Seq(T) /\ ToSet(First(g, SwingLimit)) \subseteq ToSet(g)
          /\ \A x \in ToSet(g) \ ToSet(First(g, SwingLimit)) :
               /\ Len(First(g, SwingLimit)) = SwingLimit
               /\ \A i \in DOMAIN First(g, SwingLimit) : x.score <= First(g, SwingLimit)[i].score
      BY <1>0, <3>2, FirstOutdo
    <3> QED
      BY <3>1, <3>3 DEF g
  <2>4. best \in [1..3 -> Seq(T)]
    BY <2>3
  <2>5. PICK k \in 1..3 : c.cap_segment = Segments[k]
    <3>1. c.cap_segment \in ToSet(Segments)
      BY <1>0, <1>3 DEF T
    <3>2. 1 \in 1..3 /\ 2 \in 1..3 /\ 3 \in 1..3
      OBVIOUS
    <3> HIDE DEF T, best, ranked
    <3> QED
      BY <3>1, <3>2, SegmentNames
  <2>6. \A j \in 1..3 : \A x \in ToSet(best[j]) : x.cap_segment = Segments[j]
    BY <2>2, <2>3
  <2> HIDE DEF best, T, ranked
  <2>7. /\ Cardinality(shown) = Len(best[k])
        /\ \A i \in shown : z[i] \in ToSet(best[k])
        /\ ToSet(best[k]) \subseteq ToSet(z)
    <3>1. \A x \in T : x.cap_segment \in ToSet(Segments) \cup {"Unclassified"}
      BY DEF T
    <3>2. SegmentOfList((best[1] \o best[2]) \o best[3], Segments[k], best[k])
      BY <2>4, <2>6, <3>1, EachSegmentIsShown, Zenon
    <3>3. SegmentOfList(z, Segments[k], best[k])
      BY <2>1, <3>2, Zenon
    <3> QED
      BY <2>5, <3>3 DEF SegmentOfList
  <2>8. c \in ToSet(group(k)) \ ToSet(best[k])
    BY <1>0, <2>2, <2>5, <2>7
  <2>9. Len(best[k]) = SwingLimit /\ \A i \in DOMAIN best[k] : c.score <= best[k][i].score
    BY <2>3, <2>8
  <2>10. \A x \in ToSet(best[k]) : x.score >= c.score
    <3>1. \A i \in DOMAIN best[k] : best[k][i] \in T
      BY <2>3
    <3> QED
      BY <1>0, <2>9, <3>1 DEF ToSet
  <2> QED
    BY <2>7, <2>9, <2>10
<1> QED
  BY <1>2, <1>3

\* A scan shows each segment's best, whoever asked for it.
LEMMA ScanSwingStep ==
    ASSUME SwingInv, NEW A \in SUBSET ToSet(SwingUniverse), NEW reading \in [A -> DailyReadings],
           ScanSwing(reading)
    PROVE  SwingInv'
<1> DEFINE found == [i \in DOMAIN Select(SwingUniverse, DOMAIN reading) |->
                                 SwingCandidate(Select(SwingUniverse, DOMAIN reading)[i],
                                                reading[Select(SwingUniverse, DOMAIN reading)[i]])]
<1>1. /\ qualified' = found /\ swing_candidates' = Selection(found)
      /\ UNCHANGED <<cap_cache, downloaded, symbol_to_cap>>
  BY DEF ScanSwing, loader
<1>2. /\ found \in Seq(ToSet(found))
      /\ \A x \in ToSet(found) : /\ x.score \in Int
                                 /\ x.cap_segment \in ToSet(Segments) \cup {"Unclassified"}
  BY FoundTyped DEF SwingInv
<1> HIDE DEF found
<1>3. SegmentsShowTheirBest'
  BY <1>1, <1>2, SelectionShowsTheBest DEF SegmentsShowTheirBest
<1> QED
  BY <1>1, <1>3 DEF SwingInv, NamesSegments

\* Whatever classification a scanner has, and wherever from, a candidate left out
\* by a scan was outdone in its segment.
THEOREM SegmentsAreFair == SwingSpec => []SegmentsShowTheirBest
<1>1. SwingInit => SwingInv
  BY DEF SwingInit, SwingInv, NoClassification, NamesSegments, SegmentsShowTheirBest, ToSet
<1>2. SwingInv /\ [SwingNext]_swingVars => SwingInv'
  <2> SUFFICES ASSUME SwingInv, [SwingNext]_swingVars PROVE SwingInv'
    OBVIOUS
  <2>1. NamesSegments(NoClassification)
    BY DEF NamesSegments, NoClassification
  <2>2. ASSUME NEW m, NamesSegments(m), Construct(m)
        PROVE  NamesSegments(symbol_to_cap)' /\ SegmentsShowTheirBest'
    BY <2>2 DEF Construct, Restrict, NamesSegments, SegmentsShowTheirBest, ToSet
  <2>3. ASSUME NEW w \in Workbooks, Download(w) PROVE SwingInv'
    <3>1. NamesSegments(parse_excel(w))
      BY WorkbookNamesSegments
    <3>2. downloaded' = parse_excel(w) /\ UNCHANGED <<cap_cache, symbol_to_cap, qualified, swing_candidates>>
      BY <2>3 DEF Download, scans
    <3> QED
      BY <3>1, <3>2 DEF SwingInv, NamesSegments, SegmentsShowTheirBest
  <2>4. CASE WriteCache
    <3>1. Construct(downloaded) /\ cap_cache' = downloaded /\ downloaded' = NoClassification
      BY <2>4 DEF WriteCache
    <3>2. NamesSegments(symbol_to_cap)' /\ SegmentsShowTheirBest'
      BY <2>2, <3>1 DEF SwingInv
    <3> QED
      BY <2>1, <3>1, <3>2 DEF SwingInv, NamesSegments
  <2>5. CASE WriteFails
    <3>1. Construct(NoClassification) /\ cap_cache' = cap_cache /\ downloaded' = NoClassification
      BY <2>5 DEF WriteFails
    <3>2. NamesSegments(symbol_to_cap)' /\ SegmentsShowTheirBest'
      BY <2>1, <2>2, <3>1
    <3> QED
      BY <2>1, <3>1, <3>2 DEF SwingInv, NamesSegments
  <2>6. CASE LoaderCrash
    <3>1. /\ downloaded' = NoClassification /\ symbol_to_cap' = NoClassification
          /\ cap_cache' = cap_cache /\ qualified' = <<>>
      BY <2>6 DEF LoaderCrash
    <3>2. SegmentsShowTheirBest'
      BY <3>1 DEF SegmentsShowTheirBest, ToSet
    <3> QED
      BY <2>1, <3>1, <3>2 DEF SwingInv, NamesSegments
  <2>7. CASE DownloadFails
    <3> DEFINE m == IF cap_file = "whole" THEN cap_cache ELSE NoClassification
    <3>1. Construct(m) /\ UNCHANGED <<cap_cache, downloaded>> /\ NamesSegments(m)
      BY <2>1, <2>7 DEF DownloadFails, SwingInv
    <3> HIDE DEF m
    <3>2. NamesSegments(symbol_to_cap)' /\ SegmentsShowTheirBest'
      BY <2>2, <3>1
    <3> QED
      BY <3>1, <3>2 DEF SwingInv, NamesSegments
  <2>8. ASSUME NEW A \in SUBSET ToSet(SwingUniverse), NEW reading \in [A -> DailyReadings],
               ScanSwing(reading)
        PROVE  SwingInv'
    BY <2>8, ScanSwingStep
  <2>9. CASE UNCHANGED swingVars
    BY <2>9 DEF swingVars, loader, scans, SwingInv, NamesSegments, SegmentsShowTheirBest
  <2> QED
    BY <2>3, <2>4, <2>5, <2>6, <2>7, <2>8, <2>9 DEF SwingNext
<1>3. SwingInv => SegmentsShowTheirBest
  BY DEF SwingInv
<1> QED
  BY <1>1, <1>2, <1>3, PTL DEF SwingSpec

-----------------------------------------------------------------------------
\* What is shown of a coin is one analysis, and the health that it gives the plan.
ShownTogether ==
    snapshot = NoPlan \/ \E r \in Readings, f \in Frames :
        snapshot = analyze_symbol(r, f) /\ health = live_signal_state(locked, r)

\* What the list of conditions marks, told by its side.
LEMMA Marks ==
    ASSUME NEW r \in Readings
    PROVE  LET m == Confluence(r)
               down == r.cross < 0 /\ r.macd < 0
           IN  /\ m.ema <=> IF down THEN r.cross < 0 ELSE r.cross > 0
               /\ m.macd <=> IF down THEN r.macd < 0 ELSE r.macd > 0
               /\ m.trend_5m <=> IF down THEN r.trend_5m < 0 ELSE r.trend_5m > 0
               /\ m.trend_15m <=> IF down THEN r.trend_15m < 0 ELSE r.trend_15m > 0
               /\ m.rsi <=> IF down THEN ShortZone(r) ELSE LongZone(r)
               /\ m.rvol <=> r.rvol >= 10
<1>1. /\ r.cross \in Int /\ r.macd \in Int /\ r.trend_5m \in Int /\ r.trend_15m \in Int
  BY SignalsAssumption
<1> DEFINE side == IF r.cross < 0 /\ r.macd < 0 THEN -1 ELSE 1
           ema == side * r.cross > 0
           macd == side * r.macd > 0
           trend5 == side * r.trend_5m > 0
           trend15 == side * r.trend_15m > 0
           zone == IF side > 0 THEN LongZone(r) ELSE ShortZone(r)
           volume == r.rvol >= 10
<1>2. Confluence(r) = [ema |-> ema, macd |-> macd, trend_5m |-> trend5, trend_15m |-> trend15,
                       rsi |-> zone, rvol |-> volume]
  BY DEF Confluence
<1>3. /\ ema <=> IF r.cross < 0 /\ r.macd < 0 THEN r.cross < 0 ELSE r.cross > 0
      /\ macd <=> IF r.cross < 0 /\ r.macd < 0 THEN r.macd < 0 ELSE r.macd > 0
      /\ trend5 <=> IF r.cross < 0 /\ r.macd < 0 THEN r.trend_5m < 0 ELSE r.trend_5m > 0
      /\ trend15 <=> IF r.cross < 0 /\ r.macd < 0 THEN r.trend_15m < 0 ELSE r.trend_15m > 0
      /\ zone <=> IF r.cross < 0 /\ r.macd < 0 THEN ShortZone(r) ELSE LongZone(r)
  BY <1>1
<1> HIDE DEF ema, macd, trend5, trend15, zone, volume
<1> DEFINE marks == [ema |-> ema, macd |-> macd, trend_5m |-> trend5, trend_15m |-> trend15,
                     rsi |-> zone, rvol |-> volume]
<1>4. /\ marks.ema = ema /\ marks.macd = macd /\ marks.trend_5m = trend5
      /\ marks.trend_15m = trend15 /\ marks.rsi = zone /\ marks.rvol = volume
  OBVIOUS
<1> HIDE DEF marks
<1>5. volume <=> r.rvol >= 10
  BY DEF volume
<1>6. Confluence(r) = marks
  BY <1>2 DEF marks
<1> QED
  BY <1>3, <1>4, <1>5, <1>6

\* The health of a plan, told by its side.
LEMMA HealthSays ==
    ASSUME NEW r \in Readings, NEW plan, NEW state, state = live_signal_state(plan, r)
    PROVE  LET aligned == IF plan.direction = "LONG" THEN Bullish(r) ELSE Bearish(r)
               strong == /\ IF plan.direction = "LONG" THEN LongZone(r) ELSE ShortZone(r)
                         /\ r.rvol >= 10
               opposed == IF plan.direction = "LONG"
                          THEN r.trend_5m < 0 /\ r.trend_15m < 0 /\ r.macd <= 0
                          ELSE r.trend_5m > 0 /\ r.trend_15m > 0 /\ r.macd >= 0
           IN  \/ state = "INVALIDATED"
               \/ state = "CONFIRMED" /\ aligned /\ strong
               \/ state = "MOMENTUM COOLING" /\ aligned /\ ~strong
               \/ state = "REVERSAL WATCH" /\ ~aligned /\ opposed
               \/ state = "WATCH" /\ ~aligned /\ ~opposed
<1>1. /\ r.cross \in Int /\ r.macd \in Int /\ r.trend_5m \in Int /\ r.trend_15m \in Int
  BY SignalsAssumption
<1> DEFINE side == IF plan.direction = "LONG" THEN 1 ELSE -1
           trends == side * r.trend_5m > 0 /\ side * r.trend_15m > 0
           opposed == side * r.trend_5m < 0 /\ side * r.trend_15m < 0 /\ side * r.macd <= 0
           momentum == side * r.cross > 0 /\ side * r.macd > 0
           strength == (IF side > 0 THEN LongZone(r) ELSE ShortZone(r)) /\ r.rvol >= 10
           beyond == side * 500 * r.price <= side * plan.stop_loss
<1>2. state = IF beyond THEN "INVALIDATED"
              ELSE IF trends /\ momentum /\ strength THEN "CONFIRMED"
              ELSE IF trends /\ momentum THEN "MOMENTUM COOLING"
              ELSE IF opposed THEN "REVERSAL WATCH"
              ELSE "WATCH"
  BY DEF live_signal_state
<1>3. CASE plan.direction = "LONG"
  <2>1. /\ trends /\ momentum <=> Bullish(r)
        /\ opposed <=> r.trend_5m < 0 /\ r.trend_15m < 0 /\ r.macd <= 0
        /\ strength <=> LongZone(r) /\ r.rvol >= 10
    BY <1>1, <1>3 DEF Bullish
  <2> HIDE DEF trends, opposed, momentum, strength, beyond
  <2> QED
    BY <1>2, <1>3, <2>1
<1>4. CASE plan.direction # "LONG"
  <2>1. /\ trends /\ momentum <=> Bearish(r)
        /\ opposed <=> r.trend_5m > 0 /\ r.trend_15m > 0 /\ r.macd >= 0
        /\ strength <=> ShortZone(r) /\ r.rvol >= 10
    BY <1>1, <1>4 DEF Bearish
  <2> HIDE DEF trends, opposed, momentum, strength, beyond
  <2> QED
    BY <1>2, <1>4, <2>1
<1> QED
  BY <1>3, <1>4

\* The rules agree on every reading, whatever was locked before.
LEMMA RulesAgree ==
    ASSUME NEW r \in Readings, NEW f \in Frames,
           snapshot = analyze_symbol(r, f), health = live_signal_state(locked, r)
    PROVE  MarksAgree
<1>1. snapshot.confluence = Confluence(r) /\ snapshot.of = r
  BY DEF analyze_symbol
<1>2. /\ r.cross \in Int /\ r.macd \in Int /\ r.trend_5m \in Int /\ r.trend_15m \in Int
  BY SignalsAssumption
<1> DEFINE m == Confluence(r)
           aligned == m.ema /\ m.macd /\ m.trend_5m /\ m.trend_15m
           all == aligned /\ m.rsi /\ m.rvol
           ownSide == (r.cross > 0) <=> (locked.direction = "LONG")
<1>3. /\ aligned <=> Bullish(r) \/ Bearish(r)
      /\ Bullish(r) => (all <=> LongZone(r) /\ r.rvol >= 10)
      /\ Bearish(r) => (all <=> ShortZone(r) /\ r.rvol >= 10)
  <2> HIDE DEF m
  <2>1. /\ m.ema <=> IF r.cross < 0 /\ r.macd < 0 THEN r.cross < 0 ELSE r.cross > 0
        /\ m.macd <=> IF r.cross < 0 /\ r.macd < 0 THEN r.macd < 0 ELSE r.macd > 0
        /\ m.trend_5m <=> IF r.cross < 0 /\ r.macd < 0 THEN r.trend_5m < 0 ELSE r.trend_5m > 0
        /\ m.trend_15m <=> IF r.cross < 0 /\ r.macd < 0 THEN r.trend_15m < 0 ELSE r.trend_15m > 0
        /\ m.rsi <=> IF r.cross < 0 /\ r.macd < 0 THEN ShortZone(r) ELSE LongZone(r)
        /\ m.rvol <=> r.rvol >= 10
    BY Marks DEF m
  <2>2. (Bullish(r) => ~(r.cross < 0)) /\ (Bearish(r) => r.cross < 0 /\ r.macd < 0)
    BY <1>2 DEF Bullish, Bearish
  <2>3. aligned <=> Bullish(r) \/ Bearish(r)
    BY <1>2, <2>1 DEF Bullish, Bearish
  <2> QED
    BY <2>1, <2>2, <2>3
<1> HIDE DEF aligned, all, ownSide
<1>4. /\ Bullish(r) => r.cross > 0 /\ ~Bearish(r) /\ r.trend_5m > 0 /\ r.trend_15m > 0 /\ r.macd >= 0
      /\ Bearish(r) => ~(r.cross > 0) /\ r.trend_5m < 0 /\ r.trend_15m < 0 /\ r.macd <= 0
  BY <1>2 DEF Bullish, Bearish
<1>5. all => aligned
  BY DEF all
<1>6. ownSide <=> ((r.cross > 0) <=> (locked.direction = "LONG"))
  BY DEF ownSide
<1>7. /\ health = "CONFIRMED" => all
      /\ health = "MOMENTUM COOLING" => aligned /\ ~all
      /\ all /\ health # "INVALIDATED" =>
             health = IF ownSide THEN "CONFIRMED" ELSE "REVERSAL WATCH"
  BY <1>3, <1>4, <1>5, <1>6, HealthSays
<1> QED
  BY <1>1, <1>7 DEF MarksAgree, aligned, all, ownSide

\* An analysis and the health of the plan are drawn together.
LEMMA Together == SignalsSpec => []ShownTogether
<1>1. SignalsInit => ShownTogether
  BY DEF SignalsInit, ShownTogether
<1>2. ShownTogether /\ [SignalsNext]_signalVars => ShownTogether'
  <2> SUFFICES ASSUME ShownTogether, [SignalsNext]_signalVars PROVE ShownTogether'
    OBVIOUS
  <2>1. CASE Redraw
    BY <2>1 DEF Redraw, ShownTogether
  <2>2. ASSUME NEW r \in Readings, ScanCoin(r) PROVE ShownTogether'
    BY <2>2 DEF ScanCoin, ShownTogether
  <2>3. ASSUME NEW r \in Readings, NEW f \in Frames, Refresh(r, f) PROVE ShownTogether'
    BY <2>3 DEF Refresh, ShownTogether
  <2>4. CASE UNCHANGED signalVars
    BY <2>4 DEF signalVars, ShownTogether
  <2> QED
    BY <2>1, <2>2, <2>3, <2>4 DEF SignalsNext
<1> QED
  BY <1>1, <1>2, PTL DEF SignalsSpec

\* The list of conditions of a coin and the health of its locked plan are separate
\* code, drawn together, and agree on every market.
THEOREM RulesAgreeAlways == SignalsSpec => []MarksAgree
<1>1. ShownTogether => MarksAgree
  <2>1. snapshot = NoPlan => MarksAgree
    BY DEF MarksAgree
  <2> QED
    BY <2>1, RulesAgree DEF ShownTogether
<1> QED
  BY <1>1, Together, PTL

-----------------------------------------------------------------------------
\* How far a level is from the price; two levels on one side differ in it.
LEMMA OneSide ==
    ASSUME NEW p \in Int, NEW levels \in SUBSET Int,
           (\A x \in levels : x > p) \/ (\A x \in levels : x < p)
    PROVE  /\ \A x \in levels : Distance(x, p) \in Int
           /\ \A x, y \in levels : x # y => Distance(x, p) # Distance(y, p)
BY DEF Distance

\* An order of the levels by their distance.
Nearer(q, p) == \A i, j \in DOMAIN q : i < j => Distance(q[i], p) < Distance(q[j], p)

\* The levels can be put in the order of their distance.
LEMMA LevelsInOrder ==
    ASSUME NEW p \in Int, NEW levels \in SUBSET Int, IsFiniteSet(levels),
           (\A x \in levels : x > p) \/ (\A x \in levels : x < p)
    PROVE  \E q \in SetToSeqs(levels) : Nearer(q, p)
<1> DEFINE R == {d \in levels \X levels : Distance(d[1], p) < Distance(d[2], p)}
<1>1. \A x, y \in levels : (<<x, y>> \in R) <=> Distance(x, p) < Distance(y, p)
  OBVIOUS
<1> HIDE DEF R
<1>2. /\ \A x \in levels : Distance(x, p) \in Int
      /\ \A x, y \in levels : x # y => Distance(x, p) # Distance(y, p)
  BY OneSide
<1>3. \A x \in levels : <<x, x>> \notin R
  BY <1>1, <1>2
<1>4. \A x, y, z \in levels : <<x, y>> \in R /\ <<y, z>> \in R => <<x, z>> \in R
  BY <1>1, <1>2
<1>5. \A x, y \in levels : x # y => <<x, y>> \in R \/ <<y, x>> \in R
  BY <1>1, <1>2
<1>6. PICK q \in SetToSeqs(levels) : Ordered(q, R)
  BY <1>3, <1>4, <1>5, Sorting
<1>7. q \in Seq(levels)
  BY Enumerates
<1>8. Nearer(q, p)
  <2>1. ASSUME NEW i \in DOMAIN q, NEW j \in DOMAIN q, i < j
        PROVE  Distance(q[i], p) < Distance(q[j], p)
    <3>1. q[i] \in levels /\ q[j] \in levels
      BY <1>7
    <3>2. <<q[i], q[j]>> \in R
      BY <1>6, <2>1 DEF Ordered
    <3> QED
      BY <1>1, <3>1, <3>2, Zenon
  <2> QED
    BY <2>1 DEF Nearer
<1> QED
  BY <1>8

\* What is shown of the first k levels covers them.
CoversFirst(C, q, k, p) ==
    /\ \A s \in C : \E i \in 1..k : s = q[i]
    /\ IsFiniteSet(C) /\ Cardinality(C) \in 0..3
    /\ \A i \in 1..k :
         \/ q[i] \in C
         \/ \E s \in C : Close(q[i], s, p) /\ Distance(s, p) <= Distance(q[i], p)
         \/ Cardinality(C) = 3 /\ \A s \in C : Distance(s, p) <= Distance(q[i], p)

\* One level more, as Nearest takes it.
LEMMA OneMoreLevel ==
    ASSUME NEW p \in Int, NEW levels \in SUBSET Int, NEW q \in Seq(levels), Nearer(q, p),
           \A i, j \in DOMAIN q : i # j => q[i] # q[j],
           \A x \in levels : Distance(x, p) \in Int,
           NEW k \in Nat, k + 1 \in DOMAIN q, NEW C, CoversFirst(C, q, k, p),
           NEW D, D = IF Cardinality(C) = 3 \/ \E c \in C : Close(q[k + 1], c, p) THEN C
                      ELSE C \cup {q[k + 1]}
    PROVE  CoversFirst(D, q, k + 1, p)
<1> DEFINE l == q[k + 1]
<1>1. \A i \in 1..k : i \in DOMAIN q /\ i < k + 1
  OBVIOUS
<1>2. \A i \in 1..k : q[i] # l /\ Distance(q[i], p) < Distance(l, p)
  BY <1>1 DEF Nearer
<1>3. l \in levels /\ Distance(l, p) \in Int /\ \A i \in 1..k : q[i] \in levels /\ Distance(q[i], p) \in Int
  <2>1. \A i \in DOMAIN q : q[i] \in levels
    OBVIOUS
  <2>2. l \in levels /\ \A i \in 1..k : q[i] \in levels
    BY <1>1, <2>1
  <2> HIDE DEF l
  <2> QED
    BY <2>2, Zenon
<1>4. \A s \in C : s # l /\ Distance(s, p) <= Distance(l, p)
  BY <1>2, <1>3 DEF CoversFirst
<1>5. \A i \in 1 .. k + 1 : i \in 1..k \/ i = k + 1
  OBVIOUS
<1>6. 1..k \subseteq 1 .. k + 1 /\ k + 1 \in 1 .. k + 1
  OBVIOUS
<1> HIDE DEF l
<1>7. CASE Cardinality(C) = 3 \/ \E c \in C : Close(l, c, p)
  <2>1. D = C
    BY <1>7 DEF l
  <2>2. \/ \E s \in C : Close(l, s, p) /\ Distance(s, p) <= Distance(l, p)
        \/ Cardinality(C) = 3 /\ \A s \in C : Distance(s, p) <= Distance(l, p)
    BY <1>4, <1>7
  <2>3. ASSUME NEW i \in 1 .. k + 1
        PROVE  \/ q[i] \in C
               \/ \E s \in C : Close(q[i], s, p) /\ Distance(s, p) <= Distance(q[i], p)
               \/ Cardinality(C) = 3 /\ \A s \in C : Distance(s, p) <= Distance(q[i], p)
    <3>1. CASE i \in 1..k
      BY <3>1 DEF CoversFirst
    <3>2. CASE i = k + 1
      BY <2>2, <3>2 DEF l
    <3> QED
      BY <1>5, <3>1, <3>2
  <2>4. \A s \in C : \E i \in 1 .. k + 1 : s = q[i]
    BY <1>6 DEF CoversFirst
  <2>5. IsFiniteSet(C) /\ Cardinality(C) \in 0..3
    BY DEF CoversFirst
  <2> QED
    BY <2>1, <2>3, <2>4, <2>5, Zenon DEF CoversFirst
<1>8. CASE ~(Cardinality(C) = 3 \/ \E c \in C : Close(l, c, p))
  <2>1. D = C \cup {l}
    BY <1>8 DEF l
  <2>2. IsFiniteSet(C) /\ Cardinality(C) \in 0..3 /\ Cardinality(C) # 3 /\ l \notin C
    BY <1>4, <1>8 DEF CoversFirst
  <2>3. IsFiniteSet(D) /\ Cardinality(D) = Cardinality(C) + 1
    BY <2>1, <2>2, FS_AddElement
  <2>4. Cardinality(D) \in 0..3
    BY <2>2, <2>3
  <2>5. ASSUME NEW i \in 1 .. k + 1
        PROVE  \/ q[i] \in D
               \/ \E s \in D : Close(q[i], s, p) /\ Distance(s, p) <= Distance(q[i], p)
    <3>1. CASE i \in 1..k
      <4>1. \/ q[i] \in C
            \/ \E s \in C : Close(q[i], s, p) /\ Distance(s, p) <= Distance(q[i], p)
        BY <2>2, <3>1 DEF CoversFirst
      <4> QED
        BY <2>1, <4>1
    <3>2. CASE i = k + 1
      BY <2>1, <3>2 DEF l
    <3> QED
      BY <1>5, <3>1, <3>2
  <2>6. \A s \in D : \E i \in 1 .. k + 1 : s = q[i]
    BY <1>6, <2>1 DEF CoversFirst, l
  <2> QED
    BY <2>3, <2>4, <2>5, <2>6, Zenon DEF CoversFirst
<1> QED
  BY <1>7, <1>8

\* A level that is left out is close to one that is shown, or farther than three.
CoveredBy(shown, levels, p) ==
    /\ shown \subseteq levels
    /\ \A l \in levels \ shown :
         \/ \E s \in shown : Close(l, s, p) /\ Distance(s, p) <= Distance(l, p)
         \/ Cardinality(shown) = 3 /\ \A s \in shown : Distance(s, p) <= Distance(l, p)

\* Every level of a set that Nearest leaves out is covered by those it takes.
LEMMA NearestCovers ==
    ASSUME NEW p \in Int, NEW levels \in SUBSET Int, IsFiniteSet(levels),
           (\A x \in levels : x > p) \/ (\A x \in levels : x < p)
    PROVE  CoveredBy(Nearest(levels, p), levels, p)
<1> DEFINE T == SUBSET levels
           order == CHOOSE q \in SetToSeqs(levels) :
                      \A i, j \in DOMAIN q : i < j => Distance(q[i], p) < Distance(q[j], p)
           n == Len(order)
           take(C, l) == IF Cardinality(C) = 3 \/ \E c \in C : Close(l, c, p) THEN C
                         ELSE C \cup {l}
           step == [d \in (1..n) \X T |-> take(d[2], order[d[1]])]
           Folded(g) == g = [X \in SUBSET (1..n) |->
                               IF X = {} THEN {} ELSE take(g[X \ {Max(X)}], order[Max(X)])]
           fold == CHOOSE g : Folded(g)
           P == {k \in 0..n : CoversFirst(fold[1..k], order, k, p)}
<1>1. order \in SetToSeqs(levels) /\ Nearer(order, p)
  <2>1. \E q \in SetToSeqs(levels) : Nearer(q, p)
    BY LevelsInOrder
  <2>2. order = CHOOSE q \in SetToSeqs(levels) : Nearer(q, p)
    BY DEF Nearer
  <2> HIDE DEF order
  <2> QED
    BY <2>1, <2>2
<1>2. /\ order \in Seq(levels) /\ ToSet(order) = levels
      /\ \A i, j \in DOMAIN order : i # j => order[i] # order[j]
  <2> HIDE DEF order
  <2> QED
    BY <1>1, Enumerates
<1>a. Nearest(levels, p) = fold[1..n]
  <2>1. DOMAIN order = 1..n
    <3> HIDE DEF order
    <3> QED
      BY <1>2
  <2>2. Nearest(levels, p) = FoldLeft(take, {}, order)
    BY DEF Nearest
  <2> HIDE DEF order
  <2> QED
    BY <2>1, <2>2 DEF FoldLeft, MapThenFoldSet
<1> HIDE DEF order
<1>3. n \in Nat /\ DOMAIN order = 1..n
  BY <1>2
<1>4. Folded(fold)
  <2>1. {} \in T /\ step \in [(1..n) \X T -> T]
    BY <1>2, <1>3
  <2>2. PICK g \in FoldFunctions(n, T, {}, step) : TRUE
    <3> HIDE DEF step, n, T
    <3> QED
      BY <1>3, <2>1, FoldExists
  <2>3. ASSUME NEW X \in SUBSET (1..n), X # {}
        PROVE  step[<<Max(X), g[X \ {Max(X)}]>>] = take(g[X \ {Max(X)}], order[Max(X)])
    <3>1. Max(X) \in 1..n /\ X \ {Max(X)} \in SUBSET (1..n)
      BY <1>3, <2>3, TakeGreatest
    <3>2. g[X \ {Max(X)}] \in T
      BY <3>1 DEF FoldFunctions
    <3> HIDE DEF take
    <3> QED
      BY <3>1, <3>2
  <2>4. Folded(g)
    <3> HIDE DEF step, take
    <3> QED
      BY <2>2, <2>3 DEF FoldFunctions
  <2> HIDE DEF Folded
  <2> QED
    BY <2>4
<1>5. 0 \in P
  <2>1. fold[{}] = {}
    <3> HIDE DEF fold, take
    <3> QED
      BY <1>4
  <2>2. 1..0 = {} /\ 0 \in 0..n
    BY <1>3
  <2>3. CoversFirst({}, order, 0, p)
    BY FS_EmptySet DEF CoversFirst
  <2> HIDE DEF fold
  <2> QED
    BY <2>1, <2>2, <2>3
<1>6. ASSUME NEW k \in 0 .. n - 1, k \in P PROVE k + 1 \in P
  <2>0. k + 1 \in 1..n /\ k + 1 \in 0..n /\ (k + 1) - 1 = k /\ k \in Nat
    BY <1>3
  <2>1. /\ 1 .. k + 1 \in SUBSET (1..n) /\ 1 .. k + 1 # {} /\ Max(1 .. k + 1) = k + 1
        /\ (1 .. k + 1) \ {k + 1} = 1..k
    BY <1>3, <2>0, PrefixOf
  <2>2. fold[1 .. k + 1] = take(fold[1..k], order[k + 1])
    <3> HIDE DEF fold, take
    <3> QED
      BY <1>4, <2>1
  <2>3. CoversFirst(fold[1..k], order, k, p)
    BY <1>6
  <2> HIDE DEF fold, n
  <2>4. CoversFirst(fold[1 .. k + 1], order, k + 1, p)
    <3>1. \A x \in levels : Distance(x, p) \in Int
      BY OneSide
    <3> QED
      BY <1>1, <1>2, <1>3, <2>0, <2>2, <2>3, <3>1, OneMoreLevel
  <2> QED
    BY <2>0, <2>4
<1> HIDE DEF P, n, fold
<1>7. n \in P
  <2>1. \A k \in 0..n : k \in P
    BY <1>3, <1>5, <1>6, Induction
  <2> QED
    BY <1>3, <2>1
<1>8. CoversFirst(Nearest(levels, p), order, n, p)
  BY <1>7, <1>a DEF P
<1> DEFINE shown == Nearest(levels, p)
<1> HIDE DEF shown
<1>9. /\ \A s \in shown : \E i \in 1..n : s = order[i]
      /\ \A i \in 1..n :
         \/ order[i] \in shown
         \/ \E s \in shown : Close(order[i], s, p) /\ Distance(s, p) <= Distance(order[i], p)
         \/ Cardinality(shown) = 3 /\ \A s \in shown : Distance(s, p) <= Distance(order[i], p)
  BY <1>8, Zenon DEF CoversFirst, shown
<1>10. /\ \A l \in levels : \E i \in 1..n : l = order[i]
       /\ \A i \in 1..n : order[i] \in levels
  BY <1>2, <1>3 DEF ToSet
<1> QED
  BY <1>9, <1>10, Zenon DEF CoveredBy, shown

\* Swing highs and lows are finitely many, each on its side of the price.
LEMMA SwingLevels ==
    ASSUME NEW f \in Frames, NEW p
    PROVE  /\ Resistances(f, p) \in SUBSET Int /\ IsFiniteSet(Resistances(f, p))
           /\ \A x \in Resistances(f, p) : x > p
           /\ Supports(f, p) \in SUBSET Int /\ IsFiniteSet(Supports(f, p))
           /\ \A x \in Supports(f, p) : x < p
<1> DEFINE candle == [high : Int, low : Int]
           inner == 2 .. Len(f) - 1
           peaks == {i \in inner : f[i].high >= f[i-1].high /\ f[i].high > f[i+1].high /\ f[i].high > p}
           troughs == {i \in inner : f[i].low <= f[i-1].low /\ f[i].low < f[i+1].low /\ f[i].low < p}
           high == [i \in inner |-> f[i].high]
           low == [i \in inner |-> f[i].low]
<1>1. f \in Seq(candle)
  BY SignalsAssumption
<1>2. Len(f) \in Nat /\ \A i \in 1 .. Len(f) : f[i] \in candle
  <2> HIDE DEF candle
  <2> QED
    BY <1>1
<1>3. \A i \in inner : f[i].high \in Int /\ f[i].low \in Int
  <2>1. \A i \in inner : i \in 1 .. Len(f)
    BY <1>2
  <2> QED
    BY <1>2, <2>1
<1>4. IsFiniteSet(inner)
  <2>1. 2 \in Int /\ Len(f) - 1 \in Int
    BY <1>2
  <2> QED
    BY <2>1, FS_Interval
<1>5. IsFiniteSet(peaks) /\ IsFiniteSet(troughs) /\ peaks \subseteq inner /\ troughs \subseteq inner
  <2>1. peaks \subseteq inner /\ troughs \subseteq inner
    OBVIOUS
  <2> HIDE DEF peaks, troughs, inner
  <2> QED
    BY <1>4, <2>1, FS_Subset
<1>6. Resistances(f, p) = {high[i] : i \in peaks} /\ Supports(f, p) = {low[i] : i \in troughs}
  BY DEF Resistances, Supports
<1>7. /\ \A i \in peaks : high[i] \in Int /\ high[i] > p
      /\ \A i \in troughs : low[i] \in Int /\ low[i] < p
  BY <1>3
<1> HIDE DEF peaks, troughs, high, low
<1>8. IsFiniteSet(Resistances(f, p)) /\ IsFiniteSet(Supports(f, p))
  <2>1. IsFiniteSet({high[i] : i \in peaks}) /\ IsFiniteSet({low[i] : i \in troughs})
    BY <1>5, FiniteImage, Zenon
  <2> QED
    BY <1>6, <2>1, Zenon
<1> QED
  BY <1>6, <1>7, <1>8

\* Whatever the market, the levels that are left out are covered by those shown.
THEOREM NearestAreShown == SignalsSpec => []NearestLevelsShown
<1>1. ShownTogether => NearestLevelsShown
  <2> SUFFICES ASSUME ShownTogether, snapshot # NoPlan
               PROVE  /\ CoveredBy(snapshot.supports, Supports(snapshot.frame, snapshot.of.price), snapshot.of.price)
                      /\ CoveredBy(snapshot.resistances, Resistances(snapshot.frame, snapshot.of.price), snapshot.of.price)
    BY Zenon DEF NearestLevelsShown, CoveredBy
  <2>1. PICK r \in Readings, f \in Frames : snapshot = analyze_symbol(r, f)
    BY DEF ShownTogether
  <2>2. r.price \in Int
    BY SignalsAssumption
  <2>3. /\ CoveredBy(Nearest(Supports(f, r.price), r.price), Supports(f, r.price), r.price)
        /\ CoveredBy(Nearest(Resistances(f, r.price), r.price), Resistances(f, r.price), r.price)
    BY <2>2, SwingLevels, NearestCovers
  <2>4. /\ snapshot.of = r /\ snapshot.frame = f
        /\ snapshot.supports = Nearest(Supports(f, r.price), r.price)
        /\ snapshot.resistances = Nearest(Resistances(f, r.price), r.price)
    BY <2>1 DEF analyze_symbol
  <2> QED
    BY <2>3, <2>4, Zenon
<1> QED
  BY <1>1, Together, PTL
=============================================================================
