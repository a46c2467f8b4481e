---------------------- MODULE LongTermResearch_proofs -----------------------
(***************************************************************************)
(* Proofs about the research pages: no stock is dropped in silence, and on *)
(* page 3 a better one is not shown behind a worse one.  For every company,*)
(* whichever of its figures are missing, and every universe of stocks.     *)
(***************************************************************************)
EXTENDS LongTermResearch, SequenceLemmas

-----------------------------------------------------------------------------
\* Each stock of a scan is still unread, has a row or was skipped.  Page 3 scans
\* only after its script has imported the package, which then stays imported.
Accounted ==
    /\ imported \in BOOLEAN
    /\ provider_available => imported
    /\ researching = "page 3" => provider_available
    /\ unread \in Seq(ToSet(ResearchUniverse))
    /\ researching # "none" =>
         DOMAIN rows \cup skipped \cup ToSet(unread) = ToSet(ResearchUniverse)

\* What the loop has dealt with is no longer unread.
LEMMA OneStockRead ==
    ASSUME Accounted, unread # <<>>, unread' = Tail(unread),
           imported' \in BOOLEAN, provider_available' => imported',
           provider_available' = provider_available, researching' = researching,
           \/ skipped' = skipped \cup {Head(unread)} /\ rows' = rows
           \/ DOMAIN rows' = {Head(unread)} \cup DOMAIN rows /\ skipped' = skipped
    PROVE  Accounted'
<1> DEFINE u == unread
           w == unread'
<1>1. u \in Seq(ToSet(ResearchUniverse)) /\ w = Tail(u)
  BY DEF Accounted
<1>2. w \in Seq(ToSet(ResearchUniverse)) /\ ToSet(u) = {Head(u)} \cup ToSet(w)
  BY <1>1, HeadAndTail
<1>3. researching # "none" =>
        DOMAIN rows' \cup skipped' \cup ToSet(w) = ToSet(ResearchUniverse)
  BY <1>2 DEF Accounted
<1> QED
  BY <1>2, <1>3 DEF Accounted

LEMMA AccountedAlways == ResearchSpec => []Accounted
<1>1. ResearchInit => Accounted
  <2> SUFFICES ASSUME ResearchInit PROVE Accounted
    OBVIOUS
  <2>1. unread \in Seq(ToSet(ResearchUniverse))
    BY EmptySeq DEF ResearchInit
  <2> QED
    BY <2>1 DEF ResearchInit, Accounted
<1>2. Accounted /\ [ResearchNext]_researchVars => Accounted'
  <2> SUFFICES ASSUME Accounted, [ResearchNext]_researchVars PROVE Accounted'
    OBVIOUS
  <2>1. CASE Churn \/ UNCHANGED researchVars
    <3>1. UNCHANGED <<imported, provider_available, researching, unread, rows, skipped>>
      BY <2>1 DEF Churn, researchVars, loop
    <3>2. ToSet(unread)' = ToSet(unread)
      BY <3>1
    <3> QED
      BY <3>1, <3>2 DEF Accounted
  <2>2. CASE OpenPage3
    BY <2>2 DEF OpenPage3, Available, loop, Accounted
  <2>3. CASE ScanPage3 \/ ScanPage5
    <3>1. /\ imported' = imported /\ provider_available' = provider_available
          /\ researching' = "page 3" => provider_available
          /\ unread' = ResearchUniverse /\ rows' = NoRows /\ skipped' = {}
      BY <2>3 DEF ScanPage3, ScanPage5
    <3>2. DOMAIN NoRows = {}
      BY DEF NoRows
    <3>3. DOMAIN rows' \cup skipped' \cup ToSet(unread') = ToSet(ResearchUniverse)
      BY <3>1, <3>2
    <3> QED
      BY <3>1, <3>3, ResearchAssumption DEF Accounted
  <2>4. ASSUME NEW c \in Companies, Answer(c) PROVE Accounted'
    <3>1. /\ unread # <<>> /\ unread' = Tail(unread) /\ imported' = TRUE
          /\ provider_available' = provider_available /\ researching' = researching
      BY <2>4 DEF Answer, Available
    <3>2. Skip \/ \E row : Keep(row)
      BY <2>4 DEF Answer
    <3>3. \/ skipped' = skipped \cup {Head(unread)} /\ rows' = rows
          \/ DOMAIN rows' = {Head(unread)} \cup DOMAIN rows /\ skipped' = skipped
      BY <3>2 DEF Skip, Keep
    <3> QED
      BY <3>1, <3>3, OneStockRead
  <2>5. CASE AnswerFails
    <3>1. /\ unread # <<>> /\ unread' = Tail(unread) /\ imported' = TRUE
          /\ provider_available' = provider_available /\ researching' = researching
          /\ skipped' = skipped \cup {Head(unread)} /\ rows' = rows
      BY <2>5 DEF AnswerFails, Available, Skip
    <3> QED
      BY <3>1, OneStockRead
  <2>6. CASE Unavailable
    <3>1. ~imported /\ imported' = FALSE
      BY <2>6 DEF Unavailable, Available, Accounted
    <3>2. researching # "page 3" /\ ~provider_available
      BY <3>1 DEF Accounted
    <3>3. /\ unread # <<>> /\ unread' = Tail(unread)
          /\ provider_available' = provider_available /\ researching' = researching
          /\ skipped' = skipped \cup {Head(unread)} /\ rows' = rows
      BY <2>6, <3>2 DEF Unavailable, Skip
    <3> QED
      BY <3>1, <3>2, <3>3, OneStockRead
  <2>7. CASE EndResearch
    BY <2>7 DEF EndResearch, package, Accounted
  <2> QED
    BY <2>1, <2>2, <2>3, <2>4, <2>5, <2>6, <2>7 DEF ResearchNext
<1> QED
  BY <1>1, <1>2, PTL DEF ResearchSpec

\* No stock of the universe is passed over in silence, whatever Yahoo answers,
\* and whether the package comes or goes during the scan.
THEOREM StocksAreAccounted == ResearchSpec => []NothingSilent
<1>1. Accounted => NothingSilent
  <2> SUFFICES ASSUME Accounted, researching # "none", unread = <<>>
               PROVE  DOMAIN rows \cup skipped = ToSet(ResearchUniverse)
    BY DEF NothingSilent
  <2>1. ToSet(unread) = {}
    BY DEF ToSet
  <2> QED
    BY <2>1 DEF Accounted
<1> QED
  BY <1>1, AccountedAlways, PTL

-----------------------------------------------------------------------------
\* Products and quotients keep the order of numbers.
LEMMA Products ==
    /\ \A k \in Nat, x, y \in Int : x <= y => k * x <= k * y
    /\ \A n \in Nat, x, y \in Int : n > 0 /\ x <= y => x \div n <= y \div n
    /\ \A n \in Nat, x \in Int : n > 0 => x \div n \in Int
OBVIOUS

\* The first powers of a base.
PowersTo(power, base, k) ==
    \A i \in 0..k : power[i] = IF i = 0 THEN 1 ELSE base * power[i - 1]

\* The powers of a natural number are natural numbers.
LEMMA PowerType ==
    ASSUME NEW base \in Nat, NEW n \in Nat
    PROVE  \E power \in [0..n -> Nat] :
             PowersTo(power, base, n) /\ Power(base, n) = power[n]
<1> DEFINE Step(p, i) == IF i = 0 THEN 1 ELSE base * p[i - 1]
           P == {k \in 0..n : \E p \in [0..k -> Nat] : PowersTo(p, base, k)}
           Recursive(p) == p = [i \in 0..n |-> IF i = 0 THEN 1 ELSE base * p[i - 1]]
<1>1. 0 \in P
  <2> DEFINE p == [i \in 0..0 |-> 1]
  <2>1. p \in [0..0 -> Nat] /\ PowersTo(p, base, 0)
    BY DEF PowersTo
  <2> HIDE DEF p
  <2> QED
    BY <2>1
<1>2. ASSUME NEW k \in 0 .. n - 1, k \in P PROVE k + 1 \in P
  <2>1. PICK p \in [0..k -> Nat] : PowersTo(p, base, k)
    BY <1>2
  <2> DEFINE q == [i \in 0 .. k + 1 |-> IF i <= k THEN p[i] ELSE base * p[k]]
  <2>2. base * p[k] \in Nat
    <3>1. p[k] \in Nat
      OBVIOUS
    <3>2. \A x, y \in Nat : x * y \in Nat
      OBVIOUS
    <3> QED
      BY <3>1, <3>2
  <2>3. q \in [0 .. k + 1 -> Nat]
    BY <2>2
  <2>4. ASSUME NEW i \in 0 .. k + 1 PROVE q[i] = IF i = 0 THEN 1 ELSE base * q[i - 1]
    <3>1. CASE i <= k
      <4>1. i \in 0..k /\ (i # 0 => i - 1 \in 0 .. k + 1 /\ i - 1 <= k)
        BY <3>1
      <4>2. q[i] = p[i] /\ (i # 0 => q[i - 1] = p[i - 1])
        BY <4>1
      <4> HIDE DEF q
      <4> QED
        BY <2>1, <4>1, <4>2 DEF PowersTo
    <3>2. CASE ~(i <= k)
      <4>1. i = k + 1 /\ i # 0 /\ i - 1 = k /\ k \in 0 .. k + 1
        BY <3>2
      <4>2. q[i] = base * p[k] /\ q[k] = p[k]
        BY <4>1
      <4> HIDE DEF q
      <4> QED
        BY <4>1, <4>2
    <3> QED
      BY <3>1, <3>2
  <2> HIDE DEF q
  <2>5. PowersTo(q, base, k + 1)
    BY <2>4 DEF PowersTo
  <2>6. k + 1 \in 0..n
    OBVIOUS
  <2> QED
    BY <2>3, <2>5, <2>6
<1>3. n \in P
  <2> HIDE DEF P
  <2> QED
    BY <1>1, <1>2, Induction
<1>4. PICK p \in [0..n -> Nat] : PowersTo(p, base, n)
  BY <1>3
<1>5. Recursive(p)
  BY <1>4 DEF PowersTo
<1> DEFINE power == CHOOSE q : Recursive(q)
<1>6. Recursive(power)
  <2> HIDE DEF Recursive
  <2> QED
    BY <1>5
<1>7. Power(base, n) = power[n]
  BY DEF Power
<1> HIDE DEF power
<1>8. power \in [0..n -> Nat]
  <2> DEFINE Q == {k \in 0..n : power[k] \in Nat}
  <2>1. 0 \in Q
    BY <1>6
  <2>2. ASSUME NEW k \in 0 .. n - 1, k \in Q PROVE k + 1 \in Q
    <3>1. power[k] \in Nat /\ k + 1 \in 0..n /\ k + 1 # 0 /\ (k + 1) - 1 = k
      BY <2>2
    <3>2. power[k + 1] = base * power[k]
      BY <1>6, <3>1
    <3>3. \A x, y \in Nat : x * y \in Nat
      OBVIOUS
    <3> QED
      BY <3>1, <3>2, <3>3
  <2>3. \A k \in 0..n : k \in Q
    <3> HIDE DEF Q
    <3> QED
      BY <2>1, <2>2, Induction
  <2> QED
    BY <1>6, <2>3
<1>9. PowersTo(power, base, n)
  BY <1>6 DEF PowersTo
<1> QED
  BY <1>7, <1>8, <1>9

\* A greater base has greater powers; those of 0 are 0.
LEMMA PowerGrows ==
    ASSUME NEW x \in Nat, NEW y \in Nat, x <= y, NEW n \in Nat
    PROVE  /\ Power(x, n) \in Nat /\ Power(x, n) <= Power(y, n)
           /\ n # 0 => Power(0, n) = 0
<1>1. PICK p \in [0..n -> Nat] : PowersTo(p, x, n) /\ Power(x, n) = p[n]
  BY PowerType
<1>2. PICK q \in [0..n -> Nat] : PowersTo(q, y, n) /\ Power(y, n) = q[n]
  BY PowerType
<1>3. PICK r \in [0..n -> Nat] : PowersTo(r, 0, n) /\ Power(0, n) = r[n]
  BY PowerType
<1> DEFINE P == {k \in 0..n : p[k] <= q[k]}
<1>4. 0 \in P
  BY <1>1, <1>2 DEF PowersTo
<1>5. ASSUME NEW k \in 0 .. n - 1, k \in P PROVE k + 1 \in P
  <2>1. /\ k \in 0..n /\ k + 1 \in 0..n /\ k + 1 # 0 /\ (k + 1) - 1 = k
        /\ p[k] \in Nat /\ q[k] \in Nat /\ p[k] <= q[k]
    BY <1>5
  <2>2. p[k + 1] = x * p[k] /\ q[k + 1] = y * q[k]
    BY <1>1, <1>2, <2>1 DEF PowersTo
  <2>3. x * p[k] <= x * q[k] /\ q[k] * x <= q[k] * y
    BY <2>1, Products
  <2>4. x * q[k] = q[k] * x /\ q[k] * y = y * q[k]
    BY <2>1
  <2>5. \A a, b, c, d, e \in Int : a <= b /\ b = c /\ c <= d /\ d = e => a <= e
    OBVIOUS
  <2>6. x * p[k] \in Int /\ x * q[k] \in Int /\ q[k] * x \in Int /\ q[k] * y \in Int /\ y * q[k] \in Int
    BY <2>1
  <2>7. x * p[k] <= y * q[k]
    BY <2>3, <2>4, <2>5, <2>6, Zenon
  <2> QED
    BY <2>1, <2>2, <2>7
<1>6. \A k \in 0..n : k \in P
  <2> HIDE DEF P
  <2> QED
    BY <1>4, <1>5, Induction
<1>7. n \in 0..n
  OBVIOUS
<1>8. n # 0 => r[n] = 0
  <2>1. n # 0 => r[n] = 0 * r[n - 1] /\ r[n - 1] \in Nat
    BY <1>3 DEF PowersTo
  <2> QED
    BY <2>1
<1> QED
  BY <1>1, <1>2, <1>3, <1>6, <1>7, <1>8

\* What grows by at least so much, grows so from less to more, and by at least less.
LEMMA GrowsMore ==
    ASSUME NEW new \in Nat, NEW old \in Nat, NEW more \in Nat, NEW less \in Nat,
           new <= more, less <= old, NEW years \in Nat, NEW g \in -100 .. GrowthCap,
           GrowsBy(g, new, old, years)
    PROVE  \A h \in -100 .. g : GrowsBy(h, more, less, years)
<1> SUFFICES ASSUME NEW h \in -100 .. g PROVE GrowsBy(h, more, less, years)
  OBVIOUS
<1> DEFINE high == Power(100 + g, years)
           low == Power(100 + h, years)
           base == Power(100, years)
<1>1. 100 + g \in Nat /\ 100 + h \in Nat /\ 100 + h <= 100 + g
  BY DEF GrowthCap
<1>2. high \in Nat /\ low \in Nat /\ base \in Nat /\ low <= high
  <2>1. \A x, y \in Nat : x <= y => Power(x, years) \in Nat /\ Power(x, years) <= Power(y, years)
    BY PowerGrows
  <2>2. 100 \in Nat /\ 100 <= 100 /\ 100 + g <= 100 + g
    BY <1>1
  <2> QED
    BY <1>1, <2>1, <2>2, Zenon
<1>3. high * old <= new * base
  BY DEF GrowsBy
<1> SUFFICES low * less <= more * base
  BY DEF GrowsBy
<1> HIDE DEF high, low, base
<1>4. low * less <= low * old /\ old * low <= old * high /\ base * new <= base * more
  BY <1>2, Products
<1>5. low * old = old * low /\ old * high = high * old /\ new * base = base * new /\ base * more = more * base
  BY <1>2
<1>6. /\ low * less \in Int /\ low * old \in Int /\ high * old \in Int
      /\ new * base \in Int /\ more * base \in Int
  BY <1>2
<1>7. \A a, b, c \in Int : a <= b /\ b <= c => a <= c
  OBVIOUS
<1>8. low * old <= high * old
  BY <1>4, <1>5, Zenon
<1>9. new * base <= more * base
  BY <1>4, <1>5, Zenon
<1>10. low * less <= high * old
  BY <1>4, <1>6, <1>7, <1>8, Zenon
<1>11. low * less <= new * base
  BY <1>3, <1>6, <1>7, <1>10, Zenon
<1> QED
  BY <1>6, <1>7, <1>9, <1>11, Zenon

\* Growth is the last percentage that is reached.
LEMMA GrowthFound ==
    ASSUME NEW new \in Nat, NEW old \in Nat, NEW years \in Nat \ {0}
    PROVE  /\ Growth(new, old, years) \in -100 .. GrowthCap
           /\ GrowsBy(Growth(new, old, years), new, old, years)
           /\ \/ Growth(new, old, years) = GrowthCap
              \/ ~GrowsBy(Growth(new, old, years) + 1, new, old, years)
<1> DEFINE R == {g \in -100 .. GrowthCap : GrowsBy(g, new, old, years)}
           Found(g) == /\ GrowsBy(g, new, old, years)
                       /\ g = GrowthCap \/ ~GrowsBy(g + 1, new, old, years)
<1>1. GrowthCap \in Nat
  BY DEF GrowthCap
<1>2. -100 \in R
  <2>1. Power(0, years) = 0 /\ Power(100, years) \in Nat
    BY PowerGrows
  <2>2. \A k \in Nat : 0 * old <= new * k
    OBVIOUS
  <2>3. 100 + -100 = 0 /\ -100 \in -100 .. GrowthCap
    BY <1>1
  <2>4. Power(100 + -100, years) * old <= new * Power(100, years)
    BY <2>1, <2>2, <2>3, Zenon
  <2> QED
    BY <2>3, <2>4, Zenon DEF GrowsBy
<1>3. R \in SUBSET Int /\ IsFiniteSet(R)
  <2>1. IsFiniteSet(-100 .. GrowthCap)
    BY <1>1, FS_Interval
  <2>2. R \subseteq -100 .. GrowthCap /\ -100 .. GrowthCap \subseteq Int
    BY <1>1
  <2> HIDE DEF R
  <2> QED
    BY <2>1, <2>2, FS_Subset
<1>4. Max(R) \in R /\ \A g \in R : g <= Max(R)
  <2> HIDE DEF R
  <2> QED
    BY <1>2, <1>3, Extremes
<1>5. PICK m \in R : \A g \in R : g <= m
  BY <1>4
<1>6. Found(m)
  <2>1. ASSUME m # GrowthCap, GrowsBy(m + 1, new, old, years) PROVE FALSE
    <3>1. m + 1 \in R
      BY <1>1, <2>1
    <3> QED
      BY <1>1, <1>5, <3>1
  <2> QED
    BY <2>1
<1>7. \E g \in -100 .. GrowthCap : Found(g)
  BY <1>6
<1>8. Growth(new, old, years) = CHOOSE g \in -100 .. GrowthCap : Found(g)
  BY DEF Growth
<1> DEFINE g == Growth(new, old, years)
<1>9. g \in -100 .. GrowthCap /\ Found(g)
  <2> HIDE DEF Found
  <2> QED
    BY <1>7, <1>8
<1> QED
  BY <1>9

\* From less to more the growth is no smaller.
LEMMA GrowthGrows ==
    ASSUME NEW new \in Nat, NEW old \in Nat, NEW more \in Nat, NEW less \in Nat,
           new <= more, less <= old, NEW years \in Nat \ {0}
    PROVE  /\ Growth(new, old, years) <= Growth(more, less, years)
           /\ Growth(new, old, years) \in Int /\ Growth(more, less, years) \in Int
<1> DEFINE g == Growth(new, old, years)
           h == Growth(more, less, years)
<1>1. /\ g \in -100 .. GrowthCap /\ GrowsBy(g, new, old, years)
      /\ h \in -100 .. GrowthCap /\ (h = GrowthCap \/ ~GrowsBy(h + 1, more, less, years))
  BY GrowthFound
<1> HIDE DEF g, h
<1>2. \A k \in -100 .. g : GrowsBy(k, more, less, years)
  BY <1>1, GrowsMore
<1>3. GrowthCap \in Nat
  BY DEF GrowthCap
<1>4. ~(h < g)
  <2> SUFFICES ASSUME h < g PROVE FALSE
    OBVIOUS
  <2>1. h + 1 \in -100 .. g /\ h # GrowthCap
    BY <1>1, <1>3
  <2> QED
    BY <1>1, <1>2, <2>1
<1>5. g <= h /\ g \in Int /\ h \in Int
  BY <1>1, <1>3, <1>4
<1> QED
  BY <1>5 DEF g, h
-----------------------------------------------------------------------------
Number == Int \cup {Missing}

\* Cutting at the bounds keeps the order.
LEMMA BoundedKeeps ==
    ASSUME NEW x \in Number, NEW y \in Number, NoLess(x, y)
    PROVE  NoLess(Bounded(x), Bounded(y)) /\ Bounded(x) \in Number
  BY ResearchAssumption DEF Number, NoLess, Bounded

\* What is no less is there if the other is, and weighs no less.
LEMMA WeightKeeps ==
    ASSUME NEW x \in Number, NEW y \in Number, NoLess(x, y), NEW k \in Nat
    PROVE  /\ Weight(x, k) = Weight(y, k) /\ Weight(x, k) \in Nat
           /\ Weighted(x, k) \in Int /\ Weighted(y, k) \in Int
           /\ Weighted(y, k) <= Weighted(x, k)
<1>1. CASE x = Missing
  BY <1>1 DEF NoLess, Weight, Weighted
<1>2. CASE x # Missing
  <2>1. x \in Int /\ y \in Int /\ y # Missing /\ y <= x
    BY <1>2 DEF NoLess, Number
  <2>2. k * y <= k * x /\ k * y = y * k /\ k * x = x * k /\ y * k \in Int /\ x * k \in Int
    BY <2>1, Products
  <2>3. y * k <= x * k
    BY <2>2, Zenon
  <2> QED
    BY <1>2, <2>1, <2>2, <2>3 DEF Weight, Weighted
<1> QED
  BY <1>1, <1>2

\* The mean of what is no less is no less.
LEMMA MeanKeeps ==
    ASSUME NEW a \in Number, NEW b \in Number, NEW c \in Number, NEW d \in Number,
           NoLess(a, b), NoLess(c, d), NEW k \in Nat
    PROVE  /\ NoLess(Mean(a, c, k), Mean(b, d, k))
           /\ Mean(a, c, k) \in Number /\ Mean(b, d, k) \in Number
<1> DEFINE above == Weighted(a, k) + Weighted(c, k)
           below == Weighted(b, k) + Weighted(d, k)
           weight == Weight(a, 1) + Weight(c, 1)
<1>1. /\ above \in Int /\ below \in Int /\ below <= above
  BY WeightKeeps
<1>2. weight \in Nat /\ Weight(b, 1) + Weight(d, 1) = weight
  BY WeightKeeps
<1>3. (a = Missing /\ c = Missing) <=> (b = Missing /\ d = Missing)
  BY DEF NoLess
<1>4. CASE a = Missing /\ c = Missing
  BY <1>3, <1>4 DEF Mean, NoLess, Number
<1>5. CASE ~(a = Missing /\ c = Missing)
  <2>1. weight > 0
    BY <1>5 DEF Weight
  <2>2. Mean(a, c, k) = above \div weight /\ Mean(b, d, k) = below \div weight
    BY <1>2, <1>3, <1>5 DEF Mean
  <2> HIDE DEF above, below, weight
  <2>3. above \div weight \in Int /\ below \div weight \in Int /\ below \div weight <= above \div weight
    BY <1>1, <1>2, <2>1, Products
  <2> QED
    BY <2>2, <2>3, ResearchAssumption DEF Number, NoLess
<1> QED
  BY <1>4, <1>5

\* Growth over the years with a profit is a percentage, where there are two.
LEMMA CagrType ==
    ASSUME NEW x \in Seq(Number)
    PROVE  cagr(x) \in Number
<1> DEFINE clean == {i \in DOMAIN x : IsPositive(x[i])}
           k == Cardinality(clean)
           years == IF k > 4 THEN 3 ELSE k - 1
<1>1. Len(x) \in Nat /\ DOMAIN x = 1 .. Len(x)
  OBVIOUS
<1>2. clean \in SUBSET Int /\ IsFiniteSet(clean) /\ k \in Nat
  <2>1. clean \in SUBSET (1 .. Len(x))
    BY <1>1
  <2> HIDE DEF clean
  <2>2. IsFiniteSet(clean) /\ k \in 0 .. Len(x)
    BY <1>1, <2>1, TakeGreatest
  <2> QED
    BY <2>1, <2>2
<1>3. \A i \in clean : x[i] \in Nat
  <2>1. \A i \in DOMAIN x : x[i] \in Number
    OBVIOUS
  <2> QED
    BY <2>1 DEF IsPositive, Number
<1>4. CASE k < 2
  BY <1>4 DEF cagr, Number
<1>5. CASE ~(k < 2)
  <2>1. cagr(x) = Growth(x[Min(clean)], x[Max(clean)], years)
    BY <1>5 DEF cagr
  <2>2. clean # {}
    <3> HIDE DEF clean
    <3> SUFFICES ASSUME clean = {} PROVE FALSE
      OBVIOUS
    <3>1. k = 0
      BY FS_EmptySet
    <3> QED
      BY <1>5, <3>1
  <2>3. years \in Nat \ {0}
    <3> HIDE DEF k
    <3> QED
      BY <1>2, <1>5
  <2> HIDE DEF clean, years
  <2>4. x[Min(clean)] \in Nat /\ x[Max(clean)] \in Nat
    BY <1>2, <1>3, <2>2, Extremes
  <2>5. \A v, w \in Nat : Growth(v, w, years) \in Int
    <3>1. \A v \in Nat : v <= v
      OBVIOUS
    <3> QED
      BY <2>3, <3>1, GrowthGrows
  <2>6. cagr(x) \in Int
    BY <2>1, <2>4, <2>5, Zenon
  <2> QED
    BY <2>6 DEF Number
<1> QED
  BY <1>4, <1>5

\* Growth is no less if it leads from no more to no less, without a loss.
LEMMA CagrKeeps ==
    ASSUME NEW x \in Seq(Number), NEW y \in Seq(Number), Len(x) = Len(y), GrowsAsMuch(x, y)
    PROVE  NoLess(cagr(x), cagr(y))
<1> DEFINE n == Len(x)
           years == IF n > 4 THEN 3 ELSE n - 1
           AllClean(z) == {i \in DOMAIN z : IsPositive(z[i])} = 1..n
<1>1. n \in Nat /\ DOMAIN x = 1..n /\ DOMAIN y = 1..n
  <2>1. Len(x) \in Nat /\ DOMAIN x = 1 .. Len(x) /\ DOMAIN y = 1 .. Len(y)
    OBVIOUS
  <2> QED
    BY <2>1
<1>2. \A i \in 1..n : IsPositive(x[i]) /\ IsPositive(y[i])
  BY <1>1 DEF GrowsAsMuch
<1>3. AllClean(x) /\ AllClean(y)
  BY <1>1, <1>2
<1>4. IsFiniteSet(1..n) /\ Cardinality(1..n) = n
  <2> HIDE DEF n
  <2> QED
    BY <1>1, FS_Interval
<1>5. CASE n < 2
  <2>1. cagr(x) = Missing /\ cagr(y) = Missing
    BY <1>3, <1>4, <1>5 DEF cagr
  <2> QED
    BY <2>1 DEF NoLess
<1>6. CASE ~(n < 2)
  <2> HIDE DEF n
  <2>1. 1..n # {} /\ 1..n \in SUBSET Int /\ 1 \in 1..n /\ n \in 1..n
    BY <1>1, <1>6
  <2>2. Min(1..n) = 1 /\ Max(1..n) = n
    <3>1. /\ Min(1..n) \in 1..n /\ Min(1..n) <= 1
          /\ Max(1..n) \in 1..n /\ n <= Max(1..n)
      BY <1>4, <2>1, Extremes
    <3>2. \A m \in 1..n : (m <= 1 => m = 1) /\ (n <= m => m = n)
      BY <1>1
    <3> QED
      BY <3>1, <3>2, Zenon
  <2>3. cagr(x) = Growth(x[1], x[n], years) /\ cagr(y) = Growth(y[1], y[n], years)
    BY <1>3, <1>4, <1>6, <2>2 DEF cagr
  <2>4. years \in Nat \ {0}
    BY <1>1, <1>6
  <2>5. \A i \in 1..n : x[i] \in Nat /\ y[i] \in Nat
    <3>1. \A i \in 1..n : x[i] \in Number /\ y[i] \in Number
      BY <1>1
    <3> QED
      BY <1>2, <3>1 DEF IsPositive, Number
  <2>6. y[1] <= x[1] /\ x[n] <= y[n]
    BY <1>1, <2>1 DEF GrowsAsMuch, n
  <2> HIDE DEF years
  <2> DEFINE g == Growth(x[1], x[n], years)
             h == Growth(y[1], y[n], years)
  <2>7. h <= g /\ h \in Int /\ g \in Int
    BY <2>1, <2>4, <2>5, <2>6, GrowthGrows
  <2>8. cagr(x) = g /\ cagr(y) = h
    BY <2>3
  <2> HIDE DEF g, h
  <2> QED
    BY <2>7, <2>8, ResearchAssumption DEF NoLess
<1> QED
  BY <1>5, <1>6

-----------------------------------------------------------------------------
\* A period's figures are numbers or missing, as many as there are years.
Figures(s) ==
    /\ {s.revenue, s.earnings, s.fcf} \subseteq Seq(Number)
    /\ Len(s.years) \in Nat /\ DOMAIN s.years = 1 .. Len(s.years)
    /\ Len(s.revenue) = Len(s.years) /\ Len(s.earnings) = Len(s.years) /\ Len(s.fcf) = Len(s.years)
    /\ {s.roe, s.roce, s.debt, s.pe, s.pb} \subseteq Number

\* The years of both statements can be put in order.
LEMMA YearsListed ==
    ASSUME NEW c \in Companies
    PROVE  /\ Years(c) \in Seq(DOMAIN c.income \cap DOMAIN c.balance)
           /\ Len(Years(c)) \in Nat /\ DOMAIN Years(c) = 1 .. Len(Years(c))
<1> DEFINE D == DOMAIN c.income \cap DOMAIN c.balance
           R == {p \in D \X D : p[1] > p[2]}
           Descends(q) == \A i, j \in DOMAIN q : i < j => q[i] > q[j]
<1>1. IsFiniteSet(D) /\ D \subseteq Int
  <2>1. DOMAIN c.income \subseteq Int /\ IsFiniteSet(DOMAIN c.income)
    BY ResearchAssumption
  <2>2. D \subseteq DOMAIN c.income
    OBVIOUS
  <2> HIDE DEF D
  <2> QED
    BY <2>1, <2>2, FS_Subset
<1>2. \A x, y \in D : <<x, y>> \in R <=> x > y
  <2> HIDE DEF D
  <2> QED
    OBVIOUS
<1>3. Years(c) = CHOOSE q \in SetToSeqs(D) : Descends(q)
  BY DEF Years
<1> HIDE DEF D, R
<1>4. PICK q \in SetToSeqs(D) : Ordered(q, R)
  <2>1. \A x \in D : <<x, x>> \notin R
    BY <1>1, <1>2
  <2>2. \A x, y, z \in D : <<x, y>> \in R /\ <<y, z>> \in R => <<x, z>> \in R
    BY <1>1, <1>2
  <2>3. \A x, y \in D : x # y => <<x, y>> \in R \/ <<y, x>> \in R
    BY <1>1, <1>2
  <2> QED
    BY <1>1, <2>1, <2>2, <2>3, Sorting
<1>5. Descends(q)
  <2>1. q \in Seq(D)
    BY <1>1, Enumerates
  <2>2. \A i \in DOMAIN q : q[i] \in D
    BY <2>1
  <2> SUFFICES ASSUME NEW i \in DOMAIN q, NEW j \in DOMAIN q, i < j PROVE q[i] > q[j]
    OBVIOUS
  <2>3. <<q[i], q[j]>> \in R
    BY <1>4 DEF Ordered
  <2> QED
    BY <1>2, <2>2, <2>3
<1> HIDE DEF Descends
<1>6. Years(c) \in SetToSeqs(D)
  BY <1>3, <1>5
<1>7. Years(c) \in Seq(D) /\ DOMAIN Years(c) = 1 .. Cardinality(D) /\ Len(Years(c)) = Cardinality(D) /\ Cardinality(D) \in Nat
  BY <1>1, <1>6, Enumerates
<1> QED
  BY <1>7 DEF D

\* The return on capital is a number, or missing.
LEMMA RoceType == ASSUME NEW c \in Companies PROVE roce(c) \in Number
<1> DEFINE years == Years(c)
           current == Capital(c.balance[years[1]])
           before == IF Len(years) < 2 THEN Missing ELSE Capital(c.balance[years[2]])
           total == Weighted(current, 1) + Weighted(before, 1)
           weight == Weight(current, 1) + Weight(before, 1)
           ebit == c.income[years[1]].ebit
<1>1. years \in Seq(DOMAIN c.income \cap DOMAIN c.balance) /\ Len(years) \in Nat /\ DOMAIN years = 1 .. Len(years)
  BY YearsListed
<1>2. roce(c) = IF years = <<>> THEN Missing
                ELSE IF ebit = Missing \/ total <= 0 THEN Missing
                ELSE (100 * ebit * weight) \div total
  BY DEF roce
<1>3. CASE years = <<>>
  BY <1>2, <1>3 DEF Number
<1>4. CASE years # <<>>
  <2>1. 1 \in DOMAIN years /\ (~(Len(years) < 2) => 2 \in DOMAIN years)
    <3>1. Len(years) # 0
      BY <1>1, <1>4
    <3> QED
      BY <1>1, <3>1
  <2>2. \A i \in DOMAIN years : years[i] \in DOMAIN c.income /\ years[i] \in DOMAIN c.balance
    BY <1>1
  <2>3. \A y \in DOMAIN c.balance : c.balance[y].debt \in Number /\ c.balance[y].equity \in Number
    BY ResearchAssumption DEF Number
  <2>4. \A y \in DOMAIN c.balance : Capital(c.balance[y]) \in Number
    BY <2>3 DEF Capital, Number
  <2>5. ebit \in Number
    <3>1. \A y \in DOMAIN c.income : c.income[y].ebit \in Number
      BY ResearchAssumption DEF Number
    <3> QED
      BY <2>1, <2>2, <3>1
  <2>6. current \in Number /\ before \in Number
    <3>1. Missing \in Number
      BY DEF Number
    <3> QED
      BY <2>1, <2>2, <2>4, <3>1
  <2> HIDE DEF current, before, ebit, years
  <2>7. total \in Int /\ weight \in Nat
    <3>1. \A v \in Number : Weighted(v, 1) \in Int /\ Weight(v, 1) \in Nat
      BY DEF Weighted, Weight, Number
    <3> QED
      BY <2>6, <3>1
  <2> HIDE DEF total, weight
  <2>8. CASE ebit = Missing \/ total <= 0
    BY <1>2, <1>4, <2>8 DEF Number
  <2>9. CASE ~(ebit = Missing \/ total <= 0)
    <3>1. ebit \in Int /\ total \in Nat /\ total > 0
      BY <2>5, <2>7, <2>9 DEF Number
    <3>2. 100 * ebit * weight \in Int
      BY <2>7, <3>1
    <3>3. (100 * ebit * weight) \div total \in Int
      BY <3>1, <3>2, Products
    <3> QED
      BY <1>2, <1>4, <2>9, <3>3 DEF Number
  <2> QED
    BY <2>8, <2>9
<1> QED
  BY <1>3, <1>4

\* What is read of a company are its figures.
LEMMA SnapshotFigures == ASSUME NEW c \in Companies PROVE Figures(Snapshot(c))
<1> DEFINE s == Snapshot(c)
           years == Years(c)
           flow(y) == IF y \in DOMAIN c.cashflow THEN c.cashflow[y] ELSE [ocf |-> Missing, fcf |-> Missing]
           latest == IF years = <<>> THEN [debt |-> Missing, equity |-> Missing] ELSE c.balance[years[1]]
           ratio == IF latest.debt = Missing \/ latest.equity \in {Missing, 0} THEN Missing
                    ELSE Ratio(10 * latest.debt, latest.equity)
<1>1. /\ \A i \in DOMAIN years : years[i] \in DOMAIN c.income /\ years[i] \in DOMAIN c.balance
      /\ Len(years) \in Nat /\ DOMAIN years = 1 .. Len(years)
  <2>1. /\ years \in Seq(DOMAIN c.income \cap DOMAIN c.balance)
        /\ Len(years) \in Nat /\ DOMAIN years = 1 .. Len(years)
    BY YearsListed
  <2> HIDE DEF years
  <2> QED
    BY <2>1
<1>2. /\ s.years = years
      /\ s.revenue = [i \in DOMAIN years |-> c.income[years[i]].revenue]
      /\ s.earnings = [i \in DOMAIN years |-> c.income[years[i]].earnings]
      /\ s.fcf = [i \in DOMAIN years |-> flow(years[i]).fcf]
      /\ s.roe = Percent(c.roe) /\ s.roce = roce(c)
      /\ s.debt = IF c.debt # Missing THEN c.debt ELSE ratio
      /\ s.pe = c.pe /\ s.pb = c.pb
  BY DEF Snapshot
<1>3. /\ \A y \in DOMAIN c.income : c.income[y].revenue \in Number /\ c.income[y].earnings \in Number
      /\ \A y \in DOMAIN c.balance : c.balance[y].debt \in Number /\ c.balance[y].equity \in Number
      /\ \A y \in DOMAIN c.cashflow : c.cashflow[y].fcf \in Number
      /\ {c.roe, c.debt, c.pe, c.pb} \subseteq Number
  BY ResearchAssumption DEF Number
<1>4. \A y : flow(y).fcf \in Number
  BY <1>3 DEF Number
<1>5. latest.debt \in Number /\ latest.equity \in Number
  <2>1. CASE years = <<>>
    BY <2>1 DEF Number
  <2>2. CASE years # <<>>
    <3>1. 1 \in DOMAIN years
      BY <1>1, <2>2
    <3> QED
      BY <1>1, <1>3, <2>2, <3>1
  <2> QED
    BY <2>1, <2>2
<1> HIDE DEF latest, flow, s
<1>6. ratio \in Number
  <2>1. CASE latest.debt = Missing \/ latest.equity \in {Missing, 0}
    BY <2>1 DEF Number
  <2>2. CASE ~(latest.debt = Missing \/ latest.equity \in {Missing, 0})
    <3> DEFINE x == 10 * latest.debt
               y == latest.equity
    <3>1. x \in Int /\ y \in Int /\ y # 0
      BY <1>5, <2>2 DEF Number
    <3> HIDE DEF x, y
    <3>2. Ratio(x, y) \in Int
      <4>1. \A n \in Nat, v \in Int : n > 0 => v \div n \in Int
        BY Products
      <4>2. CASE y < 0
        <5>1. -y \in Nat /\ -y > 0 /\ -x \in Int
          BY <3>1, <4>2
        <5>2. (-x) \div (-y) \in Int
          BY <4>1, <5>1
        <5> QED
          BY <4>2, <5>2 DEF Ratio
      <4>3. CASE ~(y < 0)
        <5>1. y \in Nat /\ y > 0
          BY <3>1, <4>3
        <5>2. x \div y \in Int
          BY <3>1, <4>1, <5>1
        <5> QED
          BY <4>3, <5>2 DEF Ratio
      <4> QED
        BY <4>2, <4>3
    <3> QED
      BY <2>2, <3>2 DEF Number, x, y
  <2> QED
    BY <2>1, <2>2
<1> HIDE DEF ratio
<1>7. \A v \in Number : Percent(v) \in Number
  <2>1. \A v \in Int : v \div 100 \in Int
    BY Products
  <2> QED
    BY <2>1 DEF Percent, Number
<1>8. {s.roe, s.roce, s.debt, s.pe, s.pb} \subseteq Number
  BY <1>2, <1>3, <1>6, <1>7, RoceType
<1>9. /\ {s.revenue, s.earnings, s.fcf} \subseteq Seq(Number)
      /\ Len(s.revenue) = Len(years) /\ Len(s.earnings) = Len(years) /\ Len(s.fcf) = Len(years)
  <2> HIDE DEF years
  <2>1. s.revenue \in Seq(Number) /\ Len(s.revenue) = Len(years)
    BY <1>1, <1>2, <1>3
  <2>2. s.earnings \in Seq(Number) /\ Len(s.earnings) = Len(years)
    BY <1>1, <1>2, <1>3
  <2>3. s.fcf \in Seq(Number) /\ Len(s.fcf) = Len(years)
    BY <1>1, <1>2, <1>4
  <2> QED
    BY <2>1, <2>2, <2>3
<1> QED
  BY <1>1, <1>2, <1>8, <1>9 DEF Figures, s

-----------------------------------------------------------------------------
\* A row's components are numbers, or missing.
Measured(row) == {row.growth, row.profitability, row.financial, row.cash} \subseteq Number

\* The share of years with free cash counts the years; the latest one counts twice.
LEMMA CashKeeps ==
    ASSUME NEW a, NEW b, Figures(a), Figures(b), Len(a.years) = Len(b.years),
           \A i \in DOMAIN a.years : NoLess(a.fcf[i], b.fcf[i])
    PROVE  NoLess(Cash(a), Cash(b)) /\ Cash(a) \in Number
<1> DEFINE n == Len(a.years)
           x == a.fcf
           y == b.fcf
           P(z) == {i \in DOMAIN z : IsPositive(z[i])}
           Share(z) == (7000 * Cardinality(P(z))) \div Len(z) + (IF 1 \in P(z) THEN 3000 ELSE 0)
<1>1. /\ x \in Seq(Number) /\ y \in Seq(Number) /\ Len(x) = n /\ Len(y) = n /\ n \in Nat
      /\ DOMAIN a.years = 1..n
  BY DEF Figures
<1>2. DOMAIN x = 1..n /\ DOMAIN y = 1..n /\ \A i \in 1..n : x[i] \in Number /\ y[i] \in Number
  BY <1>1
<1>3. \A i \in 1..n : NoLess(x[i], y[i])
  BY <1>1
<1> HIDE DEF x, y, n
<1>4. CASE x = <<>>
  <2>1. y = <<>>
    BY <1>1, <1>4
  <2> QED
    BY <1>4, <2>1 DEF Cash, NoLess, Number, x, y
<1>5. CASE x # <<>>
  <2>1. y # <<>> /\ n > 0
    BY <1>1, <1>5
  <2>2. P(y) \subseteq P(x) /\ P(x) \in SUBSET (1..n) /\ P(y) \in SUBSET (1..n)
    BY <1>2, <1>3 DEF IsPositive, NoLess, Number
  <2>3. IsFiniteSet(1..n)
    BY <1>1, FS_Interval
  <2> DEFINE cx == Cardinality(P(x))
             cy == Cardinality(P(y))
  <2> HIDE DEF P
  <2>4. IsFiniteSet(P(x)) /\ IsFiniteSet(P(y))
    BY <2>2, <2>3, FS_Subset
  <2>5. cx \in Nat /\ cy \in Nat /\ cy <= cx
    BY <2>2, <2>4, FS_Subset, FS_CardinalityType
  <2> DEFINE sx == IF 1 \in P(x) THEN 3000 ELSE 0
             sy == IF 1 \in P(y) THEN 3000 ELSE 0
  <2>6. sx \in Nat /\ sy \in Nat /\ sy <= sx
    BY <2>2
  <2> HIDE DEF cx, cy, sx, sy
  <2> DEFINE mx == 7000 * cx
             my == 7000 * cy
             qx == mx \div n
             qy == my \div n
  <2>7. my <= mx /\ mx \in Int /\ my \in Int
    BY <2>5
  <2>8. qx \in Int /\ qy \in Int /\ qy <= qx
    <3> HIDE DEF mx, my
    <3> QED
      BY <1>1, <2>1, <2>7, Products
  <2>9. Share(x) = qx + sx /\ Share(y) = qy + sy
    BY <1>1 DEF cx, cy, sx, sy
  <2> HIDE DEF qx, qy, Share
  <2>10. Share(x) \in Number /\ Share(y) \in Number /\ NoLess(Share(x), Share(y))
    <3>1. Share(x) \in Int /\ Share(y) \in Int /\ Share(x) >= Share(y)
      BY <2>6, <2>8, <2>9
    <3> QED
      BY <3>1, ResearchAssumption DEF Number, NoLess
  <2>11. Cash(a) = Bounded(Share(x)) /\ Cash(b) = Bounded(Share(y))
    BY <1>5, <2>1 DEF Cash, P, Share, x, y
  <2> QED
    BY <2>10, <2>11, BoundedKeeps
<1> QED
  BY <1>4, <1>5

\* The components of a row are no less than those of one that is no better.
LEMMA RowKeeps ==
    ASSUME NEW a, NEW b, Figures(a), Figures(b), AsGood(a, b)
    PROVE  /\ NoLess(Row(a).growth, Row(b).growth)
           /\ NoLess(Row(a).profitability, Row(b).profitability)
           /\ NoLess(Row(a).financial, Row(b).financial)
           /\ NoLess(Row(a).cash, Row(b).cash)
<1>1. /\ {a.revenue, a.earnings, b.revenue, b.earnings} \subseteq Seq(Number)
      /\ Len(a.revenue) = Len(b.revenue) /\ Len(a.earnings) = Len(b.earnings)
      /\ {a.roe, a.roce, a.debt, b.roe, b.roce, b.debt} \subseteq Number
  BY DEF Figures, AsGood
<1>2. /\ NoLess(cagr(a.revenue), cagr(b.revenue)) /\ NoLess(cagr(a.earnings), cagr(b.earnings))
      /\ {cagr(a.revenue), cagr(a.earnings), cagr(b.revenue), cagr(b.earnings)} \subseteq Number
  BY <1>1, CagrKeeps, CagrType DEF AsGood
<1>3. NoLess(Row(a).growth, Row(b).growth)
  <2> DEFINE x == Mean(cagr(a.revenue), cagr(a.earnings), 300)
             y == Mean(cagr(b.revenue), cagr(b.earnings), 300)
  <2>1. NoLess(x, y) /\ x \in Number /\ y \in Number
    BY <1>2, MeanKeeps
  <2>2. Row(a).growth = Bounded(x) /\ Row(b).growth = Bounded(y)
    BY DEF Row
  <2> HIDE DEF x, y
  <2> QED
    BY <2>1, <2>2, BoundedKeeps
<1>4. NoLess(Row(a).profitability, Row(b).profitability)
  <2> DEFINE x == Mean(a.roe, a.roce, 250)
             y == Mean(b.roe, b.roce, 250)
  <2>1. NoLess(x, y) /\ x \in Number /\ y \in Number
    <3>1. NoLess(a.roe, b.roe) /\ NoLess(a.roce, b.roce)
      BY DEF AsGood
    <3>2. a.roe \in Number /\ a.roce \in Number /\ b.roe \in Number /\ b.roce \in Number
      BY <1>1
    <3> QED
      BY <3>1, <3>2, MeanKeeps
  <2>2. Row(a).profitability = Bounded(x) /\ Row(b).profitability = Bounded(y)
    BY DEF Row
  <2> HIDE DEF x, y
  <2> QED
    BY <2>1, <2>2, BoundedKeeps
<1>5. NoLess(Row(a).financial, Row(b).financial)
  <2>1. NoLess(b.debt, a.debt) /\ a.debt \in Number /\ b.debt \in Number
    BY <1>1 DEF AsGood
  <2>2. Row(a).financial = Financial(a) /\ Row(b).financial = Financial(b)
    BY DEF Row
  <2>3. CASE a.debt = Missing \/ b.debt = Missing
    BY <2>1, <2>2, <2>3 DEF Financial, NoLess
  <2>4. CASE ~(a.debt = Missing \/ b.debt = Missing)
    <3> DEFINE x == 10000 - 400 * a.debt
               y == 10000 - 400 * b.debt
    <3>1. a.debt \in Int /\ b.debt \in Int /\ a.debt <= b.debt
      BY <2>1, <2>4 DEF NoLess, Number
    <3>2. x \in Int /\ y \in Int /\ x >= y
      BY <3>1
    <3>3. Financial(a) = Bounded(x) /\ Financial(b) = Bounded(y)
      BY <2>4 DEF Financial
    <3> HIDE DEF x, y
    <3>4. x \in Number /\ y \in Number /\ NoLess(x, y)
      BY <3>2, ResearchAssumption DEF Number, NoLess
    <3> QED
      BY <2>2, <3>3, <3>4, BoundedKeeps
  <2> QED
    BY <2>3, <2>4
<1>6. NoLess(Row(a).cash, Row(b).cash)
  <2>1. NoLess(Cash(a), Cash(b))
    BY CashKeeps DEF AsGood
  <2> QED
    BY <2>1 DEF Row
<1> QED
  BY <1>3, <1>4, <1>5, <1>6

\* A row's components are numbers, or missing.
LEMMA RowMeasured == ASSUME NEW s, Figures(s) PROVE Measured(Row(s))
<1>0. \A v \in Number : NoLess(v, v)
  BY DEF Number, NoLess
<1>1. /\ s.revenue \in Seq(Number) /\ s.earnings \in Seq(Number)
      /\ s.roe \in Number /\ s.roce \in Number /\ s.debt \in Number
  BY DEF Figures
<1>2. \A v \in Number : Bounded(v) \in Number
  BY <1>0, BoundedKeeps
<1>3. \A v, w \in Number : Mean(v, w, 300) \in Number /\ Mean(v, w, 250) \in Number
  BY <1>0, MeanKeeps
<1>4. Row(s).growth \in Number
  <2> DEFINE v == cagr(s.revenue)
             w == cagr(s.earnings)
             m == Mean(v, w, 300)
  <2>1. v \in Number /\ w \in Number /\ Row(s).growth = Bounded(m)
    BY <1>1, CagrType DEF Row
  <2>2. m \in Number
    <3> HIDE DEF v, w
    <3> QED
      BY <1>3, <2>1
  <2> HIDE DEF m
  <2> QED
    BY <1>2, <2>1, <2>2
<1>5. Row(s).profitability \in Number
  <2> DEFINE m == Mean(s.roe, s.roce, 250)
  <2>1. m \in Number /\ Row(s).profitability = Bounded(m)
    BY <1>1, <1>3 DEF Row
  <2> HIDE DEF m
  <2> QED
    BY <1>2, <2>1
<1>6. Row(s).financial \in Number
  <2> DEFINE m == 10000 - 400 * s.debt
  <2>1. CASE s.debt = Missing
    BY <2>1 DEF Row, Financial, Number
  <2>2. CASE s.debt # Missing
    <3>1. m \in Number /\ Row(s).financial = Bounded(m)
      BY <1>1, <2>2 DEF Row, Financial, Number
    <3> HIDE DEF m
    <3> QED
      BY <1>2, <3>1
  <2> QED
    BY <2>1, <2>2
<1>7. Row(s).cash \in Number
  <2>1. \A i \in DOMAIN s.years : NoLess(s.fcf[i], s.fcf[i])
    BY DEF NoLess, Figures, Number
  <2>2. Cash(s) \in Number
    BY <2>1, CashKeeps
  <2> QED
    BY <2>2 DEF Row
<1> QED
  BY <1>4, <1>5, <1>6, <1>7 DEF Measured

-----------------------------------------------------------------------------
\* The ratios of a sector: finitely many numbers.
Ratios(values) == IsFiniteSet(DOMAIN values) /\ \A s \in DOMAIN values : values[s] \in Int

\* A smaller ratio has no more ratios below it.
LEMMA PercentileKeeps ==
    ASSUME NEW values, Ratios(values), NEW v \in Number, NEW w \in Number, NoMore(v, w)
    PROVE  /\ Percentile(v, values) \in Number /\ Percentile(w, values) \in Number
           /\ NoLess(Percentile(w, values), Percentile(v, values))
<1> DEFINE Below(x) == {s \in DOMAIN values : values[s] <= x}
           n == Cardinality(DOMAIN values)
           cv == Cardinality(Below(v))
           cw == Cardinality(Below(w))
<1>1. (v = Missing) <=> (w = Missing)
  BY DEF NoMore
<1>2. CASE v = Missing \/ DOMAIN values = {}
  BY <1>1, <1>2 DEF Percentile, NoLess, Number
<1>3. CASE ~(v = Missing \/ DOMAIN values = {})
  <2>1. v \in Int /\ w \in Int /\ v <= w
    BY <1>1, <1>3 DEF NoMore, Number
  <2>2. Below(v) \subseteq Below(w) /\ Below(v) \subseteq DOMAIN values /\ Below(w) \subseteq DOMAIN values
    BY <2>1 DEF Ratios
  <2>3. IsFiniteSet(DOMAIN values)
    BY DEF Ratios
  <2> HIDE DEF Below
  <2>4. IsFiniteSet(Below(v)) /\ IsFiniteSet(Below(w))
    BY <2>2, <2>3, FS_Subset
  <2>5. cv \in Nat /\ cw \in Nat /\ cv <= cw
    BY <2>2, <2>4, FS_Subset, FS_CardinalityType
  <2>6. n \in Nat /\ n > 0
    <3>1. n \in Nat /\ n # 0
      BY <1>3, <2>3, FS_CardinalityType, FS_EmptySet
    <3> QED
      BY <3>1
  <2> DEFINE mv == 10000 * cv
             mw == 10000 * cw
             qv == mv \div n
             qw == mw \div n
  <2> HIDE DEF cv, cw, n
  <2>7. mv \in Int /\ mw \in Int /\ mv <= mw
    BY <2>5
  <2>8. qv \in Int /\ qw \in Int /\ qv <= qw
    <3> HIDE DEF mv, mw
    <3> QED
      BY <2>6, <2>7, Products
  <2>9. Percentile(v, values) = qv /\ Percentile(w, values) = qw
    BY <1>1, <1>3 DEF Percentile, Below, cv, cw, n
  <2> HIDE DEF qv, qw
  <2> QED
    BY <2>8, <2>9, ResearchAssumption DEF Number, NoLess
<1> QED
  BY <1>2, <1>3

\* Every rank is a number or missing.
LEMMA PercentileType ==
    ASSUME NEW values, Ratios(values), NEW v \in Number
    PROVE  Percentile(v, values) \in Number
<1> DEFINE Below == {s \in DOMAIN values : values[s] <= v}
           n == Cardinality(DOMAIN values)
           m == 10000 * Cardinality(Below)
<1>1. CASE v = Missing \/ DOMAIN values = {}
  BY <1>1 DEF Percentile, Number
<1>2. CASE ~(v = Missing \/ DOMAIN values = {})
  <2>1. IsFiniteSet(DOMAIN values) /\ Below \subseteq DOMAIN values
    BY DEF Ratios
  <2> HIDE DEF Below
  <2>2. IsFiniteSet(Below)
    BY <2>1, FS_Subset
  <2>3. Cardinality(Below) \in Nat /\ n \in Nat /\ n # 0
    BY <1>2, <2>1, <2>2, FS_CardinalityType, FS_EmptySet
  <2> HIDE DEF n
  <2>4. m \in Int /\ n \in Nat /\ n > 0
    BY <2>3
  <2>5. Percentile(v, values) = m \div n
    BY <1>2 DEF Percentile, Below, n
  <2> HIDE DEF m
  <2>6. m \div n \in Int
    BY <2>4, Products
  <2> QED
    BY <2>5, <2>6 DEF Number
<1> QED
  BY <1>1, <1>2

\* Cheaper is no worse.
LEMMA ValuationKeeps ==
    ASSUME NEW x, NEW y, NEW pes, NEW pbs, Ratios(pes), Ratios(pbs),
           {x.of.pe, x.of.pb, y.of.pe, y.of.pb} \subseteq Number,
           NoMore(x.of.pe, y.of.pe), NoMore(x.of.pb, y.of.pb)
    PROVE  NoLess(Valuation(x, pes, pbs), Valuation(y, pes, pbs))
<1> DEFINE p == Percentile(x.of.pe, pes)
           q == Percentile(x.of.pb, pbs)
           r == Percentile(y.of.pe, pes)
           s == Percentile(y.of.pb, pbs)
           above == Mean(r, s, 1)
           below == Mean(p, q, 1)
<1>1. {p, q, r, s} \subseteq Number /\ NoLess(r, p) /\ NoLess(s, q)
  BY PercentileKeeps
<1> HIDE DEF p, q, r, s
<1>2. NoLess(above, below) /\ above \in Number /\ below \in Number
  BY <1>1, MeanKeeps
<1>3. /\ Valuation(x, pes, pbs) = IF below = Missing THEN Missing ELSE 10000 - below
      /\ Valuation(y, pes, pbs) = IF above = Missing THEN Missing ELSE 10000 - above
  BY DEF Valuation, p, q, r, s
<1> HIDE DEF above, below
<1>4. CASE above = Missing \/ below = Missing
  BY <1>2, <1>3, <1>4 DEF NoLess
<1>5. CASE ~(above = Missing \/ below = Missing)
  <2>1. above \in Int /\ below \in Int /\ above >= below
    BY <1>2, <1>5 DEF NoLess, Number
  <2>2. 10000 - below \in Int /\ 10000 - above \in Int /\ 10000 - below >= 10000 - above
    BY <2>1
  <2> QED
    BY <1>3, <1>5, <2>2, ResearchAssumption DEF NoLess
<1> QED
  BY <1>4, <1>5

\* A valuation is a number, or missing.
LEMMA ValuationType ==
    ASSUME NEW x, NEW pes, NEW pbs, Ratios(pes), Ratios(pbs), {x.of.pe, x.of.pb} \subseteq Number
    PROVE  Valuation(x, pes, pbs) \in Number
<1> DEFINE p == Percentile(x.of.pe, pes)
           q == Percentile(x.of.pb, pbs)
           m == Mean(p, q, 1)
<1>1. p \in Number /\ q \in Number
  BY PercentileType
<1>2. Valuation(x, pes, pbs) = IF m = Missing THEN Missing ELSE 10000 - m
  BY DEF Valuation
<1> HIDE DEF p, q
<1>3. m \in Number
  <2>1. \A v \in Number : NoLess(v, v)
    BY DEF Number, NoLess
  <2> QED
    BY <1>1, <2>1, MeanKeeps
<1> HIDE DEF m
<1> QED
  BY <1>2, <1>3 DEF Number

\* The score, its weight and its sum, of four components and a valuation.
WeightOf(x, v) ==
    Weight(x.growth, 30) + Weight(x.profitability, 25) + Weight(x.financial, 20)
      + Weight(x.cash, 15) + Weight(v, 10)
SumOf(x, v) ==
    Weighted(x.growth, 30) + Weighted(x.profitability, 25) + Weighted(x.financial, 20)
      + Weighted(x.cash, 15) + Weighted(v, 10)
ScoreOf(x, v) == Rounded(IF WeightOf(x, v) = 0 THEN 0 ELSE SumOf(x, v) \div WeightOf(x, v))

\* A row whose components are no less scores no less.
LEMMA ScoreKeeps ==
    ASSUME NEW x, NEW y, Measured(x), Measured(y), NEW v \in Number, NEW w \in Number,
           NoLess(x.growth, y.growth), NoLess(x.profitability, y.profitability),
           NoLess(x.financial, y.financial), NoLess(x.cash, y.cash), NoLess(v, w)
    PROVE  ScoreOf(x, v) \in Int /\ ScoreOf(y, w) \in Int /\ ScoreOf(y, w) <= ScoreOf(x, v)
<1>1. /\ x.growth \in Number /\ x.profitability \in Number /\ x.financial \in Number /\ x.cash \in Number
      /\ y.growth \in Number /\ y.profitability \in Number /\ y.financial \in Number /\ y.cash \in Number
  BY DEF Measured
<1> DEFINE Kept(a, b, k) == /\ Weight(a, k) = Weight(b, k) /\ Weight(a, k) \in Nat
                            /\ Weighted(a, k) \in Int /\ Weighted(b, k) \in Int
                            /\ Weighted(b, k) <= Weighted(a, k)
<1>2. /\ Kept(x.growth, y.growth, 30) /\ Kept(x.profitability, y.profitability, 25)
      /\ Kept(x.financial, y.financial, 20) /\ Kept(x.cash, y.cash, 15) /\ Kept(v, w, 10)
  BY <1>1, WeightKeeps
<1> DEFINE n == WeightOf(x, v)
           sx == SumOf(x, v)
           sy == SumOf(y, w)
<1>3. n \in Nat /\ WeightOf(y, w) = n
  BY <1>2 DEF WeightOf
<1>4. sx \in Int /\ sy \in Int /\ sy <= sx
  BY <1>2 DEF SumOf
<1> HIDE DEF n, sx, sy
<1> DEFINE qx == IF n = 0 THEN 0 ELSE sx \div n
           qy == IF n = 0 THEN 0 ELSE sy \div n
<1>5. qx \in Int /\ qy \in Int /\ qy <= qx
  BY <1>3, <1>4, Products
<1>6. ScoreOf(x, v) = Rounded(qx) /\ ScoreOf(y, w) = Rounded(qy)
  BY <1>3 DEF ScoreOf, n, sx, sy
<1> HIDE DEF qx, qy
<1>7. Rounded(qx) \in Int /\ Rounded(qy) \in Int /\ Rounded(qy) <= Rounded(qx)
  BY <1>5 DEF Rounded
<1> QED
  BY <1>6, <1>7

\* What ScoreRow makes of a row.
LEMMA Scored ==
    ASSUME NEW x, NEW pes, NEW pbs, Measured(x), Ratios(pes), Ratios(pbs),
           {x.of.pe, x.of.pb} \subseteq Number
    PROVE  LET r == ScoreRow(x, pes, pbs) IN
             /\ r.of = x.of /\ "class" \in DOMAIN r
             /\ r.score = ScoreOf(x, Valuation(x, pes, pbs)) /\ r.score \in Int
             /\ r.confidence \in Nat
<1> DEFINE r == ScoreRow(x, pes, pbs)
           v == Valuation(x, pes, pbs)
<1>1. v \in Number
  BY ValuationType
<1>2. /\ r.of = x.of /\ "class" \in DOMAIN r
      /\ r.score = ScoreOf(x, v)
      /\ r.confidence = Weight(x.growth, 1) + Weight(x.profitability, 1) + Weight(x.financial, 1)
                          + Weight(x.cash, 1) + Weight(v, 1)
  BY DEF ScoreRow, ScoreOf, WeightOf, SumOf
<1> HIDE DEF r, v
<1>3. \A u \in Number : NoLess(u, u)
  BY DEF Number, NoLess
<1>4. ScoreOf(x, v) \in Int
  <2>1. /\ NoLess(x.growth, x.growth) /\ NoLess(x.profitability, x.profitability)
        /\ NoLess(x.financial, x.financial) /\ NoLess(x.cash, x.cash) /\ NoLess(v, v)
    BY <1>1, <1>3 DEF Measured
  <2> QED
    BY <1>1, <2>1, ScoreKeeps
<1>5. r.confidence \in Nat
  <2>1. \A u : Weight(u, 1) \in Nat
    BY DEF Weight
  <2> QED
    BY <1>2, <2>1
<1> QED
  BY <1>2, <1>4, <1>5 DEF r, v

-----------------------------------------------------------------------------
\* The rows of a scan of page 3 are those of companies, of stocks of the universe.
ScanRows(rs) ==
    /\ DOMAIN rs \subseteq ToSet(ResearchUniverse)
    /\ \A s \in DOMAIN rs : \E c \in Companies : rs[s] = Row(Snapshot(c))

LEMMA RowFigures ==
    ASSUME NEW rs, ScanRows(rs), NEW s \in DOMAIN rs
    PROVE  /\ Figures(rs[s].of) /\ Measured(rs[s]) /\ rs[s] = Row(rs[s].of)
           /\ rs[s].of.pe \in Number /\ rs[s].of.pb \in Number
<1>1. PICK c \in Companies : rs[s] = Row(Snapshot(c))
  BY DEF ScanRows
<1> DEFINE f == Snapshot(c)
<1>2. Figures(f) /\ Measured(Row(f))
  BY SnapshotFigures, RowMeasured
<1> HIDE DEF f
<1>3. Row(f).of = f
  BY DEF Row
<1>4. f.pe \in Number /\ f.pb \in Number
  BY <1>2 DEF Figures
<1>5. rs[s] = Row(f)
  BY <1>1 DEF f
<1> QED
  BY <1>2, <1>3, <1>4, <1>5

\* The universe is finite, and a stock has a place in it.
LEMMA Places ==
    /\ IsFiniteSet(ToSet(ResearchUniverse))
    /\ \A s \in ToSet(ResearchUniverse) : Place(s) \in Nat /\ ResearchUniverse[Place(s)] = s
<1> DEFINE u == ResearchUniverse
<1>1. Len(u) \in Nat /\ DOMAIN u = 1 .. Len(u)
  <2>1. u \in Seq(ToSet(u))
    BY ResearchAssumption
  <2> HIDE DEF u
  <2> QED
    BY <2>1
<1>2. IsFiniteSet(DOMAIN u)
  BY <1>1, FS_Interval
<1>3. IsFiniteSet(ToSet(u))
  <2> HIDE DEF u
  <2>1. IsFiniteSet({u[i] : i \in DOMAIN u})
    BY <1>2, FiniteImage
  <2> QED
    BY <2>1 DEF ToSet
<1>4. ASSUME NEW s \in ToSet(u) PROVE Place(s) \in Nat /\ u[Place(s)] = s
  <2> DEFINE D == {i \in DOMAIN u : u[i] = s}
  <2>1. D # {} /\ D \subseteq DOMAIN u
    BY DEF ToSet
  <2>2. Place(s) = Min(D) /\ \A i \in D : u[i] = s
    BY DEF Place
  <2> HIDE DEF D
  <2>3. D \in SUBSET Int /\ IsFiniteSet(D)
    BY <1>1, <1>2, <2>1, FS_Subset
  <2>4. Min(D) \in D
    BY <2>1, <2>3, Extremes
  <2> QED
    BY <1>1, <2>1, <2>2, <2>4
<1> QED
  BY <1>3, <1>4

\* The ratios of a sector's rows are finitely many numbers.
LEMMA SectorRatios ==
    ASSUME NEW rs, ScanRows(rs), NEW sec
    PROVE  LET peers == Peers(rs, sec) IN Ratios(Positive(peers, "pe")) /\ Ratios(Positive(peers, "pb"))
<1> DEFINE peers == Peers(rs, sec)
<1>1. DOMAIN peers \subseteq DOMAIN rs /\ \A s \in DOMAIN peers : peers[s] = rs[s]
  BY DEF Peers
<1>2. IsFiniteSet(DOMAIN peers)
  <2> HIDE DEF peers
  <2>1. DOMAIN peers \subseteq ToSet(ResearchUniverse)
    BY <1>1 DEF ScanRows
  <2> QED
    BY <2>1, Places, FS_Subset
<1>3. \A s \in DOMAIN peers : peers[s].of.pe \in Number /\ peers[s].of.pb \in Number
  BY <1>1, RowFigures
<1> HIDE DEF peers
<1>4. Ratios(Positive(peers, "pe"))
  <2> DEFINE D == {s \in DOMAIN peers : IsPositive(peers[s].of.pe)}
             f == Positive(peers, "pe")
  <2>1. f = [s \in D |-> peers[s].of.pe]
    BY DEF Positive
  <2>2. D \subseteq DOMAIN peers /\ \A s \in D : peers[s].of.pe \in Int
    BY <1>3 DEF IsPositive, Number
  <2> HIDE DEF D, f
  <2>3. IsFiniteSet(D)
    BY <1>2, <2>2, FS_Subset
  <2>4. DOMAIN f = D /\ \A s \in D : f[s] \in Int
    BY <2>1, <2>2
  <2> QED
    BY <2>3, <2>4 DEF Ratios, f
<1>5. Ratios(Positive(peers, "pb"))
  <2> DEFINE D == {s \in DOMAIN peers : IsPositive(peers[s].of.pb)}
             f == Positive(peers, "pb")
  <2>1. f = [s \in D |-> peers[s].of.pb]
    BY DEF Positive
  <2>2. D \subseteq DOMAIN peers /\ \A s \in D : peers[s].of.pb \in Int
    BY <1>3 DEF IsPositive, Number
  <2> HIDE DEF D, f
  <2>3. IsFiniteSet(D)
    BY <1>2, <2>2, FS_Subset
  <2>4. DOMAIN f = D /\ \A s \in D : f[s] \in Int
    BY <2>1, <2>2
  <2> QED
    BY <2>3, <2>4 DEF Ratios, f
<1> QED
  BY <1>4, <1>5 DEF peers

\* The scored rows have the scores of their components.
LEMMA RowsScored ==
    ASSUME NEW rs, ScanRows(rs)
    PROVE  /\ DOMAIN ScoreRows(rs) = DOMAIN rs
           /\ \A s \in DOMAIN rs :
                LET peers == Peers(rs, rs[s].of.sector)
                    r == ScoreRows(rs)[s]
                IN  /\ r.of = rs[s].of /\ "class" \in DOMAIN r
                    /\ r.score = ScoreOf(rs[s], Valuation(rs[s], Positive(peers, "pe"), Positive(peers, "pb")))
                    /\ r.score \in Int /\ r.confidence \in Nat
<1>1. DOMAIN ScoreRows(rs) = DOMAIN rs
  BY DEF ScoreRows
<1>2. ASSUME NEW s \in DOMAIN rs
      PROVE  LET peers == Peers(rs, rs[s].of.sector)
                 r == ScoreRows(rs)[s]
             IN  /\ r.of = rs[s].of /\ "class" \in DOMAIN r
                 /\ r.score = ScoreOf(rs[s], Valuation(rs[s], Positive(peers, "pe"), Positive(peers, "pb")))
                 /\ r.score \in Int /\ r.confidence \in Nat
  <2> DEFINE x == rs[s]
             peers == Peers(rs, rs[s].of.sector)
             pes == Positive(peers, "pe")
             pbs == Positive(peers, "pb")
             r == ScoreRows(rs)[s]
  <2>1. r = ScoreRow(x, pes, pbs)
    BY DEF ScoreRows
  <2>2. Ratios(pes) /\ Ratios(pbs)
    BY SectorRatios
  <2>3. Measured(x) /\ x.of.pe \in Number /\ x.of.pb \in Number
    BY RowFigures
  <2> HIDE DEF x, pes, pbs, r
  <2>4. /\ r.of = x.of /\ "class" \in DOMAIN r
        /\ r.score = ScoreOf(x, Valuation(x, pes, pbs)) /\ r.score \in Int
        /\ r.confidence \in Nat
    BY <2>1, <2>2, <2>3, Scored
  <2> QED
    BY <2>4 DEF x, pes, pbs, r
<1> QED
  BY <1>1, <1>2

\* What is as good scores no less.
LEMMA BetterScores ==
    ASSUME NEW rs, ScanRows(rs), NEW a \in DOMAIN rs, NEW b \in DOMAIN rs, AsGood(rs[a].of, rs[b].of)
    PROVE  ScoreRows(rs)[b].score <= ScoreRows(rs)[a].score
<1> DEFINE x == rs[a]
           y == rs[b]
           peers == Peers(rs, x.of.sector)
           pes == Positive(peers, "pe")
           pbs == Positive(peers, "pb")
           v == Valuation(x, pes, pbs)
           w == Valuation(y, pes, pbs)
<1>1. /\ Figures(x.of) /\ Measured(x) /\ x = Row(x.of) /\ x.of.pe \in Number /\ x.of.pb \in Number
      /\ Figures(y.of) /\ Measured(y) /\ y = Row(y.of) /\ y.of.pe \in Number /\ y.of.pb \in Number
  BY RowFigures
<1>2. Ratios(pes) /\ Ratios(pbs)
  BY SectorRatios
<1>3. ScoreRows(rs)[a].score = ScoreOf(x, v)
  BY RowsScored
<1>4. ScoreRows(rs)[b].score = ScoreOf(y, w)
  <2>1. y.of.sector = x.of.sector
    BY DEF AsGood
  <2> QED
    BY <2>1, RowsScored
<1>5. AsGood(x.of, y.of)
  OBVIOUS
<1> HIDE DEF x, y, pes, pbs
<1>6. v \in Number /\ w \in Number /\ NoLess(v, w)
  <2>1. NoMore(x.of.pe, y.of.pe) /\ NoMore(x.of.pb, y.of.pb)
    BY <1>5 DEF AsGood
  <2> QED
    BY <1>1, <1>2, <2>1, ValuationType, ValuationKeeps
<1> HIDE DEF v, w
<1>7. /\ NoLess(x.growth, y.growth) /\ NoLess(x.profitability, y.profitability)
      /\ NoLess(x.financial, y.financial) /\ NoLess(x.cash, y.cash)
  <2> DEFINE f == x.of
             g == y.of
  <2>1. Figures(f) /\ Figures(g) /\ AsGood(f, g) /\ x = Row(f) /\ y = Row(g)
    BY <1>1, <1>5
  <2> HIDE DEF f, g
  <2> QED
    BY <2>1, RowKeeps
<1>8. ScoreOf(y, w) <= ScoreOf(x, v)
  BY <1>1, <1>6, <1>7, ScoreKeeps
<1> QED
  BY <1>3, <1>4, <1>8

\* A sector's stocks.
InSector(scored, sec) == {s \in DOMAIN scored : scored[s].of.sector = sec}

\* Whoever stands on a board scores no less than those of the sector who do not
\* stand there with it or before it.
Descends(shown, scored, S) ==
    \A i \in DOMAIN shown, a \in S :
        a \notin ToSet(SubSeq(shown, 1, i)) => scored[a].score <= scored[shown[i]].score

LEMMA BoardDescends ==
    ASSUME NEW scored, DOMAIN scored \subseteq ToSet(ResearchUniverse),
           \A s \in DOMAIN scored : scored[s].score \in Int /\ scored[s].confidence \in Nat,
           NEW sec
    PROVE  Descends(Board(scored, sec), scored, InSector(scored, sec))
<1> DEFINE S == InSector(scored, sec)
           Follows(q) == \A i, j \in DOMAIN q : i < j => Before(scored, q[i], q[j])
           R == {p \in S \X S : Before(scored, p[1], p[2])}
           order == CHOOSE q \in SetToSeqs(S) : Follows(q)
           shown == Board(scored, sec)
<1>1. shown = First(order, SectorTop)
  BY DEF Board, InSector
<1>2. /\ S \subseteq DOMAIN scored /\ IsFiniteSet(S)
      /\ \A s \in S : /\ scored[s].score \in Int /\ scored[s].confidence \in Int
                      /\ Place(s) \in Int /\ ResearchUniverse[Place(s)] = s
  <2>1. S \subseteq DOMAIN scored /\ S \subseteq ToSet(ResearchUniverse)
    BY DEF InSector
  <2> HIDE DEF S
  <2> QED
    BY <2>1, Places, FS_Subset
<1>3. \A x, y \in S : <<x, y>> \in R <=> Before(scored, x, y)
  <2> HIDE DEF S
  <2> QED
    OBVIOUS
<1> HIDE DEF S, R
<1>4. PICK q \in SetToSeqs(S) : Ordered(q, R)
  <2>1. \A x \in S : <<x, x>> \notin R
    BY <1>2, <1>3 DEF Before
  <2>2. \A x, y, z \in S : <<x, y>> \in R /\ <<y, z>> \in R => <<x, z>> \in R
    BY <1>2, <1>3 DEF Before
  <2>3. \A x, y \in S : x # y => <<x, y>> \in R \/ <<y, x>> \in R
    BY <1>2, <1>3 DEF Before
  <2> QED
    BY <1>2, <2>1, <2>2, <2>3, Sorting
<1>5. Follows(q)
  <2>1. q \in Seq(S)
    BY <1>2, Enumerates
  <2>2. \A i \in DOMAIN q : q[i] \in S
    BY <2>1
  <2> SUFFICES ASSUME NEW i \in DOMAIN q, NEW j \in DOMAIN q, i < j PROVE Before(scored, q[i], q[j])
    OBVIOUS
  <2>3. <<q[i], q[j]>> \in R
    BY <1>4 DEF Ordered
  <2> QED
    BY <1>3, <2>2, <2>3
<1> HIDE DEF Follows
<1>6. order \in SetToSeqs(S) /\ Follows(order)
  BY <1>5
<1>7. order \in Seq(S) /\ ToSet(order) = S
  <2> HIDE DEF order
  <2> QED
    BY <1>2, <1>6, Enumerates
<1> HIDE DEF order
<1>8. /\ shown \in Seq(S)
      /\ \A i \in DOMAIN shown : i \in DOMAIN order /\ shown[i] = order[i]
  <2>1. SectorTop \in Nat
    BY ResearchAssumption
  <2> QED
    BY <1>1, <1>7, <2>1, FirstOfList
<1> HIDE DEF shown
<1>9. ASSUME NEW i \in DOMAIN shown, NEW a \in S, a \notin ToSet(SubSeq(shown, 1, i))
      PROVE  scored[a].score <= scored[shown[i]].score
  <2>1. PICK j \in DOMAIN order : order[j] = a
    BY <1>7 DEF ToSet
  <2>2. /\ DOMAIN shown = 1 .. Len(shown) /\ Len(shown) \in Nat
        /\ DOMAIN order = 1 .. Len(order) /\ Len(order) \in Nat
    BY <1>7, <1>8
  <2>3. ~(j <= i)
    <3> SUFFICES ASSUME j <= i PROVE FALSE
      OBVIOUS
    <3>1. j \in 1..i /\ i \in 1 .. Len(shown) /\ j \in DOMAIN shown
      BY <2>2
    <3>2. SubSeq(shown, 1, i) = [k \in 1..i |-> shown[k]]
      BY <1>8, <3>1, SubSeqProperties
    <3>3. shown[j] \in ToSet(SubSeq(shown, 1, i))
      BY <3>1, <3>2 DEF ToSet
    <3> QED
      BY <1>8, <1>9, <2>1, <3>1, <3>3
  <2>4. i \in DOMAIN order /\ i < j /\ shown[i] = order[i]
    BY <1>8, <2>2, <2>3
  <2>5. Before(scored, shown[i], a)
    BY <1>6, <2>1, <2>4 DEF Follows
  <2>6. shown[i] \in S
    BY <1>8
  <2> QED
    BY <1>2, <2>5, <2>6 DEF Before
<1> QED
  BY <1>9 DEF Descends, S, shown

\* Page 3 scans companies; at rest there are no rows of its kind, or those of such a
\* scan with their scores, and the boards made of them.
Boarded ==
    /\ researching \in {"none", "page 3", "page 5"}
    /\ unread # <<>> => researching # "none"
    /\ researching = "page 3" => ScanRows(rows)
    /\ researching = "page 5" => \A s \in DOMAIN rows : "class" \notin DOMAIN rows[s]
    /\ researching = "none" =>
         \/ \A s \in DOMAIN rows : "class" \notin DOMAIN rows[s]
         \/ \E rs : /\ ScanRows(rs) /\ rows = ScoreRows(rs)
                    /\ long_term_board = [sec \in {rows[s].of.sector : s \in DOMAIN rows} |-> Board(rows, sec)]

\* Companies that are no better stand no higher.
LEMMA BoardsAreFair == Boarded => BetterIsNotOutranked
<1> SUFFICES ASSUME Boarded, OnPage3, NEW a \in DOMAIN rows, NEW b \in DOMAIN rows,
                    AsGood(rows[a].of, rows[b].of), Outranks(b, a)
             PROVE  rows[a].score = rows[b].score
  BY DEF BetterIsNotOutranked
<1>1. PICK rs : /\ ScanRows(rs) /\ rows = ScoreRows(rs)
                /\ long_term_board = [sec \in {rows[s].of.sector : s \in DOMAIN rows} |-> Board(rows, sec)]
  BY DEF Boarded, OnPage3
<1>2. /\ DOMAIN rows = DOMAIN rs /\ DOMAIN rows \subseteq ToSet(ResearchUniverse)
      /\ \A s \in DOMAIN rows : /\ rows[s].of = rs[s].of
                                /\ rows[s].score \in Int /\ rows[s].confidence \in Nat
  BY <1>1, RowsScored DEF ScanRows
<1>3. rows[b].score <= rows[a].score
  BY <1>1, <1>2, BetterScores
<1> DEFINE sec == rows[b].of.sector
           shown == Board(rows, sec)
<1>4. PICK i \in DOMAIN shown : shown[i] = b /\ a \notin ToSet(SubSeq(shown, 1, i))
  <2>1. long_term_board[sec] = shown
    BY <1>1
  <2> HIDE DEF shown
  <2> QED
    BY <2>1 DEF Outranks
<1>5. a \in InSector(rows, sec)
  BY DEF InSector, AsGood
<1>6. Descends(shown, rows, InSector(rows, sec))
  BY <1>2, BoardDescends
<1> HIDE DEF shown
<1>7. rows[a].score <= rows[b].score
  BY <1>4, <1>5, <1>6 DEF Descends
<1> QED
  BY <1>2, <1>3, <1>7

\* A score of page 5 has no classification.
LEMMA Unclassified == ASSUME NEW s PROVE "class" \notin DOMAIN score_multibagger(s)
<1>1. DOMAIN score_multibagger(s) = {"coverage", "overall"}
  BY SMT DEF score_multibagger
<1> QED
  BY <1>1

\* Every step of a scan keeps the boards those of its rows.
LEMMA BoardedStep ==
    ASSUME Boarded, unread \in Seq(ToSet(ResearchUniverse)), [ResearchNext]_researchVars
    PROVE  Boarded'
<1>1. CASE Churn \/ OpenPage3 \/ UNCHANGED researchVars
  <2>1. UNCHANGED <<researching, unread, rows, long_term_board>>
    BY <1>1 DEF Churn, OpenPage3, researchVars, loop
  <2> QED
    BY <2>1 DEF Boarded, ScanRows
<1>2. CASE ScanPage3 \/ ScanPage5
  <2>1. rows' = NoRows /\ researching' \in {"page 3", "page 5"}
    BY <1>2 DEF ScanPage3, ScanPage5
  <2>2. DOMAIN rows' = {}
    BY <2>1 DEF NoRows
  <2> QED
    BY <2>1, <2>2 DEF Boarded, ScanRows
<1>3. ASSUME unread # <<>>, researching' = researching, long_term_board' = long_term_board, Skip
      PROVE  Boarded'
  <2>1. UNCHANGED <<researching, rows>> /\ researching # "none"
    BY <1>3 DEF Skip, Boarded
  <2> QED
    BY <2>1 DEF Boarded, ScanRows
<1>4. CASE AnswerFails
  BY <1>3, <1>4 DEF AnswerFails
<1>5. CASE Unavailable
  BY <1>3, <1>5 DEF Unavailable
<1>6. ASSUME NEW c \in Companies, Answer(c) PROVE Boarded'
  <2> DEFINE s == Snapshot(c)
             row == IF researching = "page 3" THEN Row(s) ELSE score_multibagger(s)
  <2>1. unread # <<>> /\ researching' = researching /\ long_term_board' = long_term_board
    BY <1>6 DEF Answer
  <2>2. Skip \/ Keep(row)
    BY <1>6 DEF Answer
  <2>3. CASE Skip
    BY <1>3, <2>1, <2>3
  <2>4. CASE Keep(row)
    <3> DEFINE h == Head(unread)
    <3>1. h \in ToSet(ResearchUniverse)
      BY <2>1, HeadTailProperties
    <3>2. rows' = [t \in DOMAIN rows \cup {h} |-> IF t = h THEN row ELSE rows[t]]
      BY <2>4 DEF Keep
    <3>3. "class" \notin DOMAIN score_multibagger(s)
      BY Unclassified
    <3> HIDE DEF row, h
    <3>4. /\ DOMAIN rows' = DOMAIN rows \cup {h}
          /\ \A t \in DOMAIN rows' : rows'[t] = row \/ (t \in DOMAIN rows /\ rows'[t] = rows[t])
      BY <3>2
    <3>5. CASE researching = "page 3"
      <4>1. row = Row(Snapshot(c))
        BY <3>5 DEF row
      <4>2. ScanRows(rows)
        BY <3>5 DEF Boarded
      <4>3. ScanRows(rows')
        BY <3>1, <3>4, <4>1, <4>2 DEF ScanRows
      <4> QED
        BY <2>1, <3>5, <4>3 DEF Boarded
    <3>6. CASE researching = "page 5"
      <4>1. "class" \notin DOMAIN row
        BY <3>3, <3>6 DEF row
      <4>2. \A t \in DOMAIN rows : "class" \notin DOMAIN rows[t]
        BY <3>6 DEF Boarded
      <4>3. \A t \in DOMAIN rows' : "class" \notin DOMAIN rows'[t]
        BY <3>4, <4>1, <4>2
      <4> QED
        BY <2>1, <3>6, <4>3 DEF Boarded
    <3> QED
      BY <2>1, <3>5, <3>6 DEF Boarded
  <2> QED
    BY <2>2, <2>3, <2>4
<1>7. CASE EndResearch
  <2>1. researching # "none" /\ researching' = "none"
    BY <1>7 DEF EndResearch
  <2>4. unread = <<>> /\ unread' = unread
    BY <1>7 DEF EndResearch
  <2>2. CASE researching = "page 3"
    <3> DEFINE scored == ScoreRows(rows)
    <3>1. ScanRows(rows)
      BY <2>2 DEF Boarded
    <3>2. /\ rows' = scored
          /\ long_term_board' = [sec \in {scored[s].of.sector : s \in DOMAIN scored} |-> Board(scored, sec)]
      BY <1>7, <2>2 DEF EndResearch
    <3> HIDE DEF scored
    <3>3. long_term_board' = [sec \in {rows'[s].of.sector : s \in DOMAIN rows'} |-> Board(rows', sec)]
      BY <3>2
    <3> QED
      BY <2>1, <2>4, <3>1, <3>2, <3>3 DEF Boarded, scored
  <2>3. CASE researching # "page 3"
    <3>1. rows' = rows
      BY <1>7, <2>3 DEF EndResearch
    <3>2. \A s \in DOMAIN rows : "class" \notin DOMAIN rows[s]
      BY <2>1, <2>3 DEF Boarded
    <3> QED
      BY <2>1, <2>4, <3>1, <3>2 DEF Boarded
  <2> QED
    BY <2>2, <2>3
<1> QED
  BY <1>1, <1>2, <1>4, <1>5, <1>6, <1>7 DEF ResearchNext

\* Page 3 does not show a stock behind one of its sector that is no better in
\* anything its score is made of, except for a tie: where both miss the same
\* figures and neither has a loss, whichever others are in the sector.
THEOREM BetterStaysAhead == ResearchSpec => []BetterIsNotOutranked
<1>1. ResearchInit => Boarded
  <2> SUFFICES ASSUME ResearchInit PROVE Boarded
    OBVIOUS
  <2>1. researching = "none" /\ unread = <<>> /\ rows = NoRows
    BY DEF ResearchInit
  <2>2. DOMAIN NoRows = {}
    BY DEF NoRows
  <2> QED
    BY <2>1, <2>2 DEF Boarded
<1>2. Accounted /\ Boarded /\ [ResearchNext]_researchVars => Boarded'
  BY BoardedStep DEF Accounted
<1>3. ResearchSpec => []Accounted
  BY AccountedAlways
<1>4. Boarded => BetterIsNotOutranked
  BY BoardsAreFair
<1> QED
  BY <1>1, <1>2, <1>3, <1>4, PTL DEF ResearchSpec
=============================================================================
