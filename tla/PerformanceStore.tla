---------------------------- MODULE PerformanceStore ----------------------------
(***************************************************************************)
(* The forward performance of signals: evaluate_signal makes a record of   *)
(* an observed signal, the store keeps the records in a JSON file that     *)
(* every append reads and rewrites, and the report counts over them.       *)
(*                                                                         *)
(* A move is a difference of prices: the code divides it by the signal's   *)
(* price, which is positive.  Rates of the report are given as counts.     *)
(***************************************************************************)
EXTENDS Integers, FiniteSets, SequencesExt

CONSTANTS
    Observations,  \* signals with the prices seen, [at, price], in their order
    Horizons,      \* minutes
    MaxRecords     \* bound: appends

\* A signal has the plan of build_risk_plan, which puts its levels in this order.
PlanInOrder(o) ==
    \/ /\ o.action = "BUY"
       /\ o.stop_loss < o.signal_price /\ o.signal_price < o.target_1 /\ o.target_1 <= o.target_2
    \/ /\ o.action = "SELL"
       /\ o.target_2 <= o.target_1 /\ o.target_1 < o.signal_price /\ o.signal_price < o.stop_loss

ASSUME PerformanceAssumption ==
    /\ Horizons \subseteq Nat /\ MaxRecords \in Nat
    /\ \A o \in Observations :
         /\ o.prices \in Seq([at : Int, price : Int])
         /\ {o.signal_price, o.stop_loss, o.target_1, o.target_2} \subseteq Int
         /\ PlanInOrder(o)

VARIABLES
    file,      \* the records in the file, or Torn
    records,   \* append's local list
    writing,   \* "idle", "loaded", "truncated": between load, open and write
    evaluated  \* history: the observations whose records were written, in order

performanceVars == <<file, records, writing, evaluated>>

\* An empty file is not JSON; a file that was never written counts as no records.
Torn == "torn"

-----------------------------------------------------------------------------
\* A mutant of Move: the sign of a sale is forgotten.
MoveUnsigned(o, price) == price - o.signal_price

Move(o, price) == IF o.action = "BUY" THEN price - o.signal_price ELSE o.signal_price - price

Prices(o) == {o.prices[i].price : i \in DOMAIN o.prices}

\* The first price seen at or after the horizon; the order is that of the tuple.
Eligible(o, horizon) == {i \in DOMAIN o.prices : o.prices[i].at >= horizon}

Returns(o) ==
    [h \in {h \in Horizons : Eligible(o, h) # {}} |-> Move(o, o.prices[Min(Eligible(o, h))].price)]

\* A mutant of Reaches: the price must pass the level.
Passes(o, price, level) == IF o.action = "BUY" THEN price > level ELSE price < level

Reaches(o, price, level) == IF o.action = "BUY" THEN price >= level ELSE price <= level

\* Whether a level was reached at any time, in whatever order with the others.
evaluate_signal(o) ==
    LET moves == {Move(o, price) : price \in Prices(o)}
    IN  [returns |-> Returns(o),
         max_favorable |-> IF moves = {} THEN 0 ELSE CHOOSE m \in moves : \A n \in moves : n <= m,
         max_adverse |-> IF moves = {} THEN 0 ELSE CHOOSE m \in moves : \A n \in moves : m <= n,
         target_1_hit |-> \E price \in Prices(o) : Reaches(o, price, o.target_1),
         target_2_hit |-> \E price \in Prices(o) : Reaches(o, price, o.target_2),
         stop_loss_hit |-> \E price \in Prices(o) :
             IF o.action = "BUY" THEN price <= o.stop_loss ELSE price >= o.stop_loss]

-----------------------------------------------------------------------------
PerformanceInit == file = <<>> /\ records = <<>> /\ writing = "idle" /\ evaluated = <<>>

\* A mutant of LoadRecords: what cannot be read counts as no records.
LoadOrNothing ==
    /\ writing = "idle" /\ Len(evaluated) < MaxRecords
    /\ records' = IF file = Torn THEN <<>> ELSE file
    /\ writing' = "loaded"
    /\ UNCHANGED <<file, evaluated>>

\* A file that cannot be parsed raises, now and ever after.
LoadRecords ==
    /\ writing = "idle" /\ Len(evaluated) < MaxRecords
    /\ file # Torn
    /\ records' = file
    /\ writing' = "loaded"
    /\ UNCHANGED <<file, evaluated>>

\* write_text empties the file first.
TruncateFile ==
    /\ writing = "loaded"
    /\ file' = Torn
    /\ writing' = "truncated"
    /\ UNCHANGED <<records, evaluated>>

WriteRecords(o) ==
    /\ writing = "truncated"
    /\ file' = Append(records, evaluate_signal(o))
    /\ evaluated' = Append(evaluated, o)
    /\ writing' = "idle"
    /\ UNCHANGED records

\* The process ends anywhere; the next one starts with what is in the file.
StoreCrash ==
    /\ writing # "idle"
    /\ writing' = "idle" /\ records' = <<>>
    /\ UNCHANGED <<file, evaluated>>

PerformanceNext ==
    \/ LoadRecords \/ TruncateFile \/ StoreCrash
    \/ \E o \in Observations : WriteRecords(o)

PerformanceSpec == PerformanceInit /\ [][PerformanceNext]_performanceVars

-----------------------------------------------------------------------------
\* build_report: how many of the records have a property.
Count(Test(_)) == Cardinality({i \in DOMAIN file : Test(file[i])})

favorable_signals == Count(LAMBDA r : r.max_favorable > 0)
target_1_count == Count(LAMBDA r : r.target_1_hit)
target_2_count == Count(LAMBDA r : r.target_2_hit)
\* A record without a return at the horizon counts as unfavorable.
accurate(h) == Count(LAMBDA r : h \in DOMAIN r.returns /\ r.returns[h] >= 0)

\* Levels reached and excursions, computed separately, tell one story: a target
\* was reached exactly when the best move is the target's, a stop exactly when
\* the worst one is the stop's.
HitsAgreeWithExcursion ==
    file # Torn =>
        \A i \in DOMAIN file :
            LET r == file[i]
                o == evaluated[i]
            IN  /\ r.target_1_hit <=> r.max_favorable >= Move(o, o.target_1)
                /\ r.target_2_hit <=> r.max_favorable >= Move(o, o.target_2)
                /\ r.stop_loss_hit <=> r.max_adverse <= Move(o, o.stop_loss)

\* The report's rates are nested: a second target implies a first, a first
\* target a favorable signal; and no horizon is more often right than there are
\* signals that were once not adverse.
RatesAreNested ==
    file # Torn =>
        /\ target_2_count <= target_1_count /\ target_1_count <= favorable_signals
        /\ \A h \in Horizons : accurate(h) <= Count(LAMBDA r : r.max_favorable >= 0)

\* A file that can be read has every record ever written, wherever a process
\* died: it is whole or unreadable, never shorter.
ReadableIsComplete ==
    file # Torn => file = [i \in DOMAIN evaluated |-> evaluate_signal(evaluated[i])]
=============================================================================
