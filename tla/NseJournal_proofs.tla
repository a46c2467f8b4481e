-------------------------- MODULE NseJournal_proofs --------------------------
(***************************************************************************)
(* Proofs about NseJournal, for every set of runners, pages, plans and     *)
(* prices: the types whatever the programs do to each other; what a death  *)
(* inside a rewrite leaves when one program runs at a time; and what cycles *)
(* that interleave keep when no method is interrupted on the file.         *)
(***************************************************************************)
EXTENDS NseJournal, FiniteSetTheorems, SequenceTheorems, TLAPS

Endings == {"TARGET_2_ACHIEVED", "STOP_LOSS_HIT"}

Files == [header : BOOLEAN, rows : Seq(FileLines), tail : Seq(FileLines)]

\* A row whose plan has ended is remembered until it is resolved; F is what rows
\* can be.
Ends(F) ==
    \A p \in Writers :
        /\ return[p] \in {"idle", "outcomes"} \cup Endings
        /\ pc[p] \notin {"truncate", "write"} => return[p] = "idle"
        /\ pc[p] \in Endings \/ return[p] \in Endings => row[p] \in F

EndingInv == Ends(JournalRows)

BaseInv == TypeOK /\ EndingInv

\* What a step of one writer is.
Acts(p) ==
    Recording(p) \/ Evaluating(p) \/ Rewriting(p) \/ CycleFails(p) \/ Crash(p)

-----------------------------------------------------------------------------
\* The operators on rows and files keep their types.
LEMMA RowsType ==
    ASSUME NEW f \in Files
    PROVE  /\ Rows(f) \in Seq(FileLines)
           /\ Readable(f) => Rows(f) \in Seq(JournalRows)
<1>1. Rows(f) \in Seq(FileLines)
  BY EmptySeq, ConcatProperties DEF Rows, Files
<1>2. ASSUME Readable(f) PROVE Rows(f) \in Seq(JournalRows)
  <2>1. CASE f.header
    <3>1. \A i \in DOMAIN Rows(f) : Rows(f)[i] \in JournalRows
      BY <1>1, <1>2, <2>1 DEF Readable, FileLines
    <3> QED
      BY <1>1, <3>1
  <2>2. CASE ~f.header
    BY <2>2, EmptySeq DEF Rows
  <2> QED
    BY <2>1, <2>2
<1> QED
  BY <1>1, <1>2

LEMMA PartsType ==
    ASSUME NEW n \in Int \cup {None}
    PROVE  Parts(n) \subseteq Int \cup {None}
<1>1. \A m \in Int : m \div 10 \in Int
  OBVIOUS
<1> QED
  BY <1>1 DEF Parts

\* However the line of a row is cut, it raises, or it is a row with the same id
\* and the same levels.
LEMMA CutsKeep ==
    ASSUME NEW r \in JournalRows, NEW line \in Cuts(r)
    PROVE  \/ line = Torn
           \/ /\ line \in JournalRows /\ line.signal_id = r.signal_id
              /\ \E rr \in Int : line.plan = [r.plan EXCEPT !.risk_reward = rr]
<1> DEFINE plain(rr) == NewRecord(r.signal_id, [r.plan EXCEPT !.risk_reward = rr], r.timestamp)
           Like(l) == /\ l \in JournalRows /\ l.signal_id = r.signal_id
                      /\ \E rr \in Int : l.plan = [r.plan EXCEPT !.risk_reward = rr]
<1>1. /\ r.plan \in Plans /\ r.plan.risk_reward \in Int /\ r.plan = [r.plan EXCEPT !.risk_reward = r.plan.risk_reward]
      /\ r.exit_price \in Int \cup {None} /\ r.outcome_r \in Int \cup {None} /\ r.sell_price \in Int \cup {None}
  BY DEF JournalRows, Plans
<1>2. ASSUME NEW rr \in Int PROVE /\ plain(rr) \in JournalRows /\ Like(plain(rr))
  <2>1. [r.plan EXCEPT !.risk_reward = rr] \in Plans
    BY <1>1, <1>2 DEF Plans
  <2> QED
    BY <2>1, <1>2 DEF NewRecord, JournalRows
<1>3. \A rr \in Parts(r.plan.risk_reward) \ {None} : Like(plain(rr))
  BY <1>1, <1>2, PartsType
<1> DEFINE whole == plain(r.plan.risk_reward)
<1>4. /\ whole \in JournalRows /\ whole.signal_id = r.signal_id /\ whole.plan = r.plan
  BY <1>1, <1>2 DEF NewRecord
<1> HIDE DEF plain
<1>5. Like([whole EXCEPT !.status = "PART"])
  BY <1>1, <1>4 DEF JournalRows
<1>6. ASSUME NEW exit \in Int \cup {None}, NEW outcome \in Int \cup {None}
      PROVE  Like([whole EXCEPT !.status = r.status, !.exit_price = exit, !.outcome_r = outcome])
  BY <1>1, <1>4 DEF JournalRows
<1>7. \A flags : Like([r EXCEPT !.hit = @ \cap flags, !.sell_price = None])
  BY <1>1 DEF JournalRows
<1>8. \A price \in Int \cup {None} : Like([r EXCEPT !.sell_price = price])
  BY <1>1 DEF JournalRows
<1>9. /\ Parts(r.exit_price) \subseteq Int \cup {None} /\ Parts(r.outcome_r) \subseteq Int \cup {None}
      /\ Parts(r.sell_price) \subseteq Int \cup {None}
  BY <1>1, PartsType
<1>10. line = Torn \/ Like(line)
  <2> HIDE DEF Like
  <2>1. \/ line = Torn
        \/ \E rr \in Parts(r.plan.risk_reward) \ {None} : line = plain(rr)
        \/ line = [whole EXCEPT !.status = "PART"]
        \/ \E exit \in Parts(r.exit_price) :
              line = [whole EXCEPT !.status = r.status, !.exit_price = exit, !.outcome_r = None]
        \/ \E outcome \in Parts(r.outcome_r) :
              line = [whole EXCEPT !.status = r.status, !.exit_price = r.exit_price, !.outcome_r = outcome]
        \/ \E flags : line = [r EXCEPT !.hit = @ \cap flags, !.sell_price = None]
        \/ \E price \in Parts(r.sell_price) : line = [r EXCEPT !.sell_price = price]
    BY DEF Cuts, plain
  <2>2. ASSUME NEW exit \in Parts(r.exit_price),
               line = [whole EXCEPT !.status = r.status, !.exit_price = exit, !.outcome_r = None]
        PROVE  Like(line)
    BY <1>6, <1>9, <2>2
  <2>3. ASSUME NEW outcome \in Parts(r.outcome_r),
               line = [whole EXCEPT !.status = r.status, !.exit_price = r.exit_price, !.outcome_r = outcome]
        PROVE  Like(line)
    BY <1>1, <1>6, <1>9, <2>3
  <2>4. ASSUME NEW flags, line = [r EXCEPT !.hit = @ \cap flags, !.sell_price = None] PROVE Like(line)
    BY <1>7, <2>4
  <2>5. ASSUME NEW price \in Parts(r.sell_price), line = [r EXCEPT !.sell_price = price] PROVE Like(line)
    BY <1>8, <1>9, <2>5
  <2> HIDE DEF whole
  <2>6. CASE line = Torn \/ \E rr \in Parts(r.plan.risk_reward) \ {None} : line = plain(rr)
    BY <1>3, <2>6
  <2>7. CASE line = [whole EXCEPT !.status = "PART"]
    BY <1>5, <2>7
  <2> QED
    BY <2>1, <2>2, <2>3, <2>4, <2>5, <2>6, <2>7
<1> QED
  BY <1>10

\* What a rewrite has written so far is the header, some of its rows, and a cut one.
LEMMA PiecesAre ==
    ASSUME NEW f, NEW rows \in Seq(JournalRows), NEW g \in Pieces(f, rows)
    PROVE  \E n \in 0 .. (Len(rows) - 1) :
              \/ g = Contents(SubSeq(rows, 1, n))
              \/ \E line \in Cuts(rows[n + 1]) :
                    g = [header |-> TRUE, rows |-> SubSeq(rows, 1, n), tail |-> <<line>>]
<1>0. PICK n \in 0 .. (Len(rows) - 1) :
        \E t \in {<<>>} \cup {<<line>> : line \in Cuts(rows[n + 1])} :
           g = [Contents(SubSeq(rows, 1, n)) EXCEPT !.tail = t]
  BY DEF Pieces
<1>1. PICK t \in {<<>>} \cup {<<line>> : line \in Cuts(rows[n + 1])} :
        g = [Contents(SubSeq(rows, 1, n)) EXCEPT !.tail = t]
  BY <1>0
<1>2. g = [header |-> TRUE, rows |-> SubSeq(rows, 1, n), tail |-> t]
  BY <1>1 DEF Contents
<1> QED
  BY <1>1, <1>2 DEF Contents

LEMMA PiecesType ==
    ASSUME NEW f, NEW rows \in Seq(JournalRows), NEW g \in Pieces(f, rows)
    PROVE  g \in Files /\ g.header
<1>1. PICK n \in 0 .. (Len(rows) - 1) :
        \/ g = Contents(SubSeq(rows, 1, n))
        \/ \E line \in Cuts(rows[n + 1]) :
              g = [header |-> TRUE, rows |-> SubSeq(rows, 1, n), tail |-> <<line>>]
  BY PiecesAre
<1>2. SubSeq(rows, 1, n) \in Seq(FileLines) /\ rows[n + 1] \in JournalRows
  BY SubSeqProperties DEF FileLines
<1>3. \A line \in Cuts(rows[n + 1]) : <<line>> \in Seq(FileLines)
  BY <1>2, CutsKeep DEF FileLines
<1>4. CASE g = Contents(SubSeq(rows, 1, n))
  BY <1>2, <1>4, EmptySeq DEF Files, Contents
<1>5. ASSUME NEW line \in Cuts(rows[n + 1]),
             g = [header |-> TRUE, rows |-> SubSeq(rows, 1, n), tail |-> <<line>>]
      PROVE  g \in Files /\ g.header
  BY <1>2, <1>3, <1>5 DEF Files
<1> QED
  BY <1>1, <1>4, <1>5

LEMMA UpdateType ==
    ASSUME NEW rows \in Seq(JournalRows), NEW id, NEW hit \in SUBSET Flags, NEW sell \in Int \cup {None}
    PROVE  update_live_state(rows, id, hit, sell) \in Seq(JournalRows)
<1>1. ASSUME NEW r \in JournalRows PROVE MarkLive(r, hit, sell) \in JournalRows
  <2>1. r.hit \cup hit \in SUBSET Flags /\ PriceOr(sell, r.sell_price) \in Int \cup {None}
    BY DEF JournalRows, PriceOr
  <2> QED
    BY <2>1 DEF JournalRows, MarkLive
<1>2. \A i \in DOMAIN rows : rows[i] \in JournalRows
  OBVIOUS
<1>3. update_live_state(rows, id, hit, sell) \in [1 .. Len(rows) -> JournalRows]
  BY <1>1, <1>2 DEF update_live_state
<1> QED
  BY <1>3

LEMMA ResolveType ==
    ASSUME NEW rows \in Seq(JournalRows), NEW id, NEW ending \in Endings, NEW exit \in Int, NEW out \in Int
    PROVE  resolve(rows, id, ending, exit, out, None) \in Seq(JournalRows)
<1>1. ASSUME NEW r \in JournalRows PROVE Close(r, ending, exit, out, None) \in JournalRows
  BY DEF JournalRows, Close, Endings
<1>2. \A i \in DOMAIN rows : rows[i] \in JournalRows
  OBVIOUS
<1>3. resolve(rows, id, ending, exit, out, None) \in [1 .. Len(rows) -> JournalRows]
  BY <1>1, <1>2 DEF resolve
<1> QED
  BY <1>3

LEMMA PlanTypes ==
    ASSUME NEW plan \in Plans
    PROVE  /\ \A price : Hits(plan, price) \in SUBSET Flags
           /\ \A price : Ending(plan, price) \in Endings \cup {"OPEN"}
           /\ \A ending : ExitPrice(plan, ending) \in Int \cup {None}
           /\ \A ending \in Endings : ExitPrice(plan, ending) \in Int
           /\ \A exit \in Int : outcome_r(plan, exit) \in Int
<1>1. /\ plan.entry \in Int /\ plan.stop_loss \in Int /\ plan.target_1 \in Int /\ plan.target_2 \in Int
  BY DEF Plans
<1>2. \A price : Hits(plan, price) \in SUBSET Flags
  BY DEF Hits, Flags
<1>3. \A price : Ending(plan, price) \in Endings \cup {"OPEN"}
  BY DEF Ending, Endings
<1>4. /\ \A ending : ExitPrice(plan, ending) \in Int \cup {None}
      /\ \A ending \in Endings : ExitPrice(plan, ending) \in Int
  BY <1>1 DEF ExitPrice, Endings
<1>5. ASSUME NEW exit \in Int PROVE outcome_r(plan, exit) \in Int
  <2> DEFINE risk == Abs(plan.entry - plan.stop_loss)
  <2>1. risk \in Nat
    BY <1>1 DEF Abs
  <2> HIDE DEF risk
  <2>2. \A n \in Int : risk # 0 => n \div risk \in Int
    BY <2>1
  <2> QED
    BY <1>1, <2>1, <2>2 DEF outcome_r, risk
<1> QED
  BY <1>2, <1>3, <1>4, <1>5

LEMMA RecordType ==
    ASSUME BaseInv, NEW p \in Writers, NEW alert \in results[p]
    PROVE  /\ alert \in Alerts /\ alert \in Plans
           /\ NewRecord(Len(alerts) + 1, alert, None) \in JournalRows
<1>1. alert \in Alerts /\ alert \in Plans /\ Len(alerts) + 1 \in Nat
  BY JournalAssumption DEF BaseInv, TypeOK
<1> QED
  BY <1>1 DEF NewRecord, JournalRows

LEMMA AppendedType ==
    ASSUME NEW f \in Files, NEW new \in JournalRows, NEW g \in Appended(f, new)
    PROVE  g \in Files
<1>1. new \in FileLines /\ [new EXCEPT !.signal_id = 0] \in FileLines /\ Torn \in FileLines
  BY DEF FileLines, JournalRows
<1>2. \A line \in FileLines : Append(f.rows, line) \in Seq(FileLines)
  BY DEF Files
<1>3. CASE f.tail = <<>>
  BY <1>1, <1>2, <1>3 DEF Appended, Files, record
<1>4. CASE f.tail # <<>>
  <2>1. PICK line \in {Torn, [new EXCEPT !.signal_id = 0]} : g = [f EXCEPT !.rows = Append(@, line), !.tail = <<>>]
    BY <1>4 DEF Appended
  <2> QED
    BY <1>1, <1>2, <2>1, EmptySeq DEF Files
<1> QED
  BY <1>3, <1>4

LEMMA RecordingType ==
    ASSUME BaseInv, NEW p \in Writers, Recording(p)
    PROVE  TypeOK'
<1> USE DEF TypeOK, BaseInv, PcValues, Goto, Continue, Rewrite
<1>f. file \in Files
  BY DEF Files
<1>r. Readable(file) => Rows(file) \in Seq(JournalRows)
  BY <1>f, RowsType
<1>1. CASE Construct(p)
  <2> DEFINE rows == Rows(file)
  <2>1. /\ \/ /\ replacement' = [replacement EXCEPT ![p] = rows] /\ Readable(file)
              /\ return' = [return EXCEPT ![p] = "idle"]
              /\ pc' = [pc EXCEPT ![p] = "truncate"]
           \/ pc' = [pc EXCEPT ![p] = "idle"] /\ replacement' = replacement /\ return' = return
        /\ UNCHANGED <<file, alerts, results, existing, todo, row, crashes>>
    BY <1>1 DEF Construct
  <2> HIDE DEF rows
  <2>2. replacement' \in [Writers -> Seq(JournalRows)]
    BY <1>r, <2>1 DEF rows
  <2>3. return' \in [Writers -> PcValues] /\ pc' \in [Writers -> PcValues]
    BY <2>1
  <2> QED
    BY <2>1, <2>2, <2>3
<1>2. CASE BeginCycle(p)
  <2>1. PICK S \in Scans : results' = [results EXCEPT ![p] = S]
    BY <1>2 DEF BeginCycle
  <2>2. S \in SUBSET Alerts
    BY DEF Scans
  <2> QED
    BY <1>2, <2>1, <2>2 DEF BeginCycle
<1>3. CASE ReadExisting(p)
  BY <1>3, <1>r DEF ReadExisting
<1>4. ASSUME NEW alert \in results[p], SkipResult(p, alert) PROVE TypeOK'
  BY <1>4 DEF SkipResult, NextResult
<1>5. ASSUME NEW alert \in results[p], RecordResult(p, alert) PROVE TypeOK'
  <2> DEFINE new == NewRecord(Len(alerts) + 1, alert, None)
  <2>1. new \in JournalRows
    BY RecordType
  <2>2. /\ file' \in Appended(file, new) /\ alerts' = Append(alerts, new)
        /\ results' = [results EXCEPT ![p] = @ \ {alert}]
        /\ pc' = [pc EXCEPT ![p] = IF p \in Runners THEN "readback" ELSE "read"]
        /\ UNCHANGED <<existing, todo, row, crashes, replacement, return>>
    BY <1>5 DEF RecordResult
  <2> HIDE DEF new
  <2>3. alerts' \in Seq(JournalRows)
    BY <2>1, <2>2, AppendProperties
  <2>4. file' \in Files
    BY <1>f, <2>1, <2>2, AppendedType
  <2>5. /\ results' \in [Writers -> SUBSET Alerts] /\ pc' \in [Writers -> PcValues]
        /\ UNCHANGED <<existing, todo, row, crashes, replacement, return>>
    BY <2>2
  <2> QED
    BY <2>3, <2>4, <2>5 DEF Files
<1>6. CASE ReadBack(p)
  <2>1. Rows(file)[Len(Rows(file))] \in JournalRows
    <3>1. Rows(file) # <<>> /\ Readable(file)
      BY <1>6 DEF ReadBack
    <3>2. Len(Rows(file)) \in 1 .. Len(Rows(file))
      BY <1>r, <3>1, EmptySeq, LenProperties
    <3>3. Rows(file) \in Seq(JournalRows)
      BY <1>r, <3>1
    <3> QED
      BY <3>2, <3>3, ElementOfSeq
  <2>2. Append(existing[p], Rows(file)[Len(Rows(file))]) \in Seq(JournalRows)
    BY <2>1, AppendProperties
  <2> QED
    BY <1>6, <2>2 DEF ReadBack
<1> QED
  BY <1>1, <1>2, <1>3, <1>4, <1>5, <1>6 DEF Recording

LEMMA EvaluatingType ==
    ASSUME BaseInv, NEW p \in Writers, Evaluating(p)
    PROVE  TypeOK'
<1> USE DEF TypeOK, BaseInv, PcValues, Goto, Continue, Rewrite
<1>r. Readable(file) => Rows(file) \in Seq(JournalRows)
  BY RowsType DEF Files
<1>1. CASE BeginOutcomes(p)
  <2>1. PICK symbols : todo' = [todo EXCEPT ![p] = OpenRows(Rows(file), symbols)]
    BY <1>1 DEF BeginOutcomes
  <2>2. OpenRows(Rows(file), symbols) \in SUBSET JournalRows
    BY <1>1, <1>r DEF OpenRows, BeginOutcomes
  <2>3. existing' \in [Writers -> Seq(JournalRows)]
    BY <1>1, EmptySeq DEF BeginOutcomes
  <2> QED
    BY <1>1, <2>1, <2>2, <2>3 DEF BeginOutcomes
<1>2. ASSUME NEW r \in todo[p], PassOver(p, r) PROVE TypeOK'
  BY <1>2 DEF PassOver
<1>3. ASSUME NEW r \in todo[p], NEW price \in Prices, Evaluate(p, r, price) PROVE TypeOK'
  <2> DEFINE ending == Ending(r.plan, price)
             place  == IF ending = "OPEN" THEN "outcomes" ELSE ending
             rows   == update_live_state(Rows(file), r.signal_id, Hits(r.plan, price),
                                         ExitPrice(r.plan, ending))
  <2>1. r \in JournalRows /\ r.plan \in Plans
    BY DEF JournalRows
  <2>2. ending \in Endings \cup {"OPEN"} /\ rows \in Seq(JournalRows)
    BY <1>3, <1>r, <2>1, PlanTypes, UpdateType DEF Evaluate
  <2>3. /\ row' = [row EXCEPT ![p] = IF ending = "OPEN" THEN None ELSE r]
        /\ \/ /\ replacement' = [replacement EXCEPT ![p] = rows]
              /\ return' = [return EXCEPT ![p] = place]
              /\ pc' = [pc EXCEPT ![p] = "truncate"]
           \/ pc' = [pc EXCEPT ![p] = place] /\ replacement' = replacement /\ return' = return
        /\ todo' = [todo EXCEPT ![p] = @ \ {r}]
        /\ UNCHANGED <<file, alerts, results, existing, crashes>>
    BY <1>3 DEF Evaluate
  <2>4. place \in PcValues
    BY <2>2 DEF Endings
  <2> HIDE DEF ending, rows, place
  <2>5. replacement' \in [Writers -> Seq(JournalRows)]
    BY <2>2, <2>3
  <2>7. return' \in [Writers -> PcValues] /\ pc' \in [Writers -> PcValues]
    <3>1. return \in [Writers -> PcValues] /\ pc \in [Writers -> PcValues] /\ "truncate" \in PcValues
      OBVIOUS
    <3>2. \/ return' = [return EXCEPT ![p] = place] /\ pc' = [pc EXCEPT ![p] = "truncate"]
          \/ pc' = [pc EXCEPT ![p] = place] /\ return' = return
      BY <2>3
    <3> HIDE DEF PcValues, TypeOK, BaseInv
    <3>3. CASE return' = [return EXCEPT ![p] = place] /\ pc' = [pc EXCEPT ![p] = "truncate"]
      BY <2>4, <3>1, <3>3
    <3>4. CASE pc' = [pc EXCEPT ![p] = place] /\ return' = return
      BY <2>4, <3>1, <3>4
    <3> QED
      BY <3>2, <3>3, <3>4
  <2>6. todo' \in [Writers -> SUBSET JournalRows] /\ row' \in [Writers -> JournalRows \cup {None}]
    BY <2>1, <2>3
  <2> QED
    BY <2>3, <2>5, <2>6, <2>7
<1>4. ASSUME NEW ending \in Endings, Resolve(p, ending) PROVE TypeOK'
  <2> DEFINE r    == row[p]
             exit == ExitPrice(r.plan, ending)
             rows == resolve(Rows(file), r.signal_id, ending, exit, outcome_r(r.plan, exit), None)
  <2>1. r \in JournalRows /\ r.plan \in Plans /\ Readable(file)
    BY <1>4 DEF Resolve, EndingInv, Ends, JournalRows
  <2>2. exit \in Int /\ outcome_r(r.plan, exit) \in Int
    BY <2>1, PlanTypes
  <2>3. rows \in Seq(JournalRows)
    BY <1>r, <2>1, <2>2, ResolveType
  <2>4. /\ row' = [row EXCEPT ![p] = None]
        /\ \/ /\ replacement' = [replacement EXCEPT ![p] = rows]
              /\ return' = [return EXCEPT ![p] = "outcomes"]
              /\ pc' = [pc EXCEPT ![p] = "truncate"]
           \/ pc' = [pc EXCEPT ![p] = "outcomes"] /\ replacement' = replacement /\ return' = return
        /\ UNCHANGED <<file, alerts, results, existing, todo, crashes>>
    BY <1>4 DEF Resolve
  <2> HIDE DEF r, exit, rows
  <2>5. replacement' \in [Writers -> Seq(JournalRows)]
    BY <2>3, <2>4
  <2>6. return' \in [Writers -> PcValues] /\ pc' \in [Writers -> PcValues]
    BY <2>4
  <2>7. row' \in [Writers -> JournalRows \cup {None}]
    BY <2>4
  <2> QED
    BY <2>4, <2>5, <2>6, <2>7
<1>5. CASE EndCycle(p)
  BY <1>5, EmptySeq DEF EndCycle, Forget
<1> QED
  BY <1>1, <1>2, <1>3, <1>4, <1>5 DEF Evaluating, Endings

LEMMA TypeStep ==
    ASSUME BaseInv, NEW p \in Writers, Acts(p)
    PROVE  TypeOK'
<1> USE DEF TypeOK, BaseInv, PcValues, Goto, Continue
<1>1. CASE Truncate(p)
  BY <1>1, EmptySeq DEF Truncate, Empty
<1>2. CASE Flush(p)
  <2>1. file' \in Files
    BY <1>2, PiecesType DEF Flush
  <2> QED
    BY <1>2, <2>1 DEF Flush, Files
<1>3. CASE CloseFile(p)
  <2>1. file' \in Files
    BY <1>3, EmptySeq DEF CloseFile, Contents, Files, FileLines
  <2>2. replacement' \in [Writers -> Seq(JournalRows)]
    BY <1>3, EmptySeq DEF CloseFile
  <2> QED
    BY <1>3, <2>1, <2>2 DEF CloseFile, Files
<1>4. CASE CycleFails(p)
  BY <1>4, EmptySeq DEF CycleFails, Forget
<1>5. CASE Crash(p)
  BY <1>5, EmptySeq, JournalAssumption DEF Crash, Forget
<1> QED
  BY <1>1, <1>2, <1>3, <1>4, <1>5, RecordingType, EvaluatingType DEF Acts, Rewriting

LEMMA EndsStep ==
    ASSUME TypeOK, NEW F, todo \in [Writers -> SUBSET F], Ends(F), NEW p \in Writers, Acts(p)
    PROVE  Ends(F)'
<1> USE DEF Goto, Continue, Rewrite
<1>t. /\ pc \in [Writers -> PcValues] /\ row \in [Writers -> JournalRows \cup {None}]
      /\ return \in [Writers -> PcValues] /\ todo \in [Writers -> SUBSET F]
  BY DEF TypeOK
\* A step that goes on from outside a rewrite to a place that needs no row.
<1>k. ASSUME UNCHANGED return, pc[p] \notin {"truncate", "write"},
             NEW place, pc' = [pc EXCEPT ![p] = place], place \notin Endings \cup {"truncate", "write"},
             NEW x, row' = [row EXCEPT ![p] = x]
      PROVE  Ends(F)'
  BY <1>k, <1>t DEF Ends, Endings
<1>s. row = [row EXCEPT ![p] = row[p]]
  BY <1>t
\* A step that begins a rewrite which needs no row.
<1>w. ASSUME NEW place \in {"idle", "outcomes"}, return' = [return EXCEPT ![p] = place],
             pc' = [pc EXCEPT ![p] = "truncate"], NEW x, row' = [row EXCEPT ![p] = x]
      PROVE  Ends(F)'
  BY <1>w, <1>t DEF Ends, Endings
<1>1. CASE Construct(p)
  <2>1. CASE file.header
    BY <1>1, <2>1, <1>k, <1>s DEF Construct, Endings
  <2>2. CASE ~file.header
    BY <1>1, <2>2, <1>w, <1>s DEF Construct
  <2> QED
    BY <2>1, <2>2
<1>2. CASE BeginCycle(p) \/ ReadExisting(p) \/ ReadBack(p) \/ BeginOutcomes(p)
  BY <1>2, <1>k, <1>s DEF BeginCycle, ReadExisting, ReadBack, BeginOutcomes, Endings
<1>3. ASSUME NEW alert \in results[p], SkipResult(p, alert) \/ RecordResult(p, alert) PROVE Ends(F)'
  BY <1>3, <1>k, <1>s DEF SkipResult, RecordResult, NextResult, Endings
<1>4. ASSUME NEW r \in todo[p], PassOver(p, r) PROVE Ends(F)'
  BY <1>4, <1>k, <1>s DEF PassOver, Endings
<1>5. ASSUME NEW r \in todo[p], NEW price \in Prices, Evaluate(p, r, price) PROVE Ends(F)'
  <2> DEFINE ending == Ending(r.plan, price)
             place  == IF ending = "OPEN" THEN "outcomes" ELSE ending
  <2>1. ending \in Endings \cup {"OPEN"} /\ r \in F /\ pc[p] = "outcomes"
    BY <1>5, <1>t DEF Ending, Endings, Evaluate
  <2>2. /\ row' = [row EXCEPT ![p] = IF ending = "OPEN" THEN None ELSE r]
        /\ \/ return' = [return EXCEPT ![p] = place] /\ pc' = [pc EXCEPT ![p] = "truncate"]
           \/ pc' = [pc EXCEPT ![p] = place] /\ return' = return
    BY <1>5 DEF Evaluate
  <2> HIDE DEF ending
  <2>3. CASE ending = "OPEN"
    BY <2>1, <2>2, <2>3, <1>k, <1>w DEF Endings
  <2>4. CASE ending \in Endings
    <3>1. row' = [row EXCEPT ![p] = r] /\ place = ending
      BY <2>2, <2>4 DEF Endings
    <3>2. CASE return' = [return EXCEPT ![p] = ending] /\ pc' = [pc EXCEPT ![p] = "truncate"]
      BY <2>1, <2>4, <3>1, <3>2, <1>t DEF Ends, Endings
    <3>3. CASE pc' = [pc EXCEPT ![p] = ending] /\ return' = return
      BY <2>1, <2>4, <3>1, <3>3, <1>t DEF Ends, Endings
    <3> QED
      BY <2>2, <3>1, <3>2, <3>3
  <2> QED
    BY <2>1, <2>3, <2>4
<1>6. ASSUME NEW ending \in Endings, Resolve(p, ending) PROVE Ends(F)'
  <2>1. /\ row' = [row EXCEPT ![p] = None] /\ pc[p] = ending
        /\ \/ return' = [return EXCEPT ![p] = "outcomes"] /\ pc' = [pc EXCEPT ![p] = "truncate"]
           \/ pc' = [pc EXCEPT ![p] = "outcomes"] /\ return' = return
    BY <1>6 DEF Resolve
  <2> QED
    BY <2>1, <1>k, <1>w DEF Endings
<1>7. CASE EndCycle(p)
  BY <1>7, <1>k DEF EndCycle, Forget, Endings
<1>8. CASE CycleFails(p)
  BY <1>8, <1>k DEF CycleFails, Forget, Endings
<1>9. CASE Crash(p)
  <2>1. /\ pc' = [pc EXCEPT ![p] = "down"] /\ return' = [return EXCEPT ![p] = "idle"]
        /\ row' = [row EXCEPT ![p] = None]
    BY <1>9 DEF Crash, Forget
  <2> QED
    BY <2>1, <1>t DEF Ends, Endings
<1>10. CASE Truncate(p)
  BY <1>10, <1>t DEF Truncate, Ends, Endings
<1>11. CASE Flush(p)
  BY <1>11 DEF Flush, Ends
<1>12. CASE CloseFile(p)
  <2>1. /\ pc' = [pc EXCEPT ![p] = return[p]] /\ return' = [return EXCEPT ![p] = "idle"]
        /\ row' = row
    BY <1>12 DEF CloseFile
  <2> QED
    BY <2>1, <1>t DEF Ends, Endings
<1> QED
  BY <1>1, <1>2, <1>3, <1>4, <1>5, <1>6, <1>7, <1>8, <1>9, <1>10, <1>11, <1>12
     DEF Acts, Recording, Evaluating, Rewriting, Endings

LEMMA BaseInit == Init => BaseInv
<1> SUFFICES ASSUME Init PROVE BaseInv
  OBVIOUS
<1>1. TypeOK
  BY JournalAssumption, EmptySeq DEF Init, TypeOK, Empty, Contents, PcValues
<1>2. EndingInv
  BY DEF Init, EndingInv, Ends, Endings
<1> QED
  BY <1>1, <1>2 DEF BaseInv

LEMMA BaseStep ==
    ASSUME BaseInv, [Next]_vars
    PROVE  BaseInv'
<1>1. CASE Next
  <2>1. PICK p \in Writers : Acts(p)
    BY <1>1 DEF Next, Acts
  <2> QED
    BY <2>1, TypeStep, EndsStep DEF BaseInv, EndingInv, TypeOK
<1>2. CASE UNCHANGED vars
  BY <1>2 DEF vars, BaseInv, TypeOK, EndingInv, Ends
<1> QED
  BY <1>1, <1>2

\* Whatever the programs do to each other on the file and wherever they die, each
\* line of it raises or is a complete row, and so is each row that one holds.
THEOREM RecordsAreComplete == Spec => []TypeOK
<1>1. BaseInv /\ [Next]_vars => BaseInv'
  BY BaseStep
<1>2. BaseInv => TypeOK
  BY DEF BaseInv
<1> QED
  BY <1>1, <1>2, BaseInit, PTL DEF Spec

-----------------------------------------------------------------------------
\* rows2 is what a rewrite makes of rows: the same rows with the same plans, none
\* opened, and the closed ones as they were.
Follows(rows, rows2) ==
    /\ DOMAIN rows2 = DOMAIN rows
    /\ \A i \in DOMAIN rows :
         /\ rows2[i].signal_id = rows[i].signal_id /\ rows2[i].plan = rows[i].plan
         /\ IsOpen(rows2[i]) => IsOpen(rows[i])
         /\ ~IsOpen(rows[i]) => rows2[i] = rows[i]

LEMMA UpdateFollows ==
    ASSUME NEW rows \in Seq(JournalRows), NEW id, NEW hit, NEW sell
    PROVE  Follows(rows, update_live_state(rows, id, hit, sell))
<1>1. \A i \in DOMAIN rows : rows[i] \in JournalRows
  OBVIOUS
<1>2. ASSUME NEW r \in JournalRows
      PROVE  /\ MarkLive(r, hit, sell).signal_id = r.signal_id /\ MarkLive(r, hit, sell).plan = r.plan
             /\ MarkLive(r, hit, sell).status = r.status
  BY DEF MarkLive, JournalRows
<1> QED
  BY <1>1, <1>2 DEF Follows, update_live_state, Selects, IsOpen

LEMMA ResolveFollows ==
    ASSUME NEW rows \in Seq(JournalRows), NEW id, NEW ending \in Endings, NEW exit, NEW out
    PROVE  Follows(rows, resolve(rows, id, ending, exit, out, None))
<1>1. \A i \in DOMAIN rows : rows[i] \in JournalRows
  OBVIOUS
<1>2. ASSUME NEW r \in JournalRows
      PROVE  /\ Close(r, ending, exit, out, None).signal_id = r.signal_id
             /\ Close(r, ending, exit, out, None).plan = r.plan
             /\ ~IsOpen(Close(r, ending, exit, out, None))
  BY DEF Close, JournalRows, IsOpen, Endings
<1> QED
  BY <1>1, <1>2 DEF Follows, resolve, Selects

LEMMA FollowsItself == \A rows : Follows(rows, rows)
  BY DEF Follows

-----------------------------------------------------------------------------
\* The rows a writer may compute from those it reads in the file.
Computed(p, rows) ==
    \/ rows = Rows(file)
    \/ \E id \in Nat, hit \in SUBSET Flags, sell \in Int \cup {None} :
          rows = update_live_state(Rows(file), id, hit, sell)
    \/ \E ending \in Endings :
          LET exit == ExitPrice(row[p].plan, ending)
          IN  /\ pc[p] = ending
              /\ rows = resolve(Rows(file), row[p].signal_id, ending, exit,
                                outcome_r(row[p].plan, exit), None)

\* A step that leaves the file alone and begins no rewrite, one that begins a
\* rewrite, and one that appends; the others are those of Rewriting.
Leaves(p) ==
    /\ UNCHANGED <<file, alerts>>
    /\ replacement' \in {replacement, [replacement EXCEPT ![p] = <<>>]}
    /\ \E place \in PcValues \ {"truncate", "write"} :
          /\ pc' = [pc EXCEPT ![p] = place]
          /\ \/ place = "down" /\ (pc[p] = "write" => TornWrites)
             \/ pc[p] \notin {"down", "truncate", "write"}
             \/ pc[p] = "down" /\ file.header

Begins(p) ==
    /\ UNCHANGED <<file, alerts>>
    /\ pc[p] \notin {"truncate", "write"} /\ Free(p) /\ Readable(file)
    /\ pc' = [pc EXCEPT ![p] = "truncate"]
    /\ \E rows : Computed(p, rows) /\ replacement' = [replacement EXCEPT ![p] = rows]

Records(p) == \E alert \in results[p] : RecordResult(p, alert)

LEMMA StepKinds ==
    ASSUME BaseInv, NEW p \in Writers, Acts(p)
    PROVE  Leaves(p) \/ Begins(p) \/ Records(p) \/ Rewriting(p)
<1> USE DEF Goto, Continue, Rewrite
<1>t. /\ pc \in [Writers -> PcValues] /\ todo \in [Writers -> SUBSET JournalRows]
  BY DEF BaseInv, TypeOK
\* Most steps go on from a place where the writer has seen to the header.
<1>k. ASSUME UNCHANGED <<file, alerts, replacement>>, pc[p] \notin {"down", "truncate", "write"},
             NEW place \in PcValues \ {"truncate", "write"}, pc' = [pc EXCEPT ![p] = place]
      PROVE  Leaves(p)
  BY <1>k DEF Leaves
<1>1. CASE Construct(p)
  <2>1. CASE file.header
    BY <1>1, <2>1 DEF Construct, Leaves, PcValues
  <2>2. CASE ~file.header
    BY <1>1, <2>2 DEF Construct, Begins, Computed
  <2> QED
    BY <2>1, <2>2
<1>2. CASE BeginCycle(p)
  BY <1>2, <1>k DEF BeginCycle, PcValues
<1>3. CASE ReadExisting(p)
  BY <1>3, <1>k DEF ReadExisting, PcValues
<1>4. ASSUME NEW alert \in results[p], SkipResult(p, alert) PROVE Leaves(p)
  <2>1. NextResult(p) \in PcValues \ {"truncate", "write"}
    BY DEF NextResult, PcValues
  <2> QED
    BY <1>4, <1>k, <2>1 DEF SkipResult
<1>5. CASE ReadBack(p)
  BY <1>5, <1>k DEF ReadBack, PcValues
<1>6. CASE BeginOutcomes(p)
  BY <1>6, <1>k DEF BeginOutcomes, PcValues
<1>7. ASSUME NEW r \in todo[p], PassOver(p, r) PROVE Leaves(p)
  BY <1>7, <1>k DEF PassOver, PcValues
<1>8. ASSUME NEW r \in todo[p], NEW price \in Prices, Evaluate(p, r, price)
      PROVE  Leaves(p) \/ Begins(p)
  <2> DEFINE ending == Ending(r.plan, price)
             place  == IF ending = "OPEN" THEN "outcomes" ELSE ending
             rows   == update_live_state(Rows(file), r.signal_id, Hits(r.plan, price),
                                         ExitPrice(r.plan, ending))
  <2>1. /\ r.signal_id \in Nat /\ Hits(r.plan, price) \in SUBSET Flags
        /\ ExitPrice(r.plan, ending) \in Int \cup {None} /\ ending \in Endings \cup {"OPEN"}
    BY <1>t, PlanTypes DEF JournalRows
  <2>2. Computed(p, rows)
    BY <2>1 DEF Computed
  <2>3. place \in PcValues \ {"truncate", "write"}
    BY <2>1 DEF Endings, PcValues
  <2>4. /\ UNCHANGED <<file, alerts>> /\ pc[p] = "outcomes" /\ Free(p) /\ Readable(file)
        /\ \/ replacement' = [replacement EXCEPT ![p] = rows] /\ pc' = [pc EXCEPT ![p] = "truncate"]
           \/ pc' = [pc EXCEPT ![p] = place] /\ replacement' = replacement
    BY <1>8 DEF Evaluate
  <2> HIDE DEF rows, place
  <2>5. CASE replacement' = [replacement EXCEPT ![p] = rows] /\ pc' = [pc EXCEPT ![p] = "truncate"]
    BY <2>2, <2>4, <2>5 DEF Begins
  <2>6. CASE pc' = [pc EXCEPT ![p] = place] /\ replacement' = replacement
    BY <2>3, <2>4, <2>6, <1>k
  <2> QED
    BY <2>4, <2>5, <2>6
<1>9. ASSUME NEW ending \in Endings, Resolve(p, ending) PROVE Leaves(p) \/ Begins(p)
  <2> DEFINE exit == ExitPrice(row[p].plan, ending)
             rows == resolve(Rows(file), row[p].signal_id, ending, exit,
                             outcome_r(row[p].plan, exit), None)
  <2>1. /\ UNCHANGED <<file, alerts>> /\ pc[p] = ending /\ Free(p) /\ Readable(file)
        /\ \/ replacement' = [replacement EXCEPT ![p] = rows] /\ pc' = [pc EXCEPT ![p] = "truncate"]
           \/ pc' = [pc EXCEPT ![p] = "outcomes"] /\ replacement' = replacement
    BY <1>9 DEF Resolve
  <2>2. Computed(p, rows)
    BY <2>1 DEF Computed
  <2> HIDE DEF rows
  <2>3. CASE replacement' = [replacement EXCEPT ![p] = rows] /\ pc' = [pc EXCEPT ![p] = "truncate"]
    BY <2>1, <2>2, <2>3 DEF Begins, Endings
  <2>4. CASE pc' = [pc EXCEPT ![p] = "outcomes"] /\ replacement' = replacement
    BY <2>1, <2>4, <1>k DEF Endings, PcValues
  <2> QED
    BY <2>1, <2>3, <2>4
<1>10. CASE EndCycle(p)
  BY <1>10, <1>k DEF EndCycle, PcValues
<1>11. CASE CycleFails(p)
  BY <1>11, <1>k DEF CycleFails, PcValues
<1>12. CASE Crash(p)
  BY <1>12 DEF Crash, Leaves, PcValues
<1> QED
  BY <1>1, <1>2, <1>3, <1>4, <1>5, <1>6, <1>7, <1>8, <1>9, <1>10, <1>11, <1>12
     DEF Acts, Recording, Evaluating, Records, Endings

\* Whatever is computed is complete rows that follow those in the file.
LEMMA ComputedFollows ==
    ASSUME BaseInv, Readable(file), NEW p \in Writers, NEW rows, Computed(p, rows)
    PROVE  rows \in Seq(JournalRows) /\ Follows(Rows(file), rows)
<1>1. Rows(file) \in Seq(JournalRows)
  BY RowsType DEF BaseInv, TypeOK, Files
<1>2. CASE rows = Rows(file)
  BY <1>1, <1>2, FollowsItself
<1>3. ASSUME NEW id \in Nat, NEW hit \in SUBSET Flags, NEW sell \in Int \cup {None},
             rows = update_live_state(Rows(file), id, hit, sell)
      PROVE  rows \in Seq(JournalRows) /\ Follows(Rows(file), rows)
  BY <1>1, <1>3, UpdateType, UpdateFollows
<1>4. ASSUME NEW ending \in Endings, NEW exit, exit = ExitPrice(row[p].plan, ending), pc[p] = ending,
             rows = resolve(Rows(file), row[p].signal_id, ending, exit, outcome_r(row[p].plan, exit), None)
      PROVE  rows \in Seq(JournalRows) /\ Follows(Rows(file), rows)
  <2>1. row[p].plan \in Plans
    BY <1>4 DEF BaseInv, EndingInv, Ends, JournalRows
  <2>2. exit \in Int /\ outcome_r(row[p].plan, exit) \in Int
    BY <1>4, <2>1, PlanTypes
  <2> QED
    BY <1>1, <1>4, <2>2, ResolveType, ResolveFollows
<1> QED
  BY <1>2, <1>3, <1>4 DEF Computed

-----------------------------------------------------------------------------
\* One program at a time, wherever it dies.
Alone == \A p, q \in Writers : pc[p] # "down" /\ pc[q] # "down" => p = q

\* A step moves its writer only, and a writer only starts when no other runs.
LEMMA PcMoves ==
    ASSUME TypeOK, NEW p \in Writers, Acts(p)
    PROVE  /\ \E place : pc' = [pc EXCEPT ![p] = place]
           /\ OneAtATime => pc[p] # "down" \/ \A q \in Writers : pc[q] = "down"
<1> USE DEF Goto, Continue, Rewrite
<1>1. CASE Recording(p)
  BY <1>1 DEF Recording, Construct, BeginCycle, ReadExisting, SkipResult, RecordResult, ReadBack
<1>2. CASE \/ BeginOutcomes(p) \/ EndCycle(p)
           \/ \E ending \in Endings : Resolve(p, ending)
  BY <1>2 DEF BeginOutcomes, EndCycle, Resolve, Endings
<1>3. CASE \E r \in todo[p] : PassOver(p, r) \/ \E price \in Prices : Evaluate(p, r, price)
  BY <1>3 DEF PassOver, Evaluate
<1>4. CASE Truncate(p) \/ CloseFile(p) \/ Crash(p)
  BY <1>4 DEF Truncate, CloseFile, Crash
<1>5. CASE Flush(p)
  BY <1>5 DEF Flush, TypeOK
<1>6. CASE CycleFails(p)
  BY <1>6 DEF CycleFails
<1> QED
  BY <1>1, <1>2, <1>3, <1>4, <1>5, <1>6 DEF Acts, Evaluating, Rewriting, Endings

LEMMA AloneStep ==
    ASSUME TypeOK, Alone, OneAtATime, NEW p \in Writers, Acts(p)
    PROVE  /\ Alone'
           /\ \A q \in Writers : q # p => pc[q] = "down" /\ pc'[q] = "down"
<1>1. PICK place : pc' = [pc EXCEPT ![p] = place]
  BY PcMoves
<1>2. \A q \in Writers : q # p => pc[q] = "down"
  BY PcMoves DEF Alone
<1> QED
  BY <1>1, <1>2 DEF Alone, TypeOK

-----------------------------------------------------------------------------
\* What the lines of the file are of the alerts that were recorded: each that
\* can be read has its own id and levels, and the rows before a row of its symbol
\* and direction are closed.
SameSide(a, b) == a.symbol = b.symbol /\ a.direction = b.direction

Good(lines, recorded) ==
    \A i \in DOMAIN lines :
        lines[i] # Torn =>
            /\ lines[i].signal_id \in DOMAIN recorded
            /\ SameLevels(lines[i].plan, recorded[lines[i].signal_id].plan)
            /\ \A k \in 1 .. (i - 1) :
                  lines[k] # Torn =>
                      /\ lines[k].signal_id < lines[i].signal_id
                      /\ SameSide(lines[k].plan, lines[i].plan) => ~IsOpen(lines[k])

\* One row for another: the same id and levels.
Like(a, b) == a.signal_id = b.signal_id /\ SameLevels(a.plan, b.plan)

LEMMA LevelsOfPlans ==
    ASSUME NEW a \in Plans, NEW b \in Plans
    PROVE  /\ SameLevels(a, a)
           /\ SameLevels(a, b) => SameSide(a, b)
           /\ \A c \in Plans : SameLevels(a, b) /\ SameLevels(b, c) => SameLevels(a, c)
           /\ \A rr \in Int : b = [a EXCEPT !.risk_reward = rr] => SameLevels(b, a)
<1>1. SameLevels(a, a)
  BY DEF Plans, SameLevels
<1>2. SameLevels(a, b) => SameSide(a, b)
  BY DEF Plans, SameLevels, SameSide
<1>3. ASSUME NEW c \in Plans, SameLevels(a, b), SameLevels(b, c) PROVE SameLevels(a, c)
  <2>1. /\ b = [a EXCEPT !.risk_reward = b.risk_reward]
        /\ c = [b EXCEPT !.risk_reward = c.risk_reward]
    BY <1>3 DEF SameLevels
  <2>2. c = [a EXCEPT !.risk_reward = c.risk_reward]
    BY <2>1 DEF Plans
  <2> QED
    BY <2>2 DEF SameLevels
<1>4. ASSUME NEW rr \in Int, b = [a EXCEPT !.risk_reward = rr] PROVE SameLevels(b, a)
  BY <1>4 DEF Plans, SameLevels
<1> QED
  BY <1>1, <1>2, <1>3, <1>4

LEMMA LinesAre ==
    ASSUME NEW line \in FileLines, line # Torn
    PROVE  line \in JournalRows /\ line.plan \in Plans
  BY DEF FileLines, JournalRows

LEMMA RowsAreNotTorn == \A r \in JournalRows : r # Torn
  BY DEF JournalRows, Torn

\* Lines that stand for the first of good ones are good: each raises or is like
\* the one it stands for, and none but the last has become open.
LEMMA GoodLike ==
    ASSUME NEW lines \in Seq(FileLines), NEW lines2 \in Seq(FileLines), NEW recorded \in Seq(JournalRows),
           Good(lines, recorded), Len(lines2) <= Len(lines),
           \A i \in DOMAIN lines2 :
              \/ lines2[i] = Torn
              \/ /\ lines[i] # Torn /\ Like(lines2[i], lines[i])
                 /\ i = Len(lines2) \/ (IsOpen(lines2[i]) => IsOpen(lines[i]))
    PROVE  Good(lines2, recorded)
<1> SUFFICES ASSUME NEW i \in DOMAIN lines2, lines2[i] # Torn
             PROVE  /\ lines2[i].signal_id \in DOMAIN recorded
                    /\ SameLevels(lines2[i].plan, recorded[lines2[i].signal_id].plan)
                    /\ \A k \in 1 .. (i - 1) :
                          lines2[k] # Torn =>
                              /\ lines2[k].signal_id < lines2[i].signal_id
                              /\ SameSide(lines2[k].plan, lines2[i].plan) => ~IsOpen(lines2[k])
  BY DEF Good
<1>1. /\ i \in 1 .. Len(lines2) /\ i \in DOMAIN lines /\ lines[i] # Torn
      /\ \A k \in 1 .. (i - 1) : k \in DOMAIN lines2 /\ k \in DOMAIN lines /\ k # Len(lines2)
  OBVIOUS
<1>2. lines2[i].plan \in Plans /\ lines[i].plan \in Plans /\ Like(lines2[i], lines[i])
  BY <1>1, LinesAre
<1>3. lines[i].signal_id \in DOMAIN recorded /\ SameLevels(lines[i].plan, recorded[lines[i].signal_id].plan)
  BY <1>1 DEF Good
<1>4. recorded[lines[i].signal_id].plan \in Plans
  <2>1. \A j \in DOMAIN recorded : recorded[j] \in JournalRows
    OBVIOUS
  <2>2. \A r \in JournalRows : r.plan \in Plans
    BY DEF JournalRows
  <2> QED
    BY <1>3, <2>1, <2>2
<1>5. ASSUME NEW k \in 1 .. (i - 1), lines2[k] # Torn
      PROVE  /\ lines2[k].signal_id < lines2[i].signal_id
             /\ SameSide(lines2[k].plan, lines2[i].plan) => ~IsOpen(lines2[k])
  <2>1. /\ k \in DOMAIN lines2 /\ k \in DOMAIN lines /\ lines[k] # Torn /\ Like(lines2[k], lines[k])
        /\ IsOpen(lines2[k]) => IsOpen(lines[k])
    BY <1>1, <1>5
  <2>2. lines2[k].plan \in Plans /\ lines[k].plan \in Plans
    BY <1>5, <2>1, LinesAre
  <2>3. /\ lines[k].signal_id < lines[i].signal_id
        /\ SameSide(lines[k].plan, lines[i].plan) => ~IsOpen(lines[k])
    BY <1>1, <2>1 DEF Good
  <2>4. SameSide(lines2[k].plan, lines[k].plan) /\ SameSide(lines2[i].plan, lines[i].plan)
    BY <1>2, <2>1, <2>2, LevelsOfPlans DEF Like
  <2> QED
    BY <1>2, <2>1, <2>3, <2>4 DEF Like, SameSide
<1> QED
  BY <1>2, <1>3, <1>4, <1>5, LevelsOfPlans DEF Like

\* What a rewrite puts in place of the rows of the file.
LEMMA GoodFollows ==
    ASSUME NEW rows \in Seq(JournalRows), NEW rows2 \in Seq(JournalRows), NEW recorded \in Seq(JournalRows),
           Good(rows, recorded), Follows(rows, rows2)
    PROVE  Good(rows2, recorded)
<1>1. rows \in Seq(FileLines) /\ rows2 \in Seq(FileLines) /\ Len(rows2) = Len(rows)
  BY DEF FileLines, Follows
<1>2. ASSUME NEW i \in DOMAIN rows2
      PROVE  rows[i] # Torn /\ Like(rows2[i], rows[i]) /\ (IsOpen(rows2[i]) => IsOpen(rows[i]))
  <2>1. rows[i] \in JournalRows /\ rows2[i] \in JournalRows /\ rows2[i].plan = rows[i].plan
    BY DEF Follows
  <2>2. rows[i].plan \in Plans
    BY <2>1 DEF JournalRows
  <2> QED
    BY <2>1, <2>2, RowsAreNotTorn, LevelsOfPlans DEF Follows, Like
<1> QED
  BY <1>1, <1>2, GoodLike

\* What a rewrite has written of its rows.
LEMMA GoodPieces ==
    ASSUME NEW f, NEW rows \in Seq(JournalRows), NEW recorded \in Seq(JournalRows),
           Good(rows, recorded), NEW g \in Pieces(f, rows)
    PROVE  Good(Rows(g), recorded)
<1>1. PICK n \in 0 .. (Len(rows) - 1) :
        \/ g = Contents(SubSeq(rows, 1, n))
        \/ \E line \in Cuts(rows[n + 1]) :
              g = [header |-> TRUE, rows |-> SubSeq(rows, 1, n), tail |-> <<line>>]
  BY PiecesAre
<1> DEFINE sub == SubSeq(rows, 1, n)
<1>2. /\ sub \in Seq(JournalRows) /\ sub \in Seq(FileLines) /\ rows \in Seq(FileLines)
      /\ Len(sub) = n /\ \A i \in 1 .. n : sub[i] = rows[i]
      /\ n + 1 \in DOMAIN rows /\ rows[n + 1] \in JournalRows
  BY SubSeqProperties DEF FileLines
<1>3. ASSUME NEW i \in DOMAIN rows PROVE rows[i] # Torn /\ Like(rows[i], rows[i])
  <2>1. rows[i] \in JournalRows
    OBVIOUS
  <2>2. rows[i].plan \in Plans
    BY <2>1 DEF JournalRows
  <2> QED
    BY <2>1, <2>2, RowsAreNotTorn, LevelsOfPlans DEF Like
<1> HIDE DEF sub
<1>4. CASE g = Contents(sub)
  <2>1. Rows(g) = sub
    BY <1>2, <1>4, ConcatEmptySeq DEF Rows, Contents
  <2> QED
    BY <1>2, <1>3, <2>1, GoodLike
<1>5. ASSUME NEW line \in Cuts(rows[n + 1]), g = [header |-> TRUE, rows |-> sub, tail |-> <<line>>]
      PROVE  Good(Rows(g), recorded)
  <2>1. line \in FileLines
    BY <1>2, CutsKeep DEF FileLines
  <2>2. /\ Rows(g) \in Seq(FileLines) /\ Len(Rows(g)) = n + 1 /\ Rows(g)[n + 1] = line
        /\ \A i \in 1 .. n : Rows(g)[i] = sub[i]
    BY <1>2, <1>5, <2>1, ConcatProperties DEF Rows
  <2>3. line = Torn \/ Like(line, rows[n + 1])
    <3>1. CASE line # Torn
      <4>1. PICK rr \in Int : line.plan = [rows[n + 1].plan EXCEPT !.risk_reward = rr]
        BY <1>2, <3>1, CutsKeep
      <4>2. line.signal_id = rows[n + 1].signal_id /\ line \in JournalRows
        BY <1>2, <3>1, CutsKeep
      <4>3. line.plan \in Plans /\ rows[n + 1].plan \in Plans
        BY <1>2, <4>2 DEF JournalRows
      <4> QED
        BY <4>1, <4>2, <4>3, LevelsOfPlans DEF Like
    <3> QED
      BY <3>1
  <2>4. ASSUME NEW i \in DOMAIN Rows(g)
        PROVE  \/ Rows(g)[i] = Torn
               \/ /\ rows[i] # Torn /\ Like(Rows(g)[i], rows[i])
                  /\ i = Len(Rows(g)) \/ (IsOpen(Rows(g)[i]) => IsOpen(rows[i]))
    <3>1. CASE i = n + 1
      BY <1>2, <1>3, <2>2, <2>3, <3>1
    <3>2. CASE i \in 1 .. n
      BY <1>2, <1>3, <2>2, <3>2
    <3> QED
      BY <1>2, <2>2, <3>1, <3>2
  <2>5. Len(Rows(g)) <= Len(rows)
    BY <1>2, <2>2
  <2> QED
    BY <1>2, <2>2, <2>4, <2>5, GoodLike
<1> QED
  BY <1>1, <1>4, <1>5 DEF sub

\* One alert more does not make good lines bad.
LEMMA GoodMore ==
    ASSUME NEW lines, NEW recorded \in Seq(JournalRows), NEW new \in JournalRows, Good(lines, recorded)
    PROVE  Good(lines, Append(recorded, new))
<1>1. /\ DOMAIN recorded \subseteq DOMAIN Append(recorded, new)
      /\ \A i \in DOMAIN recorded : Append(recorded, new)[i] = recorded[i]
  BY AppendProperties
<1> QED
  BY <1>1 DEF Good

\* The append of an alert that is no duplicate.
LEMMA GoodAppend ==
    ASSUME NEW rows \in Seq(JournalRows), NEW recorded \in Seq(JournalRows), NEW new \in JournalRows,
           Good(rows, recorded), new.signal_id = Len(recorded) + 1, ~IsDuplicate(rows, new.plan)
    PROVE  Good(Append(rows, new), Append(recorded, new))
<1> DEFINE rows2 == Append(rows, new)
           recorded2 == Append(recorded, new)
<1>1. /\ DOMAIN rows2 = 1 .. (Len(rows) + 1) /\ Len(rows) \in Nat
      /\ \A i \in 1 .. Len(rows) : rows2[i] = rows[i] /\ rows[i] \in JournalRows
      /\ rows2[Len(rows) + 1] = new
  BY AppendProperties
<1>2. /\ Len(recorded) + 1 \in DOMAIN recorded2 /\ DOMAIN recorded = 1 .. Len(recorded)
      /\ recorded2[Len(recorded) + 1] = new /\ Len(recorded) \in Nat
  BY AppendProperties
<1>3. Good(rows, recorded2)
  BY GoodMore
<1>4. new.plan \in Plans
  BY DEF JournalRows
<1> HIDE DEF rows2, recorded2
<1> SUFFICES ASSUME NEW i \in DOMAIN rows2, rows2[i] # Torn
             PROVE  /\ rows2[i].signal_id \in DOMAIN recorded2
                    /\ SameLevels(rows2[i].plan, recorded2[rows2[i].signal_id].plan)
                    /\ \A k \in 1 .. (i - 1) :
                          rows2[k] # Torn =>
                              /\ rows2[k].signal_id < rows2[i].signal_id
                              /\ SameSide(rows2[k].plan, rows2[i].plan) => ~IsOpen(rows2[k])
  BY DEF Good, rows2, recorded2
<1>5. CASE i \in 1 .. Len(rows)
  <2>1. \A k \in 1 .. (i - 1) : k \in 1 .. Len(rows)
    BY <1>1, <1>5
  <2> QED
    BY <1>1, <1>3, <1>5, <2>1 DEF Good
<1>6. CASE i = Len(rows) + 1
  <2>1. ASSUME NEW k \in 1 .. (i - 1), rows2[k] # Torn
        PROVE  /\ rows2[k].signal_id < rows2[i].signal_id
               /\ SameSide(rows2[k].plan, rows2[i].plan) => ~IsOpen(rows2[k])
    <3>1. k \in DOMAIN rows /\ rows2[k] = rows[k] /\ rows2[i] = new
      BY <1>1, <1>6, <2>1
    <3>2. rows[k].signal_id \in 1 .. Len(recorded)
      BY <1>2, <2>1, <3>1 DEF Good
    <3>3. rows2[k].signal_id < rows2[i].signal_id
      BY <1>2, <3>1, <3>2
    <3>4. SameSide(rows[k].plan, new.plan) => ~IsOpen(rows[k])
      BY <3>1 DEF IsDuplicate, SameSide
    <3> QED
      BY <3>1, <3>3, <3>4
  <2>2. SameLevels(new.plan, new.plan)
    BY <1>4, LevelsOfPlans
  <2> QED
    BY <1>1, <1>2, <1>6, <2>1, <2>2
<1> QED
  BY <1>1, <1>5, <1>6

-----------------------------------------------------------------------------
\* At most one line breaks off, and a program that is past its construction and
\* not inside a rewrite has a file with a header.
FileInv ==
    /\ file.tail = <<>> \/ \E line \in FileLines : file.tail = <<line>>
    /\ \A p \in Writers : pc[p] \notin {"down", "truncate", "write"} => file.header

AlertIds == \A i \in DOMAIN alerts : alerts[i].signal_id = i

\* What a recorder compares an alert with is what the file holds.
ReadInv ==
    \A p \in Writers :
        /\ pc[p] = "results" => Readable(file) /\ existing[p] = Rows(file)
        /\ pc[p] = "readback" /\ Readable(file) =>
              \E r \in JournalRows : Rows(file) = Append(existing[p], r)

GoodInv == Good(Rows(file), alerts) /\ \A p \in Writers : Good(replacement[p], alerts)

\* The inductive invariant of the journal when one program at a time works on
\* it, wherever that program dies.
AloneInv == BaseInv /\ Alone /\ FileInv /\ AlertIds /\ ReadInv /\ GoodInv

\* The rows of a file, by what it breaks off in.
LEMMA RowsByTail ==
    ASSUME NEW f \in Files, f.header
    PROVE  /\ f.tail = <<>> => Rows(f) = f.rows
           /\ \A line \in FileLines :
                 f.tail = <<line>> =>
                    /\ Len(Rows(f)) = Len(f.rows) + 1 /\ Rows(f)[Len(f.rows) + 1] = line
                    /\ \A i \in 1 .. Len(f.rows) : Rows(f)[i] = f.rows[i]
<1>1. f.rows \in Seq(FileLines) /\ Len(f.rows) \in Nat
  BY DEF Files
<1>2. f.tail = <<>> => Rows(f) = f.rows
  BY <1>1, ConcatEmptySeq DEF Rows
<1>3. ASSUME NEW line \in FileLines, f.tail = <<line>>
      PROVE  /\ Len(Rows(f)) = Len(f.rows) + 1 /\ Rows(f)[Len(f.rows) + 1] = line
             /\ \A i \in 1 .. Len(f.rows) : Rows(f)[i] = f.rows[i]
  <2>1. <<line>> \in Seq(FileLines) /\ Len(<<line>>) = 1 /\ <<line>>[1] = line
    OBVIOUS
  <2> QED
    BY <1>1, <1>3, <2>1, ConcatProperties DEF Rows
<1> QED
  BY <1>2, <1>3

\* An append by the one program: the alert's own row behind those it has read, or
\* a line that raises in place of the one the file breaks off in.
LEMMA AloneRecord ==
    ASSUME AloneInv, NEW p \in Writers, NEW alert \in results[p], RecordResult(p, alert)
    PROVE  LET new == NewRecord(Len(alerts) + 1, alert, None)
           IN  /\ new \in JournalRows /\ alerts' = Append(alerts, new)
               /\ Good(Rows(file'), alerts') /\ file'.header /\ file'.tail = <<>>
               /\ Readable(file') => Rows(file') = Append(Rows(file), new)
<1> DEFINE new == NewRecord(Len(alerts) + 1, alert, None)
<1>1. new \in JournalRows /\ new.signal_id = Len(alerts) + 1 /\ new.plan = alert
  BY RecordType DEF AloneInv, NewRecord
<1>2. /\ pc[p] = "results" /\ ~IsDuplicate(existing[p], alert)
      /\ file' \in Appended(file, new) /\ alerts' = Append(alerts, new)
  BY DEF RecordResult
<1> HIDE DEF new
<1>3. /\ file \in Files /\ file.header /\ Readable(file) /\ existing[p] = Rows(file)
      /\ alerts \in Seq(JournalRows) /\ Good(Rows(file), alerts)
      /\ Rows(file) \in Seq(FileLines) /\ Rows(file) \in Seq(JournalRows)
  BY <1>2, RowsType DEF AloneInv, BaseInv, TypeOK, FileInv, ReadInv, GoodInv, Files
<1>4. file' \in Files
  BY <1>1, <1>2, <1>3, AppendedType
<1>5. CASE file.tail = <<>>
  <2>1. file' = [file EXCEPT !.rows = Append(file.rows, new)]
    BY <1>2, <1>5 DEF Appended, record
  <2>2. file'.header /\ file'.tail = <<>> /\ file'.rows = Append(file.rows, new)
    BY <1>3, <1>5, <2>1 DEF Files
  <2>3. Rows(file) = file.rows /\ Rows(file') = file'.rows
    BY <1>3, <1>4, <1>5, <2>2, RowsByTail
  <2>4. Good(Append(Rows(file), new), Append(alerts, new))
    BY <1>1, <1>2, <1>3, GoodAppend
  <2> QED
    BY <1>1, <1>2, <2>2, <2>3, <2>4 DEF new
<1>6. CASE file.tail # <<>>
  <2>1. PICK line \in FileLines : file.tail = <<line>>
    BY <1>6 DEF AloneInv, FileInv
  <2>2. /\ file.rows \in Seq(FileLines) /\ Len(file.rows) \in Nat /\ Torn \in FileLines
        /\ Len(Rows(file)) = Len(file.rows) + 1 /\ Rows(file)[Len(file.rows) + 1] = line
        /\ \A i \in 1 .. Len(file.rows) : Rows(file)[i] = file.rows[i]
    BY <1>3, <2>1, RowsByTail DEF Files, FileLines
  <2>3. line # Torn /\ \A i \in DOMAIN Rows(file) : Rows(file)[i] # Torn /\ Like(Rows(file)[i], Rows(file)[i])
    <3>1. \A i \in DOMAIN Rows(file) : Rows(file)[i] \in JournalRows
      BY <1>3
    <3>2. \A r \in JournalRows : r # Torn /\ Like(r, r)
      BY RowsAreNotTorn, LevelsOfPlans DEF Like, JournalRows
    <3> QED
      BY <1>3, <2>2, <3>1, <3>2
  <2>4. file' = [file EXCEPT !.rows = Append(@, Torn), !.tail = <<>>]
    <3>1. file.tail # <<Torn>>
      BY <2>1, <2>3
    <3> QED
      BY <1>2, <1>6, <3>1 DEF Appended
  <2>5. file'.header /\ file'.tail = <<>> /\ file'.rows = Append(file.rows, Torn)
    BY <1>3, <2>4 DEF Files
  <2>6. Rows(file') = Append(file.rows, Torn)
    BY <1>4, <2>5, RowsByTail
  <2> DEFINE lines2 == Append(file.rows, Torn)
  <2>7. /\ lines2 \in Seq(FileLines) /\ Len(lines2) = Len(file.rows) + 1
        /\ lines2[Len(file.rows) + 1] = Torn
        /\ \A i \in 1 .. Len(file.rows) : lines2[i] = file.rows[i]
    BY <2>2, AppendProperties
  <2> HIDE DEF lines2
  <2>8. ASSUME NEW i \in DOMAIN lines2
        PROVE  \/ lines2[i] = Torn
               \/ /\ Rows(file)[i] # Torn /\ Like(lines2[i], Rows(file)[i])
                  /\ i = Len(lines2) \/ (IsOpen(lines2[i]) => IsOpen(Rows(file)[i]))
    <3>1. CASE i = Len(file.rows) + 1
      BY <2>7, <3>1
    <3>2. CASE i \in 1 .. Len(file.rows)
      <4>1. lines2[i] = Rows(file)[i] /\ i \in DOMAIN Rows(file)
        BY <1>3, <2>2, <2>7, <3>2
      <4> QED
        BY <2>3, <4>1
    <3> QED
      BY <2>2, <2>7, <3>1, <3>2
  <2>9. Good(lines2, alerts)
    BY <1>3, <2>2, <2>7, <2>8, GoodLike
  <2>10. Good(Rows(file'), alerts')
    BY <1>1, <1>2, <1>3, <2>6, <2>9, GoodMore DEF lines2
  <2>11. ~Readable(file')
    <3>1. Len(file.rows) + 1 \in DOMAIN Rows(file')
      BY <2>2, <2>6, <2>7 DEF lines2
    <3> QED
      BY <2>5, <2>6, <2>7, <3>1 DEF Readable, lines2
  <2> QED
    BY <1>1, <1>2, <2>5, <2>10, <2>11 DEF new
<1> QED
  BY <1>5, <1>6 DEF new

LEMMA FileStep ==
    ASSUME AloneInv, OneAtATime, NEW p \in Writers, Acts(p)
    PROVE  FileInv' /\ AlertIds' /\ GoodInv'
<1>t. /\ pc \in [Writers -> PcValues] /\ replacement \in [Writers -> Seq(JournalRows)]
      /\ file \in Files /\ alerts \in Seq(JournalRows)
  BY DEF AloneInv, BaseInv, TypeOK, Files
<1>a. \A q \in Writers : q # p => pc'[q] = "down"
  BY AloneStep DEF AloneInv, BaseInv
<1>i. FileInv /\ AlertIds /\ GoodInv
  BY DEF AloneInv
<1>e. Good(<<>>, alerts)
  BY EmptySeq DEF Good
<1>1. CASE Leaves(p)
  <2>1. PICK place \in PcValues \ {"truncate", "write"} :
          /\ pc' = [pc EXCEPT ![p] = place]
          /\ place = "down" \/ file.header
    BY <1>1, <1>i DEF Leaves, FileInv
  <2>2. UNCHANGED <<file, alerts>> /\ Rows(file') = Rows(file)
    BY <1>1 DEF Leaves
  <2>3. \A q \in Writers : replacement'[q] = replacement[q] \/ replacement'[q] = <<>>
    BY <1>1, <1>t DEF Leaves
  <2>4. FileInv'
    BY <1>a, <1>i, <1>t, <2>1, <2>2 DEF FileInv
  <2>5. GoodInv'
    BY <1>e, <1>i, <2>2, <2>3 DEF GoodInv
  <2> QED
    BY <1>i, <2>2, <2>4, <2>5 DEF AlertIds
<1>2. CASE Begins(p)
  <2>1. /\ UNCHANGED <<file, alerts>> /\ Rows(file') = Rows(file) /\ Readable(file)
        /\ pc' = [pc EXCEPT ![p] = "truncate"]
    BY <1>2 DEF Begins
  <2>2. PICK rows : Computed(p, rows) /\ replacement' = [replacement EXCEPT ![p] = rows]
    BY <1>2 DEF Begins
  <2>3. rows \in Seq(JournalRows) /\ Follows(Rows(file), rows)
    BY <2>1, <2>2, ComputedFollows DEF AloneInv
  <2>4. Good(rows, alerts)
    BY <1>i, <1>t, <2>1, <2>3, RowsType, GoodFollows DEF GoodInv
  <2>5. GoodInv'
    BY <1>i, <1>t, <2>1, <2>2, <2>4 DEF GoodInv
  <2>6. FileInv'
    BY <1>a, <1>i, <1>t, <2>1 DEF FileInv
  <2> QED
    BY <1>i, <2>1, <2>5, <2>6 DEF AlertIds
<1>3. ASSUME NEW alert \in results[p], RecordResult(p, alert) PROVE FileInv' /\ AlertIds' /\ GoodInv'
  <2> DEFINE new == NewRecord(Len(alerts) + 1, alert, None)
  <2>1. /\ new \in JournalRows /\ alerts' = Append(alerts, new)
        /\ Good(Rows(file'), alerts') /\ file'.header /\ file'.tail = <<>>
    BY <1>3, AloneRecord
  <2>2. UNCHANGED replacement
    BY <1>3 DEF RecordResult, Continue
  <2>3. new.signal_id = Len(alerts) + 1
    BY DEF NewRecord
  <2> HIDE DEF new
  <2>4. \A q \in Writers : Good(replacement'[q], alerts')
    BY <1>i, <1>t, <2>1, <2>2, GoodMore DEF GoodInv
  <2>5. AlertIds'
    <3>1. /\ DOMAIN alerts' = DOMAIN alerts \cup {Len(alerts) + 1}
          /\ \A i \in DOMAIN alerts : alerts'[i] = alerts[i]
          /\ alerts'[Len(alerts) + 1] = new
      BY <1>t, <2>1, AppendProperties
    <3> QED
      BY <1>i, <2>3, <3>1 DEF AlertIds
  <2>6. FileInv'
    BY <2>1 DEF FileInv
  <2> QED
    BY <2>1, <2>4, <2>5, <2>6 DEF GoodInv
<1>4. CASE Truncate(p)
  <2>1. /\ file' = Empty /\ pc' = [pc EXCEPT ![p] = "write"] /\ UNCHANGED <<alerts, replacement>>
    BY <1>4 DEF Truncate, Goto
  <2>2. Rows(file') = <<>> /\ file'.tail = <<>>
    BY <2>1 DEF Rows, Empty
  <2>3. FileInv'
    BY <1>a, <1>t, <2>1, <2>2 DEF FileInv
  <2> QED
    BY <1>e, <1>i, <2>1, <2>2, <2>3 DEF GoodInv, AlertIds
<1>5. CASE Flush(p)
  <2>1. /\ file' \in Pieces(file, replacement[p]) /\ UNCHANGED <<alerts, replacement>>
    BY <1>5 DEF Flush
  <2>2. PICK n \in 0 .. (Len(replacement[p]) - 1) :
          \/ file' = Contents(SubSeq(replacement[p], 1, n))
          \/ \E line \in Cuts(replacement[p][n + 1]) :
                file' = [header |-> TRUE, rows |-> SubSeq(replacement[p], 1, n), tail |-> <<line>>]
    BY <1>t, <2>1, PiecesAre
  <2>3. replacement[p][n + 1] \in JournalRows
    BY <1>t
  <2>4. file'.header /\ (file'.tail = <<>> \/ \E line \in FileLines : file'.tail = <<line>>)
    BY <2>2, <2>3, CutsKeep DEF Contents, FileLines
  <2>5. Good(Rows(file'), alerts)
    BY <1>i, <1>t, <2>1, GoodPieces DEF GoodInv
  <2> QED
    BY <1>i, <2>1, <2>4, <2>5 DEF FileInv, GoodInv, AlertIds
<1>6. CASE CloseFile(p)
  <2>1. /\ file' = Contents(replacement[p]) /\ UNCHANGED alerts
        /\ replacement' = [replacement EXCEPT ![p] = <<>>]
    BY <1>6 DEF CloseFile
  <2>2. file'.header /\ file'.tail = <<>>
    BY <2>1 DEF Contents
  <2>3. Rows(file') = replacement[p]
    BY <1>t, <2>1, ConcatEmptySeq DEF Contents, Rows
  <2>4. \A q \in Writers : replacement'[q] = replacement[q] \/ replacement'[q] = <<>>
    BY <1>t, <2>1
  <2> QED
    BY <1>e, <1>i, <2>1, <2>2, <2>3, <2>4 DEF FileInv, GoodInv, AlertIds
<1> QED
  BY <1>1, <1>2, <1>3, <1>4, <1>5, <1>6, StepKinds DEF AloneInv, Records, Rewriting

LEMMA ReadStep ==
    ASSUME AloneInv, OneAtATime, NEW p \in Writers, Acts(p)
    PROVE  ReadInv'
<1> USE DEF Goto, Continue
<1>t. /\ pc \in [Writers -> PcValues] /\ existing \in [Writers -> Seq(JournalRows)] /\ file \in Files
  BY DEF AloneInv, BaseInv, TypeOK, Files
<1>a. \A q \in Writers : q # p => pc'[q] = "down"
  BY AloneStep DEF AloneInv, BaseInv
<1>i. BaseInv /\ ReadInv
  BY DEF AloneInv
\* Most steps go where nothing of the file is held.
<1>k. ASSUME pc'[p] \notin {"results", "readback"} PROVE ReadInv'
  BY <1>a, <1>k DEF ReadInv
<1>s. ASSUME existing'[p] = Rows(file), UNCHANGED file, pc'[p] = "results", Readable(file)
      PROVE  ReadInv'
  <2>1. Rows(file') = Rows(file) /\ Readable(file')
    BY <1>s DEF Readable, Rows
  <2> QED
    BY <1>s, <1>a, <2>1 DEF ReadInv
<1>1. CASE ReadExisting(p)
  BY <1>1, <1>s, <1>t DEF ReadExisting
<1>2. ASSUME NEW alert \in results[p], SkipResult(p, alert) PROVE ReadInv'
  <2>1. /\ existing[p] = Rows(file) /\ Readable(file) /\ UNCHANGED <<existing, file>>
        /\ pc'[p] \in {"results", "read"}
    BY <1>2, <1>i, <1>t DEF SkipResult, NextResult, ReadInv
  <2> QED
    BY <2>1, <1>k, <1>s
<1>3. ASSUME NEW alert \in results[p], RecordResult(p, alert) PROVE ReadInv'
  <2>1. /\ pc[p] = "results" /\ pc'[p] \in {"read", "readback"} /\ UNCHANGED existing
    BY <1>3, <1>t DEF RecordResult
  <2>2. PICK new \in JournalRows : Readable(file') => Rows(file') = Append(Rows(file), new)
    BY <1>3, AloneRecord
  <2>3. existing'[p] = Rows(file)
    BY <1>i, <2>1 DEF ReadInv
  <2> QED
    BY <1>a, <2>1, <2>2, <2>3 DEF ReadInv
<1>4. CASE ReadBack(p)
  <2>1. /\ Readable(file) /\ pc[p] = "readback" /\ pc' = [pc EXCEPT ![p] = "results"] /\ UNCHANGED file
        /\ existing' = [existing EXCEPT ![p] = Append(existing[p], Rows(file)[Len(Rows(file))])]
    BY <1>4 DEF ReadBack
  <2>2. PICK r \in JournalRows : Rows(file) = Append(existing[p], r)
    BY <1>i, <2>1 DEF ReadInv
  <2>3. Rows(file)[Len(Rows(file))] = r
    BY <1>t, <2>2, AppendProperties
  <2>4. existing'[p] = Rows(file) /\ pc'[p] = "results"
    BY <1>t, <2>1, <2>2, <2>3
  <2> QED
    BY <2>1, <2>4, <1>s
\* The others never are at these two places afterwards.
<1>5. CASE Construct(p) \/ BeginCycle(p) \/ BeginOutcomes(p) \/ EndCycle(p) \/ CycleFails(p)
  <2>1. pc'[p] \in {"idle", "truncate", "read", "outcomes", "down"}
    BY <1>5, <1>t DEF Construct, BeginCycle, BeginOutcomes, EndCycle, CycleFails, Rewrite
  <2> QED
    BY <2>1, <1>k
<1>6. CASE Crash(p) \/ Truncate(p)
  BY <1>6, <1>k, <1>t DEF Crash, Truncate
<1>7. ASSUME NEW r \in todo[p], PassOver(p, r) PROVE ReadInv'
  BY <1>7, <1>k, <1>t DEF PassOver
<1>8. ASSUME NEW r \in todo[p], NEW price \in Prices, Evaluate(p, r, price) PROVE ReadInv'
  <2>1. Ending(r.plan, price) \in Endings \cup {"OPEN"}
    BY DEF Ending, Endings
  <2>2. PICK place \in Endings \cup {"outcomes", "truncate"} : pc' = [pc EXCEPT ![p] = place]
    BY <1>8, <2>1 DEF Evaluate, Rewrite
  <2> QED
    BY <2>2, <1>k, <1>t DEF Endings
<1>9. ASSUME NEW ending \in Endings, Resolve(p, ending) PROVE ReadInv'
  <2>1. PICK place \in {"outcomes", "truncate"} : pc' = [pc EXCEPT ![p] = place]
    BY <1>9 DEF Resolve, Rewrite
  <2> QED
    BY <2>1, <1>k, <1>t
<1>10. CASE Flush(p)
  BY <1>10, <1>k DEF Flush
<1>11. CASE CloseFile(p)
  <2>1. pc'[p] = return[p] /\ return[p] \in {"idle", "outcomes"} \cup Endings
    BY <1>11, <1>i, <1>t DEF CloseFile, BaseInv, EndingInv, Ends
  <2> QED
    BY <2>1, <1>k DEF Endings
<1> QED
  BY <1>1, <1>2, <1>3, <1>4, <1>5, <1>6, <1>7, <1>8, <1>9, <1>10, <1>11
     DEF Acts, Recording, Evaluating, Rewriting, Endings

LEMMA AloneInit == Init => AloneInv
<1> SUFFICES ASSUME Init PROVE AloneInv
  OBVIOUS
<1>1. BaseInv
  BY BaseInit
<1>2. Rows(file) = <<>> /\ file.tail = <<>> /\ alerts = <<>>
  BY EmptySeq, ConcatEmptySeq DEF Init, Rows, Empty, Contents
<1>3. Alone /\ FileInv /\ AlertIds /\ ReadInv
  BY <1>2, EmptySeq DEF Init, Alone, FileInv, AlertIds, ReadInv
<1>4. GoodInv
  BY <1>2, EmptySeq DEF Init, GoodInv, Good
<1> QED
  BY <1>1, <1>3, <1>4 DEF AloneInv

LEMMA AloneInductive ==
    ASSUME OneAtATime, AloneInv, [Next]_vars
    PROVE  AloneInv'
<1>1. BaseInv'
  BY BaseStep DEF AloneInv
<1>2. CASE Next
  <2>1. PICK p \in Writers : Acts(p)
    BY <1>2 DEF Next, Acts
  <2> QED
    BY <1>1, <2>1, AloneStep, FileStep, ReadStep DEF AloneInv, BaseInv
<1>3. CASE UNCHANGED vars
  <2>1. /\ file' = file /\ alerts' = alerts /\ pc' = pc /\ existing' = existing
        /\ replacement' = replacement /\ Rows(file') = Rows(file) /\ (Readable(file') <=> Readable(file))
    BY <1>3 DEF vars, Rows, Readable
  <2> QED
    BY <1>1, <2>1 DEF AloneInv, Alone, FileInv, AlertIds, ReadInv, GoodInv
<1> QED
  BY <1>2, <1>3

-----------------------------------------------------------------------------
\* Whichever rows are in Settled, they are those of the file or those a writer is
\* about to have written.
LEMMA SettledAmong ==
    Settled = Rows(file) \/ \E p \in Writers : Settled = replacement[p]
  BY DEF Settled

\* One program at a time, dying wherever it may: each line that can be read is an
\* alert that was recorded, under its own id and with its own levels, in the
\* order of recording and none twice.
THEOREM PlansKept == ASSUME OneAtATime PROVE Spec => []PlansSurvive
<1>1. AloneInv /\ [Next]_vars => AloneInv'
  BY AloneInductive
<1>2. AloneInv => PlansSurvive
  <2> SUFFICES ASSUME AloneInv, NEW i \in DOMAIN Rows(file), Rows(file)[i] # Torn
               PROVE  /\ \E j \in DOMAIN alerts : /\ alerts[j].signal_id = Rows(file)[i].signal_id
                                                  /\ SameLevels(Rows(file)[i].plan, alerts[j].plan)
                      /\ \A k \in 1 .. (i - 1) :
                            Rows(file)[k] # Torn => Rows(file)[k].signal_id < Rows(file)[i].signal_id
    BY DEF PlansSurvive
  <2>1. Good(Rows(file), alerts) /\ AlertIds
    BY DEF AloneInv, GoodInv
  <2> QED
    BY <2>1 DEF Good, AlertIds
<1> QED
  BY <1>1, <1>2, AloneInit, PTL DEF Spec

\* Under the same condition the recorders' test for duplicates holds: at most one
\* row is open for a symbol and a direction, also when a closed row that was cut
\* short by a death reads as an open one.
THEOREM NoDuplicates == ASSUME OneAtATime PROVE Spec => []OneOpenPerSide
<1>1. AloneInv /\ [Next]_vars => AloneInv'
  BY AloneInductive
<1>2. AloneInv => OneOpenPerSide
  <2> SUFFICES ASSUME AloneInv, NEW i \in DOMAIN Settled, NEW j \in DOMAIN Settled,
                      IsOpen(Settled[i]), IsOpen(Settled[j]),
                      SameSide(Settled[i].plan, Settled[j].plan)
               PROVE  i = j
    BY DEF OneOpenPerSide, SameSide
  <2>1. Good(Settled, alerts)
    BY SettledAmong DEF AloneInv, GoodInv
  <2>2. Settled \in Seq(FileLines)
    <3>1. file \in Files /\ replacement \in [Writers -> Seq(JournalRows)]
      BY DEF AloneInv, BaseInv, TypeOK, Files
    <3>2. Rows(file) \in Seq(FileLines)
      BY <3>1, RowsType
    <3>3. \A p \in Writers : replacement[p] \in Seq(FileLines)
      BY <3>1 DEF FileLines
    <3> QED
      BY <3>2, <3>3, SettledAmong
  <2>3. i \in Int /\ j \in Int /\ i >= 1 /\ j >= 1 /\ Settled[i] # Torn /\ Settled[j] # Torn
    BY <2>2 DEF IsOpen, Torn
  <2>4. ~(i < j)
    BY <2>1, <2>3 DEF Good
  <2>5. ~(j < i)
    BY <2>1, <2>3 DEF Good, SameSide
  <2> QED
    BY <2>3, <2>4, <2>5
<1> QED
  BY <1>1, <1>2, AloneInit, PTL DEF Spec

-----------------------------------------------------------------------------
\* Cycles that interleave as they like, when no program uses the file inside
\* another one's rewrite and none dies inside one.

\* A row with the plan of an alert and with no status that is cut short.
AlertRows ==
    [signal_id : Nat, timestamp : {None}, plan : Alerts,
     status : {"OPEN", "TARGET_2_ACHIEVED", "STOP_LOSS_HIT"},
     exit_price : Int \cup {None}, outcome_r : Int \cup {None}, resolved_at : {None},
     hit : SUBSET Flags, sell_price : Int \cup {None}]

\* The end that a row's plan gives its status.
EndFits(r) ==
    /\ r.status = "TARGET_2_ACHIEVED" =>
          r.exit_price = r.plan.target_2 /\ r.sell_price = r.plan.target_2 /\ r.outcome_r > 0
    /\ r.status = "STOP_LOSS_HIT" =>
          r.exit_price = r.plan.stop_loss /\ r.sell_price = r.plan.stop_loss /\ r.outcome_r = -1

\* The rows that may be made of the alerts in "recorded": the id says which.
Fits(recorded) ==
    {r \in AlertRows :
        r.signal_id \in DOMAIN recorded /\ recorded[r.signal_id].plan = r.plan /\ EndFits(r)}

AlertsFit == alerts \in Seq(AlertRows) /\ AlertIds

NobodyWrites == \A p \in Writers : pc[p] # "write"

\* Rewrites take turns; the file is there for whoever is past its construction;
\* and what is about to be written follows what is in the file.
TurnsInv ==
    /\ \A p, q \in Writers :
          pc[p] \in {"truncate", "write"} /\ pc[q] \in {"truncate", "write"} => p = q
    /\ NobodyWrites => \A p \in Writers : pc[p] \notin {"down", "truncate"} => file.header
    /\ \A p \in Writers : pc[p] = "truncate" => Follows(Rows(file), replacement[p])

\* While nobody writes it, the file is the header and rows of F, or is empty.
WholeFile(F) ==
    NobodyWrites =>
        file.rows \in Seq(F) /\ file.tail = <<>> /\ (~file.header => file.rows = <<>>)

\* The rows that programs hold are rows of F.
HeldRows(F) ==
    /\ replacement \in [Writers -> Seq(F)]
    /\ todo \in [Writers -> SUBSET F] /\ row \in [Writers -> F \cup {None}]
    /\ Ends(F)

FitInv ==
    /\ BaseInv /\ AlertsFit /\ TurnsInv
    /\ WholeFile(Fits(alerts)) /\ HeldRows(Fits(alerts))

LEMMA Quotients ==
    \A n \in Nat \ {0} : \A m \in Int :
        /\ m >= n => m \div n \in Int /\ m \div n > 0
        /\ m = -n => m \div n = -1
  OBVIOUS

LEMMA OutcomeSign ==
    ASSUME NEW plan \in Alerts
    PROVE  /\ plan.target_2 \in Int /\ plan.stop_loss \in Int
           /\ outcome_r(plan, plan.target_2) \in Int /\ outcome_r(plan, plan.target_2) > 0
           /\ outcome_r(plan, plan.stop_loss) = -1
<1>1. plan.entry \in Int /\ plan.stop_loss \in Int /\ plan.target_2 \in Int
  BY JournalAssumption DEF Plans
<1> DEFINE risk == Abs(plan.entry - plan.stop_loss)
           Gain(exit) == IF Long(plan) THEN exit - plan.entry ELSE plan.entry - exit
<1>2. risk \in Nat \ {0} /\ Gain(plan.target_2) \in Int /\ Gain(plan.target_2) >= risk
      /\ Gain(plan.stop_loss) = -risk
  <2>1. CASE Long(plan)
    BY <1>1, <2>1, PlansAssumption DEF Abs
  <2>2. CASE ~Long(plan)
    BY <1>1, <2>2, PlansAssumption DEF Abs
  <2> QED
    BY <2>1, <2>2
<1>3. \A exit : outcome_r(plan, exit) = Gain(exit) \div risk
  BY <1>2 DEF outcome_r
<1> HIDE DEF risk, Gain
<1>4. -risk \in Int
  BY <1>2
<1> QED
  BY <1>1, <1>2, <1>3, <1>4, Quotients

LEMMA UpdateFits ==
    ASSUME NEW recorded, NEW rows \in Seq(Fits(recorded)), NEW id,
           NEW hit \in SUBSET Flags, NEW sell \in Int \cup {None}
    PROVE  update_live_state(rows, id, hit, sell) \in Seq(Fits(recorded))
<1>1. ASSUME NEW r \in Fits(recorded), Selects(r, id) PROVE MarkLive(r, hit, sell) \in Fits(recorded)
  <2>1. r \in AlertRows /\ r.signal_id \in DOMAIN recorded /\ recorded[r.signal_id].plan = r.plan
        /\ r.status = "OPEN"
    BY <1>1 DEF Fits, Selects, IsOpen
  <2>2. r.hit \cup hit \in SUBSET Flags /\ PriceOr(sell, r.sell_price) \in Int \cup {None}
    BY <2>1 DEF AlertRows, PriceOr
  <2>3. MarkLive(r, hit, sell) \in AlertRows
    BY <2>1, <2>2 DEF AlertRows, MarkLive
  <2>4. /\ MarkLive(r, hit, sell).signal_id = r.signal_id /\ MarkLive(r, hit, sell).plan = r.plan
        /\ MarkLive(r, hit, sell).status = "OPEN"
    BY <2>1 DEF AlertRows, MarkLive
  <2> QED
    BY <2>1, <2>3, <2>4 DEF Fits, EndFits
<1>2. \A i \in DOMAIN rows : rows[i] \in Fits(recorded)
  OBVIOUS
<1>3. update_live_state(rows, id, hit, sell) \in [1 .. Len(rows) -> Fits(recorded)]
  BY <1>1, <1>2 DEF update_live_state
<1> QED
  BY <1>3

LEMMA ResolveFits ==
    ASSUME NEW recorded, NEW rows \in Seq(Fits(recorded)), NEW own \in Fits(recorded),
           NEW ending \in Endings
    PROVE  resolve(rows, own.signal_id, ending, ExitPrice(own.plan, ending),
                   outcome_r(own.plan, ExitPrice(own.plan, ending)), None) \in Seq(Fits(recorded))
<1> DEFINE exit == ExitPrice(own.plan, ending)
           out  == outcome_r(own.plan, exit)
<1>1. own.plan \in Alerts /\ recorded[own.signal_id].plan = own.plan
  BY DEF Fits, AlertRows
<1>2. /\ exit \in Int /\ out \in Int
      /\ ending = "TARGET_2_ACHIEVED" => exit = own.plan.target_2 /\ out > 0
      /\ ending = "STOP_LOSS_HIT" => exit = own.plan.stop_loss /\ out = -1
  BY <1>1, OutcomeSign DEF ExitPrice, Endings
<1> HIDE DEF exit, out
<1>3. ASSUME NEW r \in Fits(recorded), Selects(r, own.signal_id)
      PROVE  Close(r, ending, exit, out, None) \in Fits(recorded)
  <2> DEFINE c == Close(r, ending, exit, out, None)
  <2>1. r \in AlertRows /\ r.signal_id \in DOMAIN recorded /\ r.signal_id = own.signal_id
        /\ recorded[r.signal_id].plan = r.plan
    BY <1>3 DEF Fits, Selects
  <2>2. r.plan = own.plan
    BY <1>1, <2>1
  <2>3. c \in AlertRows
    BY <1>2, <2>1 DEF AlertRows, Close, Endings
  <2>4. /\ c.signal_id = r.signal_id /\ c.plan = r.plan /\ c.status = ending
        /\ c.exit_price = exit /\ c.sell_price = exit /\ c.outcome_r = out
    BY <2>1 DEF AlertRows, Close
  <2> HIDE DEF c
  <2>5. EndFits(c)
    BY <1>2, <2>2, <2>4 DEF EndFits
  <2> QED
    BY <2>1, <2>3, <2>4, <2>5 DEF Fits, c
<1>4. \A i \in DOMAIN rows : rows[i] \in Fits(recorded)
  OBVIOUS
<1>5. resolve(rows, own.signal_id, ending, exit, out, None) \in [1 .. Len(rows) -> Fits(recorded)]
  BY <1>3, <1>4 DEF resolve
<1> QED
  BY <1>5 DEF exit, out

-----------------------------------------------------------------------------
\* The rows of a whole file are its rows.
LEMMA WholeRows ==
    ASSUME NEW F, WholeFile(F), NobodyWrites
    PROVE  Rows(file) = file.rows /\ Rows(file) \in Seq(F)
<1>1. file.rows \in Seq(F) /\ file.tail = <<>> /\ (~file.header => file.rows = <<>>)
  BY DEF WholeFile
<1> QED
  BY <1>1, ConcatEmptySeq DEF Rows

\* A writer that may use the file finds nobody writing it.
LEMMA FreeMeans ==
    ASSUME ~Overlaps, NEW p \in Writers, Free(p), pc[p] \notin {"truncate", "write"}
    PROVE  NobodyWrites /\ \A q \in Writers : pc[q] \notin {"truncate", "write"}
  BY DEF Free, NobodyWrites

LEMMA TurnsStep ==
    ASSUME BaseInv, TurnsInv, ~Overlaps, ~TornWrites, NEW p \in Writers, Acts(p)
    PROVE  TurnsInv'
<1> USE DEF Goto, Continue
<1>t. /\ pc \in [Writers -> PcValues] /\ replacement \in [Writers -> Seq(JournalRows)]
      /\ file \in Files
  BY DEF BaseInv, TypeOK, Files
<1>1. CASE Leaves(p)
  <2>1. PICK place \in PcValues \ {"truncate", "write"} :
          /\ pc' = [pc EXCEPT ![p] = place]
          /\ \/ place = "down" /\ pc[p] # "write"
             \/ pc[p] \notin {"down", "truncate", "write"}
             \/ pc[p] = "down" /\ file.header
    BY <1>1 DEF Leaves
  <2>2. /\ Rows(file') = Rows(file) /\ file' = file
        /\ \A q \in Writers : q # p => replacement'[q] = replacement[q]
    BY <1>1, <1>t DEF Leaves
  <2>3. NobodyWrites' => NobodyWrites
    BY <1>t, <2>1 DEF NobodyWrites
  <2> QED
    BY <1>t, <2>1, <2>2, <2>3 DEF TurnsInv
<1>2. CASE Begins(p)
  <2>1. /\ Rows(file') = Rows(file) /\ file' = file /\ pc' = [pc EXCEPT ![p] = "truncate"]
        /\ NobodyWrites /\ \A q \in Writers : pc[q] \notin {"truncate", "write"}
    BY <1>2, FreeMeans DEF Begins
  <2>2. PICK rows : Computed(p, rows) /\ replacement' = [replacement EXCEPT ![p] = rows]
    BY <1>2 DEF Begins
  <2>3. Follows(Rows(file), rows)
    BY <1>2, <2>2, ComputedFollows DEF Begins
  <2> QED
    BY <1>t, <2>1, <2>2, <2>3 DEF TurnsInv
<1>3. ASSUME NEW alert \in results[p], RecordResult(p, alert) PROVE TurnsInv'
  <2>1. /\ \A q \in Writers : pc[q] \notin {"truncate", "write"} /\ pc'[q] \notin {"truncate", "write"}
        /\ NobodyWrites /\ pc[p] = "results"
        /\ \A q \in Writers : pc'[q] \in {"down", "truncate"} => pc[q] \in {"down", "truncate"}
    BY <1>3, <1>t, FreeMeans DEF RecordResult
  <2>2. file.header
    BY <2>1 DEF TurnsInv
  <2>3. file'.header
    <3>1. file' \in Appended(file, NewRecord(Len(alerts) + 1, alert, None))
      BY <1>3 DEF RecordResult
    <3>2. \A x, y : /\ [file EXCEPT !.rows = x].header = file.header
                    /\ [file EXCEPT !.rows = x, !.tail = y].header = file.header
      BY <1>t DEF Files
    <3> QED
      BY <2>2, <3>1, <3>2 DEF Appended
  <2> QED
    BY <2>1, <2>3 DEF TurnsInv
<1>4. CASE Truncate(p)
  <2>1. pc[p] = "truncate" /\ pc' = [pc EXCEPT ![p] = "write"]
    BY <1>4 DEF Truncate
  <2>2. ~NobodyWrites' /\ \A q \in Writers : q # p => pc'[q] \notin {"truncate", "write"}
    BY <1>t, <2>1 DEF TurnsInv, NobodyWrites
  <2> QED
    BY <1>t, <2>1, <2>2 DEF TurnsInv
<1>5. CASE Flush(p)
  <2>1. pc[p] = "write" /\ UNCHANGED pc
    BY <1>5 DEF Flush
  <2>2. ~NobodyWrites' /\ \A q \in Writers : q # p => pc'[q] \notin {"truncate", "write"}
    BY <2>1 DEF TurnsInv, NobodyWrites
  <2> QED
    BY <2>1, <2>2 DEF TurnsInv
<1>6. CASE CloseFile(p)
  <2>1. pc[p] = "write" /\ pc' = [pc EXCEPT ![p] = return[p]] /\ file' = Contents(replacement[p])
    BY <1>6 DEF CloseFile
  <2>2. pc'[p] \notin {"truncate", "write"} /\ file'.header
    BY <1>t, <2>1 DEF BaseInv, EndingInv, Ends, Endings, Contents
  <2> QED
    BY <1>t, <2>1, <2>2 DEF TurnsInv
<1> QED
  BY <1>1, <1>2, <1>3, <1>4, <1>5, <1>6, StepKinds DEF Records, Rewriting

\* What a step lets a program hold: rows it has, or rows that it reads.
LEMMA Holds ==
    ASSUME BaseInv, NEW p \in Writers, Acts(p)
    PROVE  /\ \/ todo' = todo
              \/ \E S : /\ todo' = [todo EXCEPT ![p] = S]
                        /\ \/ S \subseteq todo[p]
                           \/ /\ Free(p) /\ pc[p] \notin {"truncate", "write"}
                              /\ S \subseteq {Rows(file)[i] : i \in DOMAIN Rows(file)}
           /\ \/ row' = row
              \/ \E x \in todo[p] \cup {None} : row' = [row EXCEPT ![p] = x]
<1> USE DEF Goto, Continue, Rewrite
<1>1. CASE Recording(p)
  BY <1>1 DEF Recording, Construct, BeginCycle, ReadExisting, SkipResult, RecordResult, ReadBack
<1>2. CASE BeginOutcomes(p)
  <2>1. PICK symbols : todo' = [todo EXCEPT ![p] = OpenRows(Rows(file), symbols)]
    BY <1>2 DEF BeginOutcomes
  <2>2. OpenRows(Rows(file), symbols) \subseteq {Rows(file)[i] : i \in DOMAIN Rows(file)}
    BY DEF OpenRows
  <2>3. row' = row /\ Free(p) /\ pc[p] \notin {"truncate", "write"}
    BY <1>2 DEF BeginOutcomes
  <2> QED
    BY <2>1, <2>2, <2>3
<1>3. ASSUME NEW r \in todo[p], PassOver(p, r) \/ \E price \in Prices : Evaluate(p, r, price)
      PROVE  /\ \E S : todo' = [todo EXCEPT ![p] = S] /\ S \subseteq todo[p]
             /\ row' = row \/ \E x \in todo[p] \cup {None} : row' = [row EXCEPT ![p] = x]
  <2>1. todo' = [todo EXCEPT ![p] = todo[p] \ {r}]
    BY <1>3 DEF PassOver, Evaluate
  <2>2. row' = row \/ \E x \in todo[p] \cup {None} : row' = [row EXCEPT ![p] = x]
    BY <1>3 DEF PassOver, Evaluate
  <2> QED
    BY <2>1, <2>2
<1>4. ASSUME NEW ending \in Endings, Resolve(p, ending)
      PROVE  todo' = todo /\ row' = [row EXCEPT ![p] = None]
  BY <1>4 DEF Resolve
<1>5. CASE EndCycle(p) \/ CycleFails(p) \/ Crash(p)
  BY <1>5 DEF EndCycle, CycleFails, Crash, Forget
<1>6. CASE Rewriting(p)
  BY <1>6 DEF Rewriting, Truncate, Flush, CloseFile
<1> QED
  BY <1>1, <1>2, <1>3, <1>4, <1>5, <1>6 DEF Acts, Evaluating, Endings

\* What programs hold stays among the rows of F as long as the file does.
LEMMA HeldStep ==
    ASSUME BaseInv, ~Overlaps, NEW recorded, WholeFile(Fits(recorded)), HeldRows(Fits(recorded)),
           NEW p \in Writers, Acts(p)
    PROVE  HeldRows(Fits(recorded))'
<1> DEFINE F == Fits(recorded)
<1>h. /\ replacement \in [Writers -> Seq(F)] /\ Ends(F)
      /\ todo \in [Writers -> SUBSET F] /\ row \in [Writers -> F \cup {None}]
  BY DEF HeldRows
<1>f. ASSUME Free(p), pc[p] \notin {"truncate", "write"} PROVE Rows(file) \in Seq(F)
  BY <1>f, FreeMeans, WholeRows
<1>1. todo' \in [Writers -> SUBSET F]
  <2> HIDE DEF F
  <2>1. ASSUME NEW S, todo' = [todo EXCEPT ![p] = S], S \subseteq todo[p]
        PROVE  todo' \in [Writers -> SUBSET F]
    BY <1>h, <2>1
  <2>2. ASSUME NEW S, todo' = [todo EXCEPT ![p] = S], Free(p), pc[p] \notin {"truncate", "write"},
               S \subseteq {Rows(file)[i] : i \in DOMAIN Rows(file)}
        PROVE  todo' \in [Writers -> SUBSET F]
    <3>1. S \subseteq F
      BY <1>f, <2>2
    <3> QED
      BY <1>h, <2>2, <3>1
  <2> QED
    BY <1>h, <2>1, <2>2, Holds
<1>2. row' \in [Writers -> F \cup {None}]
  <2> HIDE DEF F
  <2> QED
    BY <1>h, Holds
<1>3. Ends(F)'
  <2>1. PICK G : G = F
    OBVIOUS
  <2>2. Ends(G)'
    BY <1>h, <2>1, EndsStep DEF BaseInv
  <2> QED
    BY <2>1, <2>2
<1>4. replacement' \in [Writers -> Seq(F)]
  <2>e. <<>> \in Seq(F)
    BY EmptySeq
  <2>1. CASE Leaves(p) \/ Rewriting(p)
    <3>1. replacement' \in {replacement, [replacement EXCEPT ![p] = <<>>]}
      BY <2>1 DEF Leaves, Rewriting, Truncate, Flush, CloseFile
    <3> HIDE DEF F
    <3> QED
      BY <1>h, <2>e, <3>1
  <2>2. CASE Records(p)
    BY <1>h, <2>2 DEF Records, RecordResult, Continue
  <2>3. CASE Begins(p)
    <3>1. PICK rows : Computed(p, rows) /\ replacement' = [replacement EXCEPT ![p] = rows]
      BY <2>3 DEF Begins
    <3>2. Rows(file) \in Seq(F)
      BY <1>f, <2>3 DEF Begins
    <3>3. rows \in Seq(F)
      <4>1. CASE rows = Rows(file)
        BY <3>2, <4>1
      <4>2. ASSUME NEW id \in Nat, NEW hit \in SUBSET Flags, NEW sell \in Int \cup {None},
                   rows = update_live_state(Rows(file), id, hit, sell)
            PROVE  rows \in Seq(F)
        BY <3>2, <4>2, UpdateFits
      <4>3. ASSUME NEW ending \in Endings, pc[p] = ending,
                   rows = resolve(Rows(file), row[p].signal_id, ending, ExitPrice(row[p].plan, ending),
                                  outcome_r(row[p].plan, ExitPrice(row[p].plan, ending)), None)
            PROVE  rows \in Seq(F)
        <5>1. row[p] \in F
          BY <1>h, <4>3 DEF Ends
        <5> QED
          BY <3>2, <4>3, <5>1, ResolveFits
      <4> QED
        BY <3>1, <4>1, <4>2, <4>3 DEF Computed
    <3> HIDE DEF F
    <3> QED
      BY <1>h, <3>1, <3>3
  <2> QED
    BY <2>1, <2>2, <2>3, StepKinds
<1> QED
  BY <1>1, <1>2, <1>3, <1>4 DEF HeldRows

\* What fits the alerts fits one alert more, and so does its own row.
LEMMA FitsMore ==
    ASSUME AlertsFit, NEW alert \in Alerts
    PROVE  LET new == NewRecord(Len(alerts) + 1, alert, None)
           IN  /\ Fits(alerts) \subseteq Fits(Append(alerts, new))
               /\ new \in Fits(Append(alerts, new)) /\ new \in AlertRows
               /\ new.signal_id = Len(alerts) + 1
<1> DEFINE new == NewRecord(Len(alerts) + 1, alert, None)
           more == Append(alerts, new)
<1>1. alerts \in Seq(AlertRows) /\ Len(alerts) \in Nat
  BY DEF AlertsFit
<1>2. new \in AlertRows /\ new.signal_id = Len(alerts) + 1 /\ new.plan = alert /\ new.status = "OPEN"
  BY <1>1 DEF NewRecord, AlertRows
<1> HIDE DEF new
<1>3. /\ \A i \in DOMAIN alerts : i \in DOMAIN more /\ more[i] = alerts[i]
      /\ Len(alerts) + 1 \in DOMAIN more /\ more[Len(alerts) + 1] = new
  BY <1>1, <1>2, AppendProperties
<1> HIDE DEF more
<1>4. Fits(alerts) \subseteq Fits(more)
  BY <1>3 DEF Fits
<1>5. new \in Fits(more)
  BY <1>2, <1>3 DEF Fits, EndFits
<1> QED
  BY <1>2, <1>4, <1>5 DEF new, more

\* The file is whole again when a rewrite is over, and stays so until the next.
LEMMA WholeStep ==
    ASSUME FitInv, ~Overlaps, ~TornWrites, NEW p \in Writers, Acts(p), ~Records(p)
    PROVE  alerts' = alerts /\ \A F : F = Fits(alerts) => WholeFile(F)'
<1> USE DEF Goto, Continue
<1>1. alerts' = alerts
  BY StepKinds DEF FitInv, Leaves, Begins, Rewriting, Truncate, Flush, CloseFile
<1>t. pc \in [Writers -> PcValues]
  BY DEF FitInv, BaseInv, TypeOK
<1> SUFFICES ASSUME NEW F, F = Fits(alerts) PROVE WholeFile(F)'
  BY <1>1
<1>h. WholeFile(F) /\ HeldRows(F)
  BY DEF FitInv
<1>2. CASE Leaves(p) \/ Begins(p)
  <2>1. UNCHANGED file
    BY <1>2 DEF Leaves, Begins
  <2>2. NobodyWrites' => NobodyWrites
    BY <1>2, <1>t DEF Leaves, Begins, NobodyWrites
  <2> QED
    BY <1>h, <2>1, <2>2 DEF WholeFile
<1>3. CASE Truncate(p)
  BY <1>3, EmptySeq DEF Truncate, Empty, WholeFile
<1>4. CASE Flush(p)
  BY <1>4 DEF Flush, WholeFile, NobodyWrites
<1>5. CASE CloseFile(p)
  BY <1>5, <1>h DEF CloseFile, Contents, WholeFile, HeldRows
<1> QED
  BY <1>2, <1>3, <1>4, <1>5, StepKinds DEF FitInv, Rewriting

\* An append: one alert more, and its row behind those of the file.
LEMMA FitRecord ==
    ASSUME FitInv, ~Overlaps, NEW p \in Writers, NEW alert \in results[p], RecordResult(p, alert)
    PROVE  LET new == NewRecord(Len(alerts) + 1, alert, None)
           IN  /\ new \in AlertRows /\ alerts' = Append(alerts, new) /\ AlertsFit'
               /\ NobodyWrites /\ NobodyWrites'
               /\ Rows(file') = Append(Rows(file), new)
               /\ \A G : G = Fits(Append(alerts, new)) => WholeFile(G)' /\ HeldRows(G)'
<1> DEFINE new == NewRecord(Len(alerts) + 1, alert, None)
<1> USE DEF Goto, Continue
<1>t. /\ pc \in [Writers -> PcValues] /\ file \in Files /\ results \in [Writers -> SUBSET Alerts]
  BY DEF FitInv, BaseInv, TypeOK, Files
<1>1. PICK F : F = Fits(alerts)
  OBVIOUS
<1>2. PICK G : G = Fits(Append(alerts, new))
  OBVIOUS
<1>3. /\ F \subseteq G /\ new \in G /\ new \in AlertRows /\ new.signal_id = Len(alerts) + 1
  BY <1>t, <1>1, <1>2, FitsMore DEF FitInv
<1>4. /\ WholeFile(F) /\ HeldRows(F)
  BY <1>1 DEF FitInv
<1>5. /\ file' \in Appended(file, new) /\ alerts' = Append(alerts, new) /\ Free(p) /\ pc[p] = "results"
      /\ pc' = [pc EXCEPT ![p] = IF p \in Runners THEN "readback" ELSE "read"]
      /\ UNCHANGED <<replacement, todo, row, return>>
  BY DEF RecordResult
<1> HIDE DEF new
<1>6. NobodyWrites /\ NobodyWrites'
  <2>1. NobodyWrites
    BY <1>5, FreeMeans
  <2> QED
    BY <1>t, <1>5, <2>1 DEF NobodyWrites
<1>7. file.header
  BY <1>5, <1>6 DEF FitInv, TurnsInv
<1>8. file.rows \in Seq(F) /\ file.tail = <<>> /\ Rows(file) = file.rows
  BY <1>4, <1>6, WholeRows DEF WholeFile
<1>9. file' = [file EXCEPT !.rows = Append(file.rows, new)]
  BY <1>5, <1>8 DEF Appended, record
<1>10. file'.header /\ file'.tail = <<>> /\ file'.rows = Append(file.rows, new)
  BY <1>t, <1>7, <1>8, <1>9 DEF Files
<1>11. file.rows \in Seq(G) /\ file'.rows \in Seq(G)
  BY <1>3, <1>8, <1>10, SeqMonotonic, AppendProperties
<1>12. Rows(file') = Append(Rows(file), new)
  <2>1. Rows(file') = file'.rows \o <<>>
    BY <1>10 DEF Rows
  <2> QED
    BY <1>8, <1>10, <1>11, <2>1, ConcatEmptySeq
<1>13. WholeFile(G)'
  BY <1>10, <1>11 DEF WholeFile
<1>14. HeldRows(G)'
  <2>1. /\ replacement \in [Writers -> Seq(G)]
        /\ todo \in [Writers -> SUBSET G] /\ row \in [Writers -> G \cup {None}]
    BY <1>3, <1>4, SeqMonotonic DEF HeldRows
  <2>2. Ends(F)'
    <3>1. Acts(p)
      BY DEF Acts, Recording
    <3> QED
      BY <1>4, <3>1, EndsStep DEF HeldRows, FitInv, BaseInv
  <2>3. Ends(G)'
    BY <1>3, <2>2 DEF Ends
  <2> QED
    BY <1>5, <2>1, <2>3 DEF HeldRows
<1>15. AlertsFit'
  <2>1. alerts \in Seq(AlertRows) /\ \A i \in DOMAIN alerts : alerts[i].signal_id = i
    BY DEF FitInv, AlertsFit, AlertIds
  <2>2. PICK more : more = Append(alerts, new)
    OBVIOUS
  <2>3. /\ more \in Seq(AlertRows) /\ DOMAIN more = DOMAIN alerts \cup {Len(alerts) + 1}
        /\ \A i \in DOMAIN alerts : more[i] = alerts[i]
        /\ more[Len(alerts) + 1] = new
    BY <1>3, <2>1, <2>2, AppendProperties
  <2>4. \A i \in DOMAIN more : more[i].signal_id = i
    BY <1>3, <2>1, <2>3
  <2> QED
    BY <1>5, <2>2, <2>3, <2>4 DEF AlertsFit, AlertIds
<1> QED
  BY <1>2, <1>3, <1>5, <1>6, <1>12, <1>13, <1>14, <1>15 DEF new

LEMMA FitInit == Init => FitInv
<1> SUFFICES ASSUME Init PROVE FitInv
  OBVIOUS
<1>1. BaseInv
  BY BaseInit
<1>2. AlertsFit
  BY EmptySeq DEF Init, AlertsFit, AlertIds
<1>3. TurnsInv
  BY DEF Init, TurnsInv
<1>4. WholeFile(Fits(alerts))
  BY EmptySeq DEF Init, WholeFile, Empty, Contents
<1>5. HeldRows(Fits(alerts))
  BY EmptySeq DEF Init, HeldRows, Ends, Endings
<1> QED
  BY <1>1, <1>2, <1>3, <1>4, <1>5 DEF FitInv

LEMMA FitInductive ==
    ASSUME ~Overlaps, ~TornWrites, FitInv, [Next]_vars
    PROVE  FitInv'
<1>1. BaseInv'
  BY BaseStep DEF FitInv
<1>2. ASSUME NEW p \in Writers, Acts(p) PROVE FitInv'
  <2>1. TurnsInv'
    BY <1>2, TurnsStep DEF FitInv
  <2>2. CASE Records(p)
    <3>1. PICK alert \in results[p] : RecordResult(p, alert)
      BY <2>2 DEF Records
    <3>2. PICK G : G = Fits(Append(alerts, NewRecord(Len(alerts) + 1, alert, None)))
      OBVIOUS
    <3>3. /\ AlertsFit' /\ alerts' = Append(alerts, NewRecord(Len(alerts) + 1, alert, None))
          /\ WholeFile(G)' /\ HeldRows(G)'
      BY <3>1, <3>2, FitRecord
    <3>4. G = Fits(alerts')
      BY <3>2, <3>3
    <3> QED
      BY <1>1, <2>1, <3>3, <3>4 DEF FitInv
  <2>3. CASE ~Records(p)
    <3>1. PICK recorded : recorded = alerts
      OBVIOUS
    <3>2. alerts' = alerts /\ WholeFile(Fits(recorded))'
      BY <1>2, <2>3, <3>1, WholeStep
    <3>3. HeldRows(Fits(recorded))'
      BY <1>2, <3>1, HeldStep DEF FitInv
    <3> QED
      BY <1>1, <2>1, <3>1, <3>2, <3>3 DEF FitInv, AlertsFit, AlertIds
  <2> QED
    BY <2>2, <2>3
<1>3. CASE Next
  <2>1. PICK p \in Writers : Acts(p)
    BY <1>3 DEF Next, Acts
  <2> QED
    BY <1>2, <2>1
<1>4. CASE UNCHANGED vars
  <2>1. /\ file' = file /\ alerts' = alerts /\ pc' = pc /\ todo' = todo /\ row' = row
        /\ replacement' = replacement /\ return' = return /\ Rows(file') = Rows(file)
    BY <1>4 DEF vars, Rows
  <2> QED
    BY <1>1, <2>1 DEF FitInv, AlertsFit, AlertIds, TurnsInv, WholeFile, HeldRows, Ends, NobodyWrites
<1> QED
  BY <1>3, <1>4

-----------------------------------------------------------------------------
\* Settled, by who is writing: nobody, or the one writer there is.
LEMMA OneWriter ==
    ASSUME NEW f, NEW p \in Writers, f[p] = "write", \A q \in Writers : f[q] = "write" => q = p
    PROVE  (CHOOSE q \in Writers : f[q] = "write") = p
  OBVIOUS

LEMMA SettledIs ==
    ASSUME TurnsInv
    PROVE  /\ NobodyWrites => Settled = Rows(file)
           /\ \A p \in Writers : pc[p] = "write" => Settled = replacement[p]
<1>1. ASSUME NEW p \in Writers, pc[p] = "write" PROVE Settled = replacement[p]
  <2>1. PICK f : f = pc
    OBVIOUS
  <2>2. (CHOOSE q \in Writers : f[q] = "write") = p
    BY <1>1, <2>1, OneWriter DEF TurnsInv
  <2> QED
    BY <1>1, <2>1, <2>2 DEF Settled
<1> QED
  BY <1>1 DEF Settled, NobodyWrites

LEMMA SettledNext ==
    ASSUME TurnsInv'
    PROVE  /\ NobodyWrites' => Settled' = Rows(file')
           /\ \A p \in Writers : pc'[p] = "write" => Settled' = replacement'[p]
<1>1. ASSUME NEW p \in Writers, pc'[p] = "write" PROVE Settled' = replacement'[p]
  <2>1. PICK f : f = pc'
    OBVIOUS
  <2>2. (CHOOSE q \in Writers : f[q] = "write") = p
    BY <1>1, <2>1, OneWriter DEF TurnsInv
  <2> QED
    BY <1>1, <2>1, <2>2 DEF Settled
<1> QED
  BY <1>1 DEF Settled, NobodyWrites

LEMMA SettledFits ==
    ASSUME FitInv
    PROVE  Settled \in Seq(Fits(alerts)) /\ Settled \in Seq(AlertRows)
<1>1. Settled \in Seq(Fits(alerts))
  <2>1. CASE NobodyWrites
    BY <2>1, SettledIs, WholeRows DEF FitInv
  <2>2. CASE ~NobodyWrites
    BY <2>2, SettledIs DEF FitInv, HeldRows, NobodyWrites
  <2> QED
    BY <2>1, <2>2
<1>2. Fits(alerts) \subseteq AlertRows
  BY DEF Fits
<1> QED
  BY <1>1, <1>2, SeqMonotonic

\* A step leaves the journal and the alerts alone, appends one row to both, or
\* replaces the rows of the journal by rows that follow them.
Keeps == Settled' = Settled /\ alerts' = alerts
Adds ==
    \E new \in AlertRows :
        Settled' = Append(Settled, new) /\ alerts' = Append(alerts, new)
Replaces == Follows(Settled, Settled') /\ alerts' = alerts

LEMMA SettledStep ==
    ASSUME FitInv, TurnsInv', ~Overlaps, ~TornWrites, NEW p \in Writers, Acts(p)
    PROVE  Keeps \/ Adds \/ Replaces
<1> USE DEF Goto, Continue
<1>t. /\ pc \in [Writers -> PcValues] /\ replacement \in [Writers -> Seq(JournalRows)]
      /\ TurnsInv /\ BaseInv
  BY DEF FitInv, BaseInv, TypeOK
<1>1. CASE Leaves(p)
  <2>1. PICK place \in PcValues \ {"truncate", "write"} : pc' = [pc EXCEPT ![p] = place]
    BY <1>1 DEF Leaves
  <2>2. pc[p] # "write" /\ Rows(file') = Rows(file) /\ alerts' = alerts
        /\ \A q \in Writers : q # p => replacement'[q] = replacement[q]
    BY <1>1, <1>t DEF Leaves
  <2>3. CASE NobodyWrites
    <3>1. NobodyWrites'
      BY <1>t, <2>1, <2>3 DEF NobodyWrites
    <3> QED
      BY <1>t, <2>2, <2>3, <3>1, SettledIs, SettledNext DEF Keeps
  <2>4. ASSUME NEW q \in Writers, pc[q] = "write" PROVE Keeps
    <3>1. q # p /\ pc'[q] = "write" /\ replacement'[q] = replacement[q]
      BY <1>t, <2>1, <2>2, <2>4
    <3> QED
      BY <1>t, <2>2, <2>4, <3>1, SettledIs, SettledNext DEF Keeps
  <2> QED
    BY <2>3, <2>4 DEF NobodyWrites
<1>2. CASE Begins(p)
  <2>1. /\ Rows(file') = Rows(file) /\ alerts' = alerts /\ NobodyWrites
        /\ pc' = [pc EXCEPT ![p] = "truncate"]
    BY <1>2, FreeMeans DEF Begins
  <2>2. NobodyWrites'
    BY <1>t, <2>1 DEF NobodyWrites
  <2> QED
    BY <1>t, <2>1, <2>2, SettledIs, SettledNext DEF Keeps
<1>3. ASSUME NEW alert \in results[p], RecordResult(p, alert) PROVE Adds
  <2>1. PICK new \in AlertRows :
          /\ alerts' = Append(alerts, new) /\ NobodyWrites /\ NobodyWrites'
          /\ Rows(file') = Append(Rows(file), new)
    BY <1>3, FitRecord
  <2> QED
    BY <1>t, <2>1, SettledIs, SettledNext DEF Adds
<1>4. CASE Truncate(p)
  <2>1. /\ pc[p] = "truncate" /\ pc' = [pc EXCEPT ![p] = "write"] /\ UNCHANGED <<alerts, replacement>>
    BY <1>4 DEF Truncate
  <2>2. NobodyWrites /\ pc'[p] = "write" /\ Follows(Rows(file), replacement[p])
    BY <1>t, <2>1 DEF TurnsInv, NobodyWrites
  <2>3. Settled = Rows(file) /\ Settled' = replacement[p]
    BY <1>t, <2>1, <2>2, SettledIs, SettledNext
  <2> QED
    BY <2>1, <2>2, <2>3 DEF Replaces
<1>5. CASE Flush(p)
  <2>1. pc[p] = "write" /\ UNCHANGED <<pc, alerts, replacement>>
    BY <1>5 DEF Flush
  <2>2. Settled = replacement[p] /\ Settled' = replacement'[p]
    BY <1>t, <2>1, SettledIs, SettledNext
  <2> QED
    BY <2>1, <2>2 DEF Keeps
<1>6. CASE CloseFile(p)
  <2>1. /\ pc[p] = "write" /\ pc' = [pc EXCEPT ![p] = return[p]] /\ file' = Contents(replacement[p])
        /\ UNCHANGED alerts
    BY <1>6 DEF CloseFile
  <2>2. return[p] # "write" /\ \A q \in Writers : q # p => pc[q] # "write"
    BY <1>t, <2>1 DEF TurnsInv, BaseInv, EndingInv, Ends, Endings
  <2>3. NobodyWrites'
    BY <1>t, <2>1, <2>2 DEF NobodyWrites
  <2>4. Rows(file') = replacement[p]
    BY <1>t, <2>1, ConcatEmptySeq DEF Rows, Contents
  <2> QED
    BY <1>t, <2>1, <2>3, <2>4, SettledIs, SettledNext DEF Keeps
<1> QED
  BY <1>t, <1>1, <1>2, <1>3, <1>4, <1>5, <1>6, StepKinds DEF Records, Rewriting

-----------------------------------------------------------------------------
\* The properties of the journal, as facts about one sequence of rows.
KeepsEach(recorded, rows) ==
    \A i \in DOMAIN recorded :
        \E j \in DOMAIN rows :
            rows[j].signal_id = recorded[i].signal_id /\ rows[j].plan = recorded[i].plan

ClosedStay(rows, rows2) ==
    \A i \in DOMAIN rows : ~IsOpen(rows[i]) => \E j \in DOMAIN rows2 : rows2[j] = rows[i]

LEMMA AppendKeeps ==
    ASSUME NEW rows \in Seq(AlertRows), NEW recorded \in Seq(AlertRows), NEW new \in AlertRows
    PROVE  /\ KeepsEach(recorded, rows) => KeepsEach(Append(recorded, new), Append(rows, new))
           /\ ClosedStay(rows, Append(rows, new))
<1> DEFINE rows2 == Append(rows, new)
           recorded2 == Append(recorded, new)
<1>1. /\ DOMAIN rows2 = DOMAIN rows \cup {Len(rows) + 1}
      /\ \A i \in DOMAIN rows : rows2[i] = rows[i]
      /\ rows2[Len(rows) + 1] = new
  BY AppendProperties
<1>2. /\ DOMAIN recorded2 = DOMAIN recorded \cup {Len(recorded) + 1}
      /\ \A i \in DOMAIN recorded : recorded2[i] = recorded[i]
      /\ recorded2[Len(recorded) + 1] = new
  BY AppendProperties
<1> HIDE DEF rows2, recorded2
<1>3. ASSUME KeepsEach(recorded, rows) PROVE KeepsEach(recorded2, rows2)
  <2> SUFFICES ASSUME NEW i \in DOMAIN recorded2
               PROVE  \E j \in DOMAIN rows2 :
                        rows2[j].signal_id = recorded2[i].signal_id /\ rows2[j].plan = recorded2[i].plan
    BY DEF KeepsEach
  <2>1. CASE i \in DOMAIN recorded
    <3>1. PICK j \in DOMAIN rows :
            rows[j].signal_id = recorded[i].signal_id /\ rows[j].plan = recorded[i].plan
      BY <1>3, <2>1 DEF KeepsEach
    <3> QED
      BY <1>1, <1>2, <2>1, <3>1
  <2>2. CASE i = Len(recorded) + 1
    BY <1>1, <1>2, <2>2
  <2> QED
    BY <1>2, <2>1, <2>2
<1>4. ClosedStay(rows, rows2)
  BY <1>1 DEF ClosedStay
<1> QED
  BY <1>3, <1>4 DEF rows2, recorded2

LEMMA FollowingKeeps ==
    ASSUME NEW rows, NEW rows2, NEW recorded, Follows(rows, rows2)
    PROVE  /\ KeepsEach(recorded, rows) => KeepsEach(recorded, rows2)
           /\ ClosedStay(rows, rows2)
  BY DEF Follows, KeepsEach, ClosedStay

\* The inductive invariant of the journal when cycles interleave and each method
\* has the file to itself.
JournalInv == FitInv /\ NothingLost

LEMMA JournalInit == Init => JournalInv
<1> SUFFICES ASSUME Init PROVE JournalInv
  OBVIOUS
<1>1. FitInv
  BY FitInit
<1>2. alerts = <<>>
  BY DEF Init
<1>3. NothingLost
  BY <1>2, EmptySeq DEF NothingLost
<1> QED
  BY <1>1, <1>3 DEF JournalInv

LEMMA JournalStep ==
    ASSUME JournalInv, ~Overlaps, ~TornWrites, [Next]_vars
    PROVE  JournalInv' /\ ClosedStay(Settled, Settled')
<1>1. FitInv'
  BY FitInductive DEF JournalInv
<1>2. /\ KeepsEach(alerts, Settled)
      /\ Settled \in Seq(AlertRows) /\ alerts \in Seq(AlertRows)
  BY SettledFits DEF JournalInv, FitInv, AlertsFit, NothingLost, KeepsEach
<1>3. Keeps \/ Adds \/ Replaces
  <2>1. CASE Next
    <3>1. PICK p \in Writers : Acts(p)
      BY <2>1 DEF Next, Acts
    <3> QED
      BY <1>1, <3>1, SettledStep DEF JournalInv, FitInv
  <2>2. CASE UNCHANGED vars
    BY <2>2 DEF vars, Keeps, Settled, Rows
  <2> QED
    BY <2>1, <2>2
<1> SUFFICES KeepsEach(alerts', Settled') /\ ClosedStay(Settled, Settled')
  BY <1>1 DEF JournalInv, NothingLost, KeepsEach
<1>4. PICK rows2, recorded2 : rows2 = Settled' /\ recorded2 = alerts'
  OBVIOUS
<1>5. CASE Keeps
  BY <1>2, <1>5 DEF Keeps, ClosedStay
<1>6. CASE Adds
  BY <1>2, <1>6, AppendKeeps DEF Adds
<1>7. CASE Replaces
  BY <1>2, <1>4, <1>7, FollowingKeeps DEF Replaces
<1> QED
  BY <1>3, <1>5, <1>6, <1>7

-----------------------------------------------------------------------------
\* However the cycles of any number of programs interleave, as long as no method
\* is interrupted on the file, the journal keeps every alert that was ever
\* appended to it, with its plan.
THEOREM AlertsAreKept == ASSUME ~Overlaps, ~TornWrites PROVE Spec => []NothingLost
<1>1. JournalInv /\ [Next]_vars => JournalInv'
  BY JournalStep
<1>2. JournalInv => NothingLost
  BY DEF JournalInv
<1> QED
  BY <1>1, <1>2, JournalInit, PTL DEF Spec

\* Under the same conditions a closed row stays as it is, whatever a program goes
\* on to do with the copy of it that it read while it was open.
THEOREM ClosedRowsStay == ASSUME ~Overlaps, ~TornWrites PROVE Spec => ClosedForGood
<1> DEFINE Stay == \A i \in DOMAIN Settled :
                     ~IsOpen(Settled[i]) => \E j \in DOMAIN Settled' : Settled'[j] = Settled[i]
<1>1. JournalInv /\ [Next]_vars => JournalInv'
  BY JournalStep
<1>2. JournalInv /\ [Next]_vars => [Stay]_vars
  BY JournalStep DEF ClosedStay
<1> QED
  BY <1>1, <1>2, JournalInit, PTL DEF Spec, ClosedForGood

\* Under the same conditions each row is one that was recorded, with its own
\* plan, and a closed row has the exit and the result that this plan gives its
\* status, whichever program closed it and in whatever order.
THEOREM OutcomesFit == ASSUME ~Overlaps, ~TornWrites PROVE Spec => []OutcomesFitPlans
<1>1. FitInv /\ [Next]_vars => FitInv'
  BY FitInductive
<1>2. FitInv => OutcomesFitPlans
  <2> SUFFICES ASSUME FitInv, NEW i \in DOMAIN Settled
               PROVE  LET r == Settled[i]
                      IN  /\ \E j \in DOMAIN alerts : alerts[j].signal_id = r.signal_id /\ alerts[j].plan = r.plan
                          /\ EndFits(r)
    BY DEF OutcomesFitPlans, EndFits
  <2>1. Settled[i] \in Fits(alerts)
    BY SettledFits
  <2> QED
    BY <2>1 DEF FitInv, AlertsFit, AlertIds, Fits
<1> QED
  BY <1>1, <1>2, FitInit, PTL DEF Spec

=============================================================================
