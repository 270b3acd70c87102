----------------------- MODULE OwnerAttributionProofs -----------------------
(***************************************************************************)
(* OwnersWereMeasured, for any number of actors, providers, requests and   *)
(* detections, and any lookback.                                           *)
(*                                                                         *)
(* The events may be gone when a pass stores what it found in them, so the *)
(* invariant says of each finding under way that it has been measured, and *)
(* the same of the owner that an escalation under way has loaded; and      *)
(* a row that a pass has read as it is keeps, of its old owner and         *)
(* confidence, only what the finding has, too.                             *)
(***************************************************************************)
EXTENDS MCOwnerHistory, FiniteSetTheorems, TLAPS

\* A finding as the columns have it.
Rounded(found) == [owner |-> found.owner, share |-> Thousandths(found.share)]

Known(a) == \E m \in measured : m.owner = a

IInv ==
  /\ TypeOK
  /\ Measurements \subseteq measured
  /\ OwnersWereMeasured
  /\ \A w \in Workers : sessions[w].at = "store" =>
       /\ sessions[w].found.owner \in Actors
       /\ Rounded(sessions[w].found) \in measured
  /\ \A e \in escalations : e[2] # Nobody => Known(e[2])

-----------------------------------------------------------------------------
(* compute_attribution                                                     *)

\* The actors of the known events are counted by a natural number, at most their total.
LEMMA Counts ==
  ASSUME NEW stored, NEW age \in Cutoffs, NEW a \in Actors
  PROVE  /\ Cardinality(Named(stored, age)) \in Nat
         /\ Cardinality(Of(stored, age, a)) \in Nat
         /\ Cardinality(Of(stored, age, a)) <= Cardinality(Named(stored, age))
<1>1. age \in Int
  BY AttributionAssumption DEF Cutoffs
<1>2. IsFiniteSet(0 .. age)
  BY <1>1, FS_Interval
<1>3. IsFiniteSet(Providers \X (0 .. age))
  BY <1>2, AttributionAssumption, FS_Product
<1>4. Named(stored, age) \in SUBSET (Providers \X (0 .. age))
  BY DEF Named, Within
<1>5. Of(stored, age, a) \in SUBSET Named(stored, age)
  BY AttributionAssumption DEF Named, Of
<1>6. IsFiniteSet(Named(stored, age))
  BY <1>3, <1>4, FS_Subset
<1>7. IsFiniteSet(Of(stored, age, a))
  BY <1>5, <1>6, FS_Subset
<1> QED BY <1>5, <1>6, <1>7, FS_Subset, FS_CardinalityType

\* A quotient is a natural number, and no more than what is divided.
LEMMA DivisionBounds ==
  ASSUME NEW n \in Nat, NEW d \in Nat \ {0}
  PROVE  n \div d \in Nat /\ (n \div d) * d <= n
BY SMT

\* The numbers up to 10000 are the shares.
LEMMA UpToOne ==
  ASSUME NEW n \in Nat, n <= 10000
  PROVE  n \in Computed
BY SMTT(40) DEF Computed

\* What is found is of the type of a finding, and is a measurement of the same events.
LEMMA FindingIsMeasured ==
  ASSUME NEW age \in Cutoffs
  PROVE  LET found == Attribution(events, age)
         IN /\ found \in Finding
            /\ found # Nothing => found.owner \in Actors /\ Rounded(found) \in Measurements
<1> DEFINE all == Cardinality(Named(events, age))
           top == {a \in Actors : Concentrated(Cardinality(Of(events, age, a)), all)}
           found == Attribution(events, age)
<1>1. Nothing \in Finding
  BY DEF Nothing, Finding, Computed
<1>2. CASE all = 0 \/ top = {}
  <2>1. found = Nothing
    BY <1>2 DEF Attribution
  <2> QED BY <2>1, <1>1
<1>3. CASE ~(all = 0 \/ top = {})
  <2> DEFINE a == CHOOSE a \in top : TRUE
             his == Cardinality(Of(events, age, a))
  <2>1. a \in top
    BY <1>3
  <2>2. found = [owner |-> a, share |-> Ratio(his, all)]
    BY <1>3 DEF Attribution
  <2> HIDE DEF a
  <2>3. a \in Actors /\ Concentrated(his, all)
    BY <2>1
  <2>4. his \in Nat /\ all \in Nat \ {0} /\ his <= all
    BY <2>3, <1>3, Counts
  <2>5. Ratio(his, all) \in Computed
    <3> DEFINE n == 20000 * his + all
               d == 2 * all
               q == n \div d
    <3> HIDE DEF his, all
    <3>1. n \in Nat /\ d \in Nat \ {0} /\ n <= 20001 * all
      BY <2>4
    <3>2. q \in Nat /\ q * d <= n
      <4> HIDE DEF n, d
      <4> QED BY <3>1, DivisionBounds
    <3>3. q \in Nat
      BY <3>2
    <3>4. q <= 10000
      <4>1. SUFFICES ASSUME q >= 10001 PROVE FALSE
        BY <3>2
      <4>2. q * d >= 10001 * d
        BY <4>1, <3>1, <3>2
      <4> QED BY <4>2, <3>1, <3>2, <2>4
    <3>5. Ratio(his, all) = q
      BY DEF Ratio
    <3>6. q \in Computed
      <4> HIDE DEF q, n, d
      <4> QED BY <3>3, <3>4, UpToOne
    <3> HIDE DEF q
    <3> QED BY <3>5, <3>6
  <2>6. his > 0 /\ 5 * his >= 3 * all
    <3> HIDE DEF his, all
    <3> QED BY <2>3, <2>4 DEF Concentrated, Threshold
  <2>7. Speaks(events, age, a)
    BY <2>6 DEF Speaks
  <2>8. Rounded(found) = Measure(age, a)
    BY <2>2 DEF Rounded, Measure
  <2>9. Measure(age, a) \in Measurements
    <3>1. <<age, a>> \in {q \in Cutoffs \X Actors : Speaks(events, q[1], q[2])}
      BY <2>3, <2>7
    <3> QED BY <3>1 DEF Measurements
  <2>10. found \in Finding
    <3> HIDE DEF found, his, all
    <3> QED BY <2>2, <2>3, <2>5 DEF Finding
  <2>11. found.owner \in Actors
    <3> HIDE DEF found, his, all
    <3> QED BY <2>2, <2>3
  <2> QED BY <2>8, <2>9, <2>10, <2>11
<1> QED BY <1>2, <1>3

-----------------------------------------------------------------------------
(* The invariant.                                                          *)

\* An idle session is a session.
LEMMA IdleType == Idle \in Session /\ Idle.at = "idle"
<1>1. 1 \in Detections
  BY AttributionAssumption DEF Detections
<1>2. ColumnsOf(NoRow) \in Columns
  BY DEF ColumnsOf, NoRow, Columns, InColumn
<1>3. Nothing \in Finding
  BY DEF Nothing, Finding, Computed
<1> QED BY <1>1, <1>2, <1>3 DEF Idle, Session

\* Nothing is stored in the beginning, so nothing needs to have been measured.
LEMMA InitInv == HistoryInit => IInv
<1> SUFFICES ASSUME HistoryInit PROVE IInv
  OBVIOUS
<1> USE DEF HistoryInit, Init
<1>1. Idle \in Session /\ Idle.at = "idle"
  BY IdleType
<1>2. TypeOK
  BY <1>1 DEF TypeOK, Event, NoRow, Row, InColumn
<1>3. Measurements = {}
  <2> SUFFICES ASSUME NEW age \in Cutoffs, NEW a \in Actors, Speaks(events, age, a) PROVE FALSE
    BY DEF Measurements
  <2>1. age \in Int
    BY AttributionAssumption DEF Cutoffs
  <2>2. 0 .. age \subseteq Ages
    BY AttributionAssumption DEF Cutoffs, Ages
  <2>3. Of(events, age, a) = {}
    BY <2>2 DEF Of, Within
  <2>4. Cardinality(Of(events, age, a)) = 0
    BY <2>3, FS_EmptySet
  <2> QED BY <2>4 DEF Speaks
<1>4. OwnersWereMeasured
  <2>1. Absent \notin Actors
    BY AttributionAssumption DEF Absent
  <2> QED BY <2>1 DEF OwnersWereMeasured, NoRow
<1> QED BY <1>1, <1>2, <1>3, <1>4 DEF IInv

\* While the events stay, so do the measurements.
LEMMA SameEvents ==
  ASSUME IInv, HistoryNext, events' = events
  PROVE  measured' = measured /\ Measurements' = Measurements
BY DEF HistoryNext, Measurements, Measure, Speaks, Of, Named, Within

\* What was measured stays measured, and new events are measured as they come.
LEMMA History ==
  ASSUME IInv, HistoryNext
  PROVE  measured \subseteq measured' /\ Measurements' \subseteq measured'
<1>1. CASE events' = events
  BY <1>1, SameEvents DEF IInv
<1>2. CASE events' # events
  BY <1>2 DEF HistoryNext
<1> QED BY <1>1, <1>2

\* A step that leaves the owners alone, and changes no session to "store".
LEMMA OwnersStay ==
  ASSUME IInv, HistoryNext, TypeOK',
         \A d \in Detections : rows'[d].owner = rows[d].owner /\ rows'[d].share = rows[d].share,
         systems' = systems, mixed' = mixed,
         \A e \in escalations' : e \in escalations \/ e[2] = Nobody \/ Known(e[2]),
         \A w \in Workers : sessions'[w].at = "store" => sessions'[w] = sessions[w]
  PROVE  IInv'
<1>1. measured \subseteq measured' /\ Measurements' \subseteq measured'
  BY History
<1>2. OwnersWereMeasured'
  BY <1>1 DEF IInv, OwnersWereMeasured
<1>3. \A w \in Workers : sessions'[w].at = "store" =>
        sessions'[w].found.owner \in Actors /\ Rounded(sessions'[w].found) \in measured'
  BY <1>1 DEF IInv
<1>4. \A e \in escalations' : e[2] # Nobody => Known(e[2])'
  BY <1>1 DEF IInv, Known
<1> QED BY <1>1, <1>2, <1>3, <1>4 DEF IInv, Rounded

\* Loading, reading again and rolling back leave the owners as they are.
LEMMA PassStep ==
  ASSUME IInv, HistoryNext, NEW w \in Workers,
         Pass(w) \/ PassReloads(w) \/ StoreRolledBack(w)
  PROVE  IInv'
<1> USE IdleType DEF IInv, TypeOK
<1>1. rows' = rows /\ systems' = systems /\ mixed' = mixed /\ events' = events /\ escalations' = escalations
  BY DEF Pass, PassFindsNone, PassLoads, PassReloads, StoreRolledBack
<1>2. CASE PassFindsNone(w) \/ StoreRolledBack(w)
  <2>1. sessions' = [sessions EXCEPT ![w] = Idle]
    BY <1>2 DEF PassFindsNone, StoreRolledBack
  <2>2. TypeOK'
    BY <1>1, <2>1
  <2>3. \A v \in Workers : sessions'[v].at = "store" => sessions'[v] = sessions[v]
    BY <2>1
  <2> QED BY <1>1, <2>2, <2>3, OwnersStay
<1>3. CASE \E d \in Detections : PassLoads(w, d)
  <2>1. PICK d \in Detections : PassLoads(w, d)
    BY <1>3
  <2>2. sessions' = [sessions EXCEPT ![w] =
          [sessions[w] EXCEPT !.at = "loaded", !.detection = d, !.seen = ColumnsOf(rows[d])]]
    BY <2>1 DEF PassLoads
  <2>3. sessions'[w] \in Session /\ sessions'[w].at = "loaded"
    BY <2>2 DEF Session, ColumnsOf, Columns, Row
  <2>4. TypeOK'
    BY <1>1, <2>2, <2>3
  <2>5. \A v \in Workers : sessions'[v].at = "store" => sessions'[v] = sessions[v]
    BY <2>2, <2>3
  <2> QED BY <1>1, <2>4, <2>5, OwnersStay
<1>4. CASE PassReloads(w)
  <2> DEFINE columns == ColumnsOf(rows[sessions[w].detection])
  <2>1. sessions' = [sessions EXCEPT ![w] = [sessions[w] EXCEPT !.seen = columns]] /\ sessions[w].at = "loaded"
    BY <1>4 DEF PassReloads
  <2>2. columns \in Columns
    BY DEF Session, ColumnsOf, Columns, Row
  <2>3. sessions'[w] \in Session /\ sessions'[w].at = "loaded"
    <3> HIDE DEF columns
    <3> QED BY <2>1, <2>2 DEF Session
  <2>4. TypeOK'
    BY <1>1, <2>1, <2>3
  <2>5. \A v \in Workers : sessions'[v].at = "store" => sessions'[v] = sessions[v]
    BY <2>1, <2>3
  <2> QED BY <1>1, <2>4, <2>5, OwnersStay
<1> QED BY <1>2, <1>3, <1>4 DEF Pass

\* A pass goes on to store only what it has measured.
LEMMA ComputeStep ==
  ASSUME IInv, HistoryNext, NEW w \in Workers, Compute(w)
  PROVE  IInv'
<1> USE IdleType DEF IInv
<1>1. PICK age \in Cutoffs :
        LET found == Attribution(events, age)
        IN /\ sessions[w].at = "loaded"
           /\ sessions' = [sessions EXCEPT ![w] =
                IF found = Nothing THEN Idle ELSE [@ EXCEPT !.at = "store", !.found = found]]
           /\ UNCHANGED <<events, rows, systems, escalations, mixed>>
  BY DEF Compute
<1> DEFINE found == Attribution(events, age)
<1>2. found \in Finding /\ (found # Nothing => found.owner \in Actors /\ Rounded(found) \in Measurements)
  BY FindingIsMeasured
<1>3. measured' = measured /\ Measurements' = Measurements
  BY <1>1, SameEvents
<1> HIDE DEF found
<1>4. CASE found = Nothing
  <2>1. sessions' = [sessions EXCEPT ![w] = Idle]
    BY <1>1, <1>4 DEF found, TypeOK
  <2>2. TypeOK'
    BY <1>1, <2>1 DEF TypeOK
  <2>3. \A v \in Workers : sessions'[v].at = "store" => sessions'[v] = sessions[v]
    BY <2>1 DEF TypeOK
  <2> QED BY <1>1, <2>2, <2>3, OwnersStay
<1>5. CASE found # Nothing
  <2>1. sessions' = [sessions EXCEPT ![w] = [sessions[w] EXCEPT !.at = "store", !.found = found]]
    BY <1>1, <1>5 DEF found, TypeOK
  <2>2. sessions'[w] \in Session /\ sessions'[w].found = found
    BY <1>2, <2>1 DEF TypeOK, Session
  <2>3. TypeOK'
    BY <1>1, <2>1, <2>2 DEF TypeOK
  <2>4. \A v \in Workers : sessions'[v].at = "store" =>
          sessions'[v].found.owner \in Actors /\ Rounded(sessions'[v].found) \in measured'
    BY <1>2, <1>3, <1>5, <2>1, <2>2 DEF TypeOK
  <2>5. OwnersWereMeasured' /\ \A e \in escalations' : e[2] # Nobody => Known(e[2])'
    BY <1>1, <1>3 DEF OwnersWereMeasured, Known
  <2> QED BY <1>3, <2>3, <2>4, <2>5 DEF Rounded
<1> QED BY <1>4, <1>5

\* A share of a finding is one of the column; and if the merge keeps the column's, it is the same.
LEMMA ColumnShare ==
  ASSUME NEW share \in Computed, NEW column \in InColumn
  PROVE  /\ Thousandths(share) \in InColumn
         /\ Same(share, column) => column = Thousandths(share)
BY DEF Thousandths, Same, Computed, InColumn

Merged(row, seen, found) ==
  [row EXCEPT !.owner = IF found.owner = seen.owner THEN row.owner ELSE found.owner,
              !.share = IF Same(found.share, seen.share) THEN row.share ELSE Thousandths(found.share)]

\* What Store makes of a row: the finding, if the pass had read the row as it is.
LEMMA MergedRow ==
  ASSUME NEW row \in Row, NEW seen \in Columns, NEW found \in Finding
  PROVE  LET merged == Merged(row, seen, found)
         IN /\ merged \in Row
            /\ merged.owner \in {row.owner, found.owner}
            /\ seen.owner = row.owner /\ seen.share = row.share =>
                 [owner |-> merged.owner, share |-> merged.share] = Rounded(found)
<1> DEFINE owner == IF found.owner = seen.owner THEN row.owner ELSE found.owner
           kept == Same(found.share, seen.share)
           column == Thousandths(found.share)
           share == IF kept THEN row.share ELSE column
           merged == [status |-> row.status, owner |-> owner, share |-> share]
<1>1. row.share \in InColumn /\ seen.share \in InColumn /\ found.share \in Computed
  BY DEF Row, Columns, Finding
<1>2. column \in InColumn /\ (kept => seen.share = column)
  BY <1>1, ColumnShare
<1> HIDE DEF kept, column
<1>3. owner \in Actors \cup {Nobody} /\ owner \in {row.owner, found.owner}
  BY DEF Row, Finding
<1>4. share \in InColumn
  BY <1>1, <1>2
<1>5. seen.owner = row.owner /\ seen.share = row.share => owner = found.owner /\ share = column
  BY <1>2
<1>6. Merged(row, seen, found) = [row EXCEPT !.owner = owner, !.share = share]
  BY DEF Merged, kept, column
<1> HIDE DEF owner, share
<1>7. Merged(row, seen, found) = merged
  BY <1>6 DEF Row
<1>8. merged \in Row
  BY <1>3, <1>4 DEF Row
<1> QED BY <1>3, <1>5, <1>7, <1>8 DEF Rounded, column

\* What is stored has been measured; of an old row, only what it shares with it is left.
LEMMA StoreStep ==
  ASSUME IInv, HistoryNext, NEW w \in Workers, Store(w)
  PROVE  IInv'
<1> DEFINE d == sessions[w].detection
           seen == sessions[w].seen
           found == sessions[w].found
           merged == Merged(rows[d], seen, found)
<1>1. /\ d \in Detections /\ seen \in Columns /\ found \in Finding /\ rows[d] \in Row
      /\ found.owner \in Actors /\ Rounded(found) \in measured
  BY DEF IInv, Store, TypeOK, Session
<1>2. /\ rows' = [rows EXCEPT ![d] = merged]
      /\ mixed' = IF seen = ColumnsOf(rows[d])
                  THEN mixed \ {d} ELSE mixed \cup {d}
      /\ sessions' = [sessions EXCEPT ![w] = Idle]
      /\ events' = events /\ systems' = systems /\ escalations' = escalations
  BY DEF IInv, Store, TypeOK, Merged
<1> HIDE DEF d, seen, found
<1>3. /\ merged \in Row
      /\ merged.owner \in {rows[d].owner, found.owner}
      /\ seen.owner = rows[d].owner /\ seen.share = rows[d].share =>
           [owner |-> merged.owner, share |-> merged.share] = Rounded(found)
  BY <1>1, MergedRow
<1> HIDE DEF merged
<1>4. measured' = measured /\ Measurements' = Measurements
  BY <1>2, SameEvents
<1>5. TypeOK'
  BY <1>1, <1>2, <1>3, IdleType DEF IInv, TypeOK
<1>6. rows'[d] = merged /\ \A e \in Detections : e # d => rows'[e] = rows[e]
  BY <1>1, <1>2 DEF IInv, TypeOK
<1>7. OwnersWereMeasured'
  <2>1. merged.owner # Nobody => \E m \in measured : m.owner = merged.owner
    BY <1>1, <1>3 DEF IInv, OwnersWereMeasured, Rounded
  <2>2. d \notin mixed' => [owner |-> merged.owner, share |-> merged.share] \in measured
    BY <1>1, <1>2, <1>3 DEF ColumnsOf
  <2>3. \A e \in Detections : e # d => (e \in mixed' <=> e \in mixed)
    BY <1>2
  <2> QED BY <1>2, <1>4, <1>6, <2>1, <2>2, <2>3 DEF IInv, OwnersWereMeasured
<1>8. \A v \in Workers : sessions'[v].at = "store" => sessions'[v] = sessions[v]
  BY <1>2, IdleType DEF IInv, TypeOK
<1>9. \A e \in escalations' : e[2] # Nobody => Known(e[2])'
  BY <1>2, <1>4 DEF IInv, Known
<1> QED BY <1>4, <1>5, <1>7, <1>8, <1>9 DEF IInv, Rounded

RowsKeep == \A e \in Detections : rows'[e].owner = rows[e].owner /\ rows'[e].share = rows[e].share

\* A new status leaves the columns of the owner.
LEMMA StatusChange ==
  ASSUME rows \in [Detections -> Row], NEW d \in Detections, NEW status \in {"open", "closed"},
         rows' = [rows EXCEPT ![d] = [rows[d] EXCEPT !.status = status]]
  PROVE  rows' \in [Detections -> Row] /\ RowsKeep
<1>1. rows'[d] \in Row /\ rows'[d].owner = rows[d].owner /\ rows'[d].share = rows[d].share
  BY DEF Row
<1> QED BY <1>1 DEF RowsKeep

\* An AI system gets the owner that its escalation has loaded, and he was measured.
LEMMA EscalationStep ==
  ASSUME IInv, HistoryNext, NEW d \in Detections, EscalateDetection(d)
  PROVE  IInv'
<1> USE DEF IInv
<1>1. events' = events /\ sessions' = sessions /\ mixed' = mixed
  BY DEF EscalateDetection, EscalateLoads, EscalateInserts, EscalateFails
<1>2. CASE EscalateLoads(d)
  <2>1. rows[d].owner \in Actors \cup {Nobody}
    BY DEF TypeOK, Row
  <2>2. TypeOK'
    BY <1>2, <2>1 DEF EscalateLoads, TypeOK
  <2>3. rows[d].owner = Nobody \/ Known(rows[d].owner)
    BY DEF OwnersWereMeasured, Known
  <2>4. \A e \in escalations' : e \in escalations \/ e[2] = Nobody \/ Known(e[2])
    BY <1>2, <2>3 DEF EscalateLoads
  <2> QED BY <1>1, <1>2, <2>2, <2>4, OwnersStay DEF EscalateLoads
<1>3. ASSUME NEW owner \in Actors \cup {Nobody}, EscalateFails(d, owner) PROVE IInv'
  <2>1. TypeOK'
    BY <1>3 DEF EscalateFails, TypeOK
  <2> QED BY <1>1, <1>3, <2>1, OwnersStay DEF EscalateFails
<1>4. ASSUME NEW owner \in Actors \cup {Nobody}, EscalateInserts(d, owner) PROVE IInv'
  <2>1. rows' = [rows EXCEPT ![d] = [rows[d] EXCEPT !.status = "closed"]]
    BY <1>4 DEF EscalateInserts
  <2>2. rows' \in [Detections -> Row] /\ RowsKeep
    BY <2>1, StatusChange DEF TypeOK
  <2>3. /\ systems' = [systems EXCEPT ![d] = owner] /\ escalations' \subseteq escalations
        /\ owner # Nobody => Known(owner)
    BY <1>4 DEF EscalateInserts
  <2>4. TypeOK'
    BY <1>1, <2>2, <2>3 DEF TypeOK, Event
  <2>5. measured' = measured /\ Measurements' = Measurements
    BY <1>1, SameEvents
  <2>6. OwnersWereMeasured'
    <3>1. \A e \in Detections : systems'[e] = systems[e] \/ systems'[e] = owner
      BY <2>3 DEF TypeOK
    <3>2. \A e \in Detections : systems'[e] \in Actors => \E m \in measured : m.owner = systems'[e]
      BY <2>3, <3>1, AttributionAssumption DEF OwnersWereMeasured, Known
    <3> QED BY <1>1, <2>2, <2>5, <3>2 DEF OwnersWereMeasured, RowsKeep
  <2>7. \A e \in escalations' : e[2] # Nobody => Known(e[2])'
    BY <2>3, <2>5 DEF Known
  <2> QED BY <1>1, <2>4, <2>5, <2>6, <2>7 DEF Rounded
<1> QED BY <1>2, <1>3, <1>4 DEF EscalateDetection

\* Days, scans and people.
LEMMA WorldStep ==
  ASSUME IInv, HistoryNext,
         NextDay \/ Crash \/ (\E d \in Detections : Detect(d) \/ Close(d) \/ EscalateDetection(d))
  PROVE  IInv'
<1> USE IdleType DEF IInv
<1>1. CASE NextDay
  <2> USE <1>1 DEF NextDay
  <2>1. events' \in [Providers \X Ages -> Event]
    <3> SUFFICES ASSUME NEW p \in Providers, NEW age \in Ages
                 PROVE  (IF age = 0 THEN Absent ELSE events[<<p, age - 1>>]) \in Event
      OBVIOUS
    <3>1. age # 0 => age - 1 \in Ages
      BY AttributionAssumption DEF Ages
    <3> QED BY <3>1 DEF TypeOK, Event
  <2>2. TypeOK'
    BY <2>1 DEF TypeOK
  <2> QED BY <2>2, OwnersStay
<1>2. CASE Crash
  <2>1. sessions' = [w \in Workers |-> Idle]
    BY <1>2 DEF Crash
  <2>2. TypeOK'
    BY <1>2, <2>1 DEF Crash, TypeOK
  <2>3. \A w \in Workers : sessions'[w].at = "store" => sessions'[w] = sessions[w]
    BY <2>1
  <2>4. escalations' = {}
    BY <1>2 DEF Crash
  <2> QED BY <1>2, <2>2, <2>3, <2>4, OwnersStay DEF Crash
<1>3. ASSUME NEW d \in Detections, Detect(d) \/ Close(d) PROVE IInv'
  <2>1. PICK status \in {"open", "closed"} : rows' = [rows EXCEPT ![d] = [rows[d] EXCEPT !.status = status]]
    BY <1>3 DEF Detect, Close, TypeOK, Row
  <2>2. rows' \in [Detections -> Row] /\ RowsKeep
    BY <2>1, StatusChange DEF TypeOK
  <2>3. TypeOK'
    BY <1>3, <2>2 DEF Detect, Close, TypeOK
  <2> QED BY <1>3, <2>2, <2>3, OwnersStay DEF Detect, Close, RowsKeep
<1>4. ASSUME NEW d \in Detections, EscalateDetection(d) PROVE IInv'
  BY <1>4, EscalationStep
<1> QED BY <1>1, <1>2, <1>3, <1>4

\* A sync changes the events, and so what is measured, but no owner.
LEMMA SyncStep ==
  ASSUME IInv, HistoryNext, NEW w \in Workers, NEW p \in Providers, SyncConnection(w, p)
  PROVE  IInv'
<1> USE DEF IInv, SyncConnection
<1>1. PICK age \in Ages : \E report \in [Unstored(p, age) -> Reports] :
        events' = [e \in Providers \X Ages |->
                     IF e[1] = p /\ e[2] \in DOMAIN report THEN report[e[2]] ELSE events[e]]
  OBVIOUS
<1>2. events' \in [Providers \X Ages -> Event]
  BY <1>1, AttributionAssumption DEF TypeOK, Event, Absent
<1>3. sessions'[w] \in Session /\ sessions'[w].at = "pass"
  BY DEF TypeOK, Session
<1>4. TypeOK'
  BY <1>2, <1>3 DEF TypeOK
<1>5. \A v \in Workers : sessions'[v].at = "store" => sessions'[v] = sessions[v]
  BY <1>3 DEF TypeOK
<1> QED BY <1>4, <1>5, OwnersStay

\* IInv is inductive.
LEMMA StepInv == IInv /\ [HistoryNext]_<<vars, measured>> => IInv'
<1>1. ASSUME IInv, HistoryNext PROVE IInv'
  BY <1>1, WorldStep, SyncStep, PassStep, ComputeStep, StoreStep DEF HistoryNext, Next
<1>2. ASSUME IInv, UNCHANGED <<vars, measured>> PROVE IInv'
  <2> USE <1>2 DEF vars, IInv
  <2>1. TypeOK'
    BY DEF TypeOK
  <2>2. Measurements' = Measurements
    BY DEF Measurements, Measure, Speaks, Of, Named, Within
  <2>3. OwnersWereMeasured'
    BY DEF OwnersWereMeasured
  <2>4. \A w \in Workers : sessions'[w].at = "store" =>
          sessions'[w].found.owner \in Actors /\ Rounded(sessions'[w].found) \in measured'
    OBVIOUS
  <2>5. \A e \in escalations' : e[2] # Nobody => Known(e[2])'
    BY DEF Known
  <2> QED BY <2>1, <2>2, <2>3, <2>4, <2>5 DEF Rounded
<1> QED BY <1>1, <1>2

-----------------------------------------------------------------------------
(* The theorems.                                                           *)

\* Nobody is made responsible for a tool, on a detection or on an AI system, without
\* having had three fifths of its known sign-ins at some time, and the confidence is the
\* owner's unless two passes overlapped: whatever the syncs, the passes and their order.
THEOREM OwnersAreMeasured == HistorySpec => []OwnersWereMeasured
<1>1. IInv => OwnersWereMeasured
  BY DEF IInv
<1> QED BY <1>1, InitInv, StepInv, PTL DEF HistorySpec
=============================================================================
