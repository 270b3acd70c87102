---------------------- MODULE DetectionSessionsProofs -----------------------
(***************************************************************************)
(* The invariants of DetectionSessions, for any number of sessions and of  *)
(* detections, and that sessions which come one after another implement    *)
(* the register of findings.                                               *)
(*                                                                         *)
(* What a session holds must stay true while the others commit: the row    *)
(* that it loaded exists, the keys that it inserted but not committed are  *)
(* its own, and the suppression that it found is still in the table.       *)
(***************************************************************************)
EXTENDS DetectionSessions, TLAPS

LoadedSteps ==
  {"scan_update", "dismiss_flush", "dismiss_suppress", "dismiss_created", "dismiss_audit",
   "escalate_insert", "escalate_flush", "escalate_audit", "review_audit", "decay_loop"}

EscalatedSteps == {"escalate_flush", "escalate_audit"}

\* Session p may be in state s.
Holds(p, s) ==
  /\ s.at \in LoadedSteps => s.id \in DOMAIN rows
  /\ s.at = "scan_created" =>
       /\ Len(rows) < MaxRows
       /\ \A q \in Others(p) : session[q].at # "scan_created"
  /\ s.at \in EscalatedSteps =>
       /\ systems[s.id] = 0
       /\ \A q \in Others(p) : session[q].at \in EscalatedSteps => session[q].id # s.id
  /\ s.at = "dismiss_audit" /\ s.wrote => suppressions # {}

IInv ==
  /\ TypeOK
  /\ \A p \in Sessions : Holds(p, session[p])
  /\ OneSystemPerDetection /\ SystemIsLinked /\ DismissedIsSuppressed

-----------------------------------------------------------------------------
\* An idle or answering session holds nothing that others could invalidate.
LEMMA IdleHolds ==
  /\ Idle \in Session /\ NewRow \in Row
  /\ \A p \in Sessions : Holds(p, Idle)
  /\ \A p \in Sessions, done \in BOOLEAN :
       LET s == [Idle EXCEPT !.at = "answer", !.done = done]
       IN  s \in Session /\ Holds(p, s)
<1>1. NewRow \in Row
  BY DEF NewRow, Row, ActiveStatuses
<1>2. 1 \in Ids
  BY SessionBounds DEF Ids
<1>3. Idle \in Session /\ Idle.at = "idle"
  BY <1>1, <1>2 DEF Idle, Session, Steps
<1>4. ASSUME NEW p \in Sessions PROVE Holds(p, Idle)
  BY <1>3 DEF Holds, LoadedSteps, EscalatedSteps
<1>5. ASSUME NEW p \in Sessions, NEW done \in BOOLEAN
      PROVE  LET s == [Idle EXCEPT !.at = "answer", !.done = done]
             IN  s \in Session /\ Holds(p, s)
  <2> DEFINE s == [Idle EXCEPT !.at = "answer", !.done = done]
  <2>1. s \in Session /\ s.at = "answer"
    BY <1>3 DEF Session, Steps
  <2> HIDE DEF s
  <2>2. Holds(p, s)
    BY <2>1 DEF Holds, LoadedSteps, EscalatedSteps
  <2>. QED
    BY <2>1, <2>2 DEF s
<1>. QED
  BY <1>1, <1>3, <1>4, <1>5

\* The detections are numbered from one and bounded.
LEMMA RowFacts ==
  ASSUME TypeOK
  PROVE  /\ Len(rows) \in Nat /\ DOMAIN rows = 1 .. Len(rows) /\ DOMAIN rows \subseteq Ids
         /\ \A i \in DOMAIN rows : rows[i] \in Row
BY SessionBounds DEF TypeOK, Ids

\* Writing an active status over a row keeps its link and dismisses nothing.
LEMMA StatusFacts ==
  ASSUME NEW d \in Row, NEW seen \in Row, NEW status \in ActiveStatuses
  PROVE  /\ WithStatus(d, seen, status) \in Row
         /\ WithStatus(d, seen, status).system = d.system
         /\ WithStatus(d, seen, status).status = "dismissed" => d.status = "dismissed"
BY DEF WithStatus, Row, ActiveStatuses

\* A step of one session that adds no detection and no AI system.
LEMMA SessionStep ==
  ASSUME IInv, NEW p \in Sessions, NEW s \in Session, Holds(p, s),
         session' = [session EXCEPT ![p] = s],
         systems' = systems,
         rows' \in Seq(Row), Len(rows') = Len(rows),
         suppressions' \in SUBSET Suppression, suppressions # {} => suppressions' # {},
         \A i \in DOMAIN rows :
           /\ rows[i].system => rows'[i].system
           /\ rows'[i].status = "dismissed" =>
                rows[i].status = "dismissed" \/ suppressions' # {}
  PROVE  IInv'
<1>1. TypeOK /\ session \in [Sessions -> Session] /\ DOMAIN rows' = DOMAIN rows
  BY RowFacts DEF IInv, TypeOK
<1>2. TypeOK'
  BY <1>1 DEF TypeOK
<1>3. ASSUME NEW q \in Sessions PROVE Holds(q, session[q])'
  <2>1. CASE q = p
    <3>1. session'[q] = s
      BY <1>1, <2>1
    <3>2. \A r \in Others(q) : session'[r] = session[r]
      BY <1>1, <2>1 DEF Others
    <3>. QED
      BY <3>1, <3>2, <1>1, <2>1 DEF Holds, Others
  <2>2. CASE q # p
    <3>1. Holds(q, session[q])
      BY DEF IInv
    <3>2. session'[q] = session[q] /\ session'[p] = s
      BY <1>1, <2>2
    <3>3. p \in Others(q) /\ q \in Others(p)
      BY <2>2 DEF Others
    <3>4. \A r \in Others(q) : r = p \/ session'[r] = session[r]
      BY <1>1 DEF Others
    <3>. QED
      BY <3>1, <3>2, <3>3, <3>4, <1>1 DEF Holds, Others
  <2>. QED
    BY <2>1, <2>2
<1>4. (OneSystemPerDetection /\ SystemIsLinked /\ DismissedIsSuppressed)'
  BY <1>1 DEF IInv, OneSystemPerDetection, SystemIsLinked, DismissedIsSuppressed
<1>. QED
  BY <1>2, <1>3, <1>4 DEF IInv

\* A step of one session that commits nothing.
LEMMA QuietStep ==
  ASSUME IInv, NEW p \in Sessions, NEW s \in Session, Holds(p, s),
         session' = [session EXCEPT ![p] = s],
         UNCHANGED <<rows, suppressions, systems>>
  PROVE  IInv'
<1>1. rows' \in Seq(Row) /\ suppressions' \in SUBSET Suppression
  BY DEF IInv, TypeOK
<1>. QED
  BY <1>1, SessionStep

\* A step of one session that writes over one detection.
LEMMA CommitStep ==
  ASSUME IInv, NEW p \in Sessions, NEW s \in Session, Holds(p, s),
         session' = [session EXCEPT ![p] = s],
         systems' = systems,
         suppressions' \in SUBSET Suppression, suppressions # {} => suppressions' # {},
         NEW i \in DOMAIN rows, NEW new \in Row,
         rows' = [rows EXCEPT ![i] = new],
         rows[i].system => new.system,
         new.status = "dismissed" => rows[i].status = "dismissed" \/ suppressions' # {}
  PROVE  IInv'
<1>1. TypeOK /\ rows \in Seq(Row)
  BY DEF IInv, TypeOK
<1>2. rows' \in Seq(Row) /\ Len(rows') = Len(rows)
  BY <1>1, RowFacts
<1>3. \A j \in DOMAIN rows : rows'[j] = IF j = i THEN new ELSE rows[j]
  BY <1>1
<1>4. \A j \in DOMAIN rows :
        /\ rows[j].system => rows'[j].system
        /\ rows'[j].status = "dismissed" =>
             rows[j].status = "dismissed" \/ suppressions' # {}
  BY <1>3
<1>. QED
  BY <1>2, <1>4, SessionStep

\* A handler that ends without a write preserves the invariant.
LEMMA LeaveStep ==
  ASSUME IInv, NEW p \in Sessions, Leave(p), UNCHANGED <<rows, suppressions, systems>>
  PROVE  IInv'
BY IdleHolds, QuietStep DEF Leave

\* So does one that answers.
LEMMA AnswerStep ==
  ASSUME IInv, NEW p \in Sessions, NEW done \in BOOLEAN, Answer(p, done),
         UNCHANGED <<rows, suppressions, systems>>
  PROVE  IInv'
<1> DEFINE s == [Idle EXCEPT !.at = "answer", !.done = done]
<1>1. s \in Session /\ Holds(p, s) /\ session' = [session EXCEPT ![p] = s]
  BY IdleHolds DEF Answer
<1>. QED
  BY <1>1, QuietStep

\* A session that loads a row holds a row that exists.
LEMMA LoadStep ==
  ASSUME IInv, NEW p \in Sessions, NEW i \in DOMAIN rows,
         NEW step \in {"scan_update", "dismiss_flush", "escalate_insert", "review_audit",
                       "decay_loop"},
         Load(p, step, i), UNCHANGED <<rows, suppressions, systems>>
  PROVE  IInv'
<1> DEFINE s == [Idle EXCEPT !.at = step, !.id = i, !.seen = rows[i]]
<1>1. rows[i] \in Row /\ i \in Ids
  BY RowFacts DEF IInv
<1>2. s \in Session
  BY <1>1, IdleHolds DEF Session, Steps
<1>3. s.at = step /\ s.id = i
  BY IdleHolds DEF Session
<1>4. session' = [session EXCEPT ![p] = s]
  BY DEF Load
<1> HIDE DEF s
<1>5. Holds(p, s)
  BY <1>3 DEF Holds, EscalatedSteps
<1>. QED
  BY <1>2, <1>4, <1>5, QuietStep

\* A session may go to a step whose claim it already fulfils.
LEMMA GotoStep ==
  ASSUME IInv, NEW p \in Sessions, NEW step \in Steps, Goto(p, step),
         Holds(p, [session[p] EXCEPT !.at = step]),
         UNCHANGED <<rows, suppressions, systems>>
  PROVE  IInv'
<1> DEFINE s == [session[p] EXCEPT !.at = step]
<1>1. session \in [Sessions -> Session] /\ session[p] \in Session
  BY DEF IInv, TypeOK
<1>2. s \in Session
  BY <1>1 DEF Session
<1>3. session' = [session EXCEPT ![p] = s]
  BY <1>1 DEF Goto
<1>. QED
  BY <1>2, <1>3, QuietStep

\* The type of what a session holds.
LEMMA OwnFacts ==
  ASSUME IInv, NEW p \in Sessions
  PROVE  /\ session[p] \in Session /\ session[p].id \in Ids /\ session[p].seen \in Row
         /\ session[p].wrote \in BOOLEAN /\ session[p].done \in BOOLEAN
         /\ Holds(p, session[p])
         /\ \A step \in Steps : /\ [session[p] EXCEPT !.at = step].at = step
                                /\ [session[p] EXCEPT !.at = step].id = session[p].id
                                /\ [session[p] EXCEPT !.at = step].wrote = session[p].wrote
<1>1. session[p] \in Session
  BY DEF IInv, TypeOK
<1>. QED
  BY <1>1 DEF IInv, Session

-----------------------------------------------------------------------------
(* The actions.                                                            *)

LEMMA InitInv == Init => IInv
<1> SUFFICES ASSUME Init PROVE IInv
  OBVIOUS
<1>1. TypeOK
  <2>1. rows \in Seq(Row) /\ Len(rows) = 0 /\ MaxRows >= 0
    BY SessionBounds DEF Init
  <2>2. session \in [Sessions -> Session]
    BY IdleHolds DEF Init
  <2>. QED
    BY <2>1, <2>2 DEF Init, TypeOK
<1>2. \A p \in Sessions : Holds(p, session[p])
  BY IdleHolds DEF Init
<1>3. OneSystemPerDetection /\ SystemIsLinked /\ DismissedIsSuppressed
  BY DEF Init, OneSystemPerDetection, SystemIsLinked, DismissedIsSuppressed
<1>. QED
  BY <1>1, <1>2, <1>3 DEF IInv

\* The statements of a scan preserve the invariant.
LEMMA ScanInv == ASSUME IInv, NEW p \in Sessions, Scan(p) PROVE IInv'
<1>1. CASE ScanSelect(p)
  <2>1. CASE Goto(p, "scan_check")
    <3>1. Holds(p, [session[p] EXCEPT !.at = "scan_check"])
      BY OwnFacts DEF Holds, LoadedSteps, EscalatedSteps, Steps
    <3>. QED
      BY <1>1, <2>1, <3>1, GotoStep DEF ScanSelect, Steps
  <2>2. CASE \E i \in ActiveRows : rows[i].stale /\ Load(p, "scan_update", i)
    BY <1>1, <2>2, LoadStep DEF ScanSelect, ActiveRows
  <2>. QED
    BY <1>1, <2>1, <2>2 DEF ScanSelect
<1>2. CASE ScanCheckSuppression(p)
  <2>1. Holds(p, [session[p] EXCEPT !.at = "scan_insert"])
    BY OwnFacts DEF Holds, LoadedSteps, EscalatedSteps, Steps
  <2>2. CASE Leave(p)
    BY <1>2, <2>2, LeaveStep DEF ScanCheckSuppression
  <2>3. CASE Goto(p, "scan_insert")
    BY <1>2, <2>1, <2>3, GotoStep DEF ScanCheckSuppression, Steps
  <2>. QED
    BY <1>2, <2>2, <2>3 DEF ScanCheckSuppression
<1>3. CASE ScanInsert(p)
  <2>1. CASE Leave(p)
    BY <1>3, <2>1, LeaveStep DEF ScanInsert
  <2>2. CASE Goto(p, "scan_created")
    <3>1. Len(rows) < MaxRows /\ \A q \in Others(p) : session[q].at # "scan_created"
      BY <1>3 DEF ScanInsert, ActiveKeyBusy, At
    <3>2. Holds(p, [session[p] EXCEPT !.at = "scan_created"])
      BY <3>1, OwnFacts DEF Holds, LoadedSteps, EscalatedSteps, Steps
    <3>. QED
      BY <1>3, <2>2, <3>2, GotoStep DEF ScanInsert, Steps
  <2>. QED
    BY <1>3, <2>1, <2>2 DEF ScanInsert
<1>4. CASE ScanAudit(p)
  <2>1. CASE rows' = rows
    BY <1>4, <2>1, LeaveStep DEF ScanAudit
  <2>2. CASE rows' = Append(rows, NewRow)
    <3>1. /\ Len(rows) < MaxRows
          /\ \A q \in Others(p) : session[q].at # "scan_created"
      BY <1>4, OwnFacts DEF ScanAudit, At, Holds
    <3>2. /\ rows \in Seq(Row) /\ NewRow \in Row /\ session \in [Sessions -> Session]
      BY IdleHolds DEF IInv, TypeOK
    <3>3. /\ rows' \in Seq(Row) /\ Len(rows') = Len(rows) + 1
          /\ DOMAIN rows' = DOMAIN rows \cup {Len(rows) + 1}
          /\ \A i \in DOMAIN rows : rows'[i] = rows[i]
          /\ rows'[Len(rows) + 1] = NewRow
      BY <2>2, <3>2
    <3>4. session' = [session EXCEPT ![p] = Idle] /\ UNCHANGED <<suppressions, systems>>
      BY <1>4 DEF ScanAudit, Leave
    <3>5. TypeOK'
      <4>1. Len(rows') <= MaxRows
        BY <3>1, <3>2, <3>3, SessionBounds
      <4>2. session' \in [Sessions -> Session]
        BY <3>2, <3>4, IdleHolds
      <4>. QED
        BY <4>1, <4>2, <3>3, <3>4 DEF IInv, TypeOK
    <3>6. ASSUME NEW q \in Sessions PROVE Holds(q, session[q])'
      <4>1. CASE q = p
        <5>1. session'[q] = Idle
          BY <3>2, <3>4, <4>1
        <5>. QED
          BY <5>1 DEF Holds, Idle, LoadedSteps, EscalatedSteps
      <4>2. CASE q # p
        <5>1. session'[q] = session[q] /\ session[q].at # "scan_created"
          BY <3>1, <3>2, <3>4, <4>2 DEF Others
        <5>2. \A r \in Others(q) : session'[r] = session[r] \/ session'[r].at = "idle"
          BY <3>2, <3>4 DEF Others, Idle
        <5>3. Holds(q, session[q])
          BY DEF IInv
        <5>. QED
          BY <5>1, <5>2, <5>3, <3>3, <3>4 DEF Holds, EscalatedSteps
      <4>. QED
        BY <4>1, <4>2
    <3>7. OneSystemPerDetection' /\ SystemIsLinked'
      BY <3>3, <3>4 DEF IInv, OneSystemPerDetection, SystemIsLinked
    <3>8. DismissedIsSuppressed'
      BY <3>3, <3>4 DEF IInv, DismissedIsSuppressed, NewRow
    <3>. QED
      BY <3>5, <3>6, <3>7, <3>8 DEF IInv
  <2>. QED
    BY <1>4, <2>1, <2>2 DEF ScanAudit
<1>5. CASE ScanReactivate(p)
  <2> DEFINE i == session[p].id
             w == WithStatus(rows[i], session[p].seen, "new")
             revived == [w EXCEPT !.stale = FALSE]
  <2>1. CASE rows' = rows
    BY <1>5, <2>1, LeaveStep DEF ScanReactivate
  <2>2. CASE CommitRow(p, i, revived)
    <3>1. i \in DOMAIN rows
      BY <1>5, OwnFacts DEF ScanReactivate, At, Holds, LoadedSteps
    <3>2. rows[i] \in Row /\ session[p].seen \in Row /\ "new" \in ActiveStatuses
      BY <3>1, RowFacts, OwnFacts DEF IInv, ActiveStatuses
    <3>3. w \in Row /\ w.system = rows[i].system
          /\ (w.status = "dismissed" => rows[i].status = "dismissed")
      BY <3>2, StatusFacts
    <3> HIDE DEF w
    <3>4. revived \in Row /\ revived.system = w.system /\ revived.status = w.status
      BY <3>3 DEF Row
    <3>5. rows' = [rows EXCEPT ![i] = revived]
      BY <2>2 DEF CommitRow
    <3>6. session' = [session EXCEPT ![p] = Idle] /\ UNCHANGED <<suppressions, systems>>
      BY <1>5 DEF ScanReactivate, Leave
    <3> HIDE DEF i, revived
    <3>. QED
      BY <3>1, <3>3, <3>4, <3>5, <3>6, IdleHolds, CommitStep DEF IInv, TypeOK
  <2>. QED
    BY <1>5, <2>1, <2>2 DEF ScanReactivate
<1>. QED
  BY <1>1, <1>2, <1>3, <1>4, <1>5 DEF Scan

\* A session that commits the dismissal of its detection, and goes on as s.
LEMMA DismissedRow ==
  ASSUME IInv, NEW p \in Sessions, NEW s \in Session, Holds(p, s),
         session' = [session EXCEPT ![p] = s],
         systems' = systems,
         suppressions' \in SUBSET Suppression, suppressions' # {},
         NEW i \in DOMAIN rows,
         rows' = [rows EXCEPT ![i].status = "dismissed"]
  PROVE  IInv'
<1> DEFINE new == [rows[i] EXCEPT !.status = "dismissed"]
<1>1. rows[i] \in Row
  BY RowFacts DEF IInv
<1>2. new \in Row /\ new.system = rows[i].system
  BY <1>1 DEF Row, TerminalStatuses
<1>3. rows' = [rows EXCEPT ![i] = new]
  BY DEF IInv, TypeOK
<1> HIDE DEF new
<1>. QED
  BY <1>2, <1>3, CommitStep

LEMMA DismissInv == ASSUME IInv, NEW p \in Sessions, Dismiss(p) PROVE IInv'
<1> DEFINE i == session[p].id
<1>0. /\ session \in [Sessions -> Session] /\ session[p] \in Session
      /\ suppressions \in SUBSET Suppression
  BY DEF IInv, TypeOK
<1>1. CASE \E j \in DOMAIN rows : DismissLoad(p, j)
  BY <1>1, LoadStep DEF DismissLoad
<1>2. CASE DismissFlush(p)
  <2> DEFINE s == [session[p] EXCEPT !.at = "dismiss_suppress", !.wrote = TRUE]
  <2>1. s \in Session /\ s.at = "dismiss_suppress" /\ s.id = i
    BY <1>0 DEF Session, Steps
  <2>2. i \in DOMAIN rows
    BY <1>2, OwnFacts DEF DismissFlush, At, Holds, LoadedSteps
  <2>3. session' = [session EXCEPT ![p] = s] /\ UNCHANGED <<rows, suppressions, systems>>
    BY <1>0, <1>2 DEF DismissFlush
  <2> HIDE DEF s
  <2>4. Holds(p, s)
    BY <2>1, <2>2 DEF Holds, EscalatedSteps
  <2>. QED
    BY <2>1, <2>3, <2>4, QuietStep
<1>3. CASE DismissSuppress(p)
  <2>1. i \in DOMAIN rows
    BY <1>3, OwnFacts DEF DismissSuppress, At, Holds, LoadedSteps
  <2>2. CASE Standing # {} /\ Goto(p, "dismiss_audit")
    <3>1. suppressions # {}
      BY <2>2 DEF Standing
    <3>2. Holds(p, [session[p] EXCEPT !.at = "dismiss_audit"])
      BY <2>1, <3>1, OwnFacts DEF Holds, EscalatedSteps, Steps
    <3>. QED
      BY <1>3, <2>2, <3>2, GotoStep DEF DismissSuppress, Steps
  <2>3. CASE Goto(p, "dismiss_created")
    <3>1. Holds(p, [session[p] EXCEPT !.at = "dismiss_created"])
      BY <2>1, OwnFacts DEF Holds, EscalatedSteps, Steps
    <3>. QED
      BY <1>3, <2>3, <3>1, GotoStep DEF DismissSuppress, Steps
  <2>. QED
    BY <1>3, <2>2, <2>3 DEF DismissSuppress
<1>4. CASE DismissCreated(p)
  <2>1. i \in DOMAIN rows /\ i \in Ids
    BY <1>4, OwnFacts DEF DismissCreated, At, Holds, LoadedSteps
  <2>2. CASE /\ rows' = [rows EXCEPT ![i].status = "dismissed"]
             /\ suppressions' = suppressions \cup {[source |-> i, lifted |-> FALSE]}
             /\ session' = [session EXCEPT ![p].at = "dismiss_audit", ![p].wrote = FALSE,
                                           ![p].done = TRUE]
    <3> DEFINE s == [session[p] EXCEPT !.at = "dismiss_audit", !.wrote = FALSE, !.done = TRUE]
    <3>1. s \in Session /\ s.at = "dismiss_audit" /\ s.id = i /\ s.wrote = FALSE
      BY <1>0 DEF Session, Steps
    <3>2. session' = [session EXCEPT ![p] = s]
      BY <1>0, <2>2
    <3>3. [source |-> i, lifted |-> FALSE] \in Suppression
      BY <2>1 DEF Suppression
    <3>4. systems' = systems
      BY <1>4 DEF DismissCreated
    <3> HIDE DEF s
    <3>5. Holds(p, s)
      BY <2>1, <3>1 DEF Holds, EscalatedSteps
    <3>6. suppressions' \in SUBSET Suppression /\ suppressions' # {}
      BY <1>0, <2>2, <3>3
    <3> HIDE DEF i
    <3>. QED
      BY <2>1, <2>2, <3>1, <3>2, <3>4, <3>5, <3>6, DismissedRow
  <2>3. CASE /\ session' = [session EXCEPT ![p].at = "dismiss_audit", ![p].wrote = FALSE]
             /\ UNCHANGED <<rows, suppressions>>
    <3> DEFINE s == [session[p] EXCEPT !.at = "dismiss_audit", !.wrote = FALSE]
    <3>1. s \in Session /\ s.at = "dismiss_audit" /\ s.id = i /\ s.wrote = FALSE
      BY <1>0 DEF Session, Steps
    <3>2. session' = [session EXCEPT ![p] = s] /\ UNCHANGED <<rows, suppressions, systems>>
      BY <1>0, <1>4, <2>3 DEF DismissCreated
    <3> HIDE DEF s
    <3>3. Holds(p, s)
      BY <2>1, <3>1 DEF Holds, EscalatedSteps
    <3>. QED
      BY <3>1, <3>2, <3>3, QuietStep
  <2>. QED
    BY <1>4, <2>2, <2>3 DEF DismissCreated
<1>5. CASE DismissAudit(p)
  <2>1. i \in DOMAIN rows /\ (session[p].wrote => suppressions # {})
    BY <1>5, OwnFacts DEF DismissAudit, At, Holds, LoadedSteps
  <2>2. CASE session[p].wrote /\ rows' = [rows EXCEPT ![i].status = "dismissed"]
             /\ Answer(p, TRUE)
    <3> DEFINE s == [Idle EXCEPT !.at = "answer", !.done = TRUE]
    <3>1. s \in Session /\ Holds(p, s)
      BY IdleHolds
    <3>2. session' = [session EXCEPT ![p] = s]
      BY <2>2 DEF Answer
    <3>3. UNCHANGED <<suppressions, systems>>
      BY <1>5 DEF DismissAudit
    <3> HIDE DEF s, i
    <3>. QED
      BY <1>0, <2>1, <2>2, <3>1, <3>2, <3>3, DismissedRow
  <2>3. CASE rows' = rows /\ Answer(p, session[p].done)
    BY <1>5, <2>3, OwnFacts, AnswerStep DEF DismissAudit
  <2>. QED
    BY <1>5, <2>2, <2>3 DEF DismissAudit
<1>. QED
  BY <1>1, <1>2, <1>3, <1>4, <1>5 DEF Dismiss

LEMMA EscalateInv == ASSUME IInv, NEW p \in Sessions, Escalate(p) PROVE IInv'
<1> DEFINE i == session[p].id
<1>0. /\ TypeOK /\ session \in [Sessions -> Session] /\ session[p] \in Session
      /\ systems \in [Ids -> Nat] /\ i \in Ids
  BY OwnFacts DEF IInv, TypeOK
<1>1. CASE \E j \in DOMAIN rows : EscalateLoad(p, j)
  BY <1>1, LoadStep DEF EscalateLoad
<1>2. CASE EscalateInsert(p)
  <2>1. i \in DOMAIN rows
    BY <1>2, OwnFacts DEF EscalateInsert, At, Holds, LoadedSteps
  <2>2. CASE Leave(p)
    BY <1>2, <2>2, LeaveStep DEF EscalateInsert
  <2>3. CASE ~(systems[i] > 0) /\ Goto(p, "escalate_flush")
    <3>1. /\ systems[i] = 0
          /\ \A q \in Others(p) : session[q].at \in EscalatedSteps => session[q].id # i
      BY <1>0, <1>2, <2>3 DEF EscalateInsert, SystemKeyBusy, At, EscalatedSteps
    <3>2. Holds(p, [session[p] EXCEPT !.at = "escalate_flush"])
      BY <2>1, <3>1, OwnFacts DEF Holds, Steps
    <3>. QED
      BY <1>2, <2>3, <3>2, GotoStep DEF EscalateInsert, Steps
  <2>. QED
    BY <1>2, <2>2, <2>3 DEF EscalateInsert
<1>3. CASE EscalateFlush(p)
  <2> DEFINE s == [session[p] EXCEPT !.at = "escalate_audit", !.wrote = TRUE]
  <2>1. s \in Session /\ s.at = "escalate_audit" /\ s.id = i
    BY <1>0 DEF Session, Steps
  <2>2. /\ i \in DOMAIN rows /\ systems[i] = 0
        /\ \A q \in Others(p) : session[q].at \in EscalatedSteps => session[q].id # i
    BY <1>3, OwnFacts DEF EscalateFlush, At, Holds, LoadedSteps, EscalatedSteps
  <2>3. session' = [session EXCEPT ![p] = s] /\ UNCHANGED <<rows, suppressions, systems>>
    BY <1>0, <1>3 DEF EscalateFlush
  <2> HIDE DEF s
  <2>4. Holds(p, s)
    BY <2>1, <2>2 DEF Holds
  <2>. QED
    BY <2>1, <2>3, <2>4, QuietStep
<1>4. CASE EscalateAudit(p)
  <2>1. CASE Answer(p, FALSE) /\ UNCHANGED <<rows, systems>>
    BY <1>4, <2>1, AnswerStep DEF EscalateAudit
  <2>2. CASE /\ rows' = [rows EXCEPT ![i].status = "registered", ![i].system = TRUE]
             /\ systems' = [systems EXCEPT ![i] = @ + 1]
             /\ Answer(p, TRUE)
    <3> DEFINE new == [rows[i] EXCEPT !.status = "registered", !.system = TRUE]
               s == [Idle EXCEPT !.at = "answer", !.done = TRUE]
    <3>1. /\ i \in DOMAIN rows /\ systems[i] = 0
          /\ \A q \in Others(p) : session[q].at \in EscalatedSteps => session[q].id # i
      BY <1>4, OwnFacts DEF EscalateAudit, At, Holds, LoadedSteps, EscalatedSteps
    <3>2. rows \in Seq(Row) /\ rows[i] \in Row
      BY <1>0, <3>1, RowFacts DEF TypeOK
    <3>3. new \in Row /\ new.system = TRUE /\ new.status = "registered"
      BY <3>2 DEF Row, TerminalStatuses
    <3>4. rows' = [rows EXCEPT ![i] = new]
      BY <2>2, <3>2
    <3>5. s \in Session /\ s.at = "answer"
      BY IdleHolds DEF Session, Steps
    <3>6. session' = [session EXCEPT ![p] = s] /\ suppressions' = suppressions
      BY <1>4, <2>2 DEF Answer, EscalateAudit
    <3> HIDE DEF new, s, i
    <3>7. /\ rows' \in Seq(Row) /\ Len(rows') = Len(rows) /\ DOMAIN rows' = DOMAIN rows
          /\ \A j \in DOMAIN rows : rows'[j] = IF j = i THEN new ELSE rows[j]
      BY <3>1, <3>2, <3>3, <3>4
    <3>8. systems' \in [Ids -> Nat] /\ \A j \in Ids : systems'[j] = IF j = i THEN 1 ELSE systems[j]
      BY <1>0, <2>2, <3>1
    <3>9. TypeOK'
      BY <1>0, <3>5, <3>6, <3>7, <3>8 DEF TypeOK
    <3>10. ASSUME NEW q \in Sessions PROVE Holds(q, session[q])'
      <4>1. CASE q = p
        <5>1. session'[q] = s
          BY <1>0, <3>6, <4>1
        <5>. QED
          BY <5>1, <3>5 DEF Holds, LoadedSteps, EscalatedSteps
      <4>2. CASE q # p
        <5>1. session'[q] = session[q] /\ q \in Others(p)
          BY <1>0, <3>6, <4>2 DEF Others
        <5>2. session[q].at \in EscalatedSteps => systems'[session[q].id] = systems[session[q].id]
          BY <3>1, <3>8, <5>1, OwnFacts
        <5>3. \A r \in Others(q) : session'[r] = session[r] \/ session'[r].at = "answer"
          BY <1>0, <3>5, <3>6 DEF Others
        <5>4. Holds(q, session[q])
          BY DEF IInv
        <5>. QED
          BY <5>1, <5>2, <5>3, <5>4, <3>6, <3>7 DEF Holds, EscalatedSteps
      <4>. QED
        BY <4>1, <4>2
    <3>11. OneSystemPerDetection' /\ SystemIsLinked'
      BY <3>1, <3>3, <3>7, <3>8 DEF IInv, OneSystemPerDetection, SystemIsLinked
    <3>12. DismissedIsSuppressed'
      BY <3>3, <3>6, <3>7 DEF IInv, DismissedIsSuppressed
    <3>. QED
      BY <3>9, <3>10, <3>11, <3>12 DEF IInv
  <2>. QED
    BY <1>4, <2>1, <2>2 DEF EscalateAudit
<1>. QED
  BY <1>1, <1>2, <1>3, <1>4 DEF Escalate

LEMMA ReviewInv == ASSUME IInv, NEW p \in Sessions, Review(p) PROVE IInv'
<1> DEFINE i == session[p].id
           new == WithStatus(rows[i], session[p].seen, "reviewed")
           s == [Idle EXCEPT !.at = "answer", !.done = TRUE]
<1>1. CASE \E j \in DOMAIN rows : ReviewLoad(p, j)
  BY <1>1, LoadStep DEF ReviewLoad
<1>2. CASE ReviewAudit(p) /\ rows' = rows /\ Answer(p, FALSE)
  BY <1>2, AnswerStep DEF ReviewAudit
<1>3. CASE ReviewAudit(p) /\ CommitRow(p, i, new) /\ Answer(p, TRUE)
  <2>1. i \in DOMAIN rows
    BY <1>3, OwnFacts DEF ReviewAudit, At, Holds, LoadedSteps
  <2>2. rows[i] \in Row /\ session[p].seen \in Row /\ "reviewed" \in ActiveStatuses
    BY <2>1, RowFacts, OwnFacts DEF IInv, ActiveStatuses
  <2>3. /\ new \in Row /\ new.system = rows[i].system
        /\ new.status = "dismissed" => rows[i].status = "dismissed"
    BY <2>2, StatusFacts
  <2>4. s \in Session /\ Holds(p, s)
    BY IdleHolds
  <2>5. /\ rows' = [rows EXCEPT ![i] = new] /\ session' = [session EXCEPT ![p] = s]
        /\ UNCHANGED <<suppressions, systems>>
    BY <1>3 DEF ReviewAudit, CommitRow, Answer
  <2> HIDE DEF i, new, s
  <2>. QED
    BY <2>1, <2>3, <2>4, <2>5, CommitStep DEF IInv, TypeOK
<1>. QED
  BY <1>1, <1>2, <1>3 DEF Review, ReviewAudit

LEMMA LiftInv == ASSUME IInv, NEW p \in Sessions, Lift(p) PROVE IInv'
<1>1. CASE LiftLoad(p)
  <2>1. PICK x \in Standing :
          session' = [session EXCEPT ![p] = [Idle EXCEPT !.at = "lift_audit", !.id = x.source]]
    BY <1>1 DEF LiftLoad
  <2> DEFINE s == [Idle EXCEPT !.at = "lift_audit", !.id = x.source]
  <2>2. x.source \in Ids
    BY DEF Standing, IInv, TypeOK, Suppression
  <2>3. s \in Session /\ s.at = "lift_audit"
    BY <2>2, IdleHolds DEF Session, Steps
  <2>4. session' = [session EXCEPT ![p] = s] /\ UNCHANGED <<rows, suppressions, systems>>
    BY <1>1, <2>1 DEF LiftLoad
  <2> HIDE DEF s
  <2>5. Holds(p, s)
    BY <2>3 DEF Holds, LoadedSteps, EscalatedSteps
  <2>. QED
    BY <2>3, <2>4, <2>5, QuietStep
<1>2. CASE LiftAudit(p)
  <2> DEFINE x == [source |-> session[p].id, lifted |-> FALSE]
             lifted == [x EXCEPT !.lifted = TRUE]
             s == [Idle EXCEPT !.at = "answer", !.done = TRUE]
  <2>1. CASE suppressions' = suppressions /\ Answer(p, FALSE)
    BY <1>2, <2>1, AnswerStep DEF LiftAudit
  <2>2. CASE suppressions' = (suppressions \ {x}) \cup {lifted} /\ Answer(p, TRUE)
    <3>1. lifted \in Suppression
      BY OwnFacts DEF Suppression
    <3>2. s \in Session /\ Holds(p, s)
      BY IdleHolds
    <3>3. session' = [session EXCEPT ![p] = s] /\ UNCHANGED <<rows, systems>>
      BY <1>2, <2>2 DEF LiftAudit, Answer
    <3>4. suppressions \in SUBSET Suppression /\ rows \in Seq(Row)
      BY DEF IInv, TypeOK
    <3> HIDE DEF s, x, lifted
    <3>5. suppressions' \in SUBSET Suppression /\ suppressions' # {}
      BY <2>2, <3>1, <3>4
    <3>. QED
      BY <3>2, <3>3, <3>4, <3>5, SessionStep
  <2>. QED
    BY <1>2, <2>1, <2>2 DEF LiftAudit
<1>. QED
  BY <1>1, <1>2 DEF Lift

LEMMA DecayInv == ASSUME IInv, NEW p \in Sessions, DecayPass(p) PROVE IInv'
<1> DEFINE i == session[p].id
           w == WithStatus(rows[i], session[p].seen, "needs_review")
           stale == [w EXCEPT !.stale = TRUE]
<1>1. CASE DecaySelect(p)
  BY <1>1, LoadStep DEF DecaySelect, ActiveRows
<1>2. CASE DecayReload(p)
  <2>1. i \in DOMAIN rows
    BY <1>2, OwnFacts DEF DecayReload, At, Holds, LoadedSteps
  <2>. QED
    BY <1>2, <2>1, LoadStep DEF DecayReload
<1>3. CASE DecayAudit(p) /\ rows' = rows
  BY <1>3, LeaveStep DEF DecayAudit
<1>4. CASE DecayAudit(p) /\ CommitRow(p, i, stale)
  <2>1. i \in DOMAIN rows
    BY <1>4, OwnFacts DEF DecayAudit, At, Holds, LoadedSteps
  <2>2. rows[i] \in Row /\ session[p].seen \in Row /\ "needs_review" \in ActiveStatuses
    BY <2>1, RowFacts, OwnFacts DEF IInv, ActiveStatuses
  <2>3. /\ w \in Row /\ w.system = rows[i].system
        /\ w.status = "dismissed" => rows[i].status = "dismissed"
    BY <2>2, StatusFacts
  <2> HIDE DEF w
  <2>4. stale \in Row /\ stale.system = w.system /\ stale.status = w.status
    BY <2>3 DEF Row
  <2>5. /\ rows' = [rows EXCEPT ![i] = stale] /\ session' = [session EXCEPT ![p] = Idle]
        /\ UNCHANGED <<suppressions, systems>>
    BY <1>4 DEF DecayAudit, CommitRow, Leave
  <2> HIDE DEF i, stale
  <2>. QED
    BY <2>1, <2>3, <2>4, <2>5, IdleHolds, CommitStep DEF IInv, TypeOK
<1>. QED
  BY <1>1, <1>2, <1>3, <1>4 DEF DecayPass, DecayAudit

LEMMA CrashInv == IInv /\ Crash => IInv'
<1> SUFFICES ASSUME IInv, Crash PROVE IInv'
  OBVIOUS
<1>1. session' = [p \in Sessions |-> Idle] /\ UNCHANGED <<rows, suppressions, systems>>
  BY DEF Crash
<1>2. TypeOK'
  BY <1>1, IdleHolds DEF IInv, TypeOK
<1>3. \A p \in Sessions : Holds(p, session[p])'
  BY <1>1 DEF Holds, Idle, LoadedSteps, EscalatedSteps
<1>. QED
  BY <1>1, <1>2, <1>3
  DEF IInv, OneSystemPerDetection, SystemIsLinked, DismissedIsSuppressed

\* Every step preserves the invariant.
LEMMA StepInv == IInv /\ [Next]_vars => IInv'
<1> SUFFICES ASSUME IInv, [Next]_vars PROVE IInv'
  OBVIOUS
<1>1. CASE UNCHANGED vars
  <2>1. \A p \in Sessions : Holds(p, session[p])'
    BY <1>1 DEF vars, IInv, Holds
  <2>. QED
    BY <1>1, <2>1
    DEF vars, IInv, TypeOK, OneSystemPerDetection, SystemIsLinked, DismissedIsSuppressed
<1>2. CASE \E p \in Sessions : Request(p)
  BY <1>2, LeaveStep DEF Request
<1>3. CASE \E p \in Sessions : \/ Scan(p) \/ Dismiss(p) \/ Escalate(p) \/ Review(p)
                               \/ Lift(p) \/ DecayPass(p)
  BY <1>3, ScanInv, DismissInv, EscalateInv, ReviewInv, LiftInv, DecayInv
<1>. QED
  BY <1>1, <1>2, <1>3, CrashInv DEF Next

\* The invariant holds in every reachable state.
LEMMA Invariance == Spec => []IInv
BY InitInv, StepInv, PTL DEF Spec

\* What the sessions hold and the tables contain keep their types; at most
\* MaxRows detections are made.
THEOREM TypeCorrect == Spec => []TypeOK
<1>1. IInv => TypeOK
  BY DEF IInv
<1>. QED
  BY <1>1, Invariance, PTL

\* However many people escalate a detection at the same time, it becomes at
\* most one AI system.
THEOREM EscalatedOnce == Spec => []OneSystemPerDetection
<1>1. IInv => OneSystemPerDetection
  BY DEF IInv
<1>. QED
  BY <1>1, Invariance, PTL

\* The link of a detection to its AI system is there once the system is, and
\* no later write over the detection takes it away.
THEOREM LinksStay == Spec => []SystemIsLinked
<1>1. IInv => SystemIsLinked
  BY DEF IInv
<1>. QED
  BY <1>1, Invariance, PTL

\* No interleaving, failed audit entry or crash leaves a dismissal without a
\* suppression ever made.
THEOREM DismissalIsWhole == Spec => []DismissedIsSuppressed
<1>1. IInv => DismissedIsSuppressed
  BY DEF IInv
<1>. QED
  BY <1>1, Invariance, PTL

-----------------------------------------------------------------------------
(* The refinement of the register of findings, while the sessions come one *)
(* after another.                                                          *)

\* One session at a time is between its statements, whichever it is.
Serial == \A p, q \in Sessions : ~At(p, "idle") /\ ~At(q, "idle") => p = q

\* The steps of a scan that has found no active detection.
CreatingSteps == {"scan_check", "scan_insert", "scan_created"}

\* Session state s, with detections tab and suppressions sup, when no other session is
\* between its statements: what a handler has read is still so when it writes.
Alone(s, tab, sup) ==
  /\ s.at \in CreatingSteps => \A i \in DOMAIN tab : ~Active(tab[i])
  /\ s.at \in {"scan_insert", "scan_created", "dismiss_created"} => \A x \in sup : x.lifted
  /\ s.at \in LoadedSteps \ {"dismiss_audit"} => Active(tab[s.id])
  /\ s.at = "dismiss_audit" /\ s.wrote => Active(tab[s.id]) /\ \E x \in sup : ~x.lifted
  /\ s.at = "lift_audit" => [source |-> s.id, lifted |-> FALSE] \in sup

\* The tool has one suppression that stands at most.
OneStands == \A x, y \in Standing : x = y

SInv ==
  /\ IInv
  /\ OneStands
  /\ \A p \in Sessions : Alone(session[p], rows, suppressions)

\* The step keeps the invariant and is one of the register, or none.
Refines == SInv' /\ [Register!Next]_(Register!vars)

\* The finding of a detection.
LEMMA FindingFacts ==
  \A d \in Row : /\ Finding(d) = (IF Active(d) THEN "active" ELSE d.status)
                 /\ Finding(d) \in {"active", "hidden"} <=> Active(d)
BY DEF Finding, Active, Row, ActiveStatuses, TerminalStatuses

\* The active findings of the register are the active detections.
LEMMA RegisterFacts ==
  ASSUME TypeOK
  PROVE  /\ Register!Tools = {Tool}
         /\ DOMAIN RegisterStatus[Tool] = DOMAIN rows
         /\ Register!ActiveIn(Tool) = ActiveRows
<1>1. \A i \in DOMAIN rows :
        RegisterStatus[Tool][i] \in {"active", "hidden"} <=> Active(rows[i])
  BY FindingFacts, RowFacts DEF RegisterStatus
<1>2. DOMAIN RegisterStatus[Tool] = DOMAIN rows
  BY DEF RegisterStatus
<1>. QED
  BY <1>1, <1>2 DEF Register!Tools, Register!ActiveIn, ActiveRows

\* Tables that show the register the same.
LEMMA SameRegister ==
  ASSUME DOMAIN rows' = DOMAIN rows,
         \A i \in DOMAIN rows : Finding(rows'[i]) = Finding(rows[i]),
         UNCHANGED <<suppressions, systems>>
  PROVE  UNCHANGED Register!vars
<1>1. RegisterStatus' = RegisterStatus
  BY DEF RegisterStatus
<1>2. RegisterSuppressed' = RegisterSuppressed /\ RegisterInventory' = RegisterInventory
  BY DEF RegisterSuppressed, RegisterInventory, Standing
<1>. QED
  BY <1>1, <1>2 DEF Register!vars

\* A detection that is closed is closed in the register, and no other.
LEMMA RegisterCloses ==
  ASSUME TypeOK, NEW i \in DOMAIN rows, Active(rows[i]), NEW new \in Row,
         new.status \in TerminalStatuses, rows' = [rows EXCEPT ![i] = new]
  PROVE  /\ i \in Register!ActiveIn(Tool) /\ i \in DOMAIN RegisterStatus[Tool]
         /\ RegisterStatus' = [RegisterStatus EXCEPT ![Tool][i] = new.status]
<1> DEFINE f == [j \in DOMAIN rows |-> Finding(rows[j])]
           g == [j \in DOMAIN rows |-> Finding(rows'[j])]
<1>1. rows \in Seq(Row) /\ DOMAIN rows' = DOMAIN rows
      /\ \A j \in DOMAIN rows : rows'[j] = IF j = i THEN new ELSE rows[j]
  BY DEF TypeOK
<1>2. Finding(new) = new.status
  BY DEF Finding, Active, ActiveStatuses, TerminalStatuses
<1>3. g = [f EXCEPT ![i] = new.status]
  BY <1>1, <1>2
<1>4. RegisterStatus = [t \in {Tool} |-> f] /\ RegisterStatus' = [t \in {Tool} |-> g]
  BY <1>1 DEF RegisterStatus
<1> HIDE DEF f, g
<1>5. RegisterStatus' = [RegisterStatus EXCEPT ![Tool][i] = new.status]
  BY <1>3, <1>4
<1>6. i \in ActiveRows
  BY DEF ActiveRows
<1>. QED
  BY <1>5, <1>6, RegisterFacts

\* A detection that is created is an active finding of the register.
LEMMA RegisterAdds ==
  ASSUME TypeOK, rows' = Append(rows, NewRow)
  PROVE  RegisterStatus' = [t \in {Tool} |-> RegisterStatus[t] \o <<"active">>]
<1> DEFINE n == Len(rows)
           f == [j \in 1 .. n |-> Finding(rows[j])]
           g == [j \in 1 .. n + 1 |-> Finding(rows'[j])]
           h == f \o <<"active">>
<1>0. NewRow \in Row
  BY DEF NewRow, Row, ActiveStatuses
<1>1. rows \in Seq(Row) /\ n \in Nat /\ DOMAIN rows = 1 .. n /\ NewRow \in Row
  BY <1>0 DEF TypeOK
<1>2. /\ DOMAIN rows' = 1 .. n + 1 /\ rows'[n + 1] = NewRow
      /\ \A j \in 1 .. n : rows'[j] = rows[j]
  BY <1>1
<1>3. Finding(NewRow) = "active"
  BY DEF Finding, NewRow, Active, ActiveStatuses
<1>4. \A j \in 1 .. n : Finding(rows[j]) \in ActiveStatuses \cup TerminalStatuses \cup {"active"}
  <2>1. \A j \in 1 .. n : rows[j] \in Row
    BY <1>1
  <2>2. \A d \in Row : Finding(d) \in ActiveStatuses \cup TerminalStatuses \cup {"active"}
    BY DEF Finding, Row
  <2>. QED
    BY <2>1, <2>2
<1>5. f \in Seq(ActiveStatuses \cup TerminalStatuses \cup {"active"}) /\ Len(f) = n
  BY <1>1, <1>4
<1>6. /\ h \in Seq(ActiveStatuses \cup TerminalStatuses \cup {"active"}) /\ Len(h) = n + 1
      /\ h[n + 1] = "active" /\ \A j \in 1 .. n : h[j] = f[j]
  <2> HIDE DEF f, n
  <2>. QED
    BY <1>1, <1>5
<1>7. \A j \in 1 .. n + 1 : g[j] = h[j]
  <2>1. \A j \in 1 .. n : g[j] = f[j]
    BY <1>1, <1>2
  <2>2. g[n + 1] = "active"
    BY <1>1, <1>2, <1>3
  <2> HIDE DEF f, g, h, n
  <2>. QED
    BY <1>1, <1>6, <2>1, <2>2
<1>8. DOMAIN g = 1 .. n + 1 /\ g = [j \in 1 .. n + 1 |-> g[j]]
  OBVIOUS
<1>9. g = h
  <2> HIDE DEF f, g, h, n
  <2>. QED
    BY <1>1, <1>6, <1>7, <1>8
<1>10. RegisterStatus = [t \in {Tool} |-> f] /\ RegisterStatus' = [t \in {Tool} |-> g]
  BY <1>1, <1>2 DEF RegisterStatus
<1> HIDE DEF f, g
<1>. QED
  BY <1>9, <1>10

\* A session at rest is alone.
LEMMA RestIsAlone ==
  ASSUME NEW s \in Session, s.at \in {"idle", "answer"}, NEW tab, NEW sup
  PROVE  Alone(s, tab, sup)
BY DEF Alone, CreatingSteps, LoadedSteps

\* A step of a session that no other one is between statements with.
LEMMA SerialStep ==
  ASSUME SInv, Serial, IInv', NEW p \in Sessions, NEW s \in Session,
         session' = [session EXCEPT ![p] = s],
         ~At(p, "idle") \/ UNCHANGED <<rows, suppressions>>,
         OneStands', Alone(s, rows', suppressions')
  PROVE  SInv'
<1>1. session \in [Sessions -> Session]
  BY DEF SInv, IInv, TypeOK
<1>2. ASSUME NEW q \in Sessions PROVE Alone(session'[q], rows', suppressions')
  <2>1. CASE q = p
    BY <1>1, <2>1
  <2>2. CASE q # p
    <3>1. session'[q] = session[q] /\ session[q] \in Session
      BY <1>1, <2>2
    <3>2. CASE At(q, "idle")
      BY <3>1, <3>2, RestIsAlone DEF At
    <3>3. CASE ~At(q, "idle")
      <4>1. UNCHANGED <<rows, suppressions>>
        BY <2>2, <3>3 DEF Serial
      <4>. QED
        BY <3>1, <4>1 DEF SInv
    <3>. QED
      BY <3>2, <3>3
  <2>. QED
    BY <2>1, <2>2
<1>. QED
  BY <1>2 DEF SInv

\* A step that commits nothing stutters.
LEMMA QuietRefines ==
  ASSUME SInv, Serial, IInv', NEW p \in Sessions, NEW s \in Session,
         session' = [session EXCEPT ![p] = s],
         UNCHANGED <<rows, suppressions, systems>>,
         Alone(s, rows, suppressions)
  PROVE  Refines
<1>1. SInv'
  BY SerialStep DEF SInv, OneStands, Standing
<1>2. UNCHANGED Register!vars
  BY SameRegister
<1>. QED
  BY <1>1, <1>2 DEF Refines

\* So does a handler that ends without a commit.
LEMMA RestRefines ==
  ASSUME SInv, Serial, IInv', NEW p \in Sessions,
         UNCHANGED <<rows, suppressions, systems>>,
         Leave(p) \/ \E done \in BOOLEAN : Answer(p, done)
  PROVE  Refines
<1>1. CASE Leave(p)
  <2>1. Idle \in Session /\ Idle.at = "idle"
    BY IdleHolds DEF Idle
  <2>. QED
    BY <1>1, <2>1, RestIsAlone, QuietRefines DEF Leave
<1>2. ASSUME NEW done \in BOOLEAN, Answer(p, done) PROVE Refines
  <2> DEFINE s == [Idle EXCEPT !.at = "answer", !.done = done]
  <2>1. s \in Session /\ s.at = "answer" /\ session' = [session EXCEPT ![p] = s]
    BY <1>2, IdleHolds DEF Answer, Idle
  <2> HIDE DEF s
  <2>. QED
    BY <2>1, RestIsAlone, QuietRefines
<1>. QED
  BY <1>1, <1>2

\* So does a handler that loads an active detection.
LEMMA LoadRefines ==
  ASSUME SInv, Serial, IInv', NEW p \in Sessions, NEW i \in DOMAIN rows, Active(rows[i]),
         NEW step \in {"scan_update", "dismiss_flush", "escalate_insert", "review_audit",
                       "decay_loop"},
         Load(p, step, i), UNCHANGED <<rows, suppressions, systems>>
  PROVE  Refines
<1> DEFINE s == [Idle EXCEPT !.at = step, !.id = i, !.seen = rows[i]]
<1>1. rows[i] \in Row /\ i \in Ids
  BY RowFacts DEF SInv, IInv
<1>2. s \in Session
  BY <1>1, IdleHolds DEF Session, Steps
<1>3. s.at = step /\ s.id = i /\ session' = [session EXCEPT ![p] = s]
  BY IdleHolds DEF Session, Load
<1> HIDE DEF s
<1>4. Alone(s, rows, suppressions)
  BY <1>3 DEF Alone, CreatingSteps
<1>. QED
  BY <1>2, <1>3, <1>4, QuietRefines

\* So does one that goes to a step that it is ready for.
LEMMA ReadyRefines ==
  ASSUME SInv, Serial, IInv', NEW p \in Sessions, NEW s \in Session, s.id = session[p].id,
         session' = [session EXCEPT ![p] = s],
         UNCHANGED <<rows, suppressions, systems>>,
         s.at \in CreatingSteps => ActiveRows = {},
         s.at \in {"scan_insert", "scan_created", "dismiss_created"} => Standing = {},
         s.at \in LoadedSteps \ {"dismiss_audit"} => Active(rows[session[p].id]),
         s.at = "dismiss_audit" /\ s.wrote => Active(rows[session[p].id]) /\ Standing # {},
         s.at # "lift_audit"
  PROVE  Refines
<1>1. Alone(s, rows, suppressions)
  BY DEF Alone, ActiveRows, Standing
<1>. QED
  BY <1>1, QuietRefines

\* The same of a step that changes nothing else of the session.
LEMMA GotoRefines ==
  ASSUME SInv, Serial, IInv', NEW p \in Sessions, NEW step \in Steps, Goto(p, step),
         UNCHANGED <<rows, suppressions, systems>>,
         step \in CreatingSteps => ActiveRows = {},
         step \in {"scan_insert", "scan_created", "dismiss_created"} => Standing = {},
         step \in LoadedSteps => Active(rows[session[p].id]),
         step = "dismiss_audit" => Standing # {},
         step # "lift_audit"
  PROVE  Refines
<1> DEFINE s == [session[p] EXCEPT !.at = step]
<1>1. session \in [Sessions -> Session] /\ session[p] \in Session
  BY DEF SInv, IInv, TypeOK
<1>2. s \in Session /\ s.at = step /\ s.id = session[p].id
  BY <1>1 DEF Session
<1>3. session' = [session EXCEPT ![p] = s]
  BY <1>1 DEF Goto
<1> HIDE DEF s
<1>. QED
  BY <1>2, <1>3, ReadyRefines DEF LoadedSteps

\* A commit over an active detection that leaves it active stutters.
LEMMA RewriteRefines ==
  ASSUME SInv, Serial, IInv', NEW p \in Sessions, ~At(p, "idle"),
         NEW s \in Session, s.at \in {"idle", "answer"}, session' = [session EXCEPT ![p] = s],
         NEW i \in DOMAIN rows, Active(rows[i]), NEW new \in Row, Active(new),
         rows' = [rows EXCEPT ![i] = new], UNCHANGED <<suppressions, systems>>
  PROVE  Refines
<1>1. SInv'
  BY RestIsAlone, SerialStep DEF SInv, OneStands, Standing
<1>2. rows \in Seq(Row)
  BY DEF SInv, IInv, TypeOK
<1>3. /\ DOMAIN rows' = DOMAIN rows
      /\ \A j \in DOMAIN rows : rows'[j] = IF j = i THEN new ELSE rows[j]
  BY <1>2
<1>4. \A j \in DOMAIN rows : Finding(rows'[j]) = Finding(rows[j])
  BY <1>3 DEF Finding
<1>5. UNCHANGED Register!vars
  BY <1>3, <1>4, SameRegister
<1>. QED
  BY <1>1, <1>5 DEF Refines

\* Writing an active status over an active detection leaves it active.
LEMMA StaysActive ==
  ASSUME NEW d \in Row, Active(d), NEW seen \in Row, NEW status \in ActiveStatuses
  PROVE  Active(WithStatus(d, seen, status))
BY DEF WithStatus, Row, Active

\* What a session relies on, of the detection that it has loaded.
LEMMA LoadedFacts ==
  ASSUME SInv, NEW p \in Sessions, session[p].at \in LoadedSteps
  PROVE  /\ session[p].id \in DOMAIN rows /\ session[p].id \in Ids
         /\ rows[session[p].id] \in Row /\ session[p].seen \in Row
         /\ session[p].at # "dismiss_audit" \/ session[p].wrote => Active(rows[session[p].id])
<1>1. IInv /\ Alone(session[p], rows, suppressions)
  BY DEF SInv
<1>2. session[p].id \in DOMAIN rows
  BY <1>1, OwnFacts DEF Holds
<1>. QED
  BY <1>1, <1>2, OwnFacts, RowFacts DEF IInv, Alone

-----------------------------------------------------------------------------
(* The handlers refine the register.                                       *)

\* A scan stutters until its audit entry commits a detection.
LEMMA ScanRefines ==
  ASSUME SInv, Serial, IInv', NEW p \in Sessions, Scan(p)
  PROVE  Refines
<1>0. Alone(session[p], rows, suppressions)
  BY DEF SInv
<1>1. CASE ScanSelect(p)
  <2>1. CASE ActiveRows = {} /\ Goto(p, "scan_check")
    BY <1>1, <2>1, GotoRefines DEF ScanSelect, Steps, LoadedSteps
  <2>2. CASE \E i \in ActiveRows : rows[i].stale /\ Load(p, "scan_update", i)
    BY <1>1, <2>2, LoadRefines DEF ScanSelect, ActiveRows
  <2>. QED
    BY <1>1, <2>1, <2>2 DEF ScanSelect
<1>2. CASE ScanCheckSuppression(p)
  <2>1. CASE Leave(p)
    BY <1>2, <2>1, RestRefines DEF ScanCheckSuppression
  <2>2. CASE Standing = {} /\ Goto(p, "scan_insert")
    <3>1. ActiveRows = {}
      BY <1>0, <1>2 DEF ScanCheckSuppression, At, Alone, CreatingSteps, ActiveRows
    <3>. QED
      BY <1>2, <2>2, <3>1, GotoRefines DEF ScanCheckSuppression, Steps, LoadedSteps
  <2>. QED
    BY <1>2, <2>1, <2>2 DEF ScanCheckSuppression
<1>3. CASE ScanInsert(p)
  <2>1. CASE Leave(p)
    BY <1>3, <2>1, RestRefines DEF ScanInsert
  <2>2. CASE Goto(p, "scan_created")
    <3>1. ActiveRows = {} /\ Standing = {}
      BY <1>0, <1>3 DEF ScanInsert, At, Alone, CreatingSteps, ActiveRows, Standing
    <3>. QED
      BY <1>3, <2>2, <3>1, GotoRefines DEF ScanInsert, Steps, LoadedSteps
  <2>. QED
    BY <1>3, <2>1, <2>2 DEF ScanInsert
<1>4. CASE ScanAudit(p)
  <2>1. CASE rows' = rows
    BY <1>4, <2>1, RestRefines DEF ScanAudit
  <2>2. CASE rows' = Append(rows, NewRow)
    <3>1. ActiveRows = {} /\ Standing = {} /\ ~At(p, "idle")
      BY <1>0, <1>4 DEF ScanAudit, At, Alone, CreatingSteps, ActiveRows, Standing
    <3>2. session' = [session EXCEPT ![p] = Idle] /\ UNCHANGED <<suppressions, systems>>
      BY <1>4 DEF ScanAudit, Leave
    <3>3. SInv'
      <4>1. Idle \in Session /\ Idle.at = "idle"
        BY IdleHolds DEF Idle
      <4>2. OneStands'
        BY <3>2 DEF SInv, OneStands, Standing
      <4>. QED
        BY <3>1, <3>2, <4>1, <4>2, RestIsAlone, SerialStep
    <3>4. TypeOK
      BY DEF SInv, IInv
    <3>5. Register!Detect({Tool}, {})
      <4>1. RegisterStatus' =
              [t \in {Tool} |-> RegisterStatus[t] \o Register!Added(t, {Tool}, {})]
        BY <2>2, <3>4, RegisterAdds DEF Register!Added
      <4>2. UNCHANGED <<RegisterSuppressed, RegisterInventory>>
        BY <3>2 DEF RegisterSuppressed, RegisterInventory, Standing
      <4>3. RegisterSuppressed = {}
        BY <3>1 DEF RegisterSuppressed
      <4>. QED
        BY <3>1, <3>4, <4>1, <4>2, <4>3, RegisterFacts DEF Register!Detect
    <3>. QED
      BY <3>3, <3>4, <3>5, RegisterFacts DEF Refines, Register!Next
  <2>. QED
    BY <1>4, <2>1, <2>2 DEF ScanAudit
<1>5. CASE ScanReactivate(p)
  <2> DEFINE i == session[p].id
             w == WithStatus(rows[i], session[p].seen, "new")
             revived == [w EXCEPT !.stale = FALSE]
  <2>1. CASE rows' = rows
    BY <1>5, <2>1, RestRefines DEF ScanReactivate
  <2>2. CASE CommitRow(p, i, revived)
    <3>1. /\ i \in DOMAIN rows /\ rows[i] \in Row /\ session[p].seen \in Row /\ Active(rows[i])
          /\ ~At(p, "idle")
      BY <1>5, LoadedFacts DEF ScanReactivate, At, LoadedSteps
    <3>2. w \in Row /\ Active(w)
      BY <3>1, StatusFacts, StaysActive DEF ActiveStatuses
    <3> HIDE DEF w
    <3>3. revived \in Row /\ Active(revived)
      BY <3>2 DEF Row, Active
    <3>4. rows' = [rows EXCEPT ![i] = revived]
      BY <2>2 DEF CommitRow
    <3>5. session' = [session EXCEPT ![p] = Idle] /\ UNCHANGED <<suppressions, systems>>
      BY <1>5 DEF ScanReactivate, Leave
    <3>6. Idle \in Session /\ Idle.at = "idle"
      BY IdleHolds DEF Idle
    <3> HIDE DEF i, revived
    <3>. QED
      BY <3>1, <3>3, <3>4, <3>5, <3>6, RewriteRefines
  <2>. QED
    BY <1>5, <2>1, <2>2 DEF ScanReactivate
<1>. QED
  BY <1>1, <1>2, <1>3, <1>4, <1>5 DEF Scan

\* The commit of a dismissal is the register's, with the suppression that it makes or found.
LEMMA DismissedRefines ==
  ASSUME SInv, Serial, IInv', NEW p \in Sessions, NEW s \in Session,
         session' = [session EXCEPT ![p] = s], ~At(p, "idle"),
         s.at = "answer" \/ (s.at = "dismiss_audit" /\ ~s.wrote),
         NEW i \in DOMAIN rows, Active(rows[i]),
         rows' = [rows EXCEPT ![i].status = "dismissed"], systems' = systems,
         Standing' # {}, OneStands'
  PROVE  Refines
<1> DEFINE new == [rows[i] EXCEPT !.status = "dismissed"]
<1>1. TypeOK /\ rows \in Seq(Row) /\ rows[i] \in Row
  BY RowFacts DEF SInv, IInv, TypeOK
<1>2. new \in Row /\ new.status = "dismissed" /\ "dismissed" \in TerminalStatuses
  BY <1>1 DEF Row, TerminalStatuses
<1>3. rows' = [rows EXCEPT ![i] = new]
  BY <1>1
<1> HIDE DEF new
<1>4. SInv'
  <2>1. Alone(s, rows', suppressions')
    BY RestIsAlone DEF Alone, CreatingSteps, LoadedSteps
  <2>. QED
    BY <2>1, SerialStep
<1>5. /\ i \in Register!ActiveIn(Tool) /\ i \in DOMAIN RegisterStatus[Tool]
      /\ RegisterStatus' = [RegisterStatus EXCEPT ![Tool][i] = "dismissed"]
  <2>1. TypeOK /\ i \in DOMAIN rows /\ Active(rows[i])
    BY <1>1
  <2>2. new \in Row /\ new.status \in TerminalStatuses
    BY <1>2
  <2>3. /\ i \in Register!ActiveIn(Tool) /\ i \in DOMAIN RegisterStatus[Tool]
        /\ RegisterStatus' = [RegisterStatus EXCEPT ![Tool][i] = new.status]
    BY ONLY <2>1, <2>2, <1>3, RegisterCloses
  <2>. QED
    BY <1>2, <2>3
<1>6. RegisterSuppressed' = RegisterSuppressed \cup {Tool}
  BY DEF RegisterSuppressed
<1>7. RegisterInventory' = RegisterInventory
  BY DEF RegisterInventory
<1>8. Register!Dismiss(Tool, i)
  BY <1>5, <1>6, <1>7 DEF Register!Dismiss
<1>. QED
  BY <1>1, <1>4, <1>5, <1>8, RegisterFacts DEF Refines, Register!Next

\* A dismissal stutters until an audit entry commits it.
LEMMA DismissRefines ==
  ASSUME SInv, Serial, IInv', NEW p \in Sessions, Dismiss(p)
  PROVE  Refines
<1> DEFINE i == session[p].id
<1>0. /\ Alone(session[p], rows, suppressions)
      /\ session \in [Sessions -> Session] /\ session[p] \in Session
      /\ suppressions \in SUBSET Suppression
  BY DEF SInv, IInv, TypeOK
<1>1. CASE \E j \in DOMAIN rows : DismissLoad(p, j)
  BY <1>1, LoadRefines DEF DismissLoad, ActiveRows
<1>2. CASE DismissFlush(p)
  <2> DEFINE s == [session[p] EXCEPT !.at = "dismiss_suppress", !.wrote = TRUE]
  <2>1. s \in Session /\ s.at = "dismiss_suppress" /\ s.id = i
    BY <1>0 DEF Session, Steps
  <2>2. Active(rows[i])
    BY <1>2, LoadedFacts DEF DismissFlush, At, LoadedSteps
  <2>3. session' = [session EXCEPT ![p] = s] /\ UNCHANGED <<rows, suppressions, systems>>
    BY <1>0, <1>2 DEF DismissFlush
  <2> HIDE DEF s
  <2>. QED
    BY <2>1, <2>2, <2>3, ReadyRefines DEF CreatingSteps
<1>3. CASE DismissSuppress(p)
  <2>1. Active(rows[i]) /\ UNCHANGED <<rows, suppressions, systems>>
    BY <1>3, LoadedFacts DEF DismissSuppress, At, LoadedSteps
  <2>2. CASE Standing # {} /\ Goto(p, "dismiss_audit")
    BY <2>1, <2>2, GotoRefines DEF Steps, CreatingSteps
  <2>3. CASE Standing = {} /\ Goto(p, "dismiss_created")
    BY <2>1, <2>3, GotoRefines DEF Steps, CreatingSteps
  <2>. QED
    BY <1>3, <2>2, <2>3 DEF DismissSuppress
<1>4. CASE DismissCreated(p)
  <2>1. /\ i \in DOMAIN rows /\ Active(rows[i]) /\ ~At(p, "idle") /\ i \in Ids
        /\ Standing = {} /\ systems' = systems
    BY <1>0, <1>4, LoadedFacts DEF DismissCreated, At, LoadedSteps, Alone, Standing
  <2>2. CASE /\ rows' = [rows EXCEPT ![i].status = "dismissed"]
             /\ suppressions' = suppressions \cup {[source |-> i, lifted |-> FALSE]}
             /\ session' = [session EXCEPT ![p].at = "dismiss_audit", ![p].wrote = FALSE,
                                           ![p].done = TRUE]
    <3> DEFINE s == [session[p] EXCEPT !.at = "dismiss_audit", !.wrote = FALSE, !.done = TRUE]
    <3>1. s \in Session /\ s.at = "dismiss_audit" /\ ~s.wrote
      BY <1>0 DEF Session, Steps
    <3>2. session' = [session EXCEPT ![p] = s]
      BY <1>0, <2>2
    <3>3. Standing' = {[source |-> i, lifted |-> FALSE]}
      BY <2>1, <2>2 DEF Standing
    <3> HIDE DEF s, i
    <3>4. OneStands'
      BY <3>3 DEF OneStands
    <3>. QED
      BY <2>1, <2>2, <3>1, <3>2, <3>3, <3>4, DismissedRefines
  <2>3. CASE /\ session' = [session EXCEPT ![p].at = "dismiss_audit", ![p].wrote = FALSE]
             /\ UNCHANGED <<rows, suppressions>>
    <3> DEFINE s == [session[p] EXCEPT !.at = "dismiss_audit", !.wrote = FALSE]
    <3>1. s \in Session /\ s.at = "dismiss_audit" /\ s.id = i /\ ~s.wrote
      BY <1>0 DEF Session, Steps
    <3>2. session' = [session EXCEPT ![p] = s]
      BY <1>0, <2>3
    <3> HIDE DEF s
    <3>. QED
      BY <2>1, <2>3, <3>1, <3>2, ReadyRefines DEF CreatingSteps
  <2>. QED
    BY <1>4, <2>2, <2>3 DEF DismissCreated
<1>5. CASE DismissAudit(p)
  <2>1. i \in DOMAIN rows /\ ~At(p, "idle") /\ UNCHANGED <<suppressions, systems>>
    BY <1>5, LoadedFacts DEF DismissAudit, At, LoadedSteps
  <2>2. CASE session[p].wrote /\ rows' = [rows EXCEPT ![i].status = "dismissed"]
             /\ Answer(p, TRUE)
    <3> DEFINE s == [Idle EXCEPT !.at = "answer", !.done = TRUE]
    <3>1. s \in Session /\ s.at = "answer" /\ session' = [session EXCEPT ![p] = s]
      BY <2>2, IdleHolds DEF Answer, Idle
    <3>2. Active(rows[i]) /\ Standing # {}
      BY <1>0, <1>5, <2>2 DEF DismissAudit, At, Alone, Standing
    <3>3. Standing' = Standing /\ OneStands'
      BY <2>1 DEF SInv, OneStands, Standing
    <3> HIDE DEF s, i
    <3>. QED
      BY <2>1, <2>2, <3>1, <3>2, <3>3, DismissedRefines
  <2>3. CASE rows' = rows /\ Answer(p, session[p].done)
    <3>1. session[p].done \in BOOLEAN
      BY <1>0 DEF Session
    <3>. QED
      BY <2>1, <2>3, <3>1, RestRefines
  <2>. QED
    BY <1>5, <2>2, <2>3 DEF DismissAudit
<1>. QED
  BY <1>1, <1>2, <1>3, <1>4, <1>5 DEF Dismiss

\* An escalation stutters until its audit entry commits detection and AI system.
LEMMA EscalateRefines ==
  ASSUME SInv, Serial, IInv', NEW p \in Sessions, Escalate(p)
  PROVE  Refines
<1> DEFINE i == session[p].id
<1>0. /\ session \in [Sessions -> Session] /\ session[p] \in Session
      /\ systems \in [Ids -> Nat]
  BY DEF SInv, IInv, TypeOK
<1>1. CASE \E j \in DOMAIN rows : EscalateLoad(p, j)
  BY <1>1, LoadRefines DEF EscalateLoad, ActiveRows
<1>2. CASE EscalateInsert(p)
  <2>1. Active(rows[i]) /\ UNCHANGED <<rows, suppressions, systems>>
    BY <1>2, LoadedFacts DEF EscalateInsert, At, LoadedSteps
  <2>2. CASE Leave(p)
    BY <2>1, <2>2, RestRefines
  <2>3. CASE Goto(p, "escalate_flush")
    BY <2>1, <2>3, GotoRefines DEF Steps, CreatingSteps
  <2>. QED
    BY <1>2, <2>2, <2>3 DEF EscalateInsert
<1>3. CASE EscalateFlush(p)
  <2> DEFINE s == [session[p] EXCEPT !.at = "escalate_audit", !.wrote = TRUE]
  <2>1. s \in Session /\ s.at = "escalate_audit" /\ s.id = i
    BY <1>0 DEF Session, Steps
  <2>2. Active(rows[i])
    BY <1>3, LoadedFacts DEF EscalateFlush, At, LoadedSteps
  <2>3. session' = [session EXCEPT ![p] = s] /\ UNCHANGED <<rows, suppressions, systems>>
    BY <1>0, <1>3 DEF EscalateFlush
  <2> HIDE DEF s
  <2>. QED
    BY <2>1, <2>2, <2>3, ReadyRefines DEF CreatingSteps
<1>4. CASE EscalateAudit(p)
  <2>1. CASE Answer(p, FALSE) /\ UNCHANGED <<rows, systems>>
    BY <1>4, <2>1, RestRefines DEF EscalateAudit
  <2>2. CASE /\ rows' = [rows EXCEPT ![i].status = "registered", ![i].system = TRUE]
             /\ systems' = [systems EXCEPT ![i] = @ + 1]
             /\ Answer(p, TRUE)
    <3> DEFINE new == [rows[i] EXCEPT !.status = "registered", !.system = TRUE]
               s == [Idle EXCEPT !.at = "answer", !.done = TRUE]
    <3>1. /\ i \in DOMAIN rows /\ i \in Ids /\ rows[i] \in Row /\ Active(rows[i])
          /\ ~At(p, "idle") /\ suppressions' = suppressions
      BY <1>4, LoadedFacts DEF EscalateAudit, At, LoadedSteps
    <3>2. new \in Row /\ new.status = "registered" /\ "registered" \in TerminalStatuses
      BY <3>1 DEF Row, TerminalStatuses
    <3>3. TypeOK /\ rows \in Seq(Row)
      BY DEF SInv, IInv, TypeOK
    <3>4. rows' = [rows EXCEPT ![i] = new]
      BY <2>2, <3>3
    <3>5. s \in Session /\ s.at = "answer" /\ session' = [session EXCEPT ![p] = s]
      BY <2>2, IdleHolds DEF Answer, Idle
    <3>6. \A j \in Ids : systems'[j] > 0 <=> j = i \/ systems[j] > 0
      BY <1>0, <2>2, <3>1
    <3> HIDE DEF new, s, i
    <3>7. SInv'
      <4>1. OneStands'
        BY <3>1 DEF SInv, OneStands, Standing
      <4>. QED
        BY <3>1, <3>5, <4>1, RestIsAlone, SerialStep
    <3>8. /\ i \in Register!ActiveIn(Tool) /\ i \in DOMAIN RegisterStatus[Tool]
          /\ RegisterStatus' = [RegisterStatus EXCEPT ![Tool][i] = "registered"]
      BY <3>1, <3>2, <3>3, <3>4, RegisterCloses
    <3>9. RegisterSuppressed' = RegisterSuppressed
      BY <3>1 DEF RegisterSuppressed, Standing
    <3>10. RegisterInventory' = RegisterInventory \cup {<<Tool, i>>}
      BY <3>1, <3>6 DEF RegisterInventory
    <3>11. Register!Escalate(Tool, i)
      BY <3>8, <3>9, <3>10 DEF Register!Escalate
    <3>. QED
      BY <3>3, <3>7, <3>8, <3>11, RegisterFacts DEF Refines, Register!Next
  <2>. QED
    BY <1>4, <2>1, <2>2 DEF EscalateAudit
<1>. QED
  BY <1>1, <1>2, <1>3, <1>4 DEF Escalate

\* A review leaves the detection active.
LEMMA ReviewRefines ==
  ASSUME SInv, Serial, IInv', NEW p \in Sessions, Review(p)
  PROVE  Refines
<1> DEFINE i == session[p].id
           new == WithStatus(rows[i], session[p].seen, "reviewed")
           s == [Idle EXCEPT !.at = "answer", !.done = TRUE]
<1>1. CASE \E j \in DOMAIN rows : ReviewLoad(p, j)
  BY <1>1, LoadRefines DEF ReviewLoad, ActiveRows
<1>2. CASE ReviewAudit(p) /\ rows' = rows /\ Answer(p, FALSE)
  BY <1>2, RestRefines DEF ReviewAudit
<1>3. CASE ReviewAudit(p) /\ CommitRow(p, i, new) /\ Answer(p, TRUE)
  <2>1. /\ i \in DOMAIN rows /\ rows[i] \in Row /\ session[p].seen \in Row /\ Active(rows[i])
        /\ ~At(p, "idle")
    BY <1>3, LoadedFacts DEF ReviewAudit, At, LoadedSteps
  <2>2. new \in Row /\ Active(new)
    BY <2>1, StatusFacts, StaysActive DEF ActiveStatuses
  <2>3. s \in Session /\ s.at = "answer"
    BY IdleHolds DEF Idle
  <2>4. /\ rows' = [rows EXCEPT ![i] = new] /\ session' = [session EXCEPT ![p] = s]
        /\ UNCHANGED <<suppressions, systems>>
    BY <1>3 DEF ReviewAudit, CommitRow, Answer
  <2> HIDE DEF i, new, s
  <2>. QED
    BY <2>1, <2>2, <2>3, <2>4, RewriteRefines
<1>. QED
  BY <1>1, <1>2, <1>3 DEF Review, ReviewAudit

\* A lifting is the register's when its audit entry commits it: no other suppression stands.
LEMMA LiftRefines ==
  ASSUME SInv, Serial, IInv', NEW p \in Sessions, Lift(p)
  PROVE  Refines
<1>0. TypeOK /\ suppressions \in SUBSET Suppression
  BY DEF SInv, IInv, TypeOK
<1>1. CASE LiftLoad(p)
  <2>1. PICK x \in Standing :
          session' = [session EXCEPT ![p] = [Idle EXCEPT !.at = "lift_audit", !.id = x.source]]
    BY <1>1 DEF LiftLoad
  <2> DEFINE s == [Idle EXCEPT !.at = "lift_audit", !.id = x.source]
  <2>2. x \in Suppression /\ ~x.lifted
    BY <1>0 DEF Standing
  <2>3. x.source \in Ids /\ x = [source |-> x.source, lifted |-> FALSE]
    BY <2>2 DEF Suppression
  <2>4. s \in Session /\ s.at = "lift_audit" /\ s.id = x.source
    BY <2>3, IdleHolds DEF Session, Steps
  <2>5. session' = [session EXCEPT ![p] = s] /\ UNCHANGED <<rows, suppressions, systems>>
    BY <1>1, <2>1 DEF LiftLoad
  <2> HIDE DEF s
  <2>6. Alone(s, rows, suppressions)
    BY <2>3, <2>4 DEF Alone, CreatingSteps, LoadedSteps, Standing
  <2>. QED
    BY <2>4, <2>5, <2>6, QuietRefines
<1>2. CASE LiftAudit(p)
  <2> DEFINE x == [source |-> session[p].id, lifted |-> FALSE]
             lifted == [x EXCEPT !.lifted = TRUE]
             s == [Idle EXCEPT !.at = "answer", !.done = TRUE]
  <2>0. UNCHANGED <<rows, systems>> /\ ~At(p, "idle")
    BY <1>2 DEF LiftAudit, At
  <2>1. CASE suppressions' = suppressions /\ Answer(p, FALSE)
    BY <2>0, <2>1, RestRefines
  <2>2. CASE suppressions' = (suppressions \ {x}) \cup {lifted} /\ Answer(p, TRUE)
    <3>1. x \in suppressions /\ ~x.lifted /\ lifted.lifted
      BY <1>2 DEF LiftAudit, At, SInv, Alone
    <3>2. s \in Session /\ s.at = "answer" /\ session' = [session EXCEPT ![p] = s]
      BY <2>2, IdleHolds DEF Answer, Idle
    <3> HIDE DEF s, x, lifted
    <3>3. x \in Standing /\ Standing = {x}
      BY <3>1 DEF SInv, OneStands, Standing
    <3>4. Standing' = {}
      BY <2>2, <3>1, <3>3 DEF Standing
    <3>5. SInv'
      <4>1. OneStands'
        BY <3>4 DEF OneStands
      <4>. QED
        BY <2>0, <3>2, <4>1, RestIsAlone, SerialStep
    <3>6. RegisterStatus' = RegisterStatus /\ RegisterInventory' = RegisterInventory
      BY <2>0 DEF RegisterStatus, RegisterInventory
    <3>7. RegisterSuppressed = {Tool} /\ RegisterSuppressed' = {}
      BY <3>3, <3>4 DEF RegisterSuppressed
    <3>8. Register!Lift(Tool)
      BY <3>6, <3>7 DEF Register!Lift
    <3>. QED
      BY <1>0, <3>5, <3>8, RegisterFacts DEF Refines, Register!Next
  <2>. QED
    BY <1>2, <2>1, <2>2 DEF LiftAudit
<1>. QED
  BY <1>1, <1>2 DEF Lift

\* A decay pass leaves the detection active.
LEMMA DecayRefines ==
  ASSUME SInv, Serial, IInv', NEW p \in Sessions, DecayPass(p)
  PROVE  Refines
<1> DEFINE i == session[p].id
           w == WithStatus(rows[i], session[p].seen, "needs_review")
           stale == [w EXCEPT !.stale = TRUE]
<1>1. CASE DecaySelect(p)
  BY <1>1, LoadRefines DEF DecaySelect, ActiveRows
<1>2. CASE DecayReload(p)
  <2>1. i \in DOMAIN rows /\ Active(rows[i])
    BY <1>2, LoadedFacts DEF DecayReload, At, LoadedSteps
  <2>. QED
    BY <1>2, <2>1, LoadRefines DEF DecayReload
<1>3. CASE DecayAudit(p) /\ rows' = rows
  BY <1>3, RestRefines DEF DecayAudit
<1>4. CASE DecayAudit(p) /\ CommitRow(p, i, stale)
  <2>1. /\ i \in DOMAIN rows /\ rows[i] \in Row /\ session[p].seen \in Row /\ Active(rows[i])
        /\ ~At(p, "idle")
    BY <1>4, LoadedFacts DEF DecayAudit, At, LoadedSteps
  <2>2. w \in Row /\ Active(w)
    BY <2>1, StatusFacts, StaysActive DEF ActiveStatuses
  <2> HIDE DEF w
  <2>3. stale \in Row /\ Active(stale)
    BY <2>2 DEF Row, Active
  <2>4. /\ rows' = [rows EXCEPT ![i] = stale] /\ session' = [session EXCEPT ![p] = Idle]
        /\ UNCHANGED <<suppressions, systems>>
    BY <1>4 DEF DecayAudit, CommitRow, Leave
  <2>5. Idle \in Session /\ Idle.at = "idle"
    BY IdleHolds DEF Idle
  <2> HIDE DEF i, stale
  <2>. QED
    BY <2>1, <2>3, <2>4, <2>5, RewriteRefines
<1>. QED
  BY <1>1, <1>2, <1>3, <1>4 DEF DecayPass, DecayAudit

\* A crash stutters, since what it rolls back was not committed.
LEMMA CrashRefines == ASSUME SInv, IInv', Crash PROVE Refines
<1>1. session' = [p \in Sessions |-> Idle] /\ UNCHANGED <<rows, suppressions, systems>>
  BY DEF Crash
<1>2. \A p \in Sessions : Alone(session'[p], rows', suppressions')
  BY <1>1, IdleHolds, RestIsAlone DEF Idle
<1>3. SInv'
  BY <1>1, <1>2 DEF SInv, OneStands, Standing
<1>4. UNCHANGED Register!vars
  BY <1>1, SameRegister
<1>. QED
  BY <1>3, <1>4 DEF Refines

\* Every step of serial sessions is one of the register or a stutter.
LEMMA SerialRefines ==
  SInv /\ Serial /\ [Next]_vars => SInv' /\ [Register!Next]_(Register!vars)
<1> SUFFICES ASSUME SInv, Serial, [Next]_vars PROVE Refines
  BY DEF Refines
<1>1. IInv'
  BY StepInv DEF SInv
<1>2. CASE UNCHANGED vars
  <2>1. SInv'
    BY <1>1, <1>2 DEF vars, SInv, OneStands, Standing
  <2>2. UNCHANGED Register!vars
    BY <1>2, SameRegister DEF vars
  <2>. QED
    BY <2>1, <2>2 DEF Refines
<1>3. CASE \E p \in Sessions : Request(p)
  BY <1>1, <1>3, RestRefines DEF Request
<1>4. CASE \E p \in Sessions : \/ Scan(p) \/ Dismiss(p) \/ Escalate(p) \/ Review(p)
                               \/ Lift(p) \/ DecayPass(p)
  BY <1>1, <1>4, ScanRefines, DismissRefines, EscalateRefines, ReviewRefines, LiftRefines,
     DecayRefines
<1>5. CASE Crash
  BY <1>1, <1>5, CrashRefines
<1>. QED
  BY <1>2, <1>3, <1>4, <1>5 DEF Next

\* The sessions begin where the register begins.
LEMMA InitSerial == Init => SInv /\ Register!Init
<1> SUFFICES ASSUME Init PROVE SInv /\ Register!Init
  OBVIOUS
<1>1. OneStands /\ \A p \in Sessions : Alone(session[p], rows, suppressions)
  BY IdleHolds, RestIsAlone DEF Init, OneStands, Standing, Idle
<1>2. RegisterStatus = [t \in {Tool} |-> <<>>]
  BY DEF Init, RegisterStatus
<1>3. RegisterSuppressed = {} /\ RegisterInventory = {}
  BY DEF Init, RegisterSuppressed, RegisterInventory, Standing
<1>. QED
  BY <1>1, <1>2, <1>3, InitInv DEF SInv, Register!Init, Register!Tools

\* As long as the sessions come one after another, the handlers taken apart into statements
\* implement the register of findings, whatever audit entry fails and whenever the server stops.
THEOREM SerialSessionsImplementRegister == Spec /\ []Serial => ImplementsRegister
<1>. QED
  BY InitSerial, SerialRefines, PTL DEF Spec, ImplementsRegister, Register!Spec
=============================================================================
