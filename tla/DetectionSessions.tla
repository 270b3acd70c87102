------------------------- MODULE DetectionSessions --------------------------
(***************************************************************************)
(* The detections of one tool of the registry under concurrent database    *)
(* sessions: API requests run in the threads of the web server's pool, the *)
(* nightly jobs in the scheduler's, each with a SQLAlchemy session of its  *)
(* own on PostgreSQL at READ COMMITTED.                                    *)
(*                                                                         *)
(* A handler reads rows into its session, decides on what it read, and     *)
(* writes later: at a flush, or at the COMMIT inside AuditService.log.     *)
(* An UPDATE names the row by its id and sets the columns that changed; it *)
(* waits for the lock of another session's uncommitted UPDATE, and then    *)
(* writes over what that session committed.  An INSERT waits for another   *)
(* uncommitted write with the same unique key and then fails or goes on.   *)
(* A select without a write in between two steps is part of the step.      *)
(*                                                                         *)
(* The dark AI side channel is none of the handlers here: its detections   *)
(* come after run_detection's commit and ask for no suppression, as        *)
(* DetectionLifecycle has it.                                              *)
(*                                                                         *)
(* Scores are left out: an observation matters when it revives a stale     *)
(* detection, a decay pass when it takes one below the discard threshold.  *)
(***************************************************************************)
EXTENDS Naturals, Sequences

CONSTANTS
  Sessions,    \* the database sessions that work at a time
  Tool,        \* the tool, for the register of findings
  MaxRows      \* bound: detections ever created

ASSUME SessionBounds == MaxRows \in Nat \ {0}

VARIABLES
  rows,          \* committed detections of the tool, in order of creation
  suppressions,  \* committed suppressions of the tool
  systems,       \* per detection, the number of committed AI systems made of it
  session        \* per session, where its handler is and what it holds

vars == <<rows, suppressions, systems, session>>

ActiveStatuses == {"new", "reviewed", "needs_review"}
TerminalStatuses == {"dismissed", "registered"}

Ids == 1 .. MaxRows

\* system: registered_ai_system_id is set.
Row == [status : ActiveStatuses \cup TerminalStatuses, stale : BOOLEAN, system : BOOLEAN]
Suppression == [source : Ids, lifted : BOOLEAN]

Steps == {"idle", "scan_check", "scan_insert", "scan_created", "scan_update",
          "dismiss_flush", "dismiss_suppress", "dismiss_created", "dismiss_audit",
          "escalate_insert", "escalate_flush", "escalate_audit",
          "review_audit", "lift_audit", "decay_loop", "answer"}

\* id: the detection, or the source of the suppression, that was loaded.
\* seen: the detection as it was loaded.  wrote: an uncommitted UPDATE of
\* its row.  done: what the request asked for was committed.
Session == [at : Steps, id : Ids, seen : Row, wrote : BOOLEAN, done : BOOLEAN]

NewRow == [status |-> "new", stale |-> FALSE, system |-> FALSE]
Idle == [at |-> "idle", id |-> 1, seen |-> NewRow, wrote |-> FALSE, done |-> FALSE]

TypeOK ==
  /\ rows \in Seq(Row) /\ Len(rows) <= MaxRows
  /\ suppressions \in SUBSET Suppression
  /\ systems \in [Ids -> Nat]
  /\ session \in [Sessions -> Session]

Active(d) == d.status \in ActiveStatuses
ActiveRows == {i \in DOMAIN rows : Active(rows[i])}
Standing == {x \in suppressions : ~x.lifted}

Init ==
  /\ rows = <<>>
  /\ suppressions = {}
  /\ systems = [i \in Ids |-> 0]
  /\ session = [p \in Sessions |-> Idle]

-----------------------------------------------------------------------------
(* Sessions and PostgreSQL.                                                *)

At(p, step) == session[p].at = step

Others(p) == Sessions \ {p}

Goto(p, step) == session' = [session EXCEPT ![p].at = step]

Load(p, step, i) ==
  session' = [session EXCEPT ![p] = [Idle EXCEPT !.at = step, !.id = i, !.seen = rows[i]]]

\* The transaction ends; the request is answered, or failed with a 500.
Answer(p, done) ==
  session' = [session EXCEPT ![p] = [Idle EXCEPT !.at = "answer", !.done = done]]
Leave(p) == session' = [session EXCEPT ![p] = Idle]

RowLocked(p, i) == \E q \in Others(p) : session[q].wrote /\ session[q].id = i

\* uq_detection_org_sig_active, for an active row i: another session's insert,
\* or its closing of another active row, is not committed yet; or there is
\* another active row.
ActiveKeyBusy(p, i) ==
  \E q \in Others(p) :
    \/ At(q, "scan_created")
    \/ session[q].wrote /\ session[q].id \in ActiveRows \ {i}
ActiveKeyTaken(i) == ActiveRows \ {i} # {}

\* ix_ai_systems_source_detection and uq_suppression_org_slug_method_active.
SystemKeyBusy(p, i) ==
  \E q \in Others(p) :
    (At(q, "escalate_flush") \/ At(q, "escalate_audit")) /\ session[q].id = i
SuppressionKeyBusy(p) == \E q \in Others(p) : At(q, "dismiss_created")

\* Flush and commit of an UPDATE that leaves row i as new.  The unique index
\* refuses it when the row becomes active beside another active one: then
\* AuditService.log catches the IntegrityError as it catches any other error.
CommitRow(p, i, new) ==
  /\ ~RowLocked(p, i)
  /\ Active(new) /\ ~Active(rows[i]) => ~ActiveKeyBusy(p, i) /\ ~ActiveKeyTaken(i)
  /\ rows' = [rows EXCEPT ![i] = new]

\* An UPDATE sets the status only when it differs from the one that was loaded.
WithStatus(d, seen, status) ==
  IF seen.status = status THEN d ELSE [d EXCEPT !.status = status]

Request(p) == At(p, "answer") /\ Leave(p) /\ UNCHANGED <<rows, suppressions, systems>>

-----------------------------------------------------------------------------
(* run_detection for this tool, with enough evidence for a detection.      *)

\* The detection that is found: a stale one is revived, another one only gets
\* its score.
ScanSelect(p) ==
  /\ At(p, "idle")
  /\ \/ ActiveRows = {} /\ Goto(p, "scan_check")
     \/ \E i \in ActiveRows : rows[i].stale /\ Load(p, "scan_update", i)
  /\ UNCHANGED <<rows, suppressions, systems>>

ScanCheckSuppression(p) ==
  /\ At(p, "scan_check")
  /\ IF Standing # {} THEN Leave(p) ELSE Goto(p, "scan_insert")
  /\ UNCHANGED <<rows, suppressions, systems>>

ScanInsert(p) ==
  /\ At(p, "scan_insert") /\ Len(rows) < MaxRows
  /\ ~ActiveKeyBusy(p, 0)
  /\ IF ActiveKeyTaken(0) THEN Leave(p) ELSE Goto(p, "scan_created")
  /\ UNCHANGED <<rows, suppressions, systems>>

ScanAudit(p) ==
  /\ At(p, "scan_created")
  /\ rows' = Append(rows, NewRow) \/ rows' = rows
  /\ Leave(p)
  /\ UNCHANGED <<suppressions, systems>>

\* reactivate_detection, whose audit entry commits it.
ScanReactivate(p) ==
  LET i == session[p].id
      revived == [WithStatus(rows[i], session[p].seen, "new") EXCEPT !.stale = FALSE]
  IN  /\ At(p, "scan_update")
      /\ \/ CommitRow(p, i, revived)
         \/ rows' = rows
      /\ Leave(p)
      /\ UNCHANGED <<suppressions, systems>>

-----------------------------------------------------------------------------
(* dismiss_detection.                                                      *)

DismissLoad(p, i) ==
  /\ At(p, "idle") /\ i \in ActiveRows
  /\ Load(p, "dismiss_flush", i)
  /\ UNCHANGED <<rows, suppressions, systems>>

\* Mutant: the status is committed before the suppression is written.
DismissFlushCommits(p) ==
  /\ At(p, "dismiss_flush") /\ ~RowLocked(p, session[p].id)
  /\ rows' = [rows EXCEPT ![session[p].id].status = "dismissed"]
  /\ Goto(p, "dismiss_suppress")
  /\ UNCHANGED <<suppressions, systems>>

DismissFlush(p) ==
  /\ At(p, "dismiss_flush") /\ ~RowLocked(p, session[p].id)
  /\ session' = [session EXCEPT ![p].at = "dismiss_suppress", ![p].wrote = TRUE]
  /\ UNCHANGED <<rows, suppressions, systems>>

\* create_suppression takes a standing suppression as it finds it.
DismissSuppress(p) ==
  /\ At(p, "dismiss_suppress")
  /\ \/ Standing # {} /\ Goto(p, "dismiss_audit")
     \/ Standing = {} /\ ~SuppressionKeyBusy(p) /\ Goto(p, "dismiss_created")
  /\ UNCHANGED <<rows, suppressions, systems>>

\* The audit entry of create_suppression commits the whole dismissal, or
\* rolls all of it back, after which the handler goes on.
DismissCreated(p) ==
  LET i == session[p].id
  IN  /\ At(p, "dismiss_created")
      /\ \/ /\ rows' = [rows EXCEPT ![i].status = "dismissed"]
            /\ suppressions' = suppressions \cup {[source |-> i, lifted |-> FALSE]}
            /\ session' = [session EXCEPT ![p].at = "dismiss_audit", ![p].wrote = FALSE,
                                          ![p].done = TRUE]
         \/ /\ session' = [session EXCEPT ![p].at = "dismiss_audit", ![p].wrote = FALSE]
            /\ UNCHANGED <<rows, suppressions>>
      /\ UNCHANGED systems

DismissAudit(p) ==
  LET i == session[p].id
  IN  /\ At(p, "dismiss_audit")
      /\ \/ /\ session[p].wrote
            /\ rows' = [rows EXCEPT ![i].status = "dismissed"]
            /\ Answer(p, TRUE)
         \/ /\ rows' = rows
            /\ Answer(p, session[p].done)
      /\ UNCHANGED <<suppressions, systems>>

-----------------------------------------------------------------------------
(* escalate_to_inventory.                                                  *)

EscalateLoad(p, i) ==
  /\ At(p, "idle") /\ i \in ActiveRows /\ ~rows[i].system
  /\ Load(p, "escalate_insert", i)
  /\ UNCHANGED <<rows, suppressions, systems>>

\* Mutant: without ix_ai_systems_source_detection.
EscalateInsertUnchecked(p) ==
  /\ At(p, "escalate_insert")
  /\ Goto(p, "escalate_flush")
  /\ UNCHANGED <<rows, suppressions, systems>>

EscalateInsert(p) ==
  LET i == session[p].id
  IN  /\ At(p, "escalate_insert") /\ ~SystemKeyBusy(p, i)
      /\ IF systems[i] > 0 THEN Leave(p) ELSE Goto(p, "escalate_flush")
      /\ UNCHANGED <<rows, suppressions, systems>>

EscalateFlush(p) ==
  /\ At(p, "escalate_flush") /\ ~RowLocked(p, session[p].id)
  /\ session' = [session EXCEPT ![p].at = "escalate_audit", ![p].wrote = TRUE]
  /\ UNCHANGED <<rows, suppressions, systems>>

\* Mutant: the link to the AI system is written after the first audit entry.
EscalateAuditFirst(p) ==
  LET i == session[p].id
  IN  /\ At(p, "escalate_audit")
      /\ \/ /\ rows' = [rows EXCEPT ![i].status = "registered"]
            /\ systems' = [systems EXCEPT ![i] = @ + 1]
            /\ Answer(p, TRUE)
         \/ /\ Answer(p, FALSE)
            /\ UNCHANGED <<rows, systems>>
      /\ UNCHANGED suppressions

\* Mutant: with the status of migration i006 that the model does not list.
EscalateAuditOldStatus(p) ==
  LET i == session[p].id
  IN  /\ At(p, "escalate_audit")
      /\ \/ /\ rows' = [rows EXCEPT ![i].status = "escalated", ![i].system = TRUE]
            /\ systems' = [systems EXCEPT ![i] = @ + 1]
            /\ Answer(p, TRUE)
         \/ /\ Answer(p, FALSE)
            /\ UNCHANGED <<rows, systems>>
      /\ UNCHANGED suppressions

EscalateAudit(p) ==
  LET i == session[p].id
  IN  /\ At(p, "escalate_audit")
      /\ \/ /\ rows' = [rows EXCEPT ![i].status = "registered", ![i].system = TRUE]
            /\ systems' = [systems EXCEPT ![i] = @ + 1]
            /\ Answer(p, TRUE)
         \/ /\ Answer(p, FALSE)
            /\ UNCHANGED <<rows, systems>>
      /\ UNCHANGED suppressions

-----------------------------------------------------------------------------
(* review_detection, lift_suppression, run_decay_pass.                     *)

ReviewLoad(p, i) ==
  /\ At(p, "idle") /\ i \in ActiveRows
  /\ Load(p, "review_audit", i)
  /\ UNCHANGED <<rows, suppressions, systems>>

ReviewAudit(p) ==
  LET i == session[p].id
  IN  /\ At(p, "review_audit")
      /\ \/ /\ CommitRow(p, i, WithStatus(rows[i], session[p].seen, "reviewed"))
            /\ Answer(p, TRUE)
         \/ rows' = rows /\ Answer(p, FALSE)
      /\ UNCHANGED <<suppressions, systems>>

LiftLoad(p) ==
  /\ At(p, "idle")
  /\ \E x \in Standing :
       session' = [session EXCEPT ![p] = [Idle EXCEPT !.at = "lift_audit", !.id = x.source]]
  /\ UNCHANGED <<rows, suppressions, systems>>

LiftAudit(p) ==
  LET x == [source |-> session[p].id, lifted |-> FALSE]
  IN  /\ At(p, "lift_audit")
      /\ \/ /\ suppressions' = (suppressions \ {x}) \cup {[x EXCEPT !.lifted = TRUE]}
            /\ Answer(p, TRUE)
         \/ /\ suppressions' = suppressions
            /\ Answer(p, FALSE)
      /\ UNCHANGED <<rows, systems>>

DecaySelect(p) ==
  /\ At(p, "idle")
  /\ \E i \in ActiveRows : ~rows[i].stale /\ Load(p, "decay_loop", i)
  /\ UNCHANGED <<rows, suppressions, systems>>

\* The audit entry of a detection earlier in the loop commits: the commit
\* expires this one, and the loop reads its row again, not its filters.
DecayReload(p) ==
  /\ At(p, "decay_loop")
  /\ session[p].seen # rows[session[p].id]
  /\ Load(p, "decay_loop", session[p].id)
  /\ UNCHANGED <<rows, suppressions, systems>>

DecayAudit(p) ==
  LET i == session[p].id
      stale == [WithStatus(rows[i], session[p].seen, "needs_review") EXCEPT !.stale = TRUE]
  IN  /\ At(p, "decay_loop")
      /\ \/ ~session[p].seen.stale /\ CommitRow(p, i, stale)
         \/ rows' = rows
      /\ Leave(p)
      /\ UNCHANGED <<suppressions, systems>>

\* The server stops: every uncommitted transaction is rolled back.
Crash ==
  /\ \E p \in Sessions : ~At(p, "idle")
  /\ session' = [p \in Sessions |-> Idle]
  /\ UNCHANGED <<rows, suppressions, systems>>

-----------------------------------------------------------------------------
Scan(p) == \/ ScanSelect(p) \/ ScanCheckSuppression(p) \/ ScanInsert(p)
           \/ ScanAudit(p) \/ ScanReactivate(p)

Dismiss(p) == \/ \E i \in DOMAIN rows : DismissLoad(p, i)
              \/ DismissFlush(p) \/ DismissSuppress(p) \/ DismissCreated(p) \/ DismissAudit(p)

Escalate(p) == \/ \E i \in DOMAIN rows : EscalateLoad(p, i)
               \/ EscalateInsert(p) \/ EscalateFlush(p) \/ EscalateAudit(p)

Review(p) == (\E i \in DOMAIN rows : ReviewLoad(p, i)) \/ ReviewAudit(p)

Lift(p) == LiftLoad(p) \/ LiftAudit(p)

DecayPass(p) == DecaySelect(p) \/ DecayReload(p) \/ DecayAudit(p)

Next ==
  \/ \E p \in Sessions : \/ Scan(p) \/ Dismiss(p) \/ Escalate(p) \/ Review(p)
                         \/ Lift(p) \/ DecayPass(p) \/ Request(p)
  \/ Crash

Spec == Init /\ [][Next]_vars

-----------------------------------------------------------------------------
(* What holds however the sessions interleave, fail and crash.             *)

\* A detection is made into at most one AI system, also when two people
\* escalate it at the same time.
OneSystemPerDetection == \A i \in Ids : systems[i] <= 1

\* An AI system and the link of its detection to it are written together, and
\* the link outlives every later write over the detection: the detection is
\* never promoted a second time.
SystemIsLinked ==
  \A i \in Ids : systems[i] > 0 => i \in DOMAIN rows /\ rows[i].system

\* A dismissal never reaches the database without its suppression.
DismissedIsSuppressed ==
  (\E i \in DOMAIN rows : rows[i].status = "dismissed") => suppressions # {}

-----------------------------------------------------------------------------
(* What holds when the sessions come one after another, whatever fails.    *)

Finding(d) == IF Active(d) THEN "active" ELSE d.status

RegisterStatus == [t \in {Tool} |-> [i \in DOMAIN rows |-> Finding(rows[i])]]
RegisterSuppressed == IF Standing = {} THEN {} ELSE {Tool}
RegisterInventory == {<<Tool, i>> : i \in {j \in Ids : systems[j] > 0}}

Register == INSTANCE DetectionRegister WITH
  Signatures <- {Tool},
  Unknown <- Tool,
  status <- RegisterStatus,
  suppressed <- RegisterSuppressed,
  inventory <- RegisterInventory

\* The handlers, taken apart into statements, still implement the register: a
\* failed audit entry or a crash never leaves half of a handler behind.
ImplementsRegister == Register!Spec
=============================================================================
