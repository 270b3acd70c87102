-------------------------- MODULE OwnerAttribution --------------------------
(***************************************************************************)
(* Whom a detection belongs to: the actor with most of the sign-ins that   *)
(* the syncs of the identity providers have stored.  Every sync ends with  *)
(* a pass over the detections, and an AI system inherits the owner of the  *)
(* detection that it is made of.                                           *)
(*                                                                         *)
(* One tool.  A sync whose events were rolled back stores none here, but   *)
(* its pass runs all the same.                                             *)
(***************************************************************************)
EXTENDS Integers, FiniteSets

CONSTANTS
  Actors,
  Nobody,             \* no owner; and the actor of an event that names none
  Providers,          \* connected identity providers
  Reports,            \* what a provider may report of a day
  Requests,           \* syncs that the server runs for users at a time
  Nightly,            \* the session of the nightly job
  Lookback,           \* ATTRIBUTION_LOOKBACK_DAYS, 30 in the code
  MaxDetections,      \* bound: detections of the tool
  MaxEscalations      \* bound: escalations under way

ASSUME AttributionAssumption ==
  /\ Nobody \notin Actors /\ "absent" \notin Actors \cup {Nobody} /\ Nightly \notin Requests
  /\ Lookback \in Nat \ {0, 1} /\ MaxDetections \in Nat \ {0} /\ MaxEscalations \in Nat
  /\ Reports \subseteq Actors \cup {Nobody, "absent"}
  /\ IsFiniteSet(Providers)

VARIABLES
  events,           \* the tier 2 events of the tool, by provider and age in days
  rows,             \* its detections, in the order of their creation
  systems,          \* the owner that the AI system of a detection has inherited
  escalations,      \* the requests under way: <<detection, the owner that it had>>
  sessions,
  mixed             \* history: a pass stored over a detection that it had not read

vars == <<events, rows, systems, escalations, sessions, mixed>>

Workers == Requests \cup {Nightly}
Ages == 0 .. Lookback
Detections == 1 .. MaxDetections

\* The hash of an event has its provider and its day, not its actor.
Absent == "absent"
Event == Actors \cup {Nobody, Absent}

\* A confidence in thousandths, as attribution_confidence has it, and in ten-thousandths.
InColumn == 0 .. 1000
Computed == 0 .. 10000

\* share: attribution_confidence; status closed: dismissed or registered.
Row == [status : {"none", "open", "closed"}, owner : Actors \cup {Nobody}, share : InColumn]
NoRow == [status |-> "none", owner |-> Nobody, share |-> 0]

\* What a pass reads of a row.
Columns == [owner : Actors \cup {Nobody}, share : InColumn]
ColumnsOf(row) == [owner |-> row.owner, share |-> row.share]

\* What compute_attribution returns.
Finding == [owner : Actors \cup {Nobody}, share : Computed]
Nothing == [owner |-> Nobody, share |-> 0]

Session == [at : {"idle", "pass", "loaded", "store"}, detection : Detections,
            seen : Columns, found : Finding]
Idle == [at |-> "idle", detection |-> 1, seen |-> ColumnsOf(NoRow), found |-> Nothing]

TypeOK ==
  /\ events \in [Providers \X Ages -> Event]
  /\ rows \in [Detections -> Row]
  /\ systems \in [Detections -> Event]
  /\ escalations \in SUBSET (Detections \X (Actors \cup {Nobody}))
  /\ sessions \in [Workers -> Session]
  /\ mixed \subseteq Detections

Init ==
  /\ events = [e \in Providers \X Ages |-> Absent]
  /\ rows = [d \in Detections |-> NoRow]
  /\ systems = [d \in Detections |-> Absent] /\ escalations = {}
  /\ sessions = [w \in Workers |-> Idle]
  /\ mixed = {}

-----------------------------------------------------------------------------
(* compute_attribution                                                     *)

\* The events that are at most so old, and those of an actor among them.
Within(stored, age) == {e \in Providers \X (0 .. age) : stored[e] # Absent}
Of(stored, age, a) == {e \in Within(stored, age) : stored[e] = a}
Named(stored, age) == Within(stored, age) \ Of(stored, age, Nobody)

\* round(count / total, 4); the column has three digits.
Ratio(count, total) == (20000 * count + total) \div (2 * total)
Thousandths(share) == (share + 5) \div 10

\* ATTRIBUTION_THRESHOLD in percent.
Threshold == 60
Concentrated(count, total) == 100 * count >= Threshold * total

\* Mutant: events that name no actor are part of the total.
AttributionOfAll(stored, age) ==
  LET total == Cardinality(Within(stored, age))
      top == {a \in Actors :
                Concentrated(Cardinality(Of(stored, age, a)), total)}
  IN IF total = 0 \/ top = {} THEN Nothing
     ELSE LET a == CHOOSE a \in top : TRUE
          IN [owner |-> a, share |-> Ratio(Cardinality(Of(stored, age, a)), total)]

\* At most one actor has the share, so which one most_common names does not matter.
Attribution(stored, age) ==
  LET total == Cardinality(Named(stored, age))
      top == {a \in Actors :
                Concentrated(Cardinality(Of(stored, age, a)), total)}
  IN IF total = 0 \/ top = {} THEN Nothing
     ELSE LET a == CHOOSE a \in top : TRUE
          IN [owner |-> a, share |-> Ratio(Cardinality(Of(stored, age, a)), total)]

\* The cutoff is an instant: an event of the oldest day may be before or after it.
Cutoffs == {Lookback - 1, Lookback}

-----------------------------------------------------------------------------
(* The world: days, scans, people.                                         *)

NextDay ==
  /\ events' = [e \in Providers \X Ages |->
                  IF e[2] = 0 THEN Absent ELSE events[<<e[1], e[2] - 1>>]]
  /\ UNCHANGED <<rows, systems, escalations, sessions, mixed>>

Open(d) == rows[d].status = "open"

\* run_detection of any tier finds the tool and no open detection.
Detect(d) ==
  /\ rows[d].status = "none" /\ \A b \in Detections : ~Open(b)
  /\ \A b \in Detections : rows[b].status = "none" => d <= b
  /\ rows' = [rows EXCEPT ![d].status = "open"]
  /\ UNCHANGED <<events, systems, escalations, sessions, mixed>>

\* A dismissal, or an escalation whose request names the owner.
Close(d) ==
  /\ Open(d)
  /\ rows' = [rows EXCEPT ![d].status = "closed"]
  /\ UNCHANGED <<events, systems, escalations, sessions, mixed>>

\* The request reads the owner long before it inserts the AI system.
EscalateLoads(d) ==
  /\ Open(d) /\ Cardinality(escalations) < MaxEscalations
  /\ escalations' = escalations \cup {<<d, rows[d].owner>>}
  /\ UNCHANGED <<events, rows, systems, sessions, mixed>>

\* The unique index lets a detection have one AI system.  The status is stored over
\* whatever it is by now.
EscalateInserts(d, owner) ==
  /\ <<d, owner>> \in escalations /\ systems[d] = Absent
  /\ rows' = [rows EXCEPT ![d].status = "closed"]
  /\ systems' = [systems EXCEPT ![d] = owner]
  /\ escalations' = escalations \ {<<d, owner>>}
  /\ UNCHANGED <<events, sessions, mixed>>

\* The index or the audit entry refuses it.
EscalateFails(d, owner) ==
  /\ <<d, owner>> \in escalations
  /\ escalations' = escalations \ {<<d, owner>>}
  /\ UNCHANGED <<events, rows, systems, sessions, mixed>>

EscalateDetection(d) ==
  \/ EscalateLoads(d)
  \/ \E owner \in Actors \cup {Nobody} : EscalateInserts(d, owner) \/ EscalateFails(d, owner)

-----------------------------------------------------------------------------
(* sync_connection, run_attribution_pass                                   *)

\* The days of a window that begins so long ago, of which no event is stored.
Unstored(p, age) == {day \in 0 .. age : events[<<p, day>>] = Absent}

\* The window reaches back to the last sync.  What the provider reports of a day is
\* stored unless the hash is there, whoever signed in first; detection commits it.
SyncConnection(w, p) ==
  /\ sessions[w].at = "idle"
  /\ \E age \in Ages : \E report \in [Unstored(p, age) -> Reports] :
       events' = [e \in Providers \X Ages |->
                    IF e[1] = p /\ e[2] \in DOMAIN report THEN report[e[2]] ELSE events[e]]
  /\ sessions' = [sessions EXCEPT ![w].at = "pass"]
  /\ UNCHANGED <<rows, systems, escalations, mixed>>

PassFindsNone(w) ==
  /\ sessions[w].at = "pass" /\ \A d \in Detections : ~Open(d)
  /\ sessions' = [sessions EXCEPT ![w] = Idle]
  /\ UNCHANGED <<events, rows, systems, escalations, mixed>>

PassLoads(w, d) ==
  /\ sessions[w].at = "pass" /\ Open(d)
  /\ sessions' = [sessions EXCEPT ![w].at = "loaded", ![w].detection = d, ![w].seen = ColumnsOf(rows[d])]
  /\ UNCHANGED <<events, rows, systems, escalations, mixed>>

\* The audit entry of another tool's detection has committed: this one is read again,
\* open or not.
PassReloads(w) ==
  LET stored == ColumnsOf(rows[sessions[w].detection])
  IN /\ sessions[w].at = "loaded" /\ sessions[w].seen # stored
     /\ sessions' = [sessions EXCEPT ![w].seen = stored]
     /\ UNCHANGED <<events, rows, systems, escalations, mixed>>

\* Without a concentration the detection keeps the owner that it has.
Compute(w) ==
  \E age \in Cutoffs :
    LET found == Attribution(events, age)
    IN /\ sessions[w].at = "loaded"
       /\ sessions' = [sessions EXCEPT ![w] =
            IF found = Nothing THEN Idle ELSE [@ EXCEPT !.at = "store", !.found = found]]
       /\ UNCHANGED <<events, rows, systems, escalations, mixed>>

\* The UPDATE names the columns whose value is not the one read; a float equals the
\* decimal of the row only if it is a binary fraction.
Same(share, column) == share = 10 * column /\ share % 1250 = 0

\* The audit entry commits the owner.
Store(w) ==
  LET d == sessions[w].detection
      seen == sessions[w].seen
      found == sessions[w].found
  IN /\ sessions[w].at = "store"
     /\ rows' = [rows EXCEPT
          ![d].owner = IF found.owner = seen.owner THEN @ ELSE found.owner,
          ![d].share = IF Same(found.share, seen.share) THEN @ ELSE Thousandths(found.share)]
     /\ mixed' = IF seen = ColumnsOf(rows[d])
                 THEN mixed \ {d} ELSE mixed \cup {d}
     /\ sessions' = [sessions EXCEPT ![w] = Idle]
     /\ UNCHANGED <<events, systems, escalations>>

\* The entry fails and takes the owner back.
StoreRolledBack(w) ==
  /\ sessions[w].at = "store"
  /\ sessions' = [sessions EXCEPT ![w] = Idle]
  /\ UNCHANGED <<events, rows, systems, escalations, mixed>>

\* The server restarts.
Crash ==
  /\ (\E w \in Workers : sessions[w].at # "idle") \/ escalations # {}
  /\ sessions' = [w \in Workers |-> Idle] /\ escalations' = {}
  /\ UNCHANGED <<events, rows, systems, mixed>>

Pass(w) == PassFindsNone(w) \/ \E d \in Detections : PassLoads(w, d)

Next ==
  \/ NextDay \/ Crash
  \/ \E d \in Detections : Detect(d) \/ Close(d) \/ EscalateDetection(d)
  \/ \E w \in Workers, p \in Providers : SyncConnection(w, p)
  \/ \E w \in Workers : Pass(w) \/ PassReloads(w) \/ Compute(w) \/ Store(w) \/ StoreRolledBack(w)

Spec == Init /\ [][Next]_vars

-----------------------------------------------------------------------------
(* The use of a tool, which the properties compare the owners with.        *)

\* Whose tool it is by the events: three of five that name an actor name this one.
Speaks(stored, age, a) ==
  LET count == Cardinality(Of(stored, age, a))
      total == Cardinality(Named(stored, age))
  IN  count > 0 /\ 5 * count >= 3 * total
=============================================================================
