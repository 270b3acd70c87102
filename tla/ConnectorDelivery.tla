------------------------- MODULE ConnectorDelivery --------------------------
(***************************************************************************)
(* The way of a signal from the edge connector to the telemetry table: the *)
(* scan loop (connector.run_scan), its SQLite queue (queue_manager), the   *)
(* network in between and the deduplication of the ingest endpoint         *)
(* (tier3_ingestor.ingest_signal).                                         *)
(*                                                                         *)
(* Signals are numbered in the order in which the sources see them; those  *)
(* of one tool, source and day are one signal.                             *)
(***************************************************************************)
EXTENDS Naturals, Sequences

CONSTANTS
  MaxSignals,   \* bound: signals that the sources ever see
  MaxQueue,     \* MAX_QUEUE_SIZE: 10000 in the code
  MaxRetries,   \* failed flushes after which a signal is abandoned: 3 in the code
  MaxCrashes,   \* bound: restarts of the connector
  Matches,      \* what a tool can match: the signatures of the registry, or none
  Unmatched,    \* the match of a tool that no signature covers
  Unlucky,      \* bound: signals whose requests the network can delay, whose event
                \* a failed audit entry can take back, or whose match can change
  MaxChanges    \* bound: changes of a match

ASSUME DeliveryBounds ==
  /\ MaxSignals \in Nat \ {0} /\ MaxQueue \in Nat \ {0}
  /\ MaxRetries \in Nat \ {0} /\ MaxCrashes \in Nat
  /\ Unmatched \in Matches /\ MaxChanges \in Nat

Sightings == 1 .. MaxSignals

VARIABLES
  step,      \* where run_scan is
  next,      \* the first signal that no scan window has covered
  batch,     \* signals of the present scan that are not sent yet
  disk,      \* the committed rows of signal_queue, by id
  todo,      \* rows that flush has selected and not tried yet
  kept,      \* rows that flush has tried and keeps, not committed yet
  wire,      \* requests that the connector gave up on and the server has not seen
  match,     \* per signal, the signature that its tool matches now
  stored,    \* per signal, its telemetry events by the match in their hash
  rematched, \* signals whose match changed when an event of theirs was stored
  unaudited, \* signals whose event a failed audit entry took back
  dropped,   \* signals rejected, abandoned, lost in a crash or seen by no window
  overflowed, \* signals that made room in the full queue
  crashes, changes

connectorVars == <<step, next, batch, disk, todo, kept, dropped, overflowed, crashes>>
serverVars == <<stored, unaudited>>
registryVars == <<match, rematched, changes>>
deliveryVars == <<connectorVars, wire, serverVars, registryVars>>

QueueRows == [signal : Sightings, retries : 0 .. MaxRetries - 1]

DeliveryTypeOK ==
  /\ step \in {"sleep", "flush", "send"}
  /\ next \in 1 .. MaxSignals + 1
  /\ batch \in Seq(Sightings)
  /\ disk \in Seq(QueueRows) /\ todo \in Seq(QueueRows) /\ kept \in Seq(QueueRows)
  /\ wire \in SUBSET Sightings
  /\ match \in [Sightings -> Matches]
  /\ stored \in [Sightings -> [Matches -> Nat]]
  /\ rematched \in SUBSET Sightings /\ unaudited \in SUBSET Sightings
  /\ dropped \in SUBSET Sightings /\ overflowed \in SUBSET Sightings
  /\ crashes \in 0 .. MaxCrashes /\ changes \in 0 .. MaxChanges

DeliveryInit ==
  /\ step = "sleep" /\ next = 1
  /\ batch = <<>> /\ disk = <<>> /\ todo = <<>> /\ kept = <<>>
  /\ wire = {}
  /\ match = [s \in Sightings |-> Unmatched]
  /\ stored = [s \in Sightings |-> [m \in Matches |-> 0]]
  /\ rematched = {} /\ unaudited = {}
  /\ dropped = {} /\ overflowed = {}
  /\ crashes = 0 /\ changes = 0

-----------------------------------------------------------------------------
(* One request of send_signal, and what the connector learns of it.        *)

\* ok: 200.  unaudited: 200 as well, but the event was rolled back with an
\* audit entry that failed.  rejected: 400.  failed: the API is not reached, or
\* answers 401, 422, 429 or 500 and stores nothing.  unanswered: stored, but the
\* answer is lost or a 500.  delayed: timed out here, and still under way.
Accepted == {"ok", "unaudited"}
Outcomes == Accepted \cup {"rejected", "failed", "unanswered", "delayed"}

Stored(s) == \E m \in Matches : stored[s][m] > 0

\* Mutant: the signal_hash is not looked up.
IngestAgain(s) == stored' = [stored EXCEPT ![s][match[s]] = @ + 1]

\* signal_hash is made of the signature that the tool matches on arrival (or of
\* the tool, if none), the source and the day of last_seen: a signal that is
\* sent again has the same one as long as the registry matches it the same.
Ingest(s) == stored' = [stored EXCEPT ![s][match[s]] = IF @ = 0 THEN 1 ELSE @]

\* The audit entry's rollback takes a new event back; a duplicate has none.
IngestRolledBack(s) ==
  /\ stored[s][match[s]] = 0
  /\ s \in Unlucky
  /\ unaudited' = unaudited \cup {s}
  /\ UNCHANGED stored

PostSignal(s, outcome) ==
  /\ CASE outcome \in {"ok", "unanswered"} -> Ingest(s) /\ UNCHANGED unaudited
       [] outcome = "unaudited"            -> IngestRolledBack(s)
       [] OTHER                            -> UNCHANGED serverVars
  /\ outcome = "delayed" => s \in Unlucky
  /\ wire' = IF outcome = "delayed" THEN wire \cup {s} ELSE wire
  /\ UNCHANGED registryVars

LateArrival(s) ==
  /\ s \in wire
  /\ \/ Ingest(s) /\ UNCHANGED unaudited
     \/ IngestRolledBack(s)
  /\ wire' = wire \ {s}
  /\ UNCHANGED <<connectorVars, registryVars>>

\* A signature is added, changed, approved or removed, and the tool of s
\* matches m from now on.
RegistryChanges(s, m) ==
  /\ changes < MaxChanges /\ s \in Unlucky /\ m # match[s]
  /\ changes' = changes + 1
  /\ match' = [match EXCEPT ![s] = m]
  /\ rematched' = IF Stored(s) THEN rematched \cup {s} ELSE rematched
  /\ UNCHANGED <<connectorVars, wire, serverVars>>

-----------------------------------------------------------------------------
(* run_scan.                                                               *)

StartScan ==
  /\ step = "sleep"
  /\ step' = "flush"
  /\ todo' = disk /\ kept' = <<>>
  /\ UNCHANGED <<next, batch, disk, dropped, overflowed, crashes>>
  /\ UNCHANGED <<wire, serverVars, registryVars>>

\* Mutant: retry_count is read and written back as it was.
FlushFailureUncounted(outcome) ==
  /\ outcome \notin Accepted
  /\ kept' = Append(kept, Head(todo))
  /\ UNCHANGED dropped

\* Mutant: a row is deleted before its request is answered.
FlushFailureDeleted(outcome) ==
  /\ outcome \notin Accepted
  /\ UNCHANGED <<kept, dropped>>

\* Mutant: a row is abandoned one failure too late.
FlushFailureOneMore(outcome) ==
  LET row == Head(todo)
  IN  /\ outcome \notin Accepted
      /\ IF row.retries >= MaxRetries
           THEN dropped' = dropped \cup {row.signal} /\ UNCHANGED kept
           ELSE kept' = Append(kept, [row EXCEPT !.retries = @ + 1]) /\ UNCHANGED dropped

\* The queue that send_signal itself would fill is a throw-away one here, so
\* a 400 is a failure like the others.
FlushFailure(outcome) ==
  LET row == Head(todo)
  IN  /\ outcome \notin Accepted
      /\ IF row.retries + 1 >= MaxRetries
           THEN dropped' = dropped \cup {row.signal} /\ UNCHANGED kept
           ELSE kept' = Append(kept, [row EXCEPT !.retries = @ + 1]) /\ UNCHANGED dropped

FlushRow(outcome) ==
  /\ step = "flush" /\ todo # <<>>
  /\ PostSignal(Head(todo).signal, outcome)
  /\ \/ outcome \in Accepted /\ UNCHANGED <<kept, dropped>>
     \/ FlushFailure(outcome)
  /\ todo' = Tail(todo)
  /\ UNCHANGED <<step, next, batch, disk, overflowed, crashes>>

\* The one commit of flush, and then the scan of the sources: the window
\* covers the signals from next to some later one.
FlushCommit ==
  /\ step = "flush" /\ todo = <<>>
  /\ disk' = kept /\ kept' = <<>>
  /\ step' = "send"
  /\ \E last \in next - 1 .. MaxSignals :
       /\ batch' = [i \in 1 .. last + 1 - next |-> next + i - 1]
       /\ next' = last + 1
  /\ UNCHANGED <<todo, dropped, overflowed, crashes>>
  /\ UNCHANGED <<wire, serverVars, registryVars>>

Full == Len(disk) >= MaxQueue
NewRow(s) == [signal |-> s, retries |-> 0]

\* Mutant: the newest row makes room.
EnqueueDropsNewest(s) ==
  IF Full
    THEN /\ disk' = Append(SubSeq(disk, 1, Len(disk) - 1), NewRow(s))
         /\ overflowed' = overflowed \cup {disk[Len(disk)].signal}
    ELSE disk' = Append(disk, NewRow(s)) /\ UNCHANGED overflowed

\* Mutant: one row too many is let in.
EnqueueOneTooMany(s) ==
  IF Len(disk) > MaxQueue
    THEN /\ disk' = Append(Tail(disk), NewRow(s))
         /\ overflowed' = overflowed \cup {Head(disk).signal}
    ELSE disk' = Append(disk, NewRow(s)) /\ UNCHANGED overflowed

Enqueue(s) ==
  IF Full
    THEN /\ disk' = Append(Tail(disk), NewRow(s))
         /\ overflowed' = overflowed \cup {Head(disk).signal}
    ELSE disk' = Append(disk, NewRow(s)) /\ UNCHANGED overflowed

\* 429, 401, 422, 5xx and a missing answer put the signal into the queue.
SendSignal(outcome) ==
  LET s == Head(batch)
  IN  /\ step = "send" /\ batch # <<>>
      /\ PostSignal(s, outcome)
      /\ CASE outcome \in Accepted -> UNCHANGED <<disk, dropped, overflowed>>
           [] outcome = "rejected" -> /\ dropped' = dropped \cup {s}
                                      /\ UNCHANGED <<disk, overflowed>>
           [] OTHER                -> Enqueue(s) /\ UNCHANGED dropped
      /\ batch' = Tail(batch)
      /\ UNCHANGED <<step, next, todo, kept, crashes>>

\* The next window begins scan_interval before the next scan, which sleeps
\* for scan_interval after this one: no window covers the time of this scan.
FinishScan ==
  /\ step = "send" /\ batch = <<>>
  /\ step' = "sleep"
  /\ \E first \in next .. MaxSignals + 1 :
       /\ next' = first
       /\ dropped' = dropped \cup (next .. first - 1)
  /\ UNCHANGED <<batch, disk, todo, kept, overflowed, crashes>>
  /\ UNCHANGED <<wire, serverVars, registryVars>>

\* The signals of a scan that are not sent yet.
Batched == {batch[i] : i \in DOMAIN batch}

\* What flush did is rolled back.  The window of the first scan after the
\* restart reaches back to signals that earlier ones covered or, when the
\* connector was down for longer than scan_interval, not even to the last one.
ConnectorCrash ==
  /\ crashes < MaxCrashes
  /\ crashes' = crashes + 1
  /\ step' = "sleep"
  /\ batch' = <<>> /\ todo' = <<>> /\ kept' = <<>>
  /\ \E first \in 1 .. MaxSignals + 1 :
       /\ next' = first
       /\ dropped' = dropped \cup Batched \cup (next .. first - 1)
  /\ UNCHANGED <<disk, overflowed, wire, serverVars, registryVars>>

DeliveryNext ==
  \/ StartScan \/ FlushCommit \/ FinishScan \/ ConnectorCrash
  \/ \E outcome \in Outcomes : FlushRow(outcome) \/ SendSignal(outcome)
  \/ \E s \in Sightings : LateArrival(s)
  \/ \E s \in Sightings, m \in Matches : RegistryChanges(s, m)

DeliverySpec == DeliveryInit /\ [][DeliveryNext]_deliveryVars

\* The scan loop runs for ever; no request goes on for ever, but all may fail.
DeliveryFairness ==
  /\ WF_deliveryVars(StartScan) /\ WF_deliveryVars(FlushCommit) /\ WF_deliveryVars(FinishScan)
  /\ WF_deliveryVars(\E outcome \in Outcomes : FlushRow(outcome) \/ SendSignal(outcome))

DeliveryFairSpec == DeliverySpec /\ DeliveryFairness

-----------------------------------------------------------------------------
(* Properties.                                                             *)

\* The rows that a crash would leave, and those that flush works on.
Queued == {disk[i].signal : i \in DOMAIN disk}

\* The queue file never holds more than MAX_QUEUE_SIZE signals.
QueueBounded == Len(disk) <= MaxQueue /\ Len(kept) + Len(todo) <= MaxQueue

\* A signal becomes at most one telemetry event, however often a lost answer,
\* a crash during a flush or an overlapping window makes the connector send
\* it again, until the registry matches its tool otherwise than when the event
\* was stored: then at most one for each match.
StoredOnce ==
  \A s \in Sightings :
    /\ \A m \in Matches : stored[s][m] <= 1
    /\ \A m, n \in Matches :
         stored[s][m] > 0 /\ stored[s][n] > 0 /\ m # n => s \in rematched

\* No signal that a scan took from its source vanishes: it is stored, queued,
\* waiting or under way, or there is a reason for which it was let go.  One of
\* the reasons the connector cannot know: the server answered 200 although its
\* audit entry failed and took the event back.
AccountedFor ==
  \A s \in 1 .. next - 1 :
    \/ Stored(s)
    \/ s \in Queued \cup Batched \cup wire
    \/ s \in dropped \cup overflowed \cup unaudited

\* "When full: oldest signals are dropped": as long as the connector does not
\* restart, what the queue holds is newer than all that overflowed.
NewestKept ==
  crashes = 0 => \A s \in overflowed, r \in Queued \cup Batched : r > s

\* Every queued signal leaves the queue: no row is retried for ever.
QueueDrains == \A s \in Sightings : s \in Queued ~> s \notin Queued
=============================================================================
