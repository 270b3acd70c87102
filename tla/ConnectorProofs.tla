-------------------------- MODULE ConnectorProofs ---------------------------
(***************************************************************************)
(* The properties of ConnectorDelivery and of ConnectorToken but those     *)
(* about fairness, for any number of signals, attempts, restarts, tokens   *)
(* and requests, any size of the queue, any rate limit and any length of   *)
(* an hour.                                                                *)
(*                                                                         *)
(* ConnectorDelivery.  A signal is accounted for by where its row is, also *)
(* in a flush, and the rows are in the order of their signals.             *)
(*                                                                         *)
(* ConnectorToken has two arguments that do not meet.  The rate limit:     *)
(* what a token was admitted for within an hour is split by the start of   *)
(* its window, and either part is at most the limit.  The counters and the *)
(* heartbeats: a request that stands between a read and the write that     *)
(* depends on it holds the event loop, so what it read is what it finds.   *)
(***************************************************************************)
EXTENDS ConnectorDelivery, ConnectorToken, FiniteSetTheorems, SequenceTheorems, TLAPS

-----------------------------------------------------------------------------
(* The delivery of signals.                                                *)

\* Outside a flush there is nothing to try, outside the sending nothing to send.
Phases ==
  /\ step # "flush" => todo = <<>> /\ kept = <<>>
  /\ step # "send" => batch = <<>>

\* Until the registry matches the tool of a stored signal otherwise, its event
\* has the hash that the signal would get if it were sent again.
HashKnown ==
  \A s \in Sightings \ rematched, m \in Matches : stored[s][m] > 0 => m = match[s]

QueueInv == DeliveryTypeOK /\ Phases /\ QueueBounded /\ StoredOnce /\ HashKnown

-----------------------------------------------------------------------------
(* Sequences.                                                              *)

LEMMA TailFacts ==
  ASSUME NEW S, NEW q \in Seq(S), q # <<>>
  PROVE  /\ Tail(q) \in Seq(S)
         /\ Len(q) \in Nat /\ Len(q) >= 1
         /\ Len(Tail(q)) = Len(q) - 1
         /\ Head(q) = q[1] /\ Head(q) \in S
         /\ \A i \in 1 .. Len(q) - 1 : Tail(q)[i] = q[i + 1]
OBVIOUS

\* Appending keeps the element type and adds one to the length.
LEMMA AppendFacts ==
  ASSUME NEW S, NEW q \in Seq(S), NEW e \in S
  PROVE  /\ Append(q, e) \in Seq(S)
         /\ Len(q) \in Nat
         /\ Len(Append(q, e)) = Len(q) + 1
         /\ \A i \in 1 .. Len(q) : Append(q, e)[i] = q[i]
         /\ Append(q, e)[Len(q) + 1] = e
OBVIOUS

\* The empty sequence is a sequence over any set.
LEMMA EmptyFacts ==
  ASSUME NEW S
  PROVE  <<>> \in Seq(S) /\ Len(<<>>) = 0
OBVIOUS

\* A new queue row is a row of its signal, and so is a row after a failed attempt.
LEMMA RowFacts ==
  /\ \A s \in Sightings : NewRow(s) \in QueueRows /\ NewRow(s).signal = s
  /\ \A row \in QueueRows :
       /\ row.signal \in Sightings
       /\ row.retries + 1 < MaxRetries =>
            /\ [row EXCEPT !.retries = @ + 1] \in QueueRows
            /\ [row EXCEPT !.retries = @ + 1].signal = row.signal
BY DeliveryBounds DEF NewRow, QueueRows

\* An event is stored under the present match, unless it is there.
LEMMA IngestFacts ==
  ASSUME DeliveryTypeOK, NEW s \in Sightings, Ingest(s)
  PROVE  /\ stored' \in [Sightings -> [Matches -> Nat]]
         /\ stored'[s][match[s]] > 0
         /\ \A x \in Sightings, m \in Matches :
              /\ stored[x][m] > 0 => stored'[x][m] > 0
              /\ stored'[x][m] > 0 => stored[x][m] > 0 \/ (x = s /\ m = match[s])
              /\ stored[x][m] <= 1 => stored'[x][m] <= 1
<1>1. stored \in [Sightings -> [Matches -> Nat]] /\ match[s] \in Matches
  BY DEF DeliveryTypeOK
<1>2. PICK row \in [Matches -> Nat] : row = [stored[s] EXCEPT ![match[s]] = IF @ = 0 THEN 1 ELSE @]
  BY <1>1
<1>3. stored' = [stored EXCEPT ![s] = row]
  BY <1>1, <1>2 DEF Ingest
<1>4. /\ row[match[s]] = IF stored[s][match[s]] = 0 THEN 1 ELSE stored[s][match[s]]
      /\ \A m \in Matches : m # match[s] => row[m] = stored[s][m]
  BY <1>1, <1>2
<1>5. stored' \in [Sightings -> [Matches -> Nat]]
  BY <1>1, <1>2, <1>3
<1>6. \A x \in Sightings : stored'[x] = IF x = s THEN row ELSE stored[x]
  BY <1>1, <1>3
<1>7. \A x \in Sightings, m \in Matches : stored[x][m] \in Nat
  BY <1>1
<1>. QED
  BY <1>1, <1>4, <1>5, <1>6, <1>7

\* What a request or a late arrival does to the telemetry keeps it free of
\* duplicates.
LEMMA DedupFacts ==
  ASSUME DeliveryTypeOK, NEW s \in Sightings, UNCHANGED registryVars,
         \/ Ingest(s) /\ UNCHANGED unaudited
         \/ IngestRolledBack(s)
         \/ UNCHANGED serverVars
  PROVE  /\ stored' \in [Sightings -> [Matches -> Nat]]
         /\ unaudited' \in SUBSET Sightings /\ unaudited \subseteq unaudited'
         /\ match' \in [Sightings -> Matches] /\ rematched' \in SUBSET Sightings
         /\ changes' \in 0 .. MaxChanges
         /\ StoredOnce /\ HashKnown => StoredOnce' /\ HashKnown'
         /\ \A x \in Sightings : Stored(x) => Stored(x)'
         /\ Ingest(s) => Stored(s)'
         /\ IngestRolledBack(s) => s \in unaudited'
<1>1. match[s] \in Matches /\ match' = match /\ rematched' = rematched /\ changes' = changes
  BY DEF DeliveryTypeOK, registryVars
<1>2. /\ match' \in [Sightings -> Matches] /\ rematched' \in SUBSET Sightings
      /\ changes' \in 0 .. MaxChanges
  BY <1>1 DEF DeliveryTypeOK
<1>3. CASE Ingest(s) /\ UNCHANGED unaudited
  <2>1. /\ stored' \in [Sightings -> [Matches -> Nat]]
        /\ stored'[s][match[s]] > 0
        /\ \A x \in Sightings, m \in Matches :
             /\ stored[x][m] > 0 => stored'[x][m] > 0
             /\ stored'[x][m] > 0 => stored[x][m] > 0 \/ (x = s /\ m = match[s])
             /\ stored[x][m] <= 1 => stored'[x][m] <= 1
    BY <1>3, IngestFacts
  <2>2. ASSUME StoredOnce, HashKnown PROVE HashKnown'
    BY <1>1, <2>1, <2>2 DEF HashKnown
  <2>3. ASSUME StoredOnce, HashKnown PROVE StoredOnce'
    <3>1. \A x \in Sightings, m \in Matches : stored'[x][m] <= 1
      BY <2>1, <2>3 DEF StoredOnce
    <3>2. \A x \in Sightings \ rematched, m, n \in Matches :
            stored'[x][m] > 0 /\ stored'[x][n] > 0 => m = n
      BY <1>1, <2>2, <2>3 DEF HashKnown
    <3>. QED
      BY <1>1, <3>1, <3>2 DEF StoredOnce
  <2>4. (\A x \in Sightings : Stored(x) => Stored(x)') /\ Stored(s)'
    BY <1>1, <2>1 DEF Stored
  <2>5. unaudited' \in SUBSET Sightings /\ unaudited' = unaudited
    BY <1>3 DEF DeliveryTypeOK
  <2>6. IngestRolledBack(s) => s \in unaudited'
    BY DEF IngestRolledBack
  <2>. QED
    BY <1>2, <2>1, <2>2, <2>3, <2>4, <2>5, <2>6
<1>4. CASE IngestRolledBack(s) \/ UNCHANGED serverVars
  <2>1. stored' = stored
    BY <1>4 DEF IngestRolledBack, serverVars
  <2>2. stored' \in [Sightings -> [Matches -> Nat]]
    BY <2>1 DEF DeliveryTypeOK
  <2>3. unaudited' \in SUBSET Sightings /\ unaudited \subseteq unaudited'
    BY <1>4 DEF IngestRolledBack, serverVars, DeliveryTypeOK
  <2>4. StoredOnce /\ HashKnown => StoredOnce' /\ HashKnown'
    BY <1>1, <2>1 DEF StoredOnce, HashKnown
  <2>5. \A x \in Sightings : Stored(x) => Stored(x)'
    BY <2>1 DEF Stored
  <2>6. Ingest(s) => Stored(s)'
    <3> HAVE Ingest(s)
    <3>. QED
      BY <1>1, IngestFacts DEF Stored
  <2>7. IngestRolledBack(s) => s \in unaudited'
    BY DEF IngestRolledBack
  <2>. QED
    BY <1>2, <2>2, <2>3, <2>4, <2>5, <2>6, <2>7
<1>. QED
  BY <1>3, <1>4

\* What a request does to the telemetry and the wire.
LEMMA PostFacts ==
  ASSUME DeliveryTypeOK, NEW s \in Sightings, NEW outcome \in Outcomes, PostSignal(s, outcome)
  PROVE  /\ stored' \in [Sightings -> [Matches -> Nat]]
         /\ unaudited' \in SUBSET Sightings /\ unaudited \subseteq unaudited'
         /\ match' \in [Sightings -> Matches] /\ rematched' \in SUBSET Sightings
         /\ changes' \in 0 .. MaxChanges
         /\ wire' \in SUBSET Sightings /\ wire \subseteq wire'
         /\ StoredOnce /\ HashKnown => StoredOnce' /\ HashKnown'
         /\ \A x \in Sightings : Stored(x) => Stored(x)'
         /\ outcome \in Accepted => Stored(s)' \/ s \in unaudited'
<1>1. /\ UNCHANGED registryVars
      /\ wire' = IF outcome = "delayed" THEN wire \cup {s} ELSE wire
  BY DEF PostSignal
<1>2. wire' \in SUBSET Sightings /\ wire \subseteq wire'
  BY <1>1 DEF DeliveryTypeOK
<1>3. /\ \/ Ingest(s) /\ UNCHANGED unaudited
         \/ IngestRolledBack(s)
         \/ UNCHANGED serverVars
      /\ outcome = "ok" => Ingest(s)
      /\ outcome = "unaudited" => IngestRolledBack(s)
  BY DEF PostSignal
<1>. QED
  BY <1>1, <1>2, <1>3, DedupFacts DEF Accepted

-----------------------------------------------------------------------------
(* Types, phases, the bound of the queue and the deduplication.            *)

LEMMA QueueInitInv == DeliveryInit => QueueInv
BY DeliveryBounds DEF DeliveryInit, QueueInv, DeliveryTypeOK, Phases, QueueBounded, StoredOnce, HashKnown, Sightings

LEMMA StartScanInv == QueueInv /\ StartScan => QueueInv'
BY EmptyFacts DEF QueueInv, DeliveryTypeOK, Phases, QueueBounded, StoredOnce, HashKnown, StartScan, serverVars, registryVars

LEMMA FlushRowInv ==
  ASSUME QueueInv, NEW outcome \in Outcomes, FlushRow(outcome)
  PROVE  QueueInv'
<1> DEFINE row == Head(todo)
<1>1. /\ todo \in Seq(QueueRows) /\ kept \in Seq(QueueRows)
      /\ Tail(todo) \in Seq(QueueRows) /\ row \in QueueRows
      /\ Len(todo) \in Nat /\ Len(Tail(todo)) = Len(todo) - 1
  BY TailFacts DEF QueueInv, DeliveryTypeOK, FlushRow
<1>2. row.signal \in Sightings
  BY <1>1, RowFacts
<1>3. /\ stored' \in [Sightings -> [Matches -> Nat]] /\ unaudited' \in SUBSET Sightings
      /\ match' \in [Sightings -> Matches] /\ rematched' \in SUBSET Sightings
      /\ changes' \in 0 .. MaxChanges /\ wire' \in SUBSET Sightings
      /\ StoredOnce' /\ HashKnown'
  BY <1>2, PostFacts DEF QueueInv, FlushRow
<1>4. /\ kept' \in Seq(QueueRows) /\ dropped' \in SUBSET Sightings
      /\ Len(kept') <= Len(kept) + 1
  <2>1. CASE UNCHANGED <<kept, dropped>>
    BY <2>1, <1>1 DEF QueueInv, DeliveryTypeOK
  <2>2. CASE row.retries + 1 >= MaxRetries /\ FlushFailure(outcome)
    BY <2>2, <1>1, <1>2 DEF QueueInv, DeliveryTypeOK, FlushFailure
  <2>3. CASE ~(row.retries + 1 >= MaxRetries) /\ FlushFailure(outcome)
    <3>1. row.retries + 1 < MaxRetries
      BY <2>3, <1>1, DeliveryBounds DEF QueueRows
    <3>2. [row EXCEPT !.retries = @ + 1] \in QueueRows
      BY <3>1, <1>1, RowFacts
    <3>3. kept' = Append(kept, [row EXCEPT !.retries = @ + 1]) /\ UNCHANGED dropped
      BY <2>3 DEF FlushFailure
    <3>. QED
      BY <3>2, <3>3, <1>1, AppendFacts DEF QueueInv, DeliveryTypeOK
  <2>. QED
    BY <2>1, <2>2, <2>3 DEF FlushRow
<1>5. /\ step = "flush" /\ todo' = Tail(todo)
      /\ UNCHANGED <<step, next, batch, disk, overflowed, crashes>>
  BY DEF FlushRow
<1>6. DeliveryTypeOK'
  BY <1>1, <1>3, <1>4, <1>5 DEF QueueInv, DeliveryTypeOK
<1>7. QueueBounded'
  <2>1. Len(kept) \in Nat /\ Len(kept') \in Nat
    BY <1>1, <1>4
  <2>. QED
    BY <2>1, <1>1, <1>4, <1>5, DeliveryBounds DEF QueueInv, QueueBounded
<1>. QED
  BY <1>3, <1>5, <1>6, <1>7 DEF QueueInv, Phases

LEMMA FlushCommitInv == QueueInv /\ FlushCommit => QueueInv'
<1> SUFFICES ASSUME QueueInv, FlushCommit PROVE QueueInv'
  OBVIOUS
<1>1. PICK last \in next - 1 .. MaxSignals :
        /\ batch' = [i \in 1 .. last + 1 - next |-> next + i - 1]
        /\ next' = last + 1
  BY DEF FlushCommit
<1>2. next \in 1 .. MaxSignals + 1 /\ last + 1 - next \in Nat
  BY <1>1, DeliveryBounds DEF QueueInv, DeliveryTypeOK
<1>3. batch' \in Seq(Sightings)
  <2>1. \A i \in 1 .. last + 1 - next : next + i - 1 \in Sightings
    BY <1>1, <1>2, DeliveryBounds DEF Sightings
  <2>. QED
    BY <1>1, <1>2, <2>1
<1>4. next' \in 1 .. MaxSignals + 1
  BY <1>1, <1>2, DeliveryBounds
<1>5. Len(kept) \in Nat /\ Len(todo) = 0 /\ Len(kept) + Len(todo) <= MaxQueue
  BY EmptyFacts DEF QueueInv, DeliveryTypeOK, QueueBounded, FlushCommit
<1>. QED
  BY <1>3, <1>4, <1>5, EmptyFacts, DeliveryBounds
  DEF QueueInv, DeliveryTypeOK, Phases, QueueBounded, StoredOnce, HashKnown, FlushCommit, serverVars, registryVars

\* enqueue leaves at most MaxQueue rows: it drops the oldest first.
LEMMA EnqueueFacts ==
  ASSUME QueueInv, NEW s \in Sightings, Enqueue(s)
  PROVE  /\ disk' \in Seq(QueueRows) /\ Len(disk') <= MaxQueue
         /\ overflowed' \in SUBSET Sightings
<1>1. disk \in Seq(QueueRows) /\ NewRow(s) \in QueueRows /\ Len(disk) <= MaxQueue /\ Len(disk) \in Nat
  BY RowFacts DEF QueueInv, DeliveryTypeOK, QueueBounded
<1>2. CASE Full
  <2>1. disk # <<>>
    BY <1>2, EmptyFacts, DeliveryBounds DEF Full
  <2>2. /\ Tail(disk) \in Seq(QueueRows) /\ Len(Tail(disk)) = Len(disk) - 1
        /\ Head(disk) \in QueueRows
    BY <1>1, <2>1, TailFacts
  <2>3. disk' = Append(Tail(disk), NewRow(s)) /\ overflowed' = overflowed \cup {Head(disk).signal}
    BY <1>2 DEF Enqueue
  <2>4. disk' \in Seq(QueueRows) /\ Len(disk') = Len(disk)
    BY <1>1, <2>2, <2>3, AppendFacts
  <2>. QED
    BY <1>1, <2>2, <2>3, <2>4, RowFacts DEF QueueInv, DeliveryTypeOK
<1>3. CASE ~Full
  <2>1. Len(disk) + 1 <= MaxQueue
    BY <1>1, <1>3, DeliveryBounds DEF Full
  <2>2. disk' = Append(disk, NewRow(s)) /\ overflowed' = overflowed
    BY <1>3 DEF Enqueue
  <2>3. disk' \in Seq(QueueRows) /\ Len(disk') = Len(disk) + 1
    BY <1>1, <2>2, AppendFacts
  <2>4. overflowed \in SUBSET Sightings
    BY DEF QueueInv, DeliveryTypeOK
  <2>. QED
    BY <1>1, <2>1, <2>2, <2>3, <2>4
<1>. QED
  BY <1>2, <1>3

LEMMA SendSignalInv ==
  ASSUME QueueInv, NEW outcome \in Outcomes, SendSignal(outcome)
  PROVE  QueueInv'
<1> DEFINE s == Head(batch)
<1>1. /\ step = "send" /\ UNCHANGED <<step, next, todo, kept, crashes>>
      /\ batch' = Tail(batch) /\ PostSignal(s, outcome)
  BY DEF SendSignal
<1>2. s \in Sightings /\ Tail(batch) \in Seq(Sightings)
  BY TailFacts DEF QueueInv, DeliveryTypeOK, SendSignal
<1>3. /\ stored' \in [Sightings -> [Matches -> Nat]] /\ unaudited' \in SUBSET Sightings
      /\ match' \in [Sightings -> Matches] /\ rematched' \in SUBSET Sightings
      /\ changes' \in 0 .. MaxChanges /\ wire' \in SUBSET Sightings
      /\ StoredOnce' /\ HashKnown'
  BY <1>1, <1>2, PostFacts DEF QueueInv
<1>4. /\ disk' \in Seq(QueueRows) /\ Len(disk') <= MaxQueue
      /\ overflowed' \in SUBSET Sightings /\ dropped' \in SUBSET Sightings
  <2>1. CASE outcome \in Accepted
    BY <2>1 DEF SendSignal, QueueInv, DeliveryTypeOK, QueueBounded
  <2>2. CASE outcome = "rejected"
    BY <2>2, <1>2 DEF SendSignal, Accepted, QueueInv, DeliveryTypeOK, QueueBounded
  <2>3. CASE outcome \notin Accepted \cup {"rejected"}
    BY <2>3, <1>2, EnqueueFacts DEF SendSignal, QueueInv, DeliveryTypeOK
  <2>. QED
    BY <2>1, <2>2, <2>3
<1>. QED
  BY <1>1, <1>2, <1>3, <1>4 DEF QueueInv, DeliveryTypeOK, Phases, QueueBounded

LEMMA FinishScanInv == QueueInv /\ FinishScan => QueueInv'
<1> SUFFICES ASSUME QueueInv, FinishScan PROVE QueueInv'
  OBVIOUS
<1>1. PICK first \in next .. MaxSignals + 1 :
        next' = first /\ dropped' = dropped \cup (next .. first - 1)
  BY DEF FinishScan
<1>2. next' \in 1 .. MaxSignals + 1 /\ next .. first - 1 \subseteq Sightings
  BY <1>1, DeliveryBounds DEF QueueInv, DeliveryTypeOK, Sightings
<1>. QED
  BY <1>1, <1>2 DEF QueueInv, DeliveryTypeOK, Phases, QueueBounded, StoredOnce, HashKnown, FinishScan, serverVars, registryVars

\* A batch holds signals.
LEMMA BatchedAreSignals == DeliveryTypeOK => Batched \subseteq Sightings
<1> SUFFICES ASSUME DeliveryTypeOK, NEW i \in DOMAIN batch PROVE batch[i] \in Sightings
  BY DEF Batched
<1>1. batch \in Seq(Sightings)
  BY DEF DeliveryTypeOK
<1>. QED
  BY <1>1

LEMMA QueueCrashInv == QueueInv /\ ConnectorCrash => QueueInv'
<1> SUFFICES ASSUME QueueInv, ConnectorCrash PROVE QueueInv'
  OBVIOUS
<1>1. PICK first \in 1 .. MaxSignals + 1 :
        next' = first /\ dropped' = dropped \cup Batched \cup (next .. first - 1)
  BY DEF ConnectorCrash
<1>2. next .. first - 1 \subseteq Sightings /\ Batched \subseteq Sightings
  <2>1. next \in 1 .. MaxSignals + 1
    BY DEF QueueInv, DeliveryTypeOK
  <2>. QED
    BY <1>1, <2>1, BatchedAreSignals, DeliveryBounds DEF QueueInv, Sightings
<1>3. crashes' \in 0 .. MaxCrashes
  BY DeliveryBounds DEF QueueInv, DeliveryTypeOK, ConnectorCrash
<1>4. Len(kept') + Len(todo') <= MaxQueue
  BY EmptyFacts, DeliveryBounds DEF ConnectorCrash
<1>. QED
  BY <1>1, <1>2, <1>3, <1>4, EmptyFacts
  DEF QueueInv, DeliveryTypeOK, Phases, QueueBounded, StoredOnce, HashKnown, ConnectorCrash, serverVars, registryVars

LEMMA LateArrivalInv ==
  ASSUME QueueInv, NEW s \in Sightings, LateArrival(s)
  PROVE  QueueInv'
<1>1. /\ wire' = wire \ {s} /\ UNCHANGED connectorVars /\ UNCHANGED registryVars
      /\ (Ingest(s) /\ UNCHANGED unaudited) \/ IngestRolledBack(s)
  BY DEF LateArrival
<1>2. /\ stored' \in [Sightings -> [Matches -> Nat]] /\ unaudited' \in SUBSET Sightings
      /\ match' \in [Sightings -> Matches] /\ rematched' \in SUBSET Sightings
      /\ changes' \in 0 .. MaxChanges
      /\ StoredOnce' /\ HashKnown'
  BY <1>1, DedupFacts DEF QueueInv
<1>. QED
  BY <1>1, <1>2 DEF QueueInv, DeliveryTypeOK, Phases, QueueBounded, connectorVars

\* A stored signal whose match changes is noted.
LEMMA RegistryChangesInv ==
  ASSUME QueueInv, NEW s \in Sightings, NEW m \in Matches, RegistryChanges(s, m)
  PROVE  QueueInv'
<1>1. /\ match' = [match EXCEPT ![s] = m] /\ changes < MaxChanges /\ changes' = changes + 1
      /\ rematched' = IF Stored(s) THEN rematched \cup {s} ELSE rematched
      /\ UNCHANGED <<stored, unaudited, wire>> /\ UNCHANGED connectorVars
  BY DEF RegistryChanges, serverVars
<1>2. DeliveryTypeOK'
  BY <1>1, DeliveryBounds DEF QueueInv, DeliveryTypeOK, connectorVars
<1>3. rematched \subseteq rematched'
  BY <1>1
<1>4. StoredOnce'
  BY <1>1, <1>3 DEF QueueInv, StoredOnce
<1>5. HashKnown'
  <2> SUFFICES ASSUME NEW x \in Sightings \ rematched', NEW n \in Matches, stored[x][n] > 0
               PROVE  n = match'[x]
    BY <1>1 DEF HashKnown
  <2>1. x # s
    BY <1>1 DEF Stored
  <2>. QED
    BY <1>1, <1>3, <2>1 DEF QueueInv, HashKnown, DeliveryTypeOK
<1>. QED
  BY <1>1, <1>2, <1>4, <1>5 DEF QueueInv, Phases, QueueBounded, connectorVars

\* Every step preserves the first invariant.
LEMMA QueueStepInv == QueueInv /\ [DeliveryNext]_deliveryVars => QueueInv'
<1> SUFFICES ASSUME QueueInv, [DeliveryNext]_deliveryVars PROVE QueueInv'
  OBVIOUS
<1>1. CASE UNCHANGED deliveryVars
  BY <1>1 DEF deliveryVars, connectorVars, serverVars, registryVars,
     QueueInv, DeliveryTypeOK, Phases, QueueBounded, StoredOnce, HashKnown
<1>2. CASE DeliveryNext
  BY <1>2, StartScanInv, FlushRowInv, FlushCommitInv, SendSignalInv, FinishScanInv,
     QueueCrashInv, LateArrivalInv, RegistryChangesInv DEF DeliveryNext
<1>. QED
  BY <1>1, <1>2

\* The first invariant holds in every reachable state.
LEMMA Invariance == DeliverySpec => []QueueInv
BY QueueInitInv, QueueStepInv, PTL DEF DeliverySpec

\* The variables of a connector keep their types.
THEOREM DeliveryTypes == DeliverySpec => []DeliveryTypeOK
<1>1. QueueInv => DeliveryTypeOK
  BY DEF QueueInv
<1>. QED
  BY <1>1, Invariance, PTL

\* The queue never holds more than MAX_QUEUE_SIZE signals, in its file or in
\* the transaction of a flush.
THEOREM QueueIsBounded == DeliverySpec => []QueueBounded
<1>1. QueueInv => QueueBounded
  BY DEF QueueInv
<1>. QED
  BY <1>1, Invariance, PTL

\* A signal becomes at most one telemetry event, until the registry matches the
\* tool of a stored one otherwise; then at most one for each match.
THEOREM NothingTwice == DeliverySpec => []StoredOnce
<1>1. QueueInv => StoredOnce
  BY DEF QueueInv
<1>. QED
  BY <1>1, Invariance, PTL
-----------------------------------------------------------------------------
(* No signal vanishes.  While flush works, the committed rows are no help:  *)
(* they are about to be replaced by what it keeps, so each of them must be  *)
(* in its hands, or safe.                                                   *)

SignalsOf(q) == {q[i].signal : i \in DOMAIN q}

Safe(s) == Stored(s) \/ s \in wire \/ s \in dropped \cup unaudited

Tried ==
  step = "flush" =>
    \A s \in Queued : Safe(s) \/ s \in SignalsOf(kept) \/ s \in SignalsOf(todo)

AInv == QueueInv /\ Tried /\ AccountedFor

\* The signals of a queue that got a row.
LEMMA SignalsOfAppend ==
  ASSUME NEW q \in Seq(QueueRows), NEW row \in QueueRows
  PROVE  SignalsOf(Append(q, row)) = SignalsOf(q) \cup {row.signal}
<1> DEFINE a == Append(q, row)
<1>1. /\ Len(q) \in Nat /\ DOMAIN q = 1 .. Len(q) /\ DOMAIN a = 1 .. Len(q) + 1
      /\ \A i \in 1 .. Len(q) : a[i] = q[i]
      /\ a[Len(q) + 1] = row
  BY AppendFacts
<1>2. DOMAIN a = DOMAIN q \cup {Len(q) + 1}
  BY <1>1
<1> HIDE DEF a
<1>. QED
  <2>1. SignalsOf(a) = SignalsOf(q) \cup {row.signal}
    BY <1>1, <1>2 DEF SignalsOf
  <2>. QED
    BY <2>1 DEF a

\* The signals of a queue that lost its head.
LEMMA SignalsOfTail ==
  ASSUME NEW q \in Seq(QueueRows), q # <<>>
  PROVE  SignalsOf(q) = SignalsOf(Tail(q)) \cup {Head(q).signal}
<1> DEFINE t == Tail(q)
<1>1. /\ Len(q) \in Nat /\ Len(q) >= 1
      /\ DOMAIN q = 1 .. Len(q) /\ DOMAIN t = 1 .. Len(q) - 1
      /\ Head(q) = q[1]
      /\ \A i \in 1 .. Len(q) - 1 : t[i] = q[i + 1]
  BY TailFacts
<1> HIDE DEF t
<1>2. \A i \in DOMAIN t : i + 1 \in DOMAIN q /\ t[i] = q[i + 1]
  BY <1>1
<1>3. \A i \in DOMAIN q : i = 1 \/ (i - 1 \in DOMAIN t /\ q[i] = t[i - 1])
  BY <1>1
<1>4. 1 \in DOMAIN q
  BY <1>1
<1>. QED
  <2>1. SignalsOf(q) \subseteq SignalsOf(t) \cup {Head(q).signal}
    BY <1>1, <1>3 DEF SignalsOf
  <2>2. SignalsOf(t) \cup {Head(q).signal} \subseteq SignalsOf(q)
    BY <1>1, <1>2, <1>4 DEF SignalsOf
  <2>. QED
    BY <2>1, <2>2 DEF t

\* What leaves the batch is its head.
LEMMA BatchedTail ==
  ASSUME DeliveryTypeOK, batch # <<>>, batch' = Tail(batch)
  PROVE  Batched = Batched' \cup {Head(batch)}
<1> DEFINE t == Tail(batch)
<1>1. /\ Len(batch) \in Nat /\ Len(batch) >= 1
      /\ DOMAIN batch = 1 .. Len(batch) /\ DOMAIN t = 1 .. Len(batch) - 1
      /\ Head(batch) = batch[1]
      /\ \A i \in 1 .. Len(batch) - 1 : t[i] = batch[i + 1]
  BY TailFacts DEF DeliveryTypeOK
<1>2. batch' = t
  OBVIOUS
<1> HIDE DEF t
<1>3. \A i \in DOMAIN t : i + 1 \in DOMAIN batch /\ t[i] = batch[i + 1]
  BY <1>1
<1>4. \A i \in DOMAIN batch : i = 1 \/ (i - 1 \in DOMAIN t /\ batch[i] = t[i - 1])
  BY <1>1
<1>5. 1 \in DOMAIN batch
  BY <1>1
<1>6. Batched' = {t[i] : i \in DOMAIN t}
  BY <1>2 DEF Batched
<1>7. Batched \subseteq Batched' \cup {Head(batch)}
  BY <1>1, <1>4, <1>6 DEF Batched
<1>8. Batched' \cup {Head(batch)} \subseteq Batched
  BY <1>1, <1>3, <1>5, <1>6 DEF Batched
<1>. QED
  BY <1>7, <1>8

\* The queue holds signals.
LEMMA QueuedAreSignals == DeliveryTypeOK => Queued \subseteq Sightings
<1> SUFFICES ASSUME DeliveryTypeOK, NEW i \in DOMAIN disk PROVE disk[i].signal \in Sightings
  BY DEF Queued
<1>1. disk[i] \in QueueRows
  BY DEF DeliveryTypeOK
<1>. QED
  BY <1>1, RowFacts

\* Whatever overflowed, is queued or waits is a signal, and those are numbers.
LEMMA SignalNumbers ==
  DeliveryTypeOK => overflowed \cup Queued \cup Batched \subseteq Nat
<1>1. Sightings \subseteq Nat
  BY DeliveryBounds DEF Sightings
<1>2. DeliveryTypeOK => overflowed \subseteq Sightings
  BY DEF DeliveryTypeOK
<1>. QED
  BY <1>1, <1>2, QueuedAreSignals, BatchedAreSignals

\* At the start no signal has been taken.
LEMMA InitAccounted == DeliveryInit => AInv
BY QueueInitInv, DeliveryBounds DEF AInv, DeliveryInit, Tried, AccountedFor

\* The rows that the flush selects are those it has to try.
LEMMA StartScanAccounted == AInv /\ StartScan => Tried' /\ AccountedFor'
<1> SUFFICES ASSUME AInv, StartScan PROVE Tried' /\ AccountedFor'
  OBVIOUS
<1>1. Queued' = Queued /\ SignalsOf(todo)' = Queued /\ Batched' = Batched
  BY DEF StartScan, Queued, SignalsOf, Batched
<1>2. UNCHANGED <<next, wire, stored, unaudited, dropped, overflowed>>
  BY DEF StartScan, serverVars
<1>. QED
  BY <1>1, <1>2 DEF AInv, Tried, AccountedFor, Stored

\* A row of the flush is delivered, kept, on the wire or given up.
LEMMA FlushRowAccounted ==
  ASSUME AInv, NEW outcome \in Outcomes, FlushRow(outcome)
  PROVE  Tried' /\ AccountedFor'
<1> DEFINE row == Head(todo)
<1>1. /\ todo \in Seq(QueueRows) /\ kept \in Seq(QueueRows) /\ row \in QueueRows
      /\ row.signal \in Sightings
      /\ SignalsOf(todo) = SignalsOf(todo') \cup {row.signal}
  BY TailFacts, SignalsOfTail, RowFacts DEF AInv, QueueInv, DeliveryTypeOK, FlushRow
<1>s. PICK sig \in Sightings : sig = row.signal
  BY <1>1
<1>2. /\ \A x \in Sightings : Stored(x) => Stored(x)'
      /\ wire \subseteq wire' /\ unaudited \subseteq unaudited'
      /\ outcome \in Accepted => Stored(sig)' \/ sig \in unaudited'
  BY <1>s, PostFacts DEF AInv, QueueInv, FlushRow
<1>3. /\ step = "flush" /\ UNCHANGED <<step, next, overflowed>>
      /\ Queued' = Queued /\ Batched' = Batched
  BY DEF FlushRow, Queued, Batched
<1>4. dropped \subseteq dropped' /\ SignalsOf(kept) \subseteq SignalsOf(kept')
      /\ \/ Stored(sig)' \/ sig \in dropped' \cup unaudited'
         \/ sig \in SignalsOf(kept')
  <2>1. CASE outcome \in Accepted /\ UNCHANGED <<kept, dropped>>
    BY <2>1, <1>2
  <2>2. CASE row.retries + 1 >= MaxRetries /\ FlushFailure(outcome)
    BY <2>2, <1>s DEF FlushFailure
  <2>3. CASE ~(row.retries + 1 >= MaxRetries) /\ FlushFailure(outcome)
    <3>1. row.retries + 1 < MaxRetries
      BY <2>3, <1>1, DeliveryBounds DEF QueueRows
    <3>2. /\ [row EXCEPT !.retries = @ + 1] \in QueueRows
          /\ [row EXCEPT !.retries = @ + 1].signal = row.signal
      BY <3>1, <1>1, RowFacts
    <3>3. kept' = Append(kept, [row EXCEPT !.retries = @ + 1]) /\ UNCHANGED dropped
      BY <2>3 DEF FlushFailure
    <3>4. SignalsOf(kept') = SignalsOf(kept) \cup {row.signal}
      BY <3>2, <3>3, <1>1, SignalsOfAppend
    <3>. QED
      BY <3>3, <3>4, <1>s
  <2>. QED
    BY <2>1, <2>2, <2>3 DEF FlushRow
<1>5. Queued \subseteq Sightings
  BY QueuedAreSignals DEF AInv, QueueInv
<1>6. 1 .. next - 1 \subseteq Sightings
  BY DeliveryBounds DEF AInv, QueueInv, DeliveryTypeOK, Sightings
<1>7. Tried'
  <2> SUFFICES ASSUME NEW s \in Queued
               PROVE  \/ Stored(s)' \/ s \in wire' \/ s \in dropped' \cup unaudited'
                      \/ s \in SignalsOf(kept') \/ s \in SignalsOf(todo')
    BY <1>3 DEF Tried, Safe, SignalsOf
  <2>1. Safe(s) \/ s \in SignalsOf(kept) \/ s \in SignalsOf(todo)
    BY <1>3 DEF AInv, Tried
  <2>. QED
    BY <2>1, <1>1, <1>s, <1>2, <1>4, <1>5 DEF Safe
<1>8. AccountedFor'
  BY <1>2, <1>3, <1>4, <1>6 DEF AInv, AccountedFor
<1>. QED
  BY <1>7, <1>8

\* The rows that the flush kept are the queue that it commits.
LEMMA FlushCommitAccounted == AInv /\ FlushCommit => Tried' /\ AccountedFor'
<1> SUFFICES ASSUME AInv, FlushCommit PROVE Tried' /\ AccountedFor'
  OBVIOUS
<1>1. PICK last \in next - 1 .. MaxSignals :
        /\ batch' = [i \in 1 .. last + 1 - next |-> next + i - 1]
        /\ next' = last + 1
  BY DEF FlushCommit
<1>2. next \in Nat /\ next >= 1 /\ last + 1 - next \in Nat
  BY <1>1, DeliveryBounds DEF AInv, QueueInv, DeliveryTypeOK
<1>3. /\ step = "flush" /\ step' = "send" /\ todo = <<>> /\ disk' = kept
      /\ UNCHANGED <<wire, stored, unaudited, dropped, overflowed>>
  BY DEF FlushCommit, serverVars
<1>4. Queued' = SignalsOf(kept) /\ SignalsOf(todo) = {}
  BY <1>3 DEF Queued, SignalsOf
<1>5. Batched = {}
  BY <1>3 DEF AInv, QueueInv, Phases, Batched
<1>6. \A s \in next .. last : s \in Batched'
  <2>1. \A s \in next .. last :
          s + 1 - next \in DOMAIN batch' /\ batch'[s + 1 - next] = s
    BY <1>1, <1>2
  <2>. QED
    BY <2>1 DEF Batched
<1>7. ASSUME NEW s \in 1 .. next - 1
      PROVE  Stored(s) \/ s \in Queued' \/ s \in wire \/ s \in dropped \cup overflowed \cup unaudited
  <2>1. Stored(s) \/ s \in Queued \/ s \in wire \/ s \in dropped \cup overflowed \cup unaudited
    BY <1>5 DEF AInv, AccountedFor
  <2>. QED
    BY <2>1, <1>3, <1>4 DEF AInv, Tried, Safe
<1>8. AccountedFor'
  <2>1. \A s \in 1 .. next' - 1 : s \in 1 .. next - 1 \/ s \in next .. last
    BY <1>1, <1>2
  <2>. QED
    BY <2>1, <1>3, <1>6, <1>7 DEF AccountedFor, Stored
<1>. QED
  BY <1>3, <1>8 DEF Tried

\* A signal that is enqueued is in the queue, and what overflows stays counted.
LEMMA EnqueueKeeps ==
  ASSUME DeliveryTypeOK, NEW s \in Sightings, Enqueue(s)
  PROVE  /\ s \in Queued' /\ overflowed \subseteq overflowed'
         /\ Queued \subseteq Queued' \cup overflowed'
<1>1. /\ disk \in Seq(QueueRows) /\ NewRow(s) \in QueueRows /\ NewRow(s).signal = s
      /\ Queued = SignalsOf(disk) /\ Queued' = SignalsOf(disk')
  BY RowFacts DEF DeliveryTypeOK, Queued, SignalsOf
<1>2. CASE Full
  <2>1. disk # <<>>
    BY <1>2, EmptyFacts, DeliveryBounds DEF Full
  <2>2. Tail(disk) \in Seq(QueueRows) /\ SignalsOf(disk) = SignalsOf(Tail(disk)) \cup {Head(disk).signal}
    BY <1>1, <2>1, TailFacts, SignalsOfTail
  <2>3. disk' = Append(Tail(disk), NewRow(s)) /\ overflowed' = overflowed \cup {Head(disk).signal}
    BY <1>2 DEF Enqueue
  <2>4. SignalsOf(disk') = SignalsOf(Tail(disk)) \cup {s}
    BY <1>1, <2>2, <2>3, SignalsOfAppend
  <2>. QED
    BY <1>1, <2>2, <2>3, <2>4
<1>3. CASE ~Full
  <2>1. disk' = Append(disk, NewRow(s)) /\ overflowed' = overflowed
    BY <1>3 DEF Enqueue
  <2>2. SignalsOf(disk') = SignalsOf(disk) \cup {s}
    BY <1>1, <2>1, SignalsOfAppend
  <2>. QED
    BY <1>1, <2>1, <2>2
<1>. QED
  BY <1>2, <1>3

\* A signal of the scan is stored, on the wire, enqueued or refused.
LEMMA SendSignalAccounted ==
  ASSUME AInv, NEW outcome \in Outcomes, SendSignal(outcome)
  PROVE  Tried' /\ AccountedFor'
<1>0. /\ DeliveryTypeOK /\ step = "send" /\ UNCHANGED <<step, next>>
      /\ batch # <<>> /\ batch' = Tail(batch) /\ PostSignal(Head(batch), outcome)
  BY DEF SendSignal, AInv, QueueInv
<1>h. PICK h \in Sightings : h = Head(batch)
  BY <1>0, TailFacts DEF DeliveryTypeOK
<1>1. /\ DeliveryTypeOK /\ step = "send" /\ UNCHANGED <<step, next>>
      /\ batch # <<>> /\ batch' = Tail(batch) /\ PostSignal(h, outcome)
  BY <1>0, <1>h
<1>2. Batched = Batched' \cup {h}
  BY <1>1, <1>h, BatchedTail
<1>3. /\ \A x \in Sightings : Stored(x) => Stored(x)'
      /\ wire \subseteq wire' /\ unaudited \subseteq unaudited'
      /\ outcome \in Accepted => Stored(h)' \/ h \in unaudited'
  BY <1>1, <1>2, PostFacts
<1>4. /\ dropped \subseteq dropped' /\ overflowed \subseteq overflowed'
      /\ Queued \subseteq Queued' \cup overflowed'
      /\ Stored(h)' \/ h \in dropped' \cup unaudited' \/ h \in Queued'
  <2>1. CASE outcome \in Accepted
    BY <2>1, <1>3 DEF SendSignal, Queued
  <2>2. CASE outcome = "rejected"
    BY <2>2, <1>h DEF SendSignal, Accepted, Queued
  <2>3. CASE outcome \notin Accepted \cup {"rejected"}
    BY <2>3, <1>1, <1>h, EnqueueKeeps DEF SendSignal
  <2>. QED
    BY <2>1, <2>2, <2>3
<1>5. 1 .. next - 1 \subseteq Sightings
  BY <1>1, DeliveryBounds DEF DeliveryTypeOK, Sightings
<1>6. AccountedFor'
  <2> SUFFICES ASSUME NEW s \in 1 .. next - 1
               PROVE  \/ Stored(s)'
                      \/ s \in Queued' \cup Batched' \cup wire'
                      \/ s \in dropped' \cup overflowed' \cup unaudited'
    BY <1>1 DEF AccountedFor
  <2>1. \/ Stored(s)
        \/ s \in Queued \cup Batched \cup wire
        \/ s \in dropped \cup overflowed \cup unaudited
    BY DEF AInv, AccountedFor
  <2>. QED
    BY <2>1, <1>2, <1>3, <1>4, <1>5
<1>. QED
  BY <1>1, <1>6 DEF Tried

\* Signals that come while the scan runs fall into no window and are let go.
LEMMA FinishScanAccounted == AInv /\ FinishScan => Tried' /\ AccountedFor'
<1> SUFFICES ASSUME AInv, FinishScan PROVE Tried' /\ AccountedFor'
  OBVIOUS
<1>1. PICK first \in next .. MaxSignals + 1 :
        next' = first /\ dropped' = dropped \cup (next .. first - 1)
  BY DEF FinishScan
<1>2. /\ step' = "sleep" /\ UNCHANGED <<wire, stored, unaudited, overflowed>>
      /\ Queued' = Queued /\ Batched' = Batched
  BY DEF FinishScan, serverVars, Queued, Batched
<1>3. \A s \in 1 .. first - 1 : s \in 1 .. next - 1 \/ s \in next .. first - 1
  BY <1>1, DeliveryBounds DEF AInv, QueueInv, DeliveryTypeOK
<1>. QED
  BY <1>1, <1>2, <1>3 DEF AInv, Tried, AccountedFor, Stored

\* A restart falls back to the committed queue, and loses the batch with a reason.
LEMMA CrashAccounted == AInv /\ ConnectorCrash => Tried' /\ AccountedFor'
<1> SUFFICES ASSUME AInv, ConnectorCrash PROVE Tried' /\ AccountedFor'
  OBVIOUS
<1>1. PICK first \in 1 .. MaxSignals + 1 :
        next' = first /\ dropped' = dropped \cup Batched \cup (next .. first - 1)
  BY DEF ConnectorCrash
<1>2. step' = "sleep" /\ UNCHANGED <<wire, stored, unaudited, overflowed>> /\ Queued' = Queued
  BY DEF ConnectorCrash, serverVars, Queued
<1>3. \A s \in 1 .. first - 1 : s \in 1 .. next - 1 \/ s \in next .. first - 1
  BY <1>1, DeliveryBounds DEF AInv, QueueInv, DeliveryTypeOK
<1>. QED
  BY <1>1, <1>2, <1>3 DEF AInv, Tried, AccountedFor, Stored

\* A request that arrives late is stored, or taken back by its audit entry.
LEMMA LateArrivalAccounted ==
  ASSUME AInv, NEW x \in Sightings, LateArrival(x)
  PROVE  Tried' /\ AccountedFor'
<1>1. /\ wire' = wire \ {x}
      /\ UNCHANGED <<step, next, dropped, overflowed>>
      /\ Queued' = Queued /\ Batched' = Batched
      /\ SignalsOf(kept)' = SignalsOf(kept) /\ SignalsOf(todo)' = SignalsOf(todo)
  BY DEF LateArrival, connectorVars, Queued, Batched, SignalsOf
<1>2. /\ Queued \subseteq Sightings
      /\ 1 .. next - 1 \subseteq Sightings
  <2>1. Queued \subseteq Sightings
    BY QueuedAreSignals DEF AInv, QueueInv
  <2>2. 1 .. next - 1 \subseteq Sightings
    BY DeliveryBounds DEF AInv, QueueInv, DeliveryTypeOK, Sightings
  <2>. QED
    BY <2>1, <2>2
<1>3. /\ \A s \in Sightings : Stored(s) => Stored(s)'
      /\ unaudited \subseteq unaudited'
      /\ Stored(x)' \/ x \in unaudited'
  BY DedupFacts DEF AInv, QueueInv, LateArrival
<1>4. Tried'
  BY <1>1, <1>2, <1>3 DEF AInv, Tried, Safe
<1>5. AccountedFor'
  BY <1>1, <1>2, <1>3 DEF AInv, AccountedFor
<1>. QED
  BY <1>4, <1>5

\* The registry changes what a signal matches, not where it is.
LEMMA RegistryChangesAccounted ==
  ASSUME AInv, NEW x \in Sightings, NEW m \in Matches, RegistryChanges(x, m)
  PROVE  Tried' /\ AccountedFor'
BY DEF RegistryChanges, connectorVars, serverVars, AInv, Tried, AccountedFor, Safe, Stored,
   SignalsOf, Queued, Batched

\* Every step preserves the second invariant.
LEMMA StepAccounted == AInv /\ [DeliveryNext]_deliveryVars => AInv'
<1> SUFFICES ASSUME AInv, [DeliveryNext]_deliveryVars PROVE AInv'
  OBVIOUS
<1>1. QueueInv'
  BY QueueStepInv DEF AInv
<1>2. CASE UNCHANGED deliveryVars
  BY <1>2, <1>1 DEF deliveryVars, connectorVars, serverVars, AInv, Tried, AccountedFor, Safe, Stored,
     SignalsOf, Queued, Batched
<1>3. CASE DeliveryNext
  <2>1. Tried' /\ AccountedFor'
    BY <1>3, StartScanAccounted, FlushRowAccounted, FlushCommitAccounted,
       SendSignalAccounted, FinishScanAccounted, CrashAccounted, LateArrivalAccounted,
       RegistryChangesAccounted
    DEF DeliveryNext
  <2>. QED
    BY <1>1, <2>1 DEF AInv
<1>. QED
  BY <1>2, <1>3

\* A signal that a scan took from its source is stored, queued, waiting or
\* under way, or let go for a reason, a failed audit entry of the server being
\* one: neither the rows that flush holds
\* uncommitted nor a restart lets one vanish.
THEOREM NothingVanishes == DeliverySpec => []AccountedFor
<1>1. AInv => AccountedFor
  BY DEF AInv
<1>. QED
  BY <1>1, InitAccounted, StepAccounted, PTL DEF DeliverySpec

-----------------------------------------------------------------------------
(* The order of the signals.  Until the connector restarts, the windows go  *)
(* on from one another, so everything is in the order of the sources: what  *)
(* overflowed, the queue, the batch and what no window has covered.         *)

OlderFirst(A, B) == \A a \in A, b \in B : a < b

Rising(q) == \A i, j \in DOMAIN q : i < j => q[i].signal < q[j].signal

BatchRises == \A i, j \in DOMAIN batch : i < j => batch[i] < batch[j]

InOrder ==
  /\ Rising(disk) /\ Rising(todo) /\ Rising(kept) /\ BatchRises
  /\ OlderFirst(SignalsOf(kept), SignalsOf(todo))
  /\ SignalsOf(kept) \subseteq Queued /\ SignalsOf(todo) \subseteq Queued
  /\ OlderFirst(Queued, Batched)
  /\ OlderFirst(overflowed, Queued \cup Batched)
  /\ OlderFirst(overflowed \cup Queued \cup Batched, {next})

OInv == QueueInv /\ (crashes = 0 => InOrder)

\* The first row of a rising queue is older than the rest.
LEMMA RisingTail ==
  ASSUME NEW q \in Seq(QueueRows), q # <<>>, Rising(q)
  PROVE  Rising(Tail(q)) /\ OlderFirst({Head(q).signal}, SignalsOf(Tail(q)))
<1> DEFINE t == Tail(q)
<1>1. /\ Len(q) \in Nat /\ Len(q) >= 1
      /\ DOMAIN q = 1 .. Len(q) /\ DOMAIN t = 1 .. Len(q) - 1
      /\ Head(q) = q[1]
      /\ \A i \in 1 .. Len(q) - 1 : t[i] = q[i + 1]
  BY TailFacts
<1> HIDE DEF t
<1>2. \A i \in DOMAIN t : i \in Nat /\ i >= 1 /\ i + 1 \in DOMAIN q /\ t[i] = q[i + 1]
  BY <1>1
<1>3. ASSUME NEW i \in DOMAIN t, NEW j \in DOMAIN t, i < j PROVE t[i].signal < t[j].signal
  <2>1. i + 1 < j + 1
    BY <1>2, <1>3
  <2>. QED
    BY <1>2, <2>1 DEF Rising
<1>4. ASSUME NEW i \in DOMAIN t PROVE Head(q).signal < t[i].signal
  <2>1. 1 \in DOMAIN q /\ 1 < i + 1
    BY <1>1, <1>2
  <2>. QED
    BY <1>1, <1>2, <2>1 DEF Rising
<1>5. Rising(t) /\ OlderFirst({Head(q).signal}, SignalsOf(t))
  BY <1>3, <1>4 DEF Rising, OlderFirst, SignalsOf
<1>. QED
  BY <1>5 DEF t

\* A newer row can be added to a rising queue.
LEMMA RisingAppend ==
  ASSUME NEW q \in Seq(QueueRows), NEW row \in QueueRows, Rising(q), OlderFirst(SignalsOf(q), {row.signal})
  PROVE  Rising(Append(q, row))
<1> DEFINE a == Append(q, row)
<1>1. /\ Len(q) \in Nat /\ DOMAIN q = 1 .. Len(q) /\ DOMAIN a = 1 .. Len(q) + 1
      /\ \A i \in 1 .. Len(q) : a[i] = q[i]
      /\ a[Len(q) + 1] = row
  BY AppendFacts
<1> HIDE DEF a
<1>2. ASSUME NEW i \in DOMAIN a, NEW j \in DOMAIN a, i < j PROVE a[i].signal < a[j].signal
  <2>1. i \in DOMAIN q /\ a[i] = q[i]
    BY <1>1, <1>2
  <2>2. CASE j \in DOMAIN q
    BY <1>1, <1>2, <2>1, <2>2 DEF Rising
  <2>3. CASE j \notin DOMAIN q
    <3>1. a[j] = row
      BY <1>1, <2>3
    <3>. QED
      BY <2>1, <3>1 DEF OlderFirst, SignalsOf
  <2>. QED
    BY <2>2, <2>3
<1>. QED
  BY <1>2 DEF Rising, a

\* The first signal of a batch is older than the rest.
LEMMA BatchTail ==
  ASSUME DeliveryTypeOK, batch # <<>>, batch' = Tail(batch), BatchRises
  PROVE  BatchRises' /\ OlderFirst({Head(batch)}, Batched')
<1> DEFINE t == Tail(batch)
<1>1. /\ Len(batch) \in Nat /\ Len(batch) >= 1
      /\ DOMAIN batch = 1 .. Len(batch) /\ DOMAIN t = 1 .. Len(batch) - 1
      /\ Head(batch) = batch[1]
      /\ \A i \in 1 .. Len(batch) - 1 : t[i] = batch[i + 1]
  BY TailFacts DEF DeliveryTypeOK
<1>2. batch' = t
  OBVIOUS
<1> HIDE DEF t
<1>3. \A i \in DOMAIN batch' : i \in Nat /\ i >= 1 /\ i + 1 \in DOMAIN batch /\ batch'[i] = batch[i + 1]
  BY <1>1, <1>2
<1>4. ASSUME NEW i \in DOMAIN batch', NEW j \in DOMAIN batch', i < j PROVE batch'[i] < batch'[j]
  <2>1. i + 1 < j + 1
    BY <1>3, <1>4
  <2>. QED
    BY <1>3, <2>1 DEF BatchRises
<1>5. ASSUME NEW i \in DOMAIN batch' PROVE Head(batch) < batch'[i]
  <2>1. 1 \in DOMAIN batch /\ 1 < i + 1
    BY <1>1, <1>3
  <2>. QED
    BY <1>1, <1>3, <2>1 DEF BatchRises
<1>6. BatchRises'
  BY <1>4 DEF BatchRises
<1>7. OlderFirst({Head(batch)}, Batched')
  BY <1>5 DEF OlderFirst, Batched
<1>. QED
  BY <1>6, <1>7

\* Nothing is out of order at the start.
LEMMA InitOrdered == DeliveryInit => OInv
<1> SUFFICES ASSUME DeliveryInit PROVE OInv
  OBVIOUS
<1>1. DOMAIN disk = {} /\ DOMAIN todo = {} /\ DOMAIN kept = {} /\ DOMAIN batch = {} /\ overflowed = {}
  BY DEF DeliveryInit
<1>2. Queued = {} /\ Batched = {} /\ SignalsOf(kept) = {} /\ SignalsOf(todo) = {}
  BY <1>1 DEF Queued, Batched, SignalsOf
<1>3. InOrder
  BY <1>1, <1>2 DEF InOrder, Rising, BatchRises, OlderFirst
<1>. QED
  BY <1>3, QueueInitInv DEF OInv

\* The flush takes the rows as they are in the queue.
LEMMA StartScanOrdered == QueueInv /\ InOrder /\ StartScan => InOrder'
<1> SUFFICES ASSUME QueueInv, InOrder, StartScan PROVE InOrder'
  OBVIOUS
<1>1. /\ todo' = disk /\ kept' = <<>> /\ disk' = disk /\ batch' = batch /\ overflowed' = overflowed
      /\ next' = next
  BY DEF StartScan
<1>2. /\ SignalsOf(todo)' = Queued /\ SignalsOf(kept)' = {} /\ Queued' = Queued /\ Batched' = Batched
      /\ DOMAIN kept' = {}
  BY <1>1 DEF SignalsOf, Queued, Batched
<1>3. Rising(disk)' /\ Rising(todo)' /\ Rising(kept)' /\ BatchRises'
  BY <1>1, <1>2 DEF InOrder, Rising, BatchRises
<1>. QED
  BY <1>1, <1>2, <1>3 DEF InOrder, OlderFirst

\* What flush keeps stays in the order of the queue.
LEMMA FlushRowOrdered ==
  ASSUME QueueInv, InOrder, NEW outcome \in Outcomes, FlushRow(outcome)
  PROVE  InOrder'
<1> DEFINE row == Head(todo)
<1>1. /\ todo \in Seq(QueueRows) /\ todo # <<>> /\ kept \in Seq(QueueRows) /\ row \in QueueRows /\ row.signal \in Sightings
      /\ todo' = Tail(todo) /\ UNCHANGED <<next, batch, disk, overflowed>>
  BY TailFacts, RowFacts DEF QueueInv, DeliveryTypeOK, FlushRow
<1>2. /\ SignalsOf(todo) = SignalsOf(todo)' \cup {row.signal}
      /\ Rising(todo)' /\ OlderFirst({row.signal}, SignalsOf(todo)')
  <2>1. /\ SignalsOf(todo) = SignalsOf(Tail(todo)) \cup {row.signal}
        /\ Rising(Tail(todo)) /\ OlderFirst({row.signal}, SignalsOf(Tail(todo)))
    BY <1>1, SignalsOfTail, RisingTail DEF InOrder
  <2>2. SignalsOf(todo)' = SignalsOf(Tail(todo)) /\ (Rising(todo)' <=> Rising(Tail(todo)))
    BY <1>1 DEF SignalsOf, Rising
  <2>. QED
    BY <2>1, <2>2
<1>3. /\ Rising(kept)' /\ SignalsOf(kept)' \subseteq SignalsOf(kept) \cup {row.signal}
  <2>1. CASE kept' = kept
    BY <2>1 DEF InOrder, Rising, SignalsOf
  <2>2. CASE kept' # kept
    <3>1. row.retries + 1 < MaxRetries /\ kept' = Append(kept, [row EXCEPT !.retries = @ + 1])
      BY <1>1, <2>2, DeliveryBounds DEF FlushRow, FlushFailure, QueueRows
    <3> DEFINE again == [row EXCEPT !.retries = @ + 1]
    <3>2. again \in QueueRows /\ again.signal = row.signal
      BY <3>1, <1>1, RowFacts
    <3>3. kept' = Append(kept, again)
      BY <3>1
    <3> HIDE DEF again
    <3>4. OlderFirst(SignalsOf(kept), {again.signal})
      BY <1>2, <3>2 DEF InOrder, OlderFirst
    <3>5. Rising(Append(kept, again)) /\ SignalsOf(Append(kept, again)) = SignalsOf(kept) \cup {row.signal}
      BY <1>1, <3>2, <3>4, SignalsOfAppend, RisingAppend DEF InOrder
    <3>. QED
      BY <3>3, <3>5 DEF Rising, SignalsOf
  <2>. QED
    BY <2>1, <2>2
<1>4. Queued' = Queued /\ Batched' = Batched /\ Rising(disk)' /\ BatchRises'
  BY <1>1 DEF InOrder, Queued, Batched, Rising, BatchRises
<1>5. OlderFirst(SignalsOf(kept)', SignalsOf(todo)')
  BY <1>2, <1>3 DEF InOrder, OlderFirst
<1>6. SignalsOf(kept)' \subseteq Queued /\ SignalsOf(todo)' \subseteq Queued
  BY <1>2, <1>3 DEF InOrder
<1> HIDE DEF row
<1>7. OlderFirst(SignalsOf(kept), SignalsOf(todo))'
  BY <1>5 DEF OlderFirst
<1>8. OlderFirst(Queued, Batched)' /\ OlderFirst(overflowed, Queued \cup Batched)'
      /\ OlderFirst(overflowed \cup Queued \cup Batched, {next})'
  BY <1>1, <1>4 DEF InOrder, OlderFirst
<1>. QED
  BY <1>2, <1>3, <1>4, <1>6, <1>7, <1>8 DEF InOrder

\* A batch begins where the last window ended.
LEMMA FlushCommitOrdered == QueueInv /\ InOrder /\ FlushCommit => InOrder'
<1> SUFFICES ASSUME QueueInv, InOrder, FlushCommit PROVE InOrder'
  OBVIOUS
<1>1. PICK last \in next - 1 .. MaxSignals :
        /\ batch' = [i \in 1 .. last + 1 - next |-> next + i - 1]
        /\ next' = last + 1
  BY DEF FlushCommit
<1>2. /\ next \in Nat /\ next >= 1 /\ last \in Nat /\ last + 1 - next \in Nat /\ next' \in Nat /\ next <= next'
      /\ Queued \subseteq Nat /\ overflowed \subseteq Nat
  <2>1. next \in Nat /\ next >= 1
    BY DeliveryBounds DEF QueueInv, DeliveryTypeOK
  <2>2. last \in Nat /\ last + 1 - next \in Nat /\ next' \in Nat /\ next <= next'
    BY <1>1, <2>1, DeliveryBounds
  <2>3. Queued \subseteq Nat /\ overflowed \subseteq Nat
    BY SignalNumbers DEF QueueInv
  <2>. QED
    BY <2>1, <2>2, <2>3
<1>3. /\ todo' = <<>> /\ kept' = <<>> /\ disk' = kept /\ overflowed' = overflowed
  BY DEF FlushCommit
<1>4. /\ Queued' = SignalsOf(kept) /\ SignalsOf(kept)' = {} /\ SignalsOf(todo)' = {}
      /\ Rising(disk)' /\ Rising(todo)' /\ Rising(kept)'
  BY <1>3 DEF InOrder, Queued, SignalsOf, Rising
<1>5. \A i \in DOMAIN batch' : /\ i \in Nat /\ batch'[i] = next + i - 1 /\ batch'[i] \in Nat
                               /\ next <= batch'[i] /\ batch'[i] < next'
  BY <1>1, <1>2
<1>6. BatchRises'
  BY <1>2, <1>5 DEF BatchRises
<1>7. \A b \in Batched' : b \in Nat /\ next <= b /\ b < next'
  BY <1>5 DEF Batched
<1>8. \A a \in overflowed \cup Queued : a \in Nat /\ a < next
  BY <1>2 DEF InOrder, OlderFirst
<1>9. Queued' \subseteq Queued
  BY <1>4 DEF InOrder
<1>10. OlderFirst(Queued', Batched') /\ OlderFirst(overflowed', Batched')
  <2>1. \A a, b \in Nat : a < next /\ next <= b => a < b
    BY <1>2
  <2>. QED
    BY <1>3, <1>7, <1>8, <1>9, <2>1 DEF OlderFirst
<1>11. OlderFirst(overflowed' \cup Queued' \cup Batched', {next'})
  <2>1. \A a \in Nat : a < next => a < next'
    BY <1>2
  <2>. QED
    BY <1>3, <1>7, <1>8, <1>9, <2>1 DEF OlderFirst
<1>12. OlderFirst(overflowed', Queued')
  BY <1>3, <1>9 DEF InOrder, OlderFirst
<1>13. OlderFirst(Queued, Batched)' /\ OlderFirst(overflowed, Queued \cup Batched)'
       /\ OlderFirst(overflowed \cup Queued \cup Batched, {next})' /\ OlderFirst(SignalsOf(kept), SignalsOf(todo))'
  BY <1>4, <1>10, <1>11, <1>12 DEF OlderFirst
<1>. QED
  BY <1>4, <1>6, <1>13 DEF InOrder

\* The oldest row makes room for a signal that is newer than all rows.
LEMMA EnqueueOrdered ==
  ASSUME QueueInv, Rising(disk), NEW s \in Sightings, Enqueue(s), OlderFirst(Queued, {s})
  PROVE  /\ Rising(disk)' /\ Queued' \subseteq Queued \cup {s}
         /\ overflowed' \subseteq overflowed \cup Queued
         /\ OlderFirst(overflowed' \ overflowed, Queued')
<1>1. /\ disk \in Seq(QueueRows) /\ NewRow(s) \in QueueRows /\ NewRow(s).signal = s
      /\ Queued = SignalsOf(disk) /\ Queued' = SignalsOf(disk')
  BY RowFacts DEF QueueInv, DeliveryTypeOK, Queued, SignalsOf
<1>2. CASE Full
  <2> DEFINE t == Tail(disk)
             h == Head(disk).signal
  <2>1. disk # <<>>
    BY <1>2, EmptyFacts, DeliveryBounds DEF Full
  <2>2. /\ t \in Seq(QueueRows) /\ SignalsOf(disk) = SignalsOf(t) \cup {h}
        /\ Rising(t) /\ OlderFirst({h}, SignalsOf(t))
    BY <1>1, <2>1, TailFacts, SignalsOfTail, RisingTail
  <2>3. disk' = Append(t, NewRow(s)) /\ overflowed' = overflowed \cup {h}
    BY <1>2 DEF Enqueue
  <2> HIDE DEF t, h
  <2>4. OlderFirst(SignalsOf(t), {s}) /\ h < s
    BY <1>1, <2>2 DEF OlderFirst
  <2>5. SignalsOf(disk') = SignalsOf(t) \cup {s} /\ Rising(disk')
    BY <1>1, <2>2, <2>3, <2>4, SignalsOfAppend, RisingAppend
  <2>6. OlderFirst({h}, Queued')
    BY <1>1, <2>2, <2>4, <2>5 DEF OlderFirst
  <2>7. overflowed' \ overflowed \subseteq {h}
    BY <2>3
  <2>8. OlderFirst(overflowed' \ overflowed, Queued')
    BY <2>6, <2>7 DEF OlderFirst
  <2>9. Rising(disk)'
    BY <2>5 DEF Rising
  <2>. QED
    BY <1>1, <2>2, <2>3, <2>5, <2>8, <2>9
<1>3. CASE ~Full
  <2>1. disk' = Append(disk, NewRow(s)) /\ overflowed' = overflowed
    BY <1>3 DEF Enqueue
  <2>2. SignalsOf(disk') = SignalsOf(disk) \cup {s} /\ Rising(disk')
    BY <1>1, <2>1, SignalsOfAppend, RisingAppend
  <2>3. Rising(disk)'
    BY <2>2 DEF Rising
  <2>. QED
    BY <1>1, <2>1, <2>2, <2>3 DEF OlderFirst
<1>. QED
  BY <1>2, <1>3

\* A signal goes from the head of the batch to the tail of the queue.
LEMMA SendSignalOrdered ==
  ASSUME QueueInv, InOrder, NEW outcome \in Outcomes, SendSignal(outcome)
  PROVE  InOrder'
<1> DEFINE h == Head(batch)
<1>1. /\ DeliveryTypeOK /\ batch # <<>> /\ batch' = Tail(batch) /\ UNCHANGED <<next, todo, kept>>
      /\ todo = <<>> /\ kept = <<>>
  BY DEF SendSignal, QueueInv, Phases
<1>2. h \in Sightings /\ Batched = Batched' \cup {h} /\ BatchRises' /\ OlderFirst({h}, Batched')
  BY <1>1, TailFacts, BatchedTail, BatchTail DEF DeliveryTypeOK, InOrder
<1> HIDE DEF h
<1>3. OlderFirst(Queued, {h}) /\ Rising(disk)
  BY <1>2 DEF InOrder, OlderFirst
<1>4. /\ Rising(disk)' /\ Queued' \subseteq Queued \cup {h} /\ overflowed' \subseteq overflowed \cup Queued
      /\ OlderFirst(overflowed' \ overflowed, Queued')
  <2>1. CASE outcome \in Accepted \cup {"rejected"}
    <3>1. UNCHANGED <<disk, overflowed>>
      BY <2>1 DEF SendSignal
    <3>. QED
      BY <1>3, <3>1 DEF Rising, Queued, OlderFirst
  <2>2. CASE outcome \notin Accepted \cup {"rejected"}
    BY <1>2, <1>3, <2>2, EnqueueOrdered DEF SendSignal, h
  <2>. QED
    BY <2>1, <2>2
<1>5. SignalsOf(kept)' = {} /\ SignalsOf(todo)' = {} /\ Rising(kept)' /\ Rising(todo)'
  BY <1>1 DEF SignalsOf, Rising
<1>6. OlderFirst(Queued', Batched')
  BY <1>2, <1>4 DEF InOrder, OlderFirst
<1>7. OlderFirst(overflowed', Queued' \cup Batched')
  <2>1. ASSUME NEW a \in overflowed', NEW b \in Queued' PROVE a < b
    <3>1. CASE a \in overflowed
      <4>1. b \in Queued \cup Batched
        BY <1>2, <1>4
      <4>. QED
        BY <3>1, <4>1 DEF InOrder, OlderFirst
    <3>2. CASE a \notin overflowed
      BY <1>4, <3>2 DEF OlderFirst
    <3>. QED
      BY <3>1, <3>2
  <2>2. ASSUME NEW a \in overflowed', NEW b \in Batched' PROVE a < b
    BY <1>2, <1>4 DEF InOrder, OlderFirst
  <2>. QED
    BY <2>1, <2>2 DEF OlderFirst
<1>8. OlderFirst(overflowed' \cup Queued' \cup Batched', {next'})
  <2>1. overflowed' \cup Queued' \cup Batched' \subseteq overflowed \cup Queued \cup Batched
    BY <1>2, <1>4
  <2>. QED
    BY <1>1, <2>1 DEF InOrder, OlderFirst
<1>9. OlderFirst(Queued, Batched)' /\ OlderFirst(overflowed, Queued \cup Batched)'
      /\ OlderFirst(overflowed \cup Queued \cup Batched, {next})' /\ OlderFirst(SignalsOf(kept), SignalsOf(todo))'
  BY <1>5, <1>6, <1>7, <1>8 DEF OlderFirst
<1>. QED
  BY <1>2, <1>4, <1>5, <1>9 DEF InOrder

\* The next window begins no earlier than this one ended.
LEMMA FinishScanOrdered == QueueInv /\ InOrder /\ FinishScan => InOrder'
<1> SUFFICES ASSUME QueueInv, InOrder, FinishScan PROVE InOrder'
  OBVIOUS
<1>1. next' \in next .. MaxSignals + 1 /\ UNCHANGED <<batch, disk, kept, todo, overflowed>>
  BY DEF FinishScan
<1>2. next \in Nat /\ next' \in Nat /\ next <= next'
  BY <1>1, DeliveryBounds DEF QueueInv, DeliveryTypeOK
<1>3. /\ Queued' = Queued /\ Batched' = Batched /\ SignalsOf(kept)' = SignalsOf(kept)
      /\ SignalsOf(todo)' = SignalsOf(todo)
      /\ Rising(disk)' /\ Rising(todo)' /\ Rising(kept)' /\ BatchRises'
  BY <1>1 DEF InOrder, Queued, Batched, SignalsOf, Rising, BatchRises
<1>4. overflowed \cup Queued \cup Batched \subseteq Nat
  BY SignalNumbers DEF QueueInv
<1>5. \A a \in overflowed \cup Queued \cup Batched : a < next'
  <2>1. \A a \in overflowed \cup Queued \cup Batched : a < next
    BY DEF InOrder, OlderFirst
  <2>. QED
    BY <1>2, <1>4, <2>1
<1>6. OlderFirst(Queued, Batched)' /\ OlderFirst(overflowed, Queued \cup Batched)'
      /\ OlderFirst(overflowed \cup Queued \cup Batched, {next})' /\ OlderFirst(SignalsOf(kept), SignalsOf(todo))'
  BY <1>1, <1>3, <1>5 DEF InOrder, OlderFirst
<1>. QED
  BY <1>3, <1>6 DEF InOrder

\* Every step keeps the order of what overflowed, is tried, queued and waits.
LEMMA StepOrdered == OInv /\ [DeliveryNext]_deliveryVars => OInv'
<1> SUFFICES ASSUME OInv, [DeliveryNext]_deliveryVars PROVE OInv'
  OBVIOUS
<1>1. QueueInv' /\ QueueInv
  BY QueueStepInv DEF OInv
<1>2. crashes' = 0 => crashes = 0 /\ ~ConnectorCrash
  <2>1. crashes \in Nat
    BY <1>1, DeliveryBounds DEF QueueInv, DeliveryTypeOK
  <2>2. ConnectorCrash => crashes' = crashes + 1
    BY DEF ConnectorCrash
  <2>3. ConnectorCrash \/ crashes' = crashes
    BY DEF DeliveryNext, deliveryVars, StartScan, FlushCommit, FinishScan, FlushRow, SendSignal,
       LateArrival, RegistryChanges, connectorVars
  <2>. QED
    BY <2>1, <2>2, <2>3
<1> SUFFICES ASSUME crashes' = 0 PROVE InOrder'
  BY <1>1 DEF OInv
<1>3. InOrder /\ ~ConnectorCrash
  BY <1>2 DEF OInv
<1>4. ASSUME UNCHANGED <<next, batch, disk, todo, kept, overflowed>> PROVE InOrder'
  <2>1. /\ Queued' = Queued /\ Batched' = Batched /\ SignalsOf(kept)' = SignalsOf(kept)
        /\ SignalsOf(todo)' = SignalsOf(todo)
        /\ Rising(disk)' /\ Rising(todo)' /\ Rising(kept)' /\ BatchRises'
    BY <1>3, <1>4 DEF InOrder, Queued, Batched, SignalsOf, Rising, BatchRises
  <2>2. OlderFirst(Queued, Batched)' /\ OlderFirst(overflowed, Queued \cup Batched)'
        /\ OlderFirst(overflowed \cup Queued \cup Batched, {next})' /\ OlderFirst(SignalsOf(kept), SignalsOf(todo))'
    BY <1>3, <1>4, <2>1 DEF InOrder, OlderFirst
  <2>. QED
    BY <1>3, <1>4, <2>1, <2>2 DEF InOrder
<1>5. CASE UNCHANGED deliveryVars
  BY <1>4, <1>5 DEF deliveryVars, connectorVars
<1>6. CASE \/ \E s \in Sightings : LateArrival(s)
           \/ \E s \in Sightings, m \in Matches : RegistryChanges(s, m)
  BY <1>4, <1>6 DEF LateArrival, RegistryChanges, connectorVars
<1>7. CASE DeliveryNext
  BY <1>1, <1>3, <1>6, <1>7, StartScanOrdered, FlushRowOrdered, FlushCommitOrdered, SendSignalOrdered,
     FinishScanOrdered DEF DeliveryNext
<1>. QED
  BY <1>5, <1>7

\* When the queue is full the oldest signals go: until a restart, whatever overflowed is older
\* than all that is queued or waits to be sent.
THEOREM OldestGoFirst == DeliverySpec => []NewestKept
<1>1. OInv => NewestKept
  BY DEF OInv, InOrder, OlderFirst, NewestKept
<1>. QED
  BY <1>1, InitOrdered, StepOrdered, PTL DEF DeliverySpec

-----------------------------------------------------------------------------
(* Tokens, the limiter, the counters and the heartbeats.                   *)

Instants == 0 .. Hour

\* A token in state row was admitted n[i] times at most i instants ago.
Windowed(row, n) ==
  /\ \A i, j \in Instants : i <= j => n[i] <= n[j]
  /\ row.window = NoWindow => \A i \in Instants : n[i] = 0
  /\ row.window \in Instants => n[row.window] <= row.used /\ n[Hour] <= n[row.window] + Limit
  /\ row.window = Hour + 1 => n[0] = 0 /\ n[Hour] <= Limit

WindowsHold == \A t \in Tokens : Windowed(token[t], recent[t])

\* A request q, which r makes, knows what it relies on when it goes on.
Sound(r, q, holder) ==
  /\ q.at = "store" => /\ holder = r
                       /\ q.seen = token[q.token].total
                       /\ ~Recorded(q.signal)
  /\ q.at = "insert" => holder = r /\ q.rows = Len(beats[q.token])
  /\ q.at # "idle" => token[q.token].state # "none"

LoopHolds == \A r \in Requests : Sound(r, request[r], loop)

\* The tokens that were generated, which are those that heartbeats are of.
Generated == {t \in Tokens : token[t].state # "none"}

BeatsHold ==
  /\ IsFiniteSet(Generated)
  /\ \A t \in Tokens : Len(beats[t]) <= 1 /\ (beats[t] # <<>> => t \in Generated)

StoreHolds ==
  /\ IsFiniteSet({s \in Signals : Recorded(s)})
  /\ TotalsAgree

IInv == TypeOK /\ WindowsHold /\ LoopHolds /\ BeatsHold /\ StoreHolds

-----------------------------------------------------------------------------
(* The rate limit.                                                         *)

\* A request that is admitted is one more of every hour that it falls in, and of the window.
LEMMA WindowedAdmitted ==
  ASSUME NEW row \in Token, NEW n \in [Instants -> Nat], Windowed(row, n),
         NEW over \in BOOLEAN, over <=> row.window = NoWindow \/ row.window > Hour,
         NEW used \in Nat, used = (IF over THEN 0 ELSE row.used), used < Limit,
         NEW new \in Token, new.window = (IF over THEN 0 ELSE row.window), new.used = used + 1,
         NEW m \in [Instants -> Nat], \A i \in Instants : m[i] = n[i] + 1
  PROVE  Windowed(new, m)
<1>1. Hour \in Nat \ {0} /\ Limit \in Nat /\ NoWindow \notin Nat /\ 0 \in Instants /\ Hour \in Instants
  BY TokenAssumption DEF Instants
<1>2. row.window \in 0 .. Hour + 1 \cup {NoWindow} /\ row.used \in Nat /\ row.used <= Limit
  BY <1>1 DEF Token
<1>3. \A i, j \in Instants : i <= j => m[i] <= m[j]
  <2> SUFFICES ASSUME NEW i \in Instants, NEW j \in Instants, i <= j PROVE m[i] <= m[j]
    OBVIOUS
  <2>1. n[i] \in Nat /\ n[j] \in Nat /\ n[i] <= n[j]
    BY DEF Windowed
  <2>. QED
    BY <2>1
<1>4. n[0] \in Nat /\ n[Hour] \in Nat /\ m[0] = n[0] + 1 /\ m[Hour] = n[Hour] + 1
  BY <1>1
<1>5. CASE over
  <2>1. n[0] = 0 /\ n[Hour] <= Limit
    BY <1>1, <1>2, <1>5 DEF Windowed
  <2>2. new.window = 0 /\ new.used = 1
    BY <1>5
  <2>. QED
    BY <1>1, <1>3, <1>4, <2>1, <2>2 DEF Windowed
<1>6. CASE ~over
  <2>1. row.window \in Instants /\ row.window # NoWindow /\ new.window = row.window
    BY <1>1, <1>2, <1>6 DEF Instants
  <2>2. /\ n[row.window] \in Nat /\ m[row.window] = n[row.window] + 1
        /\ n[row.window] <= row.used /\ n[Hour] <= n[row.window] + Limit
    BY <2>1 DEF Windowed
  <2>3. m[new.window] <= new.used /\ m[Hour] <= m[new.window] + Limit
    BY <1>1, <1>2, <1>4, <1>6, <2>1, <2>2
  <2>4. new.window # NoWindow /\ new.window # Hour + 1
    BY <1>1, <2>1 DEF Instants
  <2>. QED
    BY <1>3, <2>3, <2>4 DEF Windowed
<1>. QED
  BY <1>5, <1>6

\* The instant after one that is not the last.
LEMMA InstantAfter ==
  ASSUME NEW i \in Instants, i # Hour
  PROVE  /\ i \in Nat /\ i + 1 \in Instants /\ i + 1 # 0
         /\ i + 1 # NoWindow /\ i + 1 # Hour + 1
BY TokenAssumption DEF Instants

\* A token and what it was admitted for, an instant later.
Aged(row) ==
  IF row.window = NoWindow THEN row
  ELSE [row EXCEPT !.window = IF @ > Hour THEN @ ELSE @ + 1]

Older(n) == [i \in Instants |-> IF i = 0 THEN 0 ELSE n[i - 1]]

\* A tick moves a running window on by one and leaves the rest of the row alone.
LEMMA AgedToken ==
  ASSUME NEW row \in Token
  PROVE  /\ Aged(row) \in Token
         /\ Aged(row).used = row.used /\ Aged(row).total = row.total /\ Aged(row).state = row.state
         /\ row.window = NoWindow => Aged(row).window = NoWindow
         /\ row.window = Hour + 1 => Aged(row).window = Hour + 1
         /\ row.window \in Instants => Aged(row).window = row.window + 1
<1>1. Hour \in Nat \ {0} /\ NoWindow \notin Nat
  BY TokenAssumption
<1>2. row.window \in 0 .. Hour + 1 \cup {NoWindow}
  BY DEF Token
<1>3. CASE row.window = NoWindow
  BY <1>1, <1>3 DEF Aged, Instants
<1>4. CASE row.window = Hour + 1
  <2>1. Aged(row) = [row EXCEPT !.window = row.window]
    BY <1>1, <1>4 DEF Aged
  <2>. QED
    BY <1>1, <1>4, <2>1 DEF Token, Instants
<1>5. CASE row.window \in Instants
  <2>1. Aged(row) = [row EXCEPT !.window = row.window + 1]
    BY <1>1, <1>5 DEF Aged, Instants
  <2>2. row.window + 1 \in 0 .. Hour + 1 /\ row.window # NoWindow /\ row.window # Hour + 1
    BY <1>1, <1>5 DEF Instants
  <2>. QED
    BY <2>1, <2>2 DEF Token
<1>. QED
  BY <1>1, <1>2, <1>3, <1>4, <1>5 DEF Instants

\* An instant later all of it is an instant longer ago.
LEMMA WindowedLater ==
  ASSUME NEW row \in Token, NEW n \in [Instants -> Nat], Windowed(row, n)
  PROVE  Windowed(Aged(row), Older(n)) /\ Older(n) \in [Instants -> Nat]
<1> DEFINE new == Aged(row)
           m == Older(n)
<1>1. Hour \in Nat \ {0} /\ Limit \in Nat /\ NoWindow \notin Nat /\ 0 \in Instants /\ Hour \in Instants
  BY TokenAssumption DEF Instants
<1>2. row.window \in 0 .. Hour + 1 \cup {NoWindow} /\ row.used \in Nat /\ row.used <= Limit
  BY <1>1 DEF Token
<1>3. \A i \in Instants : i # 0 => i - 1 \in Instants /\ n[i - 1] \in Nat /\ m[i] = n[i - 1]
  BY <1>1 DEF Instants, Older
<1>4. \A i, j \in Instants : i <= j => m[i] <= m[j]
  <2> SUFFICES ASSUME NEW i \in Instants, NEW j \in Instants, i <= j PROVE m[i] <= m[j]
    OBVIOUS
  <2>1. CASE i = 0
    <3>1. m[i] = 0 /\ (m[j] = 0 \/ m[j] \in Nat)
      BY <1>3, <2>1 DEF Older
    <3>. QED
      BY <3>1
  <2>2. CASE i # 0
    <3>1. j # 0 /\ i - 1 <= j - 1
      BY <2>2 DEF Instants
    <3>2. n[i - 1] <= n[j - 1]
      BY <1>3, <2>2, <3>1 DEF Windowed
    <3>. QED
      BY <1>3, <2>2, <3>1, <3>2
  <2>. QED
    BY <2>1, <2>2
<1>5. m[0] = 0 /\ m[Hour] = n[Hour - 1] /\ Hour - 1 \in Instants /\ n[Hour] \in Nat
  BY <1>1, <1>3 DEF Older
<1>6. m[Hour] \in Nat /\ m[Hour] <= n[Hour]
  BY <1>1, <1>5 DEF Windowed
<1>7. m \in [Instants -> Nat]
  BY <1>3 DEF Older
<1>8. CASE row.window = NoWindow
  <2>1. \A i \in Instants : m[i] = 0
    BY <1>3, <1>5, <1>8 DEF Windowed
  <2>2. new.window = NoWindow /\ NoWindow \notin Instants /\ NoWindow # Hour + 1
    BY <1>1, <1>8, AgedToken DEF Instants
  <2>. QED
    BY <1>4, <1>7, <2>1, <2>2 DEF Windowed
<1>9. CASE row.window = Hour + 1
  <2>1. n[Hour] <= Limit /\ new.window = Hour + 1 /\ new.window # NoWindow /\ new.window \notin Instants
    BY <1>1, <1>9, AgedToken DEF Windowed, Instants
  <2>. QED
    BY <1>1, <1>4, <1>5, <1>6, <1>7, <2>1 DEF Windowed
<1>10. CASE row.window = Hour
  <2>1. n[Hour] <= row.used
    BY <1>1, <1>10 DEF Windowed
  <2>2. m[Hour] <= Limit
    BY <1>1, <1>2, <1>5, <1>6, <2>1
  <2>3. new.window = Hour + 1 /\ new.window # NoWindow /\ new.window \notin Instants
    BY <1>1, <1>10, AgedToken DEF Instants
  <2>. QED
    BY <1>4, <1>5, <1>7, <2>2, <2>3 DEF Windowed
<1>11. CASE row.window \in Instants /\ row.window # Hour
  <2>1. /\ new.window \in Instants /\ new.window # 0 /\ new.window # NoWindow
        /\ new.window # Hour + 1 /\ new.window - 1 = row.window
    <3>1. new.window = row.window + 1
      BY <1>11, AgedToken
    <3>2. /\ row.window \in Nat /\ row.window + 1 \in Instants /\ row.window + 1 # 0
          /\ row.window + 1 # NoWindow /\ row.window + 1 # Hour + 1
      BY <1>11, InstantAfter
    <3> HIDE DEF new
    <3>. QED
      BY <3>1, <3>2
  <2>2. m[new.window] = n[row.window]
    BY <1>3, <2>1
  <2>3. n[row.window] \in Nat /\ n[row.window] <= row.used /\ n[Hour] <= n[row.window] + Limit
    BY <1>11 DEF Windowed
  <2>4. m[new.window] <= new.used
    BY <2>2, <2>3, AgedToken
  <2>5. m[Hour] <= m[new.window] + Limit
    <3> HIDE DEF m, new
    <3>. QED
      BY <1>1, <1>5, <1>6, <2>2, <2>3
  <2>. QED
    BY <1>4, <1>7, <2>1, <2>4, <2>5 DEF Windowed
<1>. QED
  BY <1>1, <1>2, <1>8, <1>9, <1>10, <1>11 DEF Instants

\* What is split by the start of the window is at most the limit on either side.
LEMMA WithinTwice ==
  ASSUME NEW row \in Token, NEW n \in [Instants -> Nat], Windowed(row, n)
  PROVE  n[Hour] <= 2 * Limit
<1>1. Hour \in Nat \ {0} /\ Limit \in Nat /\ Hour \in Instants /\ n[Hour] \in Nat
  BY TokenAssumption DEF Instants
<1>2. row.window \in 0 .. Hour + 1 \cup {NoWindow} /\ row.used \in Nat /\ row.used <= Limit
  BY <1>1 DEF Token
<1>3. CASE row.window \in Instants
  <2>1. n[row.window] \in Nat /\ n[row.window] <= row.used /\ n[Hour] <= n[row.window] + Limit
    BY <1>3 DEF Windowed
  <2>. QED
    BY <1>1, <1>2, <2>1
<1>4. CASE row.window \notin Instants
  <2>1. row.window = NoWindow \/ row.window = Hour + 1
    BY <1>1, <1>2, <1>4 DEF Instants
  <2>2. n[Hour] = 0 \/ n[Hour] <= Limit
    BY <1>1, <2>1 DEF Windowed
  <2>. QED
    BY <1>1, <2>2
<1>. QED
  BY <1>3, <1>4

-----------------------------------------------------------------------------
(* Steps.                                                                  *)

\* An idle request is sound, whatever the state.
LEMMA IdleSound ==
  /\ Idle \in Request /\ Idle.at = "idle"
  /\ \A r, holder : Sound(r, Idle, holder)
<1>1. (CHOOSE t \in Tokens : TRUE) \in Tokens /\ (CHOOSE s \in Signals : TRUE) \in Signals
  BY TokenAssumption
<1>. QED
  BY <1>1 DEF Idle, Request, Sound

\* At first there is no token.
LEMMA InitInv == Init => IInv
<1> SUFFICES ASSUME Init PROVE IInv
  OBVIOUS
<1>1. Hour \in Nat \ {0} /\ Limit \in Nat /\ NoWindow \notin Nat
  BY TokenAssumption
<1>2. NoToken \in Token /\ NoToken.window = NoWindow /\ NoToken.total = 0 /\ NoToken.state = "none"
  BY <1>1 DEF NoToken, Token
<1>3. TypeOK
  BY <1>2, IdleSound DEF Init, TypeOK
<1>4. WindowsHold
  BY <1>1, <1>2 DEF Init, WindowsHold, Windowed, Instants
<1>5. LoopHolds
  BY IdleSound DEF Init, LoopHolds
<1>6. BeatsHold
  <2>1. Generated = {}
    BY <1>2 DEF Init, Generated
  <2>. QED
    BY <2>1, FS_EmptySet DEF Init, BeatsHold
<1>7. StoreHolds
  <2>1. {s \in Signals : Recorded(s)} = {} /\ \A t \in Tokens : BroughtBy(t) = {}
    BY DEF Init, Recorded, BroughtBy
  <2>2. \A s \in Signals : Len(events[s]) = 0
    BY DEF Init
  <2>3. \A t \in Tokens : token[t].total = 0
    BY <1>2 DEF Init
  <2>4. TotalsAgree
    BY <2>1, <2>2, <2>3, FS_EmptySet DEF TotalsAgree
  <2>. QED
    BY <2>1, <2>4, FS_EmptySet DEF StoreHolds
<1>. QED
  BY <1>3, <1>4, <1>5, <1>6, <1>7 DEF IInv

\* A request goes on while nobody else holds the loop, and writes nothing.
LEMMA RequestStep ==
  ASSUME IInv, NEW r \in Requests, NEW q \in Request,
         UNCHANGED <<token, events, beats, recent>>,
         request' = [request EXCEPT ![r] = q], loop \in {r, Free}, loop' \in {r, Free},
         Sound(r, q, loop')
  PROVE  IInv'
<1>1. TypeOK'
  BY DEF IInv, TypeOK
<1>2. WindowsHold' /\ BeatsHold' /\ StoreHolds'
  BY DEF IInv, WindowsHold, BeatsHold, Generated, StoreHolds, Recorded, TotalsAgree, BroughtBy
<1>3. LoopHolds'
  <2> SUFFICES ASSUME NEW s \in Requests PROVE Sound(s, request[s], loop)'
    BY DEF LoopHolds
  <2>1. Free \notin Requests /\ request \in [Requests -> Request] /\ Sound(s, request[s], loop)
    BY TokenAssumption DEF IInv, TypeOK, LoopHolds
  <2>2. CASE s = r
    BY <2>1, <2>2 DEF Sound, Recorded
  <2>3. CASE s # r
    <3>1. request'[s] = request[s]
      BY <2>1, <2>3
    <3>. QED
      BY <2>1, <2>3, <3>1 DEF Sound, Recorded
  <2>. QED
    BY <2>2, <2>3
<1>. QED
  BY <1>1, <1>2, <1>3 DEF IInv

\* One token changes, neither to an ungenerated one nor its total.
LEMMA TokenStep ==
  ASSUME IInv, NEW t \in Tokens, NEW row \in Token, token' = [token EXCEPT ![t] = row],
         row.state # "none", row.total = token[t].total,
         recent' \in [Tokens -> [Instants -> Nat]], Windowed(row, recent'[t]),
         \A u \in Tokens \ {t} : recent'[u] = recent[u],
         UNCHANGED <<events, beats, loop>>,
         \/ UNCHANGED request
         \/ \E r \in Requests, q \in Request :
              /\ request' = [request EXCEPT ![r] = q]
              /\ q.at \notin {"store", "insert"} /\ q.token = t
  PROVE  IInv'
<1>1. token \in [Tokens -> Token] /\ \A u \in Tokens : token'[u] = IF u = t THEN row ELSE token[u]
  BY DEF IInv, TypeOK
<1>2. TypeOK'
  BY <1>1 DEF IInv, TypeOK, Instants
<1>3. WindowsHold'
  BY <1>1 DEF IInv, WindowsHold
<1>4. \A u \in Tokens : token'[u].total = token[u].total
  BY <1>1
<1>5. StoreHolds'
  <2>1. \A u \in Tokens : BroughtBy(u)' = BroughtBy(u)
    BY DEF BroughtBy
  <2>2. \A s \in Signals : Recorded(s)' <=> Recorded(s)
    BY DEF Recorded
  <2>3. TotalsAgree'
    BY <1>4, <2>1 DEF IInv, StoreHolds, TotalsAgree
  <2>4. {s \in Signals : Recorded(s)}' = {s \in Signals : Recorded(s)}
    BY <2>2
  <2>. QED
    BY <2>3, <2>4 DEF IInv, StoreHolds
<1>6. BeatsHold'
  <2>1. Generated' = Generated \cup {t}
    BY <1>1 DEF Generated
  <2>. QED
    BY <2>1, FS_AddElement DEF IInv, BeatsHold
<1>7. LoopHolds'
  <2> SUFFICES ASSUME NEW s \in Requests PROVE Sound(s, request[s], loop)'
    BY DEF LoopHolds
  <2>1. request[s].token \in Tokens /\ Sound(s, request[s], loop)
    BY DEF IInv, TypeOK, Request, LoopHolds
  <2>2. CASE request'[s] = request[s]
    BY <1>1, <1>4, <2>1, <2>2 DEF Sound, Recorded
  <2>3. CASE request'[s].at \notin {"store", "insert"} /\ request'[s].token = t
    BY <1>1, <2>3 DEF Sound
  <2>4. request \in [Requests -> Request]
    BY DEF IInv, TypeOK
  <2>. QED
    BY <2>2, <2>3, <2>4
<1>. QED
  BY <1>2, <1>3, <1>5, <1>6, <1>7 DEF IInv

\* A token is generated, revoked or expires: its window and its counters stay.
LEMMA StateInv ==
  ASSUME IInv, NEW t \in Tokens, Generate(t) \/ Revoke(t) \/ Expire(t)
  PROVE  IInv'
<1>1. PICK state \in {"live", "revoked", "expired"} : token' = [token EXCEPT ![t].state = state]
  BY DEF Generate, Revoke, Expire
<1> DEFINE row == [token[t] EXCEPT !.state = state]
<1>2. token[t] \in Token /\ Windowed(token[t], recent[t]) /\ recent \in [Tokens -> [Instants -> Nat]]
  BY DEF IInv, TypeOK, WindowsHold, Instants
<1>3. /\ row \in Token /\ row.state = state /\ row.total = token[t].total
      /\ row.window = token[t].window /\ row.used = token[t].used
  BY <1>2 DEF Token
<1>4. token' = [token EXCEPT ![t] = row] /\ UNCHANGED <<events, beats, request, loop, recent>>
  BY <1>1 DEF Generate, Revoke, Expire
<1> HIDE DEF row
<1>5. Windowed(row, recent'[t])
  BY <1>2, <1>3, <1>4 DEF Windowed
<1>. QED
  BY <1>2, <1>3, <1>4, <1>5, TokenStep

\* A request is admitted below the limit.
LEMMA PostInv ==
  ASSUME IInv, NEW r \in Requests, NEW t \in Tokens, Post(r, t)
  PROVE  IInv'
<1> DEFINE over == WindowOver(t)
           row == [token[t] EXCEPT !.window = IF over THEN 0 ELSE @, !.used = Used(t) + 1]
           q == [request[r] EXCEPT !.at = "body", !.token = t]
           n == [i \in Instants |-> recent[t][i] + 1]
<1>1. /\ token[t] \in Token /\ Windowed(token[t], recent[t]) /\ request[r] \in Request
      /\ recent \in [Tokens -> [Instants -> Nat]] /\ token[t].state = "live"
  BY DEF IInv, TypeOK, WindowsHold, Instants, Post, Valid
<1>2. /\ over \in BOOLEAN /\ (over <=> token[t].window = NoWindow \/ token[t].window > Hour)
      /\ Used(t) = (IF over THEN 0 ELSE token[t].used) /\ Used(t) < Limit
  BY DEF WindowOver, Used, Post
<1>3. Hour \in Nat /\ Limit \in Nat /\ 0 \in 0 .. Hour + 1
  BY TokenAssumption
<1>4. Used(t) \in Nat /\ Used(t) + 1 \in 0 .. Limit
  BY <1>1, <1>2, <1>3 DEF Token
<1>5. /\ row \in Token /\ row.state = "live" /\ row.total = token[t].total
      /\ row.window = (IF over THEN 0 ELSE token[t].window) /\ row.used = Used(t) + 1
  BY <1>1, <1>3, <1>4 DEF Token
<1>6. token' = [token EXCEPT ![t] = row] /\ UNCHANGED <<events, beats, loop>>
  BY DEF Post, Admitted
<1>7. recent' = [recent EXCEPT ![t] = n]
  BY DEF Post, Admitted, Instants
<1>8. n \in [Instants -> Nat] /\ \A i \in Instants : n[i] = recent[t][i] + 1
  BY <1>1
<1>9. request' = [request EXCEPT ![r] = q] /\ q \in Request /\ q.at = "body" /\ q.token = t
  BY <1>1 DEF Post, Admitted, Request
<1> HIDE DEF over, row, q, n
<1>10. Windowed(row, n)
  BY <1>1, <1>2, <1>4, <1>5, <1>8, WindowedAdmitted
<1>11. /\ recent' \in [Tokens -> [Instants -> Nat]] /\ recent'[t] = n
       /\ \A u \in Tokens \ {t} : recent'[u] = recent[u]
  BY <1>1, <1>7, <1>8
<1>12. \E s \in Requests, p \in Request : /\ request' = [request EXCEPT ![s] = p]
                                          /\ p.at \notin {"store", "insert"} /\ p.token = t
  BY <1>9
<1>. QED
  BY <1>5, <1>6, <1>10, <1>11, <1>12, TokenStep

\* A request leaves or goes on to its next step.
LEMMA GoOnInv ==
  ASSUME IInv, NEW r \in Requests,
         \/ \E s \in Signals : BodyArrives(r, s)
         \/ BodyRefused(r) \/ StoreRolledBack(r) \/ HeartbeatRefused(r) \/ HeartbeatDelete(r)
         \/ \E t \in Tokens : PostHeartbeat(r, t)
  PROVE  IInv'
<1> DEFINE o == request[r]
<1>1. o \in Request /\ Sound(r, o, loop)
  BY DEF IInv, TypeOK, LoopHolds
<1>2. o.token \in Tokens /\ token[o.token].total \in Nat /\ Len(beats[o.token]) \in Nat
  BY <1>1 DEF IInv, TypeOK, Request, Token
<1>3. CASE BodyRefused(r) \/ StoreRolledBack(r) \/ HeartbeatRefused(r)
  <2>1. loop \in {r, Free}
    BY <1>1, <1>3 DEF BodyRefused, StoreRolledBack, HeartbeatRefused, At, Sound
  <2>2. request' = [request EXCEPT ![r] = Idle] /\ loop' = Free /\ UNCHANGED <<token, events, beats, recent>>
    BY <1>3 DEF BodyRefused, StoreRolledBack, HeartbeatRefused, Leave
  <2>. QED
    BY <2>1, <2>2, IdleSound, RequestStep
<1>4. ASSUME NEW s \in Signals, BodyArrives(r, s) PROVE IInv'
  <2> DEFINE q == [o EXCEPT !.at = "store", !.signal = s, !.seen = token[o.token].total]
  <2>1. /\ q \in Request /\ q.at = "store" /\ q.signal = s /\ q.token = o.token
        /\ q.seen = token[o.token].total
    BY <1>1, <1>2 DEF Request
  <2>2. /\ o.at = "body" /\ loop = Free /\ loop' = r /\ ~Recorded(s)
        /\ request' = [request EXCEPT ![r] = q] /\ UNCHANGED <<token, events, beats, recent>>
    BY <1>4 DEF BodyArrives, At
  <2> HIDE DEF q
  <2>3. Sound(r, q, r)
    BY <1>1, <2>1, <2>2 DEF Sound
  <2>. QED
    BY <2>1, <2>2, <2>3, RequestStep
<1>5. CASE HeartbeatDelete(r)
  <2> DEFINE q == [o EXCEPT !.at = "insert", !.rows = Len(beats[o.token])]
  <2>1. q \in Request /\ q.at = "insert" /\ q.token = o.token /\ q.rows = Len(beats[o.token])
    BY <1>1, <1>2 DEF Request
  <2>2. /\ o.at = "beat" /\ loop = Free /\ loop' = r
        /\ request' = [request EXCEPT ![r] = q] /\ UNCHANGED <<token, events, beats, recent>>
    BY <1>5 DEF HeartbeatDelete, At
  <2> HIDE DEF q
  <2>3. Sound(r, q, r)
    BY <1>1, <2>1, <2>2 DEF Sound
  <2>. QED
    BY <2>1, <2>2, <2>3, RequestStep
<1>6. ASSUME NEW t \in Tokens, PostHeartbeat(r, t) PROVE IInv'
  <2> DEFINE q == [o EXCEPT !.at = "beat", !.token = t]
  <2>1. q \in Request /\ q.at = "beat" /\ q.token = t
    BY <1>1 DEF Request
  <2>2. /\ token[t].state = "live" /\ loop = Free /\ loop' = Free
        /\ request' = [request EXCEPT ![r] = q] /\ UNCHANGED <<token, events, beats, recent>>
    BY <1>6 DEF PostHeartbeat, Valid
  <2> HIDE DEF q
  <2>3. Sound(r, q, Free)
    BY <2>1, <2>2 DEF Sound
  <2>. QED
    BY <2>1, <2>2, <2>3, RequestStep
<1>. QED
  BY <1>3, <1>4, <1>5, <1>6

\* Once r lets go of the loop that it held, nobody stands between a read and a write.
LEMMA LetGo ==
  ASSUME IInv, NEW r \in Requests, loop = r, Leave(r)
  PROVE  /\ \A s \in Requests : /\ request'[s].at \notin {"store", "insert"}
                                /\ request'[s].at # "idle" => request'[s] = request[s]
         /\ request' \in [Requests -> Request] /\ loop' = Free
<1>1. request \in [Requests -> Request] /\ \A s \in Requests : Sound(s, request[s], loop)
  BY DEF IInv, TypeOK, LoopHolds
<1>2. loop' = Free /\ \A s \in Requests : request'[s] = IF s = r THEN Idle ELSE request[s]
  BY <1>1 DEF Leave
<1>3. request' \in [Requests -> Request]
  BY <1>1, IdleSound DEF Leave
<1>. QED
  BY <1>1, <1>2, <1>3, IdleSound DEF Sound

\* An event is stored with the counter: the counter that was read is the present one, and
\* the signal is still new.
LEMMA StoreInv ==
  ASSUME IInv, NEW r \in Requests, Store(r)
  PROVE  IInv'
<1> PICK t \in Tokens, s \in Signals : request[r].token = t /\ request[r].signal = s
  BY DEF IInv, TypeOK, Request
<1> DEFINE q == request[r]
           row == [token[t] EXCEPT !.total = q.seen + 1]
<1>1. Sound(r, q, loop) /\ q.at = "store"
  BY DEF IInv, LoopHolds, Store, At
<1>2. loop = r /\ q.seen = token[t].total /\ ~Recorded(s) /\ token[t].state # "none"
  BY <1>1 DEF Sound
<1>3. /\ token[t] \in Token /\ Windowed(token[t], recent[t])
      /\ token \in [Tokens -> Token] /\ events \in [Signals -> Seq(Tokens)]
      /\ token[t].total \in Nat
  BY DEF Token, IInv, TypeOK, WindowsHold
<1>4. /\ row \in Token /\ row.state = token[t].state /\ row.total = token[t].total + 1
      /\ row.window = token[t].window /\ row.used = token[t].used
  <2>1. q.seen + 1 \in Nat /\ q.seen + 1 = token[t].total + 1
    BY <1>2, <1>3
  <2> HIDE DEF q
  <2>. QED
    BY <1>3, <2>1 DEF Token
<1>5. token' = [token EXCEPT ![t] = row] /\ Leave(r) /\ UNCHANGED <<beats, recent>>
  BY DEF Store
<1> HIDE DEF q
<1>6. events' = [events EXCEPT ![s] = <<t>>]
  <2>1. events[s] = <<>>
    BY <1>2 DEF Recorded
  <2>2. Append(events[s], t) = <<t>>
    BY <2>1
  <2>. QED
    BY <2>2 DEF Store
<1> HIDE DEF row
<1>7. \A u \in Tokens : token'[u] = IF u = t THEN row ELSE token[u]
  BY <1>3, <1>5
<1>8. \A x \in Signals : events'[x] = IF x = s THEN <<t>> ELSE events[x]
  BY <1>3, <1>6
<1>9. TypeOK'
  <2>1. <<t>> \in Seq(Tokens)
    BY <1>1
  <2>. QED
    BY <1>1, <1>2, <1>3, <1>4, <1>5, <1>6, <2>1, LetGo DEF IInv, TypeOK
<1>10. WindowsHold'
  <2>1. Windowed(row, recent[t])
    BY <1>3, <1>4 DEF Windowed
  <2>. QED
    BY <1>5, <1>7, <2>1 DEF IInv, WindowsHold
<1>11. Generated' = Generated
  BY <1>2, <1>4, <1>7 DEF Generated
<1>12. LoopHolds'
  <2>1. \A u \in Tokens : token'[u].state # "none" <=> token[u].state # "none"
    BY <1>4, <1>7
  <2>. QED
    BY <1>2, <1>5, <2>1, LetGo DEF IInv, LoopHolds, Sound, TypeOK, Request
<1>13. BeatsHold'
  BY <1>5, <1>11 DEF IInv, BeatsHold
<1>14. StoreHolds'
  <2>1. {x \in Signals : Recorded(x)}' = {x \in Signals : Recorded(x)} \cup {s}
    BY <1>1, <1>8 DEF Recorded
  <2>2. IsFiniteSet({x \in Signals : Recorded(x)}')
    BY <2>1, FS_AddElement DEF IInv, StoreHolds
  <2>3. s \notin BroughtBy(t) /\ BroughtBy(t)' = BroughtBy(t) \cup {s}
    BY <1>1, <1>2, <1>8 DEF BroughtBy, Recorded
  <2>4. \A u \in Tokens \ {t} : BroughtBy(u)' = BroughtBy(u)
    BY <1>1, <1>2, <1>8 DEF BroughtBy, Recorded
  <2>5. IsFiniteSet(BroughtBy(t))
    <3>1. BroughtBy(t) \in SUBSET {x \in Signals : Recorded(x)}
      BY DEF BroughtBy, Recorded
    <3>. QED
      BY <3>1, FS_Subset DEF IInv, StoreHolds
  <2>6. Cardinality(BroughtBy(t)') = Cardinality(BroughtBy(t)) + 1
    BY <2>3, <2>5, FS_AddElement
  <2>7. \A u \in Tokens : token'[u].total = Cardinality(BroughtBy(u)')
    BY <1>4, <1>7, <2>4, <2>6 DEF IInv, StoreHolds, TotalsAgree
  <2>8. \A x \in Signals : Len(events'[x]) <= 1
    <3> SUFFICES ASSUME NEW x \in Signals PROVE Len(events'[x]) <= 1
      OBVIOUS
    <3>1. Len(<<t>>) <= 1 /\ Len(events[x]) <= 1
      BY DEF IInv, StoreHolds, TotalsAgree
    <3>2. events'[x] = <<t>> \/ events'[x] = events[x]
      BY <1>8
    <3>. QED
      BY <3>1, <3>2
  <2>. QED
    BY <2>2, <2>7, <2>8 DEF StoreHolds, TotalsAgree
<1>. QED
  BY <1>9, <1>10, <1>12, <1>13, <1>14 DEF IInv

\* The heartbeats that are deleted are all there are, so the new one is the only one.
LEMMA InsertInv ==
  ASSUME IInv, NEW r \in Requests, HeartbeatInsert(r)
  PROVE  IInv'
<1> PICK t \in Tokens : request[r].token = t
  BY DEF IInv, TypeOK, Request
<1>1. loop = r /\ request[r].rows = Len(beats[t]) /\ t \in Generated
  BY DEF IInv, LoopHolds, Sound, HeartbeatInsert, At, Generated
<1>2. beats \in [Tokens -> Seq(Ages)] /\ Leave(r) /\ UNCHANGED <<token, events, recent>>
  BY DEF IInv, TypeOK, HeartbeatInsert
<1>3. beats' = [beats EXCEPT ![t] = <<0>>]
  <2> DEFINE old == beats[t]
  <2>1. old \in Seq(Ages) /\ Len(old) \in Nat
    BY <1>2
  <2>2. SubSeq(old, Len(old) + 1, Len(old)) = <<>>
    BY <2>1, SubSeqEmpty
  <2>3. <<>> \o <<0>> = <<0>>
    <3>1. <<0>> \in Seq(Nat)
      OBVIOUS
    <3>. QED
      BY <3>1, ConcatEmptySeq
  <2>. QED
    BY <1>1, <2>2, <2>3 DEF HeartbeatInsert
<1>4. \A u \in Tokens : beats'[u] = IF u = t THEN <<0>> ELSE beats[u]
  BY <1>2, <1>3
<1>5. TypeOK'
  <2>1. <<0>> \in Seq(Ages)
    BY TokenAssumption DEF Ages
  <2>. QED
    BY <1>1, <1>2, <1>3, <2>1, LetGo DEF IInv, TypeOK
<1>6. WindowsHold' /\ StoreHolds'
  BY <1>2 DEF IInv, WindowsHold, StoreHolds, TotalsAgree, Recorded, BroughtBy
<1>7. Generated' = Generated
  BY <1>2 DEF Generated
<1>8. BeatsHold'
  <2> SUFFICES ASSUME NEW u \in Tokens PROVE Len(beats'[u]) <= 1 /\ (beats'[u] # <<>> => u \in Generated)
    BY <1>7 DEF IInv, BeatsHold
  <2>1. Len(<<0>>) <= 1 /\ Len(beats[u]) <= 1 /\ (beats[u] # <<>> => u \in Generated)
    BY DEF IInv, BeatsHold
  <2>2. (beats'[u] = <<0>> /\ u = t) \/ beats'[u] = beats[u]
    BY <1>4
  <2>. QED
    BY <1>1, <2>1, <2>2
<1>9. LoopHolds'
  BY <1>1, <1>2, LetGo DEF IInv, LoopHolds, Sound
<1>. QED
  BY <1>5, <1>6, <1>8, <1>9 DEF IInv

\* An instant passes.
LEMMA TickInv ==
  ASSUME IInv, Tick
  PROVE  IInv'
<1>1. /\ token \in [Tokens -> Token] /\ recent \in [Tokens -> [Instants -> Nat]]
      /\ beats \in [Tokens -> Seq(Ages)]
  BY DEF IInv, TypeOK, Instants
<1>2. \A t \in Tokens : token'[t] = Aged(token[t]) /\ recent'[t] = Older(recent[t])
  BY <1>1 DEF Tick, Aged, Older, Instants
<1>3. /\ token' = [t \in Tokens |-> token'[t]] /\ recent' = [t \in Tokens |-> recent'[t]]
      /\ UNCHANGED <<events, request, loop>>
  BY DEF Tick
<1>4. \A t \in Tokens : /\ token'[t] \in Token /\ token'[t].total = token[t].total
                        /\ token'[t].state = token[t].state
  BY <1>1, <1>2, AgedToken
<1>5. \A t \in Tokens : Windowed(token'[t], recent'[t]) /\ recent'[t] \in [Instants -> Nat]
  BY <1>1, <1>2, WindowedLater DEF IInv, WindowsHold
<1>6. \A t \in Tokens : beats'[t] \in Seq(Ages) /\ Len(beats'[t]) = Len(beats[t])
  <2> SUFFICES ASSUME NEW t \in Tokens PROVE beats'[t] \in Seq(Ages) /\ Len(beats'[t]) = Len(beats[t])
    OBVIOUS
  <2>1. beats[t] \in Seq(Ages) /\ Len(beats[t]) \in Nat /\ DOMAIN beats[t] = 1 .. Len(beats[t])
    BY <1>1
  <2> DEFINE b == [i \in 1 .. Len(beats[t]) |->
                     IF beats[t][i] > StaleHours THEN beats[t][i] ELSE beats[t][i] + 1]
  <2>2. beats'[t] = b
    BY <2>1 DEF Tick
  <2>3. ASSUME NEW i \in 1 .. Len(beats[t])
        PROVE  (IF beats[t][i] > StaleHours THEN beats[t][i] ELSE beats[t][i] + 1) \in Ages
    <3>1. beats[t][i] \in Ages
      BY <2>1
    <3>. QED
      BY <3>1, TokenAssumption DEF Ages
  <2>4. b \in [1 .. Len(beats[t]) -> Ages]
    BY <2>3
  <2> HIDE DEF b
  <2>5. b \in Seq(Ages) /\ Len(b) = Len(beats[t])
    BY <2>1, <2>4
  <2>. QED
    BY <2>2, <2>5
<1>7. beats' = [t \in Tokens |-> beats'[t]]
  BY DEF Tick
<1>8. TypeOK'
  BY <1>3, <1>4, <1>5, <1>6, <1>7 DEF IInv, TypeOK, Instants
<1>9. WindowsHold'
  BY <1>5 DEF WindowsHold
<1>10. Generated' = Generated
  BY <1>4 DEF Generated
<1>11. BeatsHold'
  <2> SUFFICES ASSUME NEW t \in Tokens PROVE Len(beats'[t]) <= 1 /\ (beats'[t] # <<>> => t \in Generated)
    BY <1>10 DEF IInv, BeatsHold
  <2>1. Len(beats[t]) <= 1 /\ (beats[t] # <<>> => t \in Generated)
    BY DEF IInv, BeatsHold
  <2>2. beats[t] \in Seq(Ages) /\ (beats[t] = <<>> => Len(beats[t]) = 0)
    BY <1>1
  <2>3. beats'[t] \in Seq(Ages) /\ Len(beats'[t]) = Len(beats[t])
    BY <1>6
  <2>4. beats[t] = <<>> => beats'[t] = <<>>
    BY <2>2, <2>3, EmptySeq
  <2>. QED
    BY <2>1, <2>3, <2>4
<1>12. LoopHolds'
  <2>1. \A r \in Requests : request[r].token \in Tokens
    BY DEF IInv, TypeOK, Request
  <2>. QED
    BY <1>3, <1>4, <1>6, <2>1 DEF IInv, LoopHolds, Sound, Recorded
<1>13. StoreHolds'
  <2>1. \A u \in Tokens : BroughtBy(u)' = BroughtBy(u)
    BY <1>3 DEF BroughtBy
  <2>2. TotalsAgree'
    BY <1>3, <1>4, <2>1 DEF IInv, StoreHolds, TotalsAgree
  <2>3. {s \in Signals : Recorded(s)}' = {s \in Signals : Recorded(s)}
    BY <1>3 DEF Recorded
  <2>. QED
    BY <2>2, <2>3 DEF IInv, StoreHolds
<1>. QED
  BY <1>8, <1>9, <1>11, <1>12, <1>13 DEF IInv

\* Nothing changes, or the server restarts and no request is under way any more.
LEMMA CrashInv ==
  ASSUME IInv, Crash \/ UNCHANGED vars
  PROVE  IInv'
<1>1. UNCHANGED <<token, events, beats, recent>>
  BY DEF Crash, vars
<1>2. TypeOK'
  BY IdleSound DEF IInv, TypeOK, Crash, vars
<1>3. WindowsHold' /\ BeatsHold' /\ StoreHolds'
  BY <1>1 DEF IInv, WindowsHold, BeatsHold, Generated, StoreHolds, Recorded, TotalsAgree, BroughtBy
<1>4. LoopHolds'
  <2>1. CASE Crash
    BY <2>1, IdleSound DEF Crash, LoopHolds, Sound
  <2>2. CASE UNCHANGED vars
    BY <2>2 DEF IInv, LoopHolds, Sound, Recorded, vars
  <2>. QED
    BY <2>1, <2>2
<1>. QED
  BY <1>2, <1>3, <1>4 DEF IInv

\* Every step keeps the invariant.
LEMMA StepInv == IInv /\ [Next]_vars => IInv'
<1> SUFFICES ASSUME IInv, [Next]_vars PROVE IInv'
  OBVIOUS
<1>1. CASE Tick
  BY <1>1, TickInv
<1>2. CASE Crash \/ UNCHANGED vars
  BY <1>2, CrashInv
<1>3. ASSUME NEW t \in Tokens, Generate(t) \/ Revoke(t) \/ Expire(t) PROVE IInv'
  BY <1>3, StateInv
<1>4. ASSUME NEW r \in Requests, NEW t \in Tokens, Post(r, t) \/ PostHeartbeat(r, t) PROVE IInv'
  BY <1>4, PostInv, GoOnInv
<1>5. ASSUME NEW r \in Requests, Resume(r) PROVE IInv'
  BY <1>5, GoOnInv, StoreInv, InsertInv DEF Resume
<1>. QED
  BY <1>1, <1>2, <1>3, <1>4, <1>5 DEF Next

\* Every reachable state satisfies the invariant.
THEOREM InvariantHolds == Spec => []IInv
BY InitInv, StepInv, PTL DEF Spec

-----------------------------------------------------------------------------
(* The status.                                                             *)

\* The tokens with a heartbeat of one of these ages.
Beating(ages) == {t \in Tokens : beats[t] # <<>> /\ beats[t][1] \in ages}

\* As a token has one heartbeat at most, its heartbeats are as many as its tokens.
LEMMA OneEach ==
  ASSUME TypeOK, BeatsHold, NEW ages
  PROVE  /\ IsFiniteSet(Beating(ages)) /\ Cardinality(Beating(ages)) \in Nat
         /\ Cardinality(Heartbeats(ages)) = Cardinality(Beating(ages))
         /\ Beating(ages) \subseteq Generated
<1>1. Beating(ages) \subseteq Generated
  BY DEF Beating, BeatsHold
<1>2. IsFiniteSet(Beating(ages)) /\ Cardinality(Beating(ages)) \in Nat
  BY <1>1, FS_Subset, FS_CardinalityType DEF BeatsHold
<1>3. \A t \in Tokens : DOMAIN beats[t] = IF beats[t] = <<>> THEN {} ELSE {1}
  <2> SUFFICES ASSUME NEW t \in Tokens PROVE DOMAIN beats[t] = IF beats[t] = <<>> THEN {} ELSE {1}
    OBVIOUS
  <2> DEFINE n == Len(beats[t])
  <2>1. beats[t] \in Seq(Ages) /\ n <= 1 /\ DOMAIN beats[t] = 1 .. n
    BY DEF TypeOK, BeatsHold
  <2>2. CASE beats[t] = <<>>
    BY <2>2
  <2>3. CASE beats[t] # <<>>
    <3>1. n \in Nat \ {0}
      BY <2>1, <2>3, EmptySeq
    <3> HIDE DEF n
    <3>2. n = 1
      BY <2>1, <3>1
    <3>3. 1 .. 1 = {1}
      OBVIOUS
    <3>. QED
      BY <2>1, <2>3, <3>2, <3>3
  <2>. QED
    BY <2>2, <2>3
<1>4. Heartbeats(ages) = {<<t, 1>> : t \in Beating(ages)}
  BY <1>3 DEF Heartbeats, Rows, Beating
<1> DEFINE f == [t \in Beating(ages) |-> <<t, 1>>]
<1>5. f \in Bijection(Beating(ages), Heartbeats(ages))
  BY <1>4 DEF Bijection, Injection, Surjection, IsInjective
<1>6. Cardinality(Heartbeats(ages)) = Cardinality(Beating(ages))
  BY <1>2, <1>5, FS_Bijection DEF ExistsBijection
<1>. QED
  BY <1>1, <1>2, <1>6

\* Heartbeats of three kinds of ages are of different tokens.
LEMMA ThreeKinds ==
  ASSUME NEW a, NEW b, NEW c, NEW d, IsFiniteSet(a), IsFiniteSet(b), IsFiniteSet(c), IsFiniteSet(d),
         a \subseteq d, b \subseteq d, c \subseteq d, a \cap b = {}, a \cap c = {}, b \cap c = {}
  PROVE  Cardinality(a) + Cardinality(b) + Cardinality(c) <= Cardinality(d)
<1>1. /\ Cardinality(a) \in Nat /\ Cardinality(b) \in Nat /\ Cardinality(c) \in Nat
      /\ Cardinality(d) \in Nat
  BY FS_CardinalityType
<1>2. IsFiniteSet(a \cup b) /\ Cardinality(a \cup b) = Cardinality(a) + Cardinality(b)
  <2>1. Cardinality(a \cup b) = Cardinality(a) + Cardinality(b) - Cardinality(a \cap b)
    BY FS_Union
  <2>2. Cardinality(a \cap b) = 0
    BY FS_EmptySet
  <2>3. IsFiniteSet(a \cup b)
    BY FS_Union
  <2>. QED
    BY <1>1, <2>1, <2>2, <2>3
<1>3. (a \cup b) \cap c = {}
  OBVIOUS
<1>4. Cardinality((a \cup b) \cup c) = Cardinality(a) + Cardinality(b) + Cardinality(c)
  <2>1. Cardinality((a \cup b) \cup c) =
          Cardinality(a \cup b) + Cardinality(c) - Cardinality((a \cup b) \cap c)
    BY <1>2, FS_Union
  <2>2. Cardinality((a \cup b) \cap c) = 0
    BY <1>3, FS_EmptySet
  <2>. QED
    BY <1>1, <1>2, <2>1, <2>2
<1>5. (a \cup b) \cup c \in SUBSET d
  OBVIOUS
<1>6. Cardinality((a \cup b) \cup c) <= Cardinality(d)
  BY <1>5, FS_Subset
<1>. QED
  BY <1>1, <1>4, <1>6

\* The sums of the status agree because each token has at most one heartbeat row.
LEMMA StatusFromBeats ==
  ASSUME TypeOK, BeatsHold
  PROVE  StatusAddsUp
<1> DEFINE on == Beating(0 .. OnlineHours)
           stale == Beating(OnlineHours + 1 .. StaleHours)
           silent == Beating({StaleHours + 1})
<1>1. OnlineHours \in Nat /\ StaleHours \in Nat /\ OnlineHours < StaleHours
  BY TokenAssumption
<1>2. /\ IsFiniteSet(on) /\ IsFiniteSet(stale) /\ IsFiniteSet(silent) /\ IsFiniteSet(Generated)
      /\ on \subseteq Generated /\ stale \subseteq Generated /\ silent \subseteq Generated
      /\ Online = Cardinality(on) /\ Stale = Cardinality(stale) /\ Silent = Cardinality(silent)
      /\ Online \in Nat /\ Stale \in Nat /\ Silent \in Nat
  BY OneEach DEF Online, Stale, Silent, BeatsHold
<1>3. on \cap stale = {} /\ on \cap silent = {} /\ stale \cap silent = {}
  BY <1>1 DEF Beating
<1> HIDE DEF on, stale, silent
<1>4. Online + Stale + Silent <= Cardinality(Generated)
  BY <1>2, <1>3, ThreeKinds
<1>5. Cardinality(ActiveTokens) \in Nat
  <2>1. ActiveTokens \in SUBSET Generated
    BY DEF ActiveTokens, Generated
  <2>. QED
    BY <1>2, <2>1, FS_Subset, FS_CardinalityType
<1>6. Offline >= Silent /\ Online + Stale + Offline >= Cardinality(ActiveTokens)
  BY <1>2, <1>5 DEF Offline
<1>. QED
  BY <1>4, <1>6 DEF StatusAddsUp, Generated

-----------------------------------------------------------------------------
(* Results.                                                                *)

\* Every variable keeps its type: the counter of the window never passes the limit, and the
\* event loop is held by one request at most.
THEOREM TokenTypes == Spec => []TypeOK
<1>1. IInv => TypeOK
  BY DEF IInv
<1>. QED
  BY <1>1, InvariantHolds, PTL

\* Whatever the limit and the hour: a token is admitted at most twice the limit within any
\* hour, however requests lie to the start of its windows (routers/connector.py, the rate
\* limit of ingest_signal).
THEOREM RateIsLimited == Spec => []SlidingLimit
<1>1. IInv => SlidingLimit
  <2> SUFFICES ASSUME IInv, NEW t \in Tokens PROVE recent[t][Hour] <= 2 * Limit
    BY DEF SlidingLimit
  <2>1. /\ token[t] \in Token /\ recent[t] \in [Instants -> Nat]
        /\ Windowed(token[t], recent[t])
    BY DEF IInv, TypeOK, WindowsHold, Instants
  <2>. QED
    BY <2>1, WithinTwice
<1>. QED
  BY <1>1, InvariantHolds, PTL

\* No increment of signals_total is lost and no signal is stored twice, for any number of
\* requests of any tokens that send the same signals (ingest_signal).
THEOREM TotalsAlwaysAgree == Spec => []TotalsAgree
<1>1. IInv => TotalsAgree
  BY DEF IInv, StoreHolds
<1>. QED
  BY <1>1, InvariantHolds, PTL

\* The status of an organisation adds up for any number of connectors, although nothing in
\* the table keeps a token from having two heartbeats (get_connector_status).
THEOREM StatusAlwaysAddsUp == Spec => []StatusAddsUp
<1>1. IInv => StatusAddsUp
  BY StatusFromBeats DEF IInv
<1>. QED
  BY <1>1, InvariantHolds, PTL

\* A revoked token stays revoked and opens no request, whatever the requests that were
\* under way still do (revoke_token).
THEOREM RevocationIsFinal == Spec => RevocationHolds
<1> DEFINE A == \A t \in Tokens : token[t].state = "revoked" =>
                  /\ token'[t].state = "revoked"
                  /\ {r \in Requests : Uses(r, t)}' \subseteq {r \in Requests : Uses(r, t)}
<1>1. TypeOK /\ [Next]_vars => [A]_vars
  <2> SUFFICES ASSUME TypeOK, Next, NEW t \in Tokens, token[t].state = "revoked"
               PROVE  /\ token'[t].state = "revoked"
                      /\ \A r \in Requests : Uses(r, t)' => Uses(r, t)
    OBVIOUS
  <2>1. /\ token \in [Tokens -> Token] /\ request \in [Requests -> Request] /\ Idle.at = "idle"
        /\ token[t] \in Token /\ \A r \in Requests : request[r] \in Request
    BY DEF TypeOK, Idle
  <2>2. CASE Tick
    BY <2>1, <2>2 DEF Tick, Uses, Token
  <2>3. CASE Crash
    BY <2>1, <2>3 DEF Crash, Uses
  <2>4. CASE \E u \in Tokens : Generate(u) \/ Revoke(u) \/ Expire(u)
    BY <2>1, <2>4 DEF Generate, Revoke, Expire, Uses, Token
  <2>5. ASSUME NEW r \in Requests, NEW u \in Tokens, Post(r, u) \/ PostHeartbeat(r, u)
        PROVE  /\ token'[t].state = "revoked"
               /\ \A x \in Requests : Uses(x, t)' => Uses(x, t)
    <3>1. u # t /\ request[r].at = "idle"
      BY <2>5 DEF Post, PostHeartbeat, Valid, At
    <3>2. PICK at \in {"body", "beat"} : request' = [request EXCEPT ![r].at = at, ![r].token = u]
      BY <2>5 DEF Post, Admitted, PostHeartbeat
    <3>3. request'[r].token = u /\ \A x \in Requests \ {r} : request'[x] = request[x]
      BY <2>1, <3>2 DEF Request
    <3>4. token'[t] = token[t]
      BY <2>1, <2>5, <3>1 DEF Post, Admitted, PostHeartbeat
    <3>. QED
      BY <3>1, <3>3, <3>4 DEF Uses
  <2>6. ASSUME NEW r \in Requests, Resume(r)
        PROVE  /\ token'[t].state = "revoked"
               /\ \A x \in Requests : Uses(x, t)' => Uses(x, t)
    <3>1. ASSUME NEW s \in Signals, BodyArrives(r, s)
          PROVE  UNCHANGED token /\ \A x \in Requests : Uses(x, t)' => Uses(x, t)
      BY <2>1, <3>1 DEF BodyArrives, Uses, At, Request
    <3>2. CASE HeartbeatDelete(r)
      BY <2>1, <3>2 DEF HeartbeatDelete, Uses, At, Request
    <3>3. CASE BodyRefused(r) \/ StoreRolledBack(r) \/ HeartbeatRefused(r) \/ HeartbeatInsert(r)
      BY <2>1, <3>3 DEF BodyRefused, StoreRolledBack, HeartbeatRefused, HeartbeatInsert, Leave, Uses
    <3>4. CASE Store(r)
      BY <2>1, <3>4 DEF Store, Leave, Uses, Token
    <3>. QED
      BY <2>6, <3>1, <3>2, <3>3, <3>4 DEF Resume
  <2>. QED
    BY <2>2, <2>3, <2>4, <2>5, <2>6 DEF Next
<1>. QED
  BY <1>1, TokenTypes, PTL DEF Spec, RevocationHolds
=============================================================================
