---------------------------- MODULE IdpSyncProofs ----------------------------
(***************************************************************************)
(* The properties of IdpSync, for any providers, sessions, times and page  *)
(* limits.                                                                 *)
(*                                                                         *)
(* The first invariant says of each session what the sync that it runs     *)
(* still has to do, so that a window which is called completed is stored.  *)
(* The second one says that the completed windows of a connection hang     *)
(* together, and that each window under way would hang together with them, *)
(* or with the other windows under way while none is completed.            *)
(***************************************************************************)
EXTENDS IdpSync, FiniteSetTheorems, SequenceTheorems, TLAPS

Syncing(q) == q.at \in {"fetch", "flush", "detect", "finish"}

\* All sign-ins of a window are stored or will be with one of the days, if the provider
\* had no more of them than a fetch reads.
Covered(c, from, to, days) ==
  Cardinality(InWindow(c, from, to)) <= PageLimit =>
    \A t \in InWindow(c, from, to) : Stored(c, Day(t)) \/ Day(t) \in days

\* A session may be in state q.
Sound(q) ==
  /\ q.at \notin {"idle", "next"} => q.conn \in DOMAIN rows
  /\ Syncing(q) => q.from <= q.to /\ q.to <= clock /\ clock <= q.to + Window
  /\ q.at = "fetch" /\ q.seen.consented => rows[q.conn].consented
  /\ q.at \in {"flush", "detect", "finish"} => rows[q.conn].consented
  /\ q.at \in {"flush", "detect"} => Covered(q.conn, q.from, q.to, q.batch)
  /\ q.at = "finish" /\ q.logged => Covered(q.conn, q.from, q.to, {})

RowsHold == \A c \in DOMAIN rows : rows[c].synced <= clock

LogsHold ==
  \A l \in completed : /\ l.conn \in DOMAIN rows /\ l.from <= l.to /\ l.to <= clock
                       /\ Covered(l.conn, l.from, l.to, {})

IInv ==
  /\ TypeOK
  /\ \A w \in Workers : Sound(worker[w])
  /\ RowsHold
  /\ LogsHold
  /\ StatusAgreesWithConsent

\* Everything but the sessions has its type.
TablesOK ==
  /\ clock \in Instants
  /\ signins \in [Providers -> SUBSET Instants]
  /\ rows \in Seq(Connection) /\ Len(rows) <= MaxConnections
  /\ telemetry \in SUBSET (Providers \X Days)
  /\ completed \in SUBSET SyncWindow
  /\ auditFailures \in 0 .. MaxAuditFailures

-----------------------------------------------------------------------------
(* What a step may do to the tables.                                       *)

\* Time goes on, and what is there of the past, of the connections and of the events stays.
Later ==
  /\ clock <= clock'
  /\ \A p \in Providers : \A t \in Instants : t <= clock => (t \in signins'[p] <=> t \in signins[p])
  /\ DOMAIN rows \subseteq DOMAIN rows'
  /\ \A c \in DOMAIN rows : /\ rows'[c].provider = rows[c].provider
                            /\ rows[c].consented => rows'[c].consented
  /\ telemetry \subseteq telemetry'

\* A row is one of a connection.
LEMMA RowType ==
  ASSUME TablesOK, NEW c \in DOMAIN rows
  PROVE  /\ rows[c] \in Connection /\ rows[c].provider \in Providers /\ c \in Ids
         /\ rows[c].synced \in Nat /\ clock \in Nat
<1>1. rows \in Seq(Connection) /\ Len(rows) <= MaxConnections
  BY DEF TablesOK
<1>2. DOMAIN rows = 1 .. Len(rows) /\ Len(rows) \in Nat /\ rows[c] \in Connection
  BY <1>1
<1>3. c \in Ids
  BY <1>1, <1>2, SyncBounds DEF Ids
<1>. QED
  BY <1>2, <1>3, SyncBounds DEF Connection, TablesOK, Instants

\* What covers a window goes on to cover it.
LEMMA CoveredStays ==
  ASSUME TablesOK, TablesOK', Later, NEW c \in DOMAIN rows, NEW from, NEW to \in Nat, to <= clock,
         NEW days, Covered(c, from, to, days)
  PROVE  Covered(c, from, to, days)'
<1>1. PICK p \in Providers : rows[c].provider = p /\ rows'[c].provider = p
  <2>1. rows[c].provider \in Providers
    BY RowType
  <2>2. rows'[c].provider = rows[c].provider
    BY DEF Later
  <2>. QED
    BY <2>1, <2>2
<1>2. \A t : t \in signins'[p] /\ t <= to <=> t \in signins[p] /\ t <= to
  <2>1. signins[p] \subseteq Instants /\ signins'[p] \subseteq Instants /\ Instants \subseteq Nat /\ clock \in Nat
    BY SyncBounds DEF TablesOK, Instants
  <2>2. \A t \in Instants : t <= to => t <= clock
    BY <2>1
  <2>3. \A t \in Instants : t <= clock => (t \in signins'[p] <=> t \in signins[p])
    BY DEF Later
  <2>. QED
    BY <2>1, <2>2, <2>3
<1>3. InWindow(c, from, to)' = InWindow(c, from, to)
  BY <1>1, <1>2 DEF InWindow
<1>4. \A d : Stored(c, d) => Stored(c, d)'
  <2>1. telemetry \subseteq telemetry'
    BY DEF Later
  <2>. QED
    BY <1>1, <2>1 DEF Stored
<1>. QED
  BY <1>3, <1>4 DEF Covered

\* A session that may be in a state may be in it later, while its sync is short.
LEMMA SoundStays ==
  ASSUME TablesOK, TablesOK', Later, NEW q \in Worker, Sound(q),
         Syncing(q) => clock' <= q.to + Window
  PROVE  Sound(q)'
<1>1. /\ q.to \in Nat /\ clock \in Nat /\ clock' \in Nat /\ clock <= clock'
      /\ DOMAIN rows \subseteq DOMAIN rows'
  BY SyncBounds DEF Worker, TablesOK, Instants, Later
<1>2. q.conn \in DOMAIN rows => (rows[q.conn].consented => rows'[q.conn].consented)
  BY DEF Later
<1>3. ASSUME NEW days, q.conn \in DOMAIN rows, q.to <= clock, Covered(q.conn, q.from, q.to, days)
      PROVE  Covered(q.conn, q.from, q.to, days)'
  BY <1>1, <1>3, CoveredStays
<1>4. Syncing(q) => q.to <= clock'
  BY <1>1 DEF Sound
<1>5. q.at \in {"flush", "detect", "finish"} => q.conn \in DOMAIN rows /\ q.to <= clock
  BY DEF Sound, Syncing
<1>6. q.at \in {"flush", "detect"} => Covered(q.conn, q.from, q.to, q.batch)'
  BY <1>3, <1>5 DEF Sound
<1>7. q.at = "finish" /\ q.logged => Covered(q.conn, q.from, q.to, {})'
  BY <1>3, <1>5 DEF Sound
<1>8. q.at # "idle" /\ q.at # "next" => q.conn \in DOMAIN rows
  BY DEF Sound
<1>. QED
  BY <1>1, <1>2, <1>4, <1>6, <1>7, <1>8 DEF Sound, Syncing

\* The logs go on to hold.
LEMMA LogsStay ==
  ASSUME TablesOK, TablesOK', Later, LogsHold, completed' = completed
  PROVE  LogsHold'
<1> SUFFICES ASSUME NEW l \in completed
             PROVE  /\ l.conn \in DOMAIN rows' /\ l.to <= clock' /\ l.from <= l.to
                    /\ Covered(l.conn, l.from, l.to, {})'
  BY DEF LogsHold
<1>1. /\ l.conn \in DOMAIN rows /\ l.from <= l.to /\ l.to <= clock
      /\ Covered(l.conn, l.from, l.to, {})
  BY DEF LogsHold
<1>2. l.to \in Nat /\ clock \in Nat /\ clock' \in Nat /\ clock <= clock'
  BY SyncBounds DEF TablesOK, SyncWindow, Instants, Later
<1>3. l.conn \in DOMAIN rows'
  BY <1>1 DEF Later
<1>. QED
  BY <1>1, <1>2, <1>3, CoveredStays

\* One session changes, and the tables as they may.
LEMMA SessionStep ==
  ASSUME IInv, TablesOK', Later, NEW w \in Workers, NEW q \in Worker,
         worker' = [worker EXCEPT ![w] = q], Sound(q)',
         UNCHANGED clock, RowsHold', LogsHold', StatusAgreesWithConsent'
  PROVE  IInv'
<1>1. TablesOK /\ worker \in [Workers -> Worker]
  BY DEF IInv, TypeOK, TablesOK
<1>2. TypeOK'
  BY <1>1 DEF TypeOK, TablesOK
<1>3. \A v \in Workers : Sound(worker[v])'
  <2> SUFFICES ASSUME NEW v \in Workers PROVE Sound(worker[v])'
    OBVIOUS
  <2>1. CASE v = w
    <3>1. worker'[v] = q
      BY <1>1, <2>1
    <3>. QED
      BY <3>1 DEF Sound, Covered, Syncing
  <2>2. CASE v # w
    <3> PICK p \in Worker : worker[v] = p /\ worker'[v] = p
      BY <1>1, <2>2
    <3>1. Sound(p) /\ (Syncing(p) => clock' <= p.to + Window)
      BY DEF IInv, Sound
    <3>2. Sound(p)'
      BY <1>1, <3>1, SoundStays
    <3>. QED
      BY <3>2 DEF Sound, Covered, Syncing
  <2>. QED
    BY <2>1, <2>2
<1>. QED
  BY <1>2, <1>3 DEF IInv

\* One session changes, and no table.
LEMMA QuietStep ==
  ASSUME IInv, NEW w \in Workers, NEW q \in Worker, worker' = [worker EXCEPT ![w] = q], Sound(q),
         UNCHANGED <<clock, signins, rows, telemetry, completed>>,
         auditFailures' \in 0 .. MaxAuditFailures
  PROVE  IInv'
<1>1. TablesOK /\ TablesOK'
  BY DEF IInv, TypeOK, TablesOK
<1>2. Later
  <2>1. clock \in Nat
    BY <1>1, SyncBounds DEF TablesOK, Instants
  <2>. QED
    BY <2>1 DEF Later
<1>3. Sound(q)'
  BY <1>1, <1>2, SoundStays DEF Sound
<1>4. RowsHold' /\ LogsHold' /\ StatusAgreesWithConsent'
  BY <1>1, <1>2, LogsStay DEF IInv, RowsHold, StatusAgreesWithConsent
<1>. QED
  BY <1>1, <1>2, <1>3, <1>4, SessionStep

-----------------------------------------------------------------------------
(* States of a session.                                                    *)

\* A session that does nothing.
LEMMA FreshSound ==
  Fresh \in Worker /\ Fresh.at = "idle" /\ Fresh.todo = {} /\ Sound(Fresh)
<1>1. 1 \in Ids /\ 1 \in Instants /\ 0 \in 0 .. MaxTime
  BY SyncBounds DEF Ids, Instants
<1>. QED
  BY <1>1 DEF Fresh, Worker, Sound, Syncing

\* A sync that is over leaves its session idle, or the job before its next connection.
LEMMA LeavesStep ==
  ASSUME IInv, NEW w \in Workers, NEW carried \in SUBSET (Providers \X Days), NEW failed \in BOOLEAN,
         Leaves(w, carried, failed)
  PROVE  \E q \in Worker : q.at \in {"idle", "next"} /\ worker' = [worker EXCEPT ![w] = q]
<1> DEFINE next == [Fresh EXCEPT !.at = "next", !.todo = worker[w].todo, !.carried = carried,
                                 !.failed = failed]
<1>1. worker[w].todo \in SUBSET Ids
  BY DEF IInv, TypeOK, Worker
<1>2. next \in Worker /\ next.at = "next"
  BY <1>1, FreshSound DEF Worker
<1>3. worker' = [worker EXCEPT ![w] = IF w = Job THEN next ELSE Fresh]
  BY DEF Leaves
<1>. QED
  BY <1>2, <1>3, FreshSound

\* Such a session may be in its state, whatever the tables are.
LEMMA AwaySound ==
  ASSUME NEW q \in Worker, q.at \in {"idle", "next"}
  PROVE  Sound(q) /\ Sound(q)'
BY DEF Sound, Syncing

\* A sync begins with a window that ends now.
LEMMA LoadedSound ==
  ASSUME IInv, NEW w \in Workers, NEW c \in DOMAIN rows
  PROVE  /\ Loaded(w, c) \in Worker /\ Loaded(w, c).at = "fetch" /\ Loaded(w, c).conn = c
         /\ Loaded(w, c).from = Since(c) /\ Loaded(w, c).to = clock /\ Loaded(w, c).logged = TRUE
         /\ Sound(Loaded(w, c))
<1>1. /\ rows[c] \in Connection /\ c \in Ids /\ rows[c].synced \in 0 .. MaxTime /\ rows[c].synced <= clock
      /\ clock \in Instants /\ worker[w] \in Worker
  <2>1. TablesOK /\ worker[w] \in Worker /\ clock \in Instants
    BY DEF IInv, TypeOK, TablesOK
  <2>. QED
    BY <2>1, RowType DEF IInv, RowsHold, Connection
<1>2. Since(c) \in 0 .. MaxTime /\ Since(c) <= clock /\ clock <= clock + Window
  BY <1>1, SyncBounds DEF Since, Instants
<1> DEFINE seen == [status |-> rows[c].status, consented |-> rows[c].consented]
           from == Since(c)
           o == worker[w]
           q == Loaded(w, c)
<1>3. /\ seen \in [status : {"pending", "active", "error", "expired"}, consented : BOOLEAN]
      /\ seen.consented = rows[c].consented
  BY <1>1 DEF Connection
<1>4. q = [o EXCEPT !.at = "fetch", !.conn = c, !.from = from, !.to = clock, !.logged = TRUE,
                    !.seen = seen]
  BY DEF Loaded
<1> HIDE DEF seen, from, o, q
<1>5. /\ q \in Worker /\ q.at = "fetch" /\ q.conn = c /\ q.from = Since(c) /\ q.to = clock
      /\ q.logged = TRUE /\ q.seen.consented = rows[c].consented
  <2>1. o \in Worker /\ from \in 0 .. MaxTime /\ from = Since(c)
    BY <1>1, <1>2 DEF o, from
  <2>. QED
    BY <1>1, <1>3, <1>4, <2>1 DEF Worker
<1>6. clock <= clock
  BY <1>1, SyncBounds DEF Instants
<1>7. Sound(q)
  BY <1>2, <1>5, <1>6, SyncBounds DEF Sound, Syncing
<1>. QED
  BY <1>5, <1>7 DEF q

\* What a session has inserted is of a provider and a day.
LEMMA UncommittedType ==
  ASSUME IInv, NEW w \in Workers
  PROVE  Uncommitted(w) \in SUBSET (Providers \X Days)
<1>1. /\ worker[w].carried \in SUBSET (Providers \X Days) /\ worker[w].batch \in SUBSET Days
      /\ Sound(worker[w]) /\ TablesOK
  BY DEF IInv, TypeOK, TablesOK, Worker
<1>2. At(w, "detect") => worker[w].conn \in DOMAIN rows
  BY <1>1 DEF At, Sound
<1>3. At(w, "detect") => rows[worker[w].conn].provider \in Providers
  BY <1>1, <1>2, RowType
<1>. QED
  BY <1>1, <1>3 DEF Uncommitted

-----------------------------------------------------------------------------
(* Steps.                                                                  *)

\* At first there are no connections.
LEMMA InitInv == Init => IInv
<1> SUFFICES ASSUME Init PROVE IInv
  OBVIOUS
<1>1. 1 \in Instants /\ Len(rows) = 0 /\ DOMAIN rows = {} /\ 0 <= MaxConnections /\ 0 <= MaxAuditFailures
  BY SyncBounds DEF Init, Instants
<1>2. TypeOK
  BY <1>1, FreshSound, SyncBounds DEF Init, TypeOK
<1>3. \A w \in Workers : Sound(worker[w])
  BY FreshSound DEF Init
<1>4. RowsHold /\ LogsHold /\ StatusAgreesWithConsent
  BY <1>1 DEF Init, RowsHold, LogsHold, StatusAgreesWithConsent
<1>. QED
  BY <1>2, <1>3, <1>4 DEF IInv

\* A sign-in comes after every window that is under way or completed.
LEMMA SignInInv ==
  ASSUME IInv, NEW p \in Providers, SignIn(p)
  PROVE  IInv'
<1>1. /\ clock \in Nat /\ clock' = clock + 1 /\ clock' \in Instants /\ clock < clock'
      /\ UNCHANGED <<rows, telemetry, completed, worker, auditFailures>>
  BY SyncBounds DEF SignIn, IInv, TypeOK, Instants
<1>2. signins' = [signins EXCEPT ![p] = @ \cup {clock'}]
  BY <1>1 DEF SignIn
<1>3. signins \in [Providers -> SUBSET Instants]
  BY DEF IInv, TypeOK
<1>4. signins' \in [Providers -> SUBSET Instants]
  BY <1>1, <1>2, <1>3
<1>5. TablesOK /\ TablesOK'
  BY <1>1, <1>4 DEF IInv, TypeOK, TablesOK
<1>6. Later
  <2>1. ASSUME NEW s \in Providers, NEW t \in Instants, t <= clock
        PROVE  t \in signins'[s] <=> t \in signins[s]
    <3>1. t # clock'
      BY <1>1, <2>1, SyncBounds DEF Instants
    <3>. QED
      BY <1>2, <1>3, <3>1
  <2>2. clock <= clock'
    BY <1>1
  <2>. QED
    BY <1>1, <2>1, <2>2 DEF Later
<1>7. \A w \in Workers : Sound(worker[w])'
  <2> SUFFICES ASSUME NEW w \in Workers PROVE Sound(worker[w])'
    OBVIOUS
  <2> PICK q \in Worker : worker[w] = q /\ worker'[w] = q
    BY <1>1 DEF IInv, TypeOK
  <2>1. Sound(q) /\ q.to \in Nat
    BY SyncBounds DEF IInv, Worker, Instants
  <2>2. Syncing(q) => clock < q.to + Window
    BY DEF SignIn, SyncsAreShort, Syncing
  <2>3. Syncing(q) => clock' <= q.to + Window
    BY <1>1, <2>1, <2>2, SyncBounds
  <2>4. Sound(q)'
    BY <1>5, <1>6, <2>1, <2>3, SoundStays
  <2>. QED
    BY <2>4 DEF Sound, Covered, Syncing
<1>8. LogsHold'
  BY <1>1, <1>5, <1>6, LogsStay DEF IInv
<1>9. RowsHold' /\ StatusAgreesWithConsent'
  <2>1. \A c \in DOMAIN rows : rows[c].synced \in Nat
    BY <1>5, RowType
  <2>. QED
    BY <1>1, <2>1 DEF IInv, RowsHold, StatusAgreesWithConsent
<1>10. TypeOK'
  BY <1>1, <1>5 DEF IInv, TypeOK, TablesOK
<1>. QED
  BY <1>7, <1>8, <1>9, <1>10 DEF IInv

\* A connection is written: it keeps its provider and its consent.
LEMMA RowStep ==
  ASSUME IInv, NEW c \in DOMAIN rows, NEW row \in Connection, row.provider = rows[c].provider,
         rows[c].consented => row.consented, row.synced <= clock,
         row.status = "active" => row.consented, row.status = "pending" => ~row.consented,
         rows' = [rows EXCEPT ![c] = row], UNCHANGED <<clock, signins, auditFailures>>,
         telemetry' \in SUBSET (Providers \X Days), telemetry \subseteq telemetry',
         completed' \in SUBSET SyncWindow
  PROVE  TablesOK' /\ Later /\ RowsHold' /\ StatusAgreesWithConsent'
<1>1. rows \in Seq(Connection) /\ Len(rows) \in Nat /\ DOMAIN rows = 1 .. Len(rows)
  BY DEF IInv, TypeOK
<1>2. rows' \in Seq(Connection) /\ Len(rows') = Len(rows) /\ DOMAIN rows' = DOMAIN rows
  BY <1>1
<1>3. \A d \in DOMAIN rows : rows'[d] = IF d = c THEN row ELSE rows[d]
  BY <1>1
<1>4. TablesOK'
  BY <1>2 DEF IInv, TypeOK, TablesOK
<1>5. Later
  <2>1. clock <= clock'
    BY SyncBounds DEF IInv, TypeOK, Instants
  <2>. QED
    BY <1>2, <1>3, <2>1 DEF Later
<1>6. RowsHold' /\ StatusAgreesWithConsent'
  BY <1>2, <1>3 DEF IInv, RowsHold, StatusAgreesWithConsent
<1>. QED
  BY <1>4, <1>5, <1>6

\* A new connection waits for consent.
LEMMA ConnectInv ==
  ASSUME IInv, NEW r \in Requests, NEW p \in Providers, Connect(r, p)
  PROVE  IInv'
<1> DEFINE row == [provider |-> p, status |-> "pending", consented |-> FALSE, synced |-> 0,
                   deleted |-> FALSE]
<1>1. row \in Connection /\ row.synced = 0 /\ row.status = "pending" /\ ~row.consented
  BY SyncBounds DEF Connection
<1>2. rows' = Append(rows, row) /\ Len(rows) < MaxConnections
      /\ UNCHANGED <<clock, signins, telemetry, completed, worker, auditFailures>>
  BY DEF Connect
<1> HIDE DEF row
<1>3. rows \in Seq(Connection) /\ Len(rows) \in Nat /\ DOMAIN rows = 1 .. Len(rows)
  BY DEF IInv, TypeOK
<1>4. /\ rows' \in Seq(Connection) /\ Len(rows') = Len(rows) + 1 /\ DOMAIN rows' = 1 .. Len(rows) + 1
      /\ \A c \in DOMAIN rows : rows'[c] = rows[c]
      /\ rows'[Len(rows) + 1] = row
  BY <1>1, <1>2, <1>3
<1>5. TablesOK /\ TablesOK' /\ clock \in Nat /\ clock <= clock
  BY <1>2, <1>3, <1>4, SyncBounds DEF IInv, TypeOK, TablesOK, Instants
<1>6. \A c \in DOMAIN rows' : rows'[c] = row \/ (c \in DOMAIN rows /\ rows'[c] = rows[c])
  BY <1>3, <1>4
<1>7. Later
  BY <1>2, <1>3, <1>4, <1>5 DEF Later
<1>8. RowsHold' /\ StatusAgreesWithConsent'
  BY <1>1, <1>2, <1>5, <1>6 DEF IInv, RowsHold, StatusAgreesWithConsent
<1>9. LogsHold'
  BY <1>2, <1>5, <1>7, LogsStay DEF IInv
<1> PICK q \in Worker : worker[r] = q /\ Sound(q)
  BY DEF IInv, TypeOK, Workers
<1>10. Sound(q)'
  BY <1>2, <1>5, <1>7, SoundStays DEF Sound
<1>11. r \in Workers /\ worker' = [worker EXCEPT ![r] = q]
  BY <1>2 DEF IInv, TypeOK, Workers
<1>. QED
  BY <1>2, <1>5, <1>7, <1>8, <1>9, <1>10, <1>11, SessionStep

\* The steps of a request before its sync.
LEMMA RequestInv ==
  ASSUME IInv, NEW r \in Requests,
         \/ \E c \in DOMAIN rows : CallbackLoad(r, c) \/ TriggerSync(r, c)
         \/ CallbackSync(r)
  PROVE  IInv'
<1>1. /\ r \in Workers /\ worker[r] \in Worker /\ Sound(worker[r]) /\ TablesOK
      /\ auditFailures \in 0 .. MaxAuditFailures
  BY DEF IInv, TypeOK, TablesOK, Workers
<1>2. ASSUME NEW c \in DOMAIN rows, CallbackLoad(r, c) PROVE IInv'
  <2> DEFINE q == [worker[r] EXCEPT !.at = "exchange", !.conn = c]
  <2>1. q \in Worker /\ q.at = "exchange" /\ q.conn = c
    BY <1>1, RowType DEF Worker
  <2>2. worker' = [worker EXCEPT ![r] = q]
        /\ UNCHANGED <<clock, signins, rows, telemetry, completed, auditFailures>>
    BY <1>2 DEF CallbackLoad
  <2> HIDE DEF q
  <2>3. Sound(q)
    BY <2>1 DEF Sound, Syncing
  <2>. QED
    BY <1>1, <2>1, <2>2, <2>3, QuietStep
<1>3. ASSUME NEW c \in DOMAIN rows, worker' = [worker EXCEPT ![r] = Loaded(r, c)],
             UNCHANGED <<clock, signins, rows, telemetry, completed, auditFailures>>
      PROVE  IInv'
  BY <1>1, <1>3, LoadedSound, QuietStep
<1>4. ASSUME NEW c \in DOMAIN rows, TriggerSync(r, c) PROVE IInv'
  BY <1>3, <1>4 DEF TriggerSync
<1>5. CASE CallbackSync(r)
  <2>1. worker[r].conn \in DOMAIN rows
        /\ UNCHANGED <<clock, signins, rows, telemetry, completed, auditFailures>>
    BY <1>1, <1>5 DEF CallbackSync, At, Sound
  <2>2. CASE worker' = [worker EXCEPT ![r] = Loaded(r, worker[r].conn)]
    BY <1>3, <2>1, <2>2
  <2>3. CASE Over(r)
    BY <1>1, <2>1, <2>3, LeavesStep, AwaySound, QuietStep DEF Over
  <2>. QED
    BY <1>5, <2>2, <2>3 DEF CallbackSync
<1>. QED
  BY <1>2, <1>4, <1>5

\* A sync, or the wait for one, is over and no table has changed.
LEMMA LeavesInv ==
  ASSUME IInv, NEW w \in Workers, NEW carried \in SUBSET (Providers \X Days), NEW failed \in BOOLEAN,
         Leaves(w, carried, failed),
         UNCHANGED <<clock, signins, rows, telemetry, completed, auditFailures>>
  PROVE  IInv'
<1>1. auditFailures' \in 0 .. MaxAuditFailures
  BY DEF IInv, TypeOK
<1>. QED
  BY <1>1, LeavesStep, AwaySound, QuietStep

\* The provider answers, and the connection is one that was consented to.
LEMMA ExchangeInv ==
  ASSUME IInv, NEW r \in Requests, CallbackExchange(r)
  PROVE  IInv'
<1>1. r \in Workers /\ worker[r] \in Worker /\ Sound(worker[r]) /\ TablesOK
  BY DEF IInv, TypeOK, TablesOK, Workers
<1>2. worker[r].conn \in DOMAIN rows /\ UNCHANGED <<clock, signins, telemetry, completed, auditFailures>>
  BY <1>1 DEF CallbackExchange, At, Sound
<1> PICK c \in DOMAIN rows : worker[r].conn = c
  BY <1>2
<1>3. CASE rows' = [rows EXCEPT ![c].consented = TRUE, ![c].status = "active"]
           /\ worker' = [worker EXCEPT ![r].at = "load"]
  <2> DEFINE row == [rows[c] EXCEPT !.consented = TRUE, !.status = "active"]
  <2> PICK q \in Worker : q = [worker[r] EXCEPT !.at = "load"]
    BY <1>1 DEF Worker
  <2>1. rows[c] \in Connection /\ rows[c].synced <= clock
    BY <1>1, RowType DEF IInv, RowsHold
  <2>2. /\ row \in Connection /\ row.provider = rows[c].provider /\ row.consented /\ row.synced <= clock
        /\ row.status = "active"
    BY <2>1 DEF Connection
  <2>3. rows' = [rows EXCEPT ![c] = row] /\ worker' = [worker EXCEPT ![r] = q]
    BY <1>3
  <2>4. q \in Worker /\ q.at = "load" /\ q.conn = c
    BY <1>1 DEF Worker
  <2> HIDE DEF row
  <2>5. telemetry' \in SUBSET (Providers \X Days) /\ completed' \in SUBSET SyncWindow
    BY <1>1, <1>2 DEF TablesOK
  <2>6. TablesOK' /\ Later /\ RowsHold' /\ StatusAgreesWithConsent'
    BY <1>2, <2>2, <2>3, <2>5, RowStep
  <2>7. LogsHold'
    BY <1>1, <1>2, <2>6, LogsStay DEF IInv
  <2>8. Sound(q)'
    <3>1. c \in DOMAIN rows'
      BY <2>6 DEF Later
    <3>. QED
      BY <2>4, <3>1 DEF Sound, Syncing
  <2>. QED
    BY <1>1, <1>2, <2>3, <2>4, <2>6, <2>7, <2>8, SessionStep
<1>4. CASE rows' = rows /\ Over(r)
  BY <1>1, <1>2, <1>4, LeavesInv DEF Over
<1>. QED
  BY <1>3, <1>4 DEF CallbackExchange

\* A connection is disconnected; a sync of it may be under way.
LEMMA DisconnectInv ==
  ASSUME IInv, NEW r \in Requests, NEW c \in DOMAIN rows, Disconnect(r, c)
  PROVE  IInv'
<1>1. r \in Workers /\ worker[r] \in Worker /\ Sound(worker[r]) /\ TablesOK
      /\ worker \in [Workers -> Worker] /\ UNCHANGED <<clock, signins, telemetry, completed, worker, auditFailures>>
  BY DEF IInv, TypeOK, TablesOK, Workers, Disconnect
<1> DEFINE row == [rows[c] EXCEPT !.deleted = TRUE, !.status = "expired"]
<1>2. rows[c] \in Connection /\ rows[c].synced <= clock
  BY <1>1, RowType DEF IInv, RowsHold
<1>3. /\ row \in Connection /\ row.provider = rows[c].provider /\ row.consented = rows[c].consented
      /\ row.synced <= clock /\ row.status = "expired"
  BY <1>2 DEF Connection
<1>4. rows' = [rows EXCEPT ![c] = row]
  BY DEF Disconnect
<1> HIDE DEF row
<1>5. telemetry' \in SUBSET (Providers \X Days) /\ completed' \in SUBSET SyncWindow
  BY <1>1 DEF TablesOK
<1>6. TablesOK' /\ Later /\ RowsHold' /\ StatusAgreesWithConsent'
  BY <1>1, <1>3, <1>4, <1>5, RowStep
<1>7. LogsHold'
  BY <1>1, <1>6, LogsStay DEF IInv
<1> PICK q \in Worker : worker[r] = q /\ Sound(q)
  BY <1>1
<1>8. worker' = [worker EXCEPT ![r] = q] /\ clock' = clock
  BY <1>1
<1>9. Sound(q)'
  BY <1>1, <1>6, SoundStays DEF Sound
<1>. QED
  BY <1>1, <1>6, <1>7, <1>8, <1>9, SessionStep

\* A session has fetched what covers its window.
LEMMA ToFlush ==
  ASSUME IInv, NEW w \in Workers, At(w, "fetch"), worker[w].seen.consented,
         NEW batch \in SUBSET Days, NEW repeated \in BOOLEAN,
         Covered(worker[w].conn, worker[w].from, worker[w].to, batch),
         worker' = [worker EXCEPT ![w].at = "flush", ![w].batch = batch, ![w].repeated = repeated],
         UNCHANGED <<clock, signins, rows, telemetry, completed, auditFailures>>
  PROVE  IInv'
<1>1. worker \in [Workers -> Worker] /\ auditFailures' \in 0 .. MaxAuditFailures
  BY DEF IInv, TypeOK
<1> PICK o \in Worker : worker[w] = o /\ Sound(o) /\ o.at = "fetch" /\ o.seen.consented
  BY <1>1 DEF IInv, At
<1> PICK q \in Worker : q = [o EXCEPT !.at = "flush", !.batch = batch, !.repeated = repeated]
  BY DEF Worker
<1>2. q.at = "flush" /\ q.conn = o.conn /\ q.from = o.from /\ q.to = o.to /\ q.batch = batch
  BY DEF Worker
<1>3. worker' = [worker EXCEPT ![w] = q]
  BY <1>1, Zenon
<1>4. Sound(q)
  BY <1>2 DEF Sound, Syncing
<1>. QED
  BY <1>1, <1>2, <1>3, <1>4, QuietStep

\* A fetch adds an event for each day it has not stored.
LEMMA FetchInv ==
  ASSUME IInv, NEW w \in Workers, SyncFetch(w)
  PROVE  IInv'
<1> DEFINE c == worker[w].conn
           all == InWindow(c, worker[w].from, worker[w].to)
<1>1. PICK fetched \in Fetches(c, worker[w].from, worker[w].to) :
        LET new == {t \in fetched : ~Stored(c, Day(t))}
        IN  worker' = [worker EXCEPT ![w].at = "flush", ![w].batch = {Day(t) : t \in new},
                         ![w].repeated = \E t, u \in new : t # u /\ Day(t) = Day(u)]
  BY DEF SyncFetch
<1>2. /\ At(w, "fetch") /\ worker[w].seen.consented
      /\ UNCHANGED <<clock, signins, rows, telemetry, completed, auditFailures>>
  BY DEF SyncFetch
<1>3. TablesOK /\ c \in DOMAIN rows
  BY <1>2 DEF IInv, TypeOK, TablesOK, Sound, At
<1>4. all \subseteq Instants
  BY <1>3, RowType DEF InWindow, TablesOK
<1>5. fetched \subseteq all /\ (Cardinality(all) <= PageLimit => fetched = all)
  BY DEF Fetches, kSubset
<1> DEFINE new == {t \in fetched : ~Stored(c, Day(t))}
           batch == {Day(t) : t \in new}
           repeated == \E t, u \in new : t # u /\ Day(t) = Day(u)
<1>6. batch \in SUBSET Days /\ repeated \in BOOLEAN
  BY <1>4, <1>5 DEF Days
<1>7. Covered(c, worker[w].from, worker[w].to, batch)
  BY <1>5 DEF Covered
<1>8. worker' = [worker EXCEPT ![w].at = "flush", ![w].batch = batch, ![w].repeated = repeated]
  BY <1>1
<1> HIDE DEF batch, repeated
<1>. QED
  BY <1>2, <1>6, <1>7, <1>8, ToFlush

\* A fetch that fails commits what the session has left, and the error of the connection.
LEMMA FetchFailsInv ==
  ASSUME IInv, NEW w \in Workers, SyncFetchFails(w)
  PROVE  IInv'
<1>1. worker[w] \in Worker /\ Sound(worker[w]) /\ TablesOK
  BY DEF IInv, TypeOK, TablesOK
<1>2. /\ worker[w].conn \in DOMAIN rows /\ Over(w)
      /\ UNCHANGED <<clock, signins, completed, auditFailures>>
  BY <1>1 DEF SyncFetchFails, At, Sound
<1> PICK c \in DOMAIN rows : worker[w].conn = c
  BY <1>2
<1> DEFINE row == IF worker[w].seen.status = "error" THEN rows[c] ELSE [rows[c] EXCEPT !.status = "error"]
<1>3. rows[c] \in Connection /\ rows[c].synced <= clock /\ rows \in Seq(Connection)
      /\ (rows[c].status = "active" => rows[c].consented) /\ (rows[c].status = "pending" => ~rows[c].consented)
  BY <1>1, RowType DEF IInv, RowsHold, StatusAgreesWithConsent, TablesOK
<1>4. /\ row \in Connection /\ row.provider = rows[c].provider /\ row.consented = rows[c].consented
      /\ row.synced <= clock /\ (row.status = "active" => row.consented)
      /\ (row.status = "pending" => ~row.consented)
  BY <1>3 DEF Connection
<1>5. rows' = [rows EXCEPT ![c] = row]
  <2>1. CASE worker[w].seen.status = "error"
    <3>1. rows' = rows /\ row = rows[c]
      BY <2>1 DEF SyncFetchFails
    <3> HIDE DEF row
    <3>. QED
      BY <1>3, <3>1
  <2>2. CASE worker[w].seen.status # "error"
    BY <1>3, <2>2 DEF SyncFetchFails
  <2>. QED
    BY <2>1, <2>2
<1> HIDE DEF row
<1>6. telemetry' \in SUBSET (Providers \X Days) /\ telemetry \subseteq telemetry'
      /\ completed' \in SUBSET SyncWindow
  BY <1>1, <1>2, UncommittedType DEF SyncFetchFails, TablesOK
<1>7. TablesOK' /\ Later /\ RowsHold' /\ StatusAgreesWithConsent'
  BY <1>2, <1>4, <1>5, <1>6, RowStep
<1>8. LogsHold'
  BY <1>1, <1>2, <1>7, LogsStay DEF IInv
<1>9. \E q \in Worker : q.at \in {"idle", "next"} /\ worker' = [worker EXCEPT ![w] = q]
  BY <1>2, LeavesStep DEF Over
<1> PICK q \in Worker : q.at \in {"idle", "next"} /\ worker' = [worker EXCEPT ![w] = q]
  BY <1>9
<1>10. Sound(q)'
  BY AwaySound
<1>. QED
  BY <1>2, <1>7, <1>8, <1>10, SessionStep

\* A fetch that raises another exception leaves the session with what it carried.
LEMMA FetchRaisesInv ==
  ASSUME IInv, NEW w \in Workers, SyncFetchRaises(w)
  PROVE  IInv'
<1>1. TablesOK /\ worker[w] \in Worker
  BY DEF IInv, TypeOK, TablesOK
<1>2. /\ Leaves(w, Uncommitted(w), FALSE)
      /\ UNCHANGED <<clock, signins, rows, telemetry, completed, auditFailures>>
  BY DEF SyncFetchRaises
<1>. QED
  BY <1>1, <1>2, LeavesInv, UncommittedType

\* The events of a sync are inserted, or the sync ends at an event that is there.
LEMMA FlushInv ==
  ASSUME IInv, NEW w \in Workers, SyncFlush(w)
  PROVE  IInv'
<1>1. worker[w] \in Worker /\ Sound(worker[w]) /\ TablesOK
      /\ UNCHANGED <<clock, signins, rows, telemetry, completed, auditFailures>>
  BY DEF IInv, TypeOK, TablesOK, SyncFlush
<1>2. CASE FlushFails(w)
  BY <1>1, <1>2, LeavesInv DEF FlushFails
<1>3. CASE worker' = [worker EXCEPT ![w].at = "detect"]
  <2> PICK o \in Worker : worker[w] = o /\ Sound(o) /\ o.at = "flush"
    BY <1>1 DEF SyncFlush, At
  <2> PICK q \in Worker : q = [o EXCEPT !.at = "detect"]
    BY DEF Worker
  <2>1. /\ worker' = [worker EXCEPT ![w] = q]
        /\ q.at = "detect" /\ q.conn = o.conn /\ q.from = o.from /\ q.to = o.to /\ q.batch = o.batch
    BY <1>3 DEF Worker
  <2>2. Sound(q)
    BY <2>1 DEF Sound, Syncing
  <2>3. auditFailures' \in 0 .. MaxAuditFailures
    BY <1>1 DEF TablesOK
  <2>. QED
    BY <1>1, <2>1, <2>2, <2>3, QuietStep
<1>. QED
  BY <1>2, <1>3 DEF SyncFlush

\* Detection commits the events of the window: they cover it now.
LEMMA CommitInv ==
  ASSUME IInv, NEW w \in Workers, At(w, "detect"), telemetry' = telemetry \cup Uncommitted(w),
         worker' = [worker EXCEPT ![w].at = "finish", ![w].carried = {}],
         UNCHANGED <<clock, signins, rows, completed, auditFailures>>
  PROVE  IInv'
<1>1. TablesOK /\ worker \in [Workers -> Worker] /\ clock \in Nat
  BY SyncBounds DEF IInv, TypeOK, TablesOK, Instants
<1> PICK o \in Worker : worker[w] = o /\ Sound(o) /\ o.at = "detect"
  BY <1>1 DEF IInv, At
<1> PICK q \in Worker : q = [o EXCEPT !.at = "finish", !.carried = {}]
  BY DEF Worker
<1>2. /\ q.at = "finish" /\ q.conn = o.conn /\ q.from = o.from /\ q.to = o.to
      /\ worker' = [worker EXCEPT ![w] = q]
  BY <1>1 DEF Worker
<1>3. telemetry' \in SUBSET (Providers \X Days) /\ telemetry \subseteq telemetry'
  BY <1>1, UncommittedType DEF TablesOK
<1>4. TablesOK' /\ Later
  BY <1>1, <1>3 DEF TablesOK, Later
<1>5. /\ o.conn \in DOMAIN rows /\ rows[o.conn].consented /\ o.from <= o.to /\ o.to <= clock
      /\ clock <= o.to + Window /\ Covered(o.conn, o.from, o.to, o.batch)
  BY DEF Sound, Syncing
<1>6. Covered(o.conn, o.from, o.to, {})'
  <2>1. Covered(o.conn, o.from, o.to, o.batch)'
    BY <1>1, <1>4, <1>5, CoveredStays DEF Worker, Instants
  <2>2. \A d \in o.batch : Stored(o.conn, d)'
    BY DEF Uncommitted, Stored
  <2>. QED
    BY <2>1, <2>2 DEF Covered
<1>7. Sound(q)'
  BY <1>2, <1>5, <1>6 DEF Sound, Syncing
<1>8. RowsHold' /\ LogsHold' /\ StatusAgreesWithConsent'
  BY <1>1, <1>4, LogsStay DEF IInv, RowsHold, StatusAgreesWithConsent
<1>. QED
  BY <1>2, <1>4, <1>7, <1>8, SessionStep

\* Detection commits the events, or an audit entry takes them back with the log, or the sync ends.
LEMMA DetectInv ==
  ASSUME IInv, NEW w \in Workers, SyncDetect(w)
  PROVE  IInv'
<1>1. At(w, "detect") /\ UNCHANGED <<clock, signins, rows, completed>>
  BY DEF SyncDetect
<1>2. CASE /\ telemetry' = telemetry \cup Uncommitted(w)
           /\ worker' = [worker EXCEPT ![w].at = "finish", ![w].carried = {}]
           /\ UNCHANGED auditFailures
  BY <1>1, <1>2, CommitInv
<1>3. CASE /\ auditFailures < MaxAuditFailures
           /\ auditFailures' = auditFailures + 1
           /\ worker' = [worker EXCEPT ![w].at = "finish", ![w].carried = {}, ![w].logged = FALSE]
           /\ UNCHANGED telemetry
  <2>1. worker \in [Workers -> Worker] /\ auditFailures' \in 0 .. MaxAuditFailures
    BY <1>3, SyncBounds DEF IInv, TypeOK
  <2> PICK o \in Worker : worker[w] = o /\ Sound(o) /\ o.at = "detect"
    BY <1>1, <2>1 DEF IInv, At
  <2> PICK q \in Worker : q = [o EXCEPT !.at = "finish", !.carried = {}, !.logged = FALSE]
    BY DEF Worker
  <2>2. /\ q.at = "finish" /\ q.conn = o.conn /\ q.from = o.from /\ q.to = o.to /\ ~q.logged
        /\ worker' = [worker EXCEPT ![w] = q]
    BY <1>3, <2>1 DEF Worker
  <2>3. Sound(q)
    BY <2>2 DEF Sound, Syncing
  <2>. QED
    BY <1>1, <1>3, <2>1, <2>2, <2>3, QuietStep
<1>4. CASE (FlushFails(w) \/ Leaves(w, Uncommitted(w), FALSE)) /\ UNCHANGED <<telemetry, auditFailures>>
  BY <1>1, <1>4, LeavesInv, UncommittedType DEF FlushFails
<1>. QED
  BY <1>2, <1>3, <1>4 DEF SyncDetect

\* The window moves, and is called completed when its log is there.
LEMMA FinishInv ==
  ASSUME IInv, NEW w \in Workers, SyncFinish(w)
  PROVE  IInv'
<1>1. /\ TablesOK /\ worker \in [Workers -> Worker] /\ At(w, "finish")
      /\ UNCHANGED <<clock, signins, telemetry, auditFailures>>
  BY DEF IInv, TypeOK, TablesOK, SyncFinish
<1>2. CASE /\ rows' = [rows EXCEPT ![worker[w].conn].synced = worker[w].to,
                                   ![worker[w].conn].status = "active"]
           /\ completed' = IF worker[w].logged
                             THEN completed \cup {[conn |-> worker[w].conn, from |-> worker[w].from,
                                                   to |-> worker[w].to]}
                             ELSE completed
           /\ Over(w)
  <2> PICK o \in Worker : worker[w] = o /\ Sound(o) /\ o.at = "finish"
    BY <1>1 DEF IInv, At
  <2> PICK c \in DOMAIN rows : o.conn = c
    BY DEF Sound
  <2> DEFINE row == [rows[c] EXCEPT !.synced = o.to, !.status = "active"]
             window == [conn |-> c, from |-> o.from, to |-> o.to]
  <2>1. rows[c] \in Connection /\ c \in Ids /\ rows[c].consented /\ o.from <= o.to /\ o.to <= clock
        /\ (o.logged => Covered(c, o.from, o.to, {}))
    BY <1>1, RowType DEF Sound, Syncing
  <2>2. /\ row \in Connection /\ row.provider = rows[c].provider /\ row.consented /\ row.synced <= clock
        /\ row.status = "active"
    <3>1. o.to \in 0 .. MaxTime
      BY SyncBounds DEF Worker, Instants
    <3>. QED
      BY <2>1, <3>1 DEF Connection
  <2>3. rows' = [rows EXCEPT ![c] = row]
    BY <1>2
  <2>4. completed' = IF o.logged THEN completed \cup {window} ELSE completed
    BY <1>2
  <2>5. window \in SyncWindow /\ window.conn = c /\ window.from = o.from /\ window.to = o.to
    BY <2>1 DEF SyncWindow, Worker
  <2> HIDE DEF row, window
  <2>6. telemetry' \in SUBSET (Providers \X Days) /\ telemetry \subseteq telemetry'
        /\ completed' \in SUBSET SyncWindow
    BY <1>1, <2>4, <2>5 DEF TablesOK
  <2>7. TablesOK' /\ Later /\ RowsHold' /\ StatusAgreesWithConsent'
    BY <1>1, <2>2, <2>3, <2>6, RowStep
  <2>8. LogsHold'
    <3> SUFFICES ASSUME NEW l \in completed'
                 PROVE  /\ l.conn \in DOMAIN rows' /\ l.to <= clock' /\ l.from <= l.to
                        /\ Covered(l.conn, l.from, l.to, {})'
      BY DEF LogsHold
    <3>1. /\ l \in SyncWindow /\ l.conn \in DOMAIN rows /\ l.from <= l.to /\ l.to <= clock
          /\ Covered(l.conn, l.from, l.to, {})
      <4>1. CASE l \in completed
        BY <1>1, <4>1 DEF IInv, LogsHold, TablesOK
      <4>2. CASE o.logged /\ l = window
        BY <2>1, <2>5, <4>2
      <4>. QED
        BY <2>4, <4>1, <4>2
    <3>2. l.to \in Nat /\ l.conn \in DOMAIN rows'
      BY <2>7, <3>1 DEF SyncWindow, Instants, Later
    <3>. QED
      BY <1>1, <2>7, <3>1, <3>2, CoveredStays
  <2>9. \E q \in Worker : q.at \in {"idle", "next"} /\ worker' = [worker EXCEPT ![w] = q]
    BY <1>2, LeavesStep DEF Over
  <2> PICK q \in Worker : q.at \in {"idle", "next"} /\ worker' = [worker EXCEPT ![w] = q]
    BY <2>9
  <2>10. Sound(q)'
    BY AwaySound
  <2>. QED
    BY <1>1, <2>7, <2>8, <2>10, SessionStep
<1>3. CASE (FlushFails(w) \/ Over(w)) /\ UNCHANGED <<rows, completed>>
  BY <1>1, <1>3, LeavesInv DEF FlushFails, Over
<1>. QED
  BY <1>2, <1>3 DEF SyncFinish

\* The nightly job goes over the connections, one after the other.
LEMMA NightlyInv ==
  ASSUME IInv, NightlyStart \/ (\E c \in DOMAIN rows : NightlyNext(c)) \/ NightlyEnd
  PROVE  IInv'
<1>1. /\ TablesOK /\ worker \in [Workers -> Worker] /\ Job \in Workers
      /\ worker[Job] \in Worker /\ worker[Job].todo \in SUBSET Ids
  BY DEF IInv, TypeOK, TablesOK, Workers, Worker
<1>2. ASSUME NEW q \in Worker, Sound(q), worker' = [worker EXCEPT ![Job] = q],
             UNCHANGED <<clock, signins, rows, telemetry, completed, auditFailures>>
      PROVE  IInv'
  <2>1. auditFailures' \in 0 .. MaxAuditFailures
    BY <1>1, <1>2 DEF TablesOK
  <2>. QED
    BY <1>1, <1>2, <2>1, QuietStep
<1>3. CASE NightlyStart
  <2> DEFINE todo == {c \in LiveIds : rows[c].status \in {"active", "pending"}}
  <2>1. todo \in SUBSET Ids
    BY <1>1, RowType DEF LiveIds
  <2>2. worker' = [worker EXCEPT ![Job].at = "next", ![Job].todo = todo]
        /\ UNCHANGED <<clock, signins, rows, telemetry, completed, auditFailures>>
    BY <1>3 DEF NightlyStart
  <2> HIDE DEF todo
  <2> PICK q \in Worker : q = [worker[Job] EXCEPT !.at = "next", !.todo = todo]
    BY <1>1, <2>1 DEF Worker
  <2>3. q.at = "next" /\ worker' = [worker EXCEPT ![Job] = q]
    BY <1>1, <2>2 DEF Worker
  <2>. QED
    BY <1>2, <2>2, <2>3, AwaySound
<1>4. ASSUME NEW c \in DOMAIN rows, NightlyNext(c) PROVE IInv'
  <2> PICK o \in Worker : o = IF Live(c) /\ ~worker[Job].failed THEN Loaded(Job, c) ELSE worker[Job]
    BY <1>1, LoadedSound
  <2>1. Sound(o)
    BY <1>1, LoadedSound DEF IInv
  <2>2. worker' = [worker EXCEPT ![Job] = [o EXCEPT !.todo = worker[Job].todo \ {c}]]
        /\ UNCHANGED <<clock, signins, rows, telemetry, completed, auditFailures>>
    BY <1>1, <1>4 DEF NightlyNext
  <2> PICK todo \in SUBSET Ids : todo = worker[Job].todo \ {c}
    BY <1>1
  <2> PICK q \in Worker : q = [o EXCEPT !.todo = todo]
    BY DEF Worker
  <2>3. q.at = o.at /\ q.conn = o.conn /\ q.from = o.from /\ q.to = o.to /\ q.seen = o.seen
        /\ q.batch = o.batch /\ q.logged = o.logged
    BY DEF Worker
  <2>4. Sound(q)
    BY <2>1, <2>3 DEF Sound, Syncing
  <2>. QED
    BY <1>2, <2>2, <2>4
<1>5. CASE NightlyEnd
  BY <1>2, <1>5, FreshSound DEF NightlyEnd
<1>. QED
  BY <1>3, <1>4, <1>5

\* After a crash no session is left.
LEMMA CrashInv ==
  ASSUME IInv, Crash
  PROVE  IInv'
<1>1. worker' = [w \in Workers |-> Fresh]
      /\ UNCHANGED <<clock, signins, rows, telemetry, completed, auditFailures>>
  BY DEF Crash
<1>2. TablesOK /\ TablesOK' /\ clock \in Nat
  BY <1>1, SyncBounds DEF IInv, TypeOK, TablesOK, Instants
<1>3. Later
  BY <1>1, <1>2 DEF Later
<1>4. LogsHold' /\ RowsHold' /\ StatusAgreesWithConsent'
  BY <1>1, <1>2, <1>3, LogsStay DEF IInv, RowsHold, StatusAgreesWithConsent
<1>5. TypeOK'
  BY <1>1, <1>2, FreshSound DEF TypeOK, TablesOK
<1>6. \A w \in Workers : Sound(worker[w])'
  <2> SUFFICES ASSUME NEW w \in Workers PROVE Sound(worker[w])'
    OBVIOUS
  <2>1. worker'[w].at = "idle"
    BY <1>1, FreshSound
  <2>. QED
    BY <2>1 DEF Sound, Syncing
<1>. QED
  BY <1>4, <1>5, <1>6 DEF IInv

\* Every step keeps the invariant.
LEMMA StepInv == IInv /\ [Next]_vars => IInv'
<1> SUFFICES ASSUME IInv, [Next]_vars PROVE IInv'
  OBVIOUS
<1>1. ASSUME NEW p \in Providers, SignIn(p) PROVE IInv'
  BY <1>1, SignInInv
<1>2. ASSUME NEW r \in Requests, Request(r) PROVE IInv'
  <2>1. ASSUME NEW p \in Providers, Connect(r, p) PROVE IInv'
    BY <2>1, ConnectInv
  <2>2. ASSUME NEW c \in DOMAIN rows, CallbackLoad(r, c) \/ TriggerSync(r, c) PROVE IInv'
    BY <2>2, RequestInv
  <2>3. ASSUME NEW c \in DOMAIN rows, Disconnect(r, c) PROVE IInv'
    BY <2>3, DisconnectInv
  <2>4. CASE CallbackExchange(r)
    BY <2>4, ExchangeInv
  <2>5. CASE CallbackSync(r)
    BY <2>5, RequestInv
  <2>. QED
    BY <1>2, <2>1, <2>2, <2>3, <2>4, <2>5 DEF Request
<1>3. ASSUME NEW w \in Workers, Sync(w) PROVE IInv'
  BY <1>3, FetchInv, FetchFailsInv, FetchRaisesInv, FlushInv, DetectInv, FinishInv DEF Sync
<1>4. CASE NightlyStart \/ (\E c \in DOMAIN rows : NightlyNext(c)) \/ NightlyEnd
  BY <1>4, NightlyInv
<1>5. CASE Crash
  BY <1>5, CrashInv
<1>6. CASE UNCHANGED vars
  <2>1. IInv' <=> IInv
    BY <1>6 DEF vars, IInv, TypeOK, Sound, Covered, InWindow, Stored, RowsHold, LogsHold,
                StatusAgreesWithConsent
  <2>. QED
    BY <2>1
<1>. QED
  BY <1>1, <1>2, <1>3, <1>4, <1>5, <1>6 DEF Next

-----------------------------------------------------------------------------
(* What always holds.                                                      *)

\* The invariant holds: each session is in a state that it may be in, and each window that
\* a sync log calls completed is stored.
THEOREM InvariantHolds == Spec => []IInv
BY InitInv, StepInv, PTL DEF Spec

\* The connections, the sync logs, the events and the sessions have their types.
THEOREM TypeCorrect == Spec => []TypeOK
<1>1. IInv => TypeOK
  BY DEF IInv
<1>. QED
  BY <1>1, InvariantHolds, PTL

\* A connection is active only with consent, and waits for consent only without it.
THEOREM ConsentAgrees == Spec => []StatusAgreesWithConsent
<1>1. IInv => StatusAgreesWithConsent
  BY DEF IInv
<1>. QED
  BY <1>1, InvariantHolds, PTL

\* Each sign-in of a window that a log calls completed has its event in the database,
\* unless the provider had more pages of them than a fetch reads.
THEOREM LogsTellTheTruth == Spec => []CompletedIsStored
<1>1. IInv => CompletedIsStored
  BY DEF IInv, LogsHold, Covered, CompletedIsStored
<1>. QED
  BY <1>1, InvariantHolds, PTL

-----------------------------------------------------------------------------
(* The windows of a connection hang together.                              *)

Of(c) == {l \in completed : l.conn = c}

\* Two windows with nothing between them.
Touch(a, b) == a.from <= b.to /\ b.from <= a.to

\* No instant between windows of a set is in none of them.
Together(windows) ==
  \A a, b \in windows : \A t \in Instants :
    a.from < t /\ t <= b.to => \E l \in windows : l.from < t /\ t <= l.to

\* The window under way in a session will be in the logs and touch one of them, if there is one.
Hangs(q) == q.logged /\ (Of(q.conn) = {} \/ \E k \in Of(q.conn) : Touch(q, k))

WindowsHang == \A w \in Workers : Syncing(worker[w]) => Hangs(worker[w])

FirstsTouch ==
  \A v, w \in Workers :
    /\ Syncing(worker[v]) /\ Syncing(worker[w]) /\ worker[v].conn = worker[w].conn
    /\ Of(worker[v].conn) = {}
    => Touch(worker[v], worker[w])

MarksHold ==
  \A c \in DOMAIN rows : /\ Of(c) = {} => rows[c].synced = 0
                         /\ Of(c) # {} => \E k \in Of(c) : k.to = rows[c].synced
                         /\ Together(Of(c))

Chain == auditFailures = 0 => WindowsHang /\ FirstsTouch /\ MarksHold

\* The window of a session is the one it had, or the session has none.
Keeps(w) ==
  Syncing(worker'[w]) =>
    /\ Syncing(worker[w]) /\ worker'[w].conn = worker[w].conn /\ worker'[w].from = worker[w].from
    /\ worker'[w].to = worker[w].to /\ worker'[w].logged = worker[w].logged

\* The connections keep their marks, and a new one has none.
MarksStay ==
  /\ completed' = completed
  /\ DOMAIN rows \subseteq DOMAIN rows'
  /\ \A c \in DOMAIN rows : rows'[c].synced = rows[c].synced
  /\ \A c \in DOMAIN rows' : c \notin DOMAIN rows => rows'[c].synced = 0

\* A window is one of times, in order.
LEMMA WindowTypes ==
  ASSUME IInv
  PROVE  /\ \A l \in completed : /\ l.from \in Nat /\ l.to \in Instants /\ l.from <= l.to
                                 /\ l.to <= clock /\ l.conn \in DOMAIN rows
         /\ \A w \in Workers :
              /\ worker[w] \in Worker /\ worker[w].from \in Nat /\ worker[w].to \in Nat
              /\ Syncing(worker[w]) => /\ worker[w].from <= worker[w].to /\ worker[w].to <= clock
                                       /\ clock <= worker[w].to + Window
                                       /\ worker[w].conn \in DOMAIN rows
         /\ clock \in Nat /\ Instants \subseteq Nat
<1>1. clock \in Nat /\ Instants \subseteq Nat
  BY SyncBounds DEF IInv, TypeOK, Instants
<1>2. ASSUME NEW l \in completed
      PROVE  l.from \in Nat /\ l.to \in Instants /\ l.from <= l.to /\ l.to <= clock /\ l.conn \in DOMAIN rows
  <2>1. l \in SyncWindow
    BY DEF IInv, TypeOK
  <2>2. l.from \in Nat /\ l.to \in Instants
    BY <2>1, SyncBounds DEF SyncWindow
  <2>. QED
    BY <2>2 DEF IInv, LogsHold
<1>3. ASSUME NEW w \in Workers
      PROVE  worker[w] \in Worker /\ worker[w].from \in Nat /\ worker[w].to \in Nat
  <2>1. worker[w] \in Worker
    BY DEF IInv, TypeOK
  <2>2. worker[w].from \in 0 .. MaxTime /\ worker[w].to \in Instants
    BY <2>1 DEF Worker
  <2>3. 0 .. MaxTime \subseteq Nat
    OBVIOUS
  <2>. QED
    BY <1>1, <2>1, <2>2, <2>3
<1>4. ASSUME NEW w \in Workers, Syncing(worker[w])
      PROVE  /\ worker[w].from <= worker[w].to /\ worker[w].to <= clock /\ clock <= worker[w].to + Window
             /\ worker[w].conn \in DOMAIN rows
  <2>1. Sound(worker[w])
    BY DEF IInv
  <2>. QED
    BY <1>4, <2>1 DEF Sound, Syncing
<1>. QED
  BY <1>1, <1>2, <1>3, <1>4

\* Marks that stay hold.
LEMMA MarksGoOn ==
  ASSUME IInv, MarksHold, MarksStay
  PROVE  MarksHold'
<1> SUFFICES ASSUME NEW c \in DOMAIN rows'
             PROVE  /\ Of(c) = {} => rows'[c].synced = 0
                    /\ Of(c) # {} => \E k \in Of(c) : k.to = rows'[c].synced
                    /\ Together(Of(c))
  BY DEF MarksHold, MarksStay, Of, Together
<1>1. CASE c \in DOMAIN rows
  BY <1>1 DEF MarksHold, MarksStay
<1>2. CASE c \notin DOMAIN rows
  <2>1. Of(c) = {}
    BY <1>2, WindowTypes DEF Of
  <2>. QED
    BY <1>2, <2>1 DEF MarksStay, Together
<1>. QED
  BY <1>1, <1>2

\* A step in which no window begins or is completed.
LEMMA QuietChain ==
  ASSUME IInv, Chain, MarksStay, \A w \in Workers : Keeps(w), auditFailures' = 0 => auditFailures = 0
  PROVE  Chain'
<1> SUFFICES ASSUME auditFailures' = 0, WindowsHang, FirstsTouch, MarksHold
             PROVE  WindowsHang' /\ FirstsTouch' /\ MarksHold'
  BY DEF Chain
<1>1. \A c : Of(c)' = Of(c)
  BY DEF MarksStay, Of
<1>2. WindowsHang'
  <2> SUFFICES ASSUME NEW w \in Workers, Syncing(worker'[w])
               PROVE  worker'[w].logged /\ (Of(worker'[w].conn) = {}
                                            \/ \E k \in Of(worker'[w].conn) : Touch(worker'[w], k))
    BY <1>1 DEF WindowsHang, Syncing, Hangs, Of, MarksStay, Touch
  <2>1. Keeps(w)
    OBVIOUS
  <2>. QED
    BY <2>1 DEF Keeps, WindowsHang, Hangs, Touch
<1>3. FirstsTouch'
  <2> SUFFICES ASSUME NEW v \in Workers, NEW w \in Workers, Syncing(worker'[v]), Syncing(worker'[w]),
                      worker'[v].conn = worker'[w].conn, Of(worker'[v].conn) = {}
               PROVE  Touch(worker'[v], worker'[w])
    BY <1>1 DEF FirstsTouch, Syncing, Touch, Of, MarksStay
  <2>1. Keeps(v) /\ Keeps(w)
    OBVIOUS
  <2>. QED
    BY <2>1 DEF Keeps, FirstsTouch, Touch
<1>. QED
  BY <1>2, <1>3, MarksGoOn

\* A window begins where the last one ended, or reaches back from now.
LEMMA LoadChain ==
  ASSUME IInv, IInv', Chain, NEW w \in Workers, ~Syncing(worker[w]), NEW c \in DOMAIN rows,
         NEW q \in Worker, Syncing(q), q.conn = c, q.from = Since(c), q.to = clock, q.logged = TRUE,
         worker' = [worker EXCEPT ![w] = q],
         UNCHANGED <<clock, signins, rows, telemetry, completed, auditFailures>>
  PROVE  Chain'
<1> SUFFICES ASSUME WindowsHang, FirstsTouch, MarksHold
             PROVE  WindowsHang' /\ FirstsTouch' /\ MarksHold'
  BY DEF Chain
<1>1. \A d : Of(d)' = Of(d)
  BY DEF Of
<1>2. worker \in [Workers -> Worker] /\ clock \in Nat /\ q.from \in Nat /\ q.from <= q.to
  <2>1. worker \in [Workers -> Worker] /\ clock \in Nat /\ q.from \in Nat
    BY WindowTypes DEF IInv, TypeOK, Worker
  <2>2. worker'[w] = q
    BY <2>1
  <2>3. \A v \in Workers : Syncing(worker'[v]) => worker'[v].from <= worker'[v].to
    BY DEF IInv, Sound, Syncing
  <2>4. q.from <= q.to
    BY <2>2, <2>3
  <2>. QED
    BY <2>1, <2>4
<1>3. \A v \in Workers : worker'[v] = IF v = w THEN q ELSE worker[v]
  BY <1>2
<1>4. Of(c) # {} => \E k \in Of(c) : Touch(q, k)
  <2> SUFFICES ASSUME Of(c) # {} PROVE \E k \in Of(c) : Touch(q, k)
    OBVIOUS
  <2> PICK k \in Of(c) : k.to = rows[c].synced
    BY DEF MarksHold
  <2>1. k.from \in Nat /\ k.to \in Instants /\ k.from <= k.to /\ k.to <= clock
    BY WindowTypes DEF Of
  <2>2. k.to # 0 /\ k.to \in Nat
    BY <2>1, SyncBounds DEF Instants
  <2>3. q.from = k.to
    BY <2>2 DEF Since
  <2>. QED
    BY <1>2, <2>1, <2>2, <2>3 DEF Touch
<1>5. ASSUME NEW v \in Workers, Syncing(worker[v]), worker[v].conn = c, Of(c) = {}
      PROVE  Touch(q, worker[v]) /\ Touch(worker[v], q)
  <2>1. rows[c].synced = 0
    BY <1>5 DEF MarksHold
  <2>2. q.from = IF clock > Window THEN clock - Window ELSE 0
    BY <2>1 DEF Since
  <2>3. /\ worker[v].from \in Nat /\ worker[v].to \in Nat /\ worker[v].from <= worker[v].to
        /\ worker[v].to <= clock /\ clock <= worker[v].to + Window
    BY <1>5, WindowTypes
  <2> DEFINE to == worker[v].to
             from == worker[v].from
  <2> HIDE DEF to, from
  <2>4. q.from <= to /\ from <= clock
    BY <1>2, <2>2, <2>3, SyncBounds DEF to, from
  <2>. QED
    BY <2>4 DEF Touch, to, from
<1>6. WindowsHang'
  <2> SUFFICES ASSUME NEW v \in Workers, NEW p, p = worker'[v], Syncing(p) PROVE Hangs(p)
    BY <1>1 DEF WindowsHang, Hangs, Touch, Of, Syncing
  <2>. QED
    BY <1>3, <1>4 DEF WindowsHang, Hangs
<1>7. FirstsTouch'
  <2> SUFFICES ASSUME NEW u \in Workers, NEW v \in Workers, NEW o, NEW p, o = worker'[u], p = worker'[v],
                      Syncing(o), Syncing(p), o.conn = p.conn, Of(o.conn) = {}
               PROVE  Touch(o, p)
    BY <1>1 DEF FirstsTouch, Syncing, Touch, Of
  <2>1. CASE u = w /\ v = w
    BY <1>2, <1>3, <2>1 DEF Touch
  <2>2. CASE u = w /\ v # w
    BY <1>3, <1>5, <2>2
  <2>3. CASE u # w /\ v = w
    BY <1>3, <1>5, <2>3
  <2>4. CASE u # w /\ v # w
    BY <1>3, <2>4 DEF FirstsTouch
  <2>. QED
    BY <2>1, <2>2, <2>3, <2>4
<1>8. MarksHold'
  BY DEF MarksHold, Of, Together
<1>. QED
  BY <1>6, <1>7, <1>8

\* A window that touches one of a set can be added to it.
LEMMA TogetherStays ==
  ASSUME NEW windows, NEW x, NEW k \in windows, Together(windows), Touch(x, k),
         Instants \subseteq Nat, x.from \in Nat, x.to \in Nat,
         \A l \in windows : l.from \in Nat /\ l.to \in Nat
  PROVE  Together(windows \cup {x})
<1> SUFFICES ASSUME NEW a \in windows \cup {x}, NEW b \in windows \cup {x}, NEW t \in Instants,
                    a.from < t, t <= b.to, ~(x.from < t /\ t <= x.to)
             PROVE  \E l \in windows : l.from < t /\ t <= l.to
  BY DEF Together
<1>1. t \in Nat /\ k.from \in Nat /\ k.to \in Nat /\ x.from <= k.to /\ k.from <= x.to
      /\ a.from \in Nat /\ b.to \in Nat
  BY DEF Touch
<1>2. \E l \in windows : l.from < t
  BY <1>1
<1>3. \E l \in windows : t <= l.to
  BY <1>1
<1>. QED
  BY <1>2, <1>3 DEF Together

\* The window of a finished sync is called completed and becomes the mark.
LEMMA FinishChain ==
  ASSUME IInv, Chain, NEW w \in Workers, Syncing(worker[w]), auditFailures' = auditFailures,
         rows' = [rows EXCEPT ![worker[w].conn].synced = worker[w].to,
                              ![worker[w].conn].status = "active"],
         completed' = IF worker[w].logged
                        THEN completed \cup {[conn |-> worker[w].conn, from |-> worker[w].from,
                                              to |-> worker[w].to]}
                        ELSE completed,
         Over(w)
  PROVE  Chain'
<1> SUFFICES ASSUME auditFailures = 0, WindowsHang, FirstsTouch, MarksHold
             PROVE  WindowsHang' /\ FirstsTouch' /\ MarksHold'
  BY DEF Chain
<1> PICK c \in DOMAIN rows : worker[w].conn = c
  BY WindowTypes
<1> PICK x : x = [conn |-> c, from |-> worker[w].from, to |-> worker[w].to]
  OBVIOUS
<1>1. completed' = completed \cup {x} /\ x.conn = c /\ x.from = worker[w].from /\ x.to = worker[w].to
  BY DEF WindowsHang, Hangs
<1>2. /\ x.from \in Nat /\ x.to \in Nat /\ x.from <= x.to /\ Instants \subseteq Nat
      /\ \A l \in Of(c) : l.from \in Nat /\ l.to \in Nat
  BY <1>1, WindowTypes DEF Of
<1>3. /\ rows \in Seq(Connection) /\ DOMAIN rows' = DOMAIN rows
      /\ \A d \in DOMAIN rows : rows'[d].synced = IF d = c THEN x.to ELSE rows[d].synced
  <2>1. rows \in Seq(Connection)
    BY DEF IInv, TypeOK
  <2>2. rows[c] \in Connection
    BY <2>1
  <2>. QED
    BY <1>1, <2>1, <2>2 DEF Connection
<1>4. \A d : Of(d)' = IF d = c THEN Of(c) \cup {x} ELSE Of(d)
  BY <1>1 DEF Of
<1>5. \A v \in Workers : Syncing(worker'[v]) => v # w /\ worker'[v] = worker[v]
  <2> PICK p \in Worker : p.at \in {"idle", "next"} /\ worker' = [worker EXCEPT ![w] = p]
    BY LeavesStep DEF Over
  <2>. QED
    BY DEF IInv, TypeOK, Syncing
<1>6. WindowsHang'
  <2> SUFFICES ASSUME NEW v \in Workers, Syncing(worker'[v]) PROVE Hangs(worker[v])'
    BY DEF WindowsHang, Syncing
  <2>1. v # w /\ worker'[v] = worker[v] /\ Syncing(worker[v])
    BY <1>5
  <2> PICK o : o = worker[v]
    OBVIOUS
  <2>2. Hangs(o) /\ worker'[v] = o
    BY <2>1 DEF WindowsHang
  <2>3. CASE o.conn = c /\ Of(c) = {}
    <3>1. Touch(o, x)
      BY <1>1, <2>1, <2>3 DEF FirstsTouch, Touch
    <3>2. x \in Of(o.conn)'
      BY <1>4, <2>3
    <3>. QED
      BY <2>2, <3>1, <3>2 DEF Hangs, Touch
  <2>4. CASE o.conn # c \/ Of(c) # {}
    <3>1. Of(o.conn) = {} => Of(o.conn)' = {}
      BY <1>4, <2>4
    <3>2. Of(o.conn) \subseteq Of(o.conn)'
      BY <1>4
    <3>. QED
      BY <2>2, <3>1, <3>2 DEF Hangs, Touch
  <2>. QED
    BY <2>3, <2>4
<1>7. FirstsTouch'
  <2> SUFFICES ASSUME NEW u \in Workers, NEW v \in Workers, NEW o, NEW p, o = worker'[u], p = worker'[v],
                      Syncing(o), Syncing(p), o.conn = p.conn, Of(o.conn)' = {}
               PROVE  Touch(o, p)
    BY DEF FirstsTouch, Syncing, Touch, Of
  <2>1. Of(o.conn) = {}
    BY <1>4
  <2>2. o = worker[u] /\ p = worker[v]
    BY <1>5
  <2>. QED
    BY <2>1, <2>2 DEF FirstsTouch
<1>8. Together(Of(c) \cup {x})
  <2>1. CASE Of(c) = {}
    BY <2>1 DEF Together
  <2>2. CASE Of(c) # {}
    <3> PICK k \in Of(c) : Touch(worker[w], k)
      BY <2>2 DEF WindowsHang, Hangs
    <3>1. Touch(x, k)
      BY <1>1 DEF Touch
    <3>2. Together(Of(c))
      BY DEF MarksHold
    <3>. QED
      BY <1>2, <3>1, <3>2, TogetherStays
  <2>. QED
    BY <2>1, <2>2
<1>9. MarksHold'
  <2> SUFFICES ASSUME NEW d \in DOMAIN rows
               PROVE  /\ Of(d)' = {} => rows'[d].synced = 0
                      /\ Of(d)' # {} => \E k \in Of(d)' : k.to = rows'[d].synced
                      /\ Together(Of(d)')
    BY <1>3 DEF MarksHold, Together
  <2>1. CASE d = c
    BY <1>3, <1>4, <1>8, <2>1
  <2>2. CASE d # c
    BY <1>3, <1>4, <2>2 DEF MarksHold
  <2>. QED
    BY <2>1, <2>2
<1>. QED
  BY <1>6, <1>7, <1>9

\* A sync that is over keeps no window.
LEMMA LeavesKeeps ==
  ASSUME IInv, NEW w \in Workers, NEW carried \in SUBSET (Providers \X Days), NEW failed \in BOOLEAN,
         Leaves(w, carried, failed)
  PROVE  \A v \in Workers : Keeps(v)
<1> PICK q \in Worker : q.at \in {"idle", "next"} /\ worker' = [worker EXCEPT ![w] = q]
  BY LeavesStep
<1>. QED
  BY DEF IInv, TypeOK, Keeps, Syncing

\* A session goes on with its window.
LEMMA EditKeeps ==
  ASSUME IInv, NEW w \in Workers, NEW q \in Worker, worker' = [worker EXCEPT ![w] = q],
         Syncing(q) => /\ Syncing(worker[w]) /\ q.conn = worker[w].conn /\ q.from = worker[w].from
                       /\ q.to = worker[w].to /\ q.logged = worker[w].logged
  PROVE  \A v \in Workers : Keeps(v)
BY DEF IInv, TypeOK, Keeps

\* The rows keep their marks when they keep their number and last_synced_at.
LEMMA RowKeepsMark ==
  ASSUME IInv, NEW c \in DOMAIN rows, NEW row, row.synced = rows[c].synced,
         rows' = [rows EXCEPT ![c] = row], completed' = completed
  PROVE  MarksStay
<1>1. rows \in Seq(Connection)
  BY DEF IInv, TypeOK
<1>. QED
  BY <1>1 DEF MarksStay

\* The requests of an administrator.
LEMMA RequestChain ==
  ASSUME IInv, IInv', Chain, NEW r \in Requests, Request(r)
  PROVE  Chain'
<1>1. r \in Workers /\ worker[r] \in Worker /\ worker \in [Workers -> Worker] /\ rows \in Seq(Connection)
      /\ Sound(worker[r]) /\ TablesOK
  BY DEF IInv, TypeOK, TablesOK, Workers
<1>2. ASSUME NEW p \in Providers, Connect(r, p) PROVE Chain'
  <2> DEFINE row == [provider |-> p, status |-> "pending", consented |-> FALSE, synced |-> 0,
                     deleted |-> FALSE]
  <2>1. row.synced = 0 /\ rows' = Append(rows, row) /\ UNCHANGED <<completed, worker, auditFailures>>
    BY <1>2 DEF Connect
  <2> HIDE DEF row
  <2>2. \A v \in Workers : Keeps(v)
    BY <2>1 DEF Keeps
  <2>3. MarksStay
    <3>1. /\ Len(rows) \in Nat /\ DOMAIN rows = 1 .. Len(rows) /\ DOMAIN rows' = 1 .. Len(rows) + 1
          /\ \A c \in DOMAIN rows : rows'[c] = rows[c]
          /\ rows'[Len(rows) + 1] = row
      BY <1>1, <2>1
    <3>. QED
      BY <2>1, <3>1 DEF MarksStay
  <2>. QED
    BY <2>1, <2>2, <2>3, QuietChain
<1>3. ASSUME NEW c \in DOMAIN rows, CallbackLoad(r, c) PROVE Chain'
  <2> PICK q \in Worker : q = [worker[r] EXCEPT !.at = "exchange", !.conn = c]
    BY <1>1, RowType DEF Worker
  <2>1. q.at = "exchange" /\ worker' = [worker EXCEPT ![r] = q] /\ UNCHANGED <<rows, completed, auditFailures>>
    BY <1>1, <1>3 DEF CallbackLoad, Worker
  <2>2. \A v \in Workers : Keeps(v)
    BY <1>1, <2>1, EditKeeps DEF Syncing
  <2>3. MarksStay
    BY <2>1 DEF MarksStay
  <2>. QED
    BY <2>1, <2>2, <2>3, QuietChain
<1>4. ASSUME NEW c \in DOMAIN rows, ~Syncing(worker[r]), worker' = [worker EXCEPT ![r] = Loaded(r, c)],
             UNCHANGED <<clock, signins, rows, telemetry, completed, auditFailures>>
      PROVE  Chain'
  <2>1. Syncing(Loaded(r, c))
    BY <1>1, LoadedSound DEF Syncing
  <2>. QED
    BY <1>1, <1>4, <2>1, LoadedSound, LoadChain
<1>5. ASSUME NEW c \in DOMAIN rows, TriggerSync(r, c) PROVE Chain'
  BY <1>4, <1>5 DEF TriggerSync, At, Syncing
<1>6. CASE CallbackSync(r)
  <2>1. /\ worker[r].conn \in DOMAIN rows /\ ~Syncing(worker[r])
        /\ UNCHANGED <<clock, signins, rows, telemetry, completed, auditFailures>>
    BY <1>1, <1>6 DEF CallbackSync, At, Sound, Syncing
  <2>2. CASE worker' = [worker EXCEPT ![r] = Loaded(r, worker[r].conn)]
    BY <1>4, <2>1, <2>2
  <2>3. CASE Over(r)
    <3>1. MarksStay
      BY <2>1 DEF MarksStay
    <3>. QED
      BY <1>1, <2>1, <2>3, <3>1, LeavesKeeps, QuietChain DEF Over
  <2>. QED
    BY <1>6, <2>2, <2>3 DEF CallbackSync
<1>7. ASSUME NEW c \in DOMAIN rows, Disconnect(r, c) PROVE Chain'
  <2> DEFINE row == [rows[c] EXCEPT !.deleted = TRUE, !.status = "expired"]
  <2>1. row.synced = rows[c].synced
    BY <1>1, RowType DEF Connection
  <2>2. rows' = [rows EXCEPT ![c] = row] /\ UNCHANGED <<completed, worker, auditFailures>>
    BY <1>7 DEF Disconnect
  <2> HIDE DEF row
  <2>3. MarksStay
    BY <2>1, <2>2, RowKeepsMark
  <2>4. \A v \in Workers : Keeps(v)
    BY <2>2 DEF Keeps
  <2>. QED
    BY <2>2, <2>3, <2>4, QuietChain
<1>8. CASE CallbackExchange(r)
  <2>1. worker[r].conn \in DOMAIN rows /\ UNCHANGED <<completed, auditFailures>>
    BY <1>1, <1>8 DEF CallbackExchange, At, Sound
  <2> PICK c \in DOMAIN rows : worker[r].conn = c
    BY <2>1
  <2>2. CASE rows' = [rows EXCEPT ![c].consented = TRUE, ![c].status = "active"]
             /\ worker' = [worker EXCEPT ![r].at = "load"]
    <3> DEFINE row == [rows[c] EXCEPT !.consented = TRUE, !.status = "active"]
    <3>1. row.synced = rows[c].synced
      BY <1>1, RowType DEF Connection
    <3>2. rows' = [rows EXCEPT ![c] = row]
      BY <2>2
    <3> HIDE DEF row
    <3>3. MarksStay
      BY <2>1, <3>1, <3>2, RowKeepsMark
    <3> PICK q \in Worker : q = [worker[r] EXCEPT !.at = "load"]
      BY <1>1 DEF Worker
    <3>4. q.at = "load" /\ worker' = [worker EXCEPT ![r] = q]
      BY <1>1, <2>2 DEF Worker
    <3>5. \A v \in Workers : Keeps(v)
      BY <1>1, <3>4, EditKeeps DEF Syncing
    <3>. QED
      BY <2>1, <3>3, <3>5, QuietChain
  <2>3. CASE rows' = rows /\ Over(r)
    <3>1. MarksStay
      BY <2>1, <2>3 DEF MarksStay
    <3>. QED
      BY <1>1, <2>1, <2>3, <3>1, LeavesKeeps, QuietChain DEF Over
  <2>. QED
    BY <1>8, <2>2, <2>3 DEF CallbackExchange
<1>. QED
  BY <1>2, <1>3, <1>5, <1>6, <1>7, <1>8 DEF Request

\* The steps of a sync.
LEMMA SyncChain ==
  ASSUME IInv, Chain, NEW w \in Workers, Sync(w)
  PROVE  Chain'
<1>1. worker[w] \in Worker /\ worker \in [Workers -> Worker] /\ rows \in Seq(Connection)
      /\ Sound(worker[w]) /\ TablesOK /\ auditFailures \in Nat
  BY SyncBounds DEF IInv, TypeOK, TablesOK
<1>2. ASSUME NEW carried \in SUBSET (Providers \X Days), NEW failed \in BOOLEAN,
             Leaves(w, carried, failed), MarksStay, UNCHANGED auditFailures
      PROVE  Chain'
  BY <1>2, LeavesKeeps, QuietChain
<1>3. UNCHANGED <<rows, completed>> => MarksStay
  BY DEF MarksStay
<1>4. CASE SyncFetch(w)
  <2>1. At(w, "fetch") /\ UNCHANGED <<rows, completed, auditFailures>>
    BY <1>4 DEF SyncFetch
  <2>2. PICK batch, repeated :
          worker' = [worker EXCEPT ![w].at = "flush", ![w].batch = batch, ![w].repeated = repeated]
    BY <1>4 DEF SyncFetch
  <2>3. \A v \in Workers : Keeps(v)
    BY <1>1, <2>1, <2>2 DEF Keeps, Syncing, At, Worker
  <2>. QED
    BY <1>3, <2>1, <2>3, QuietChain
<1>5. CASE SyncFetchFails(w)
  <2>1. worker[w].conn \in DOMAIN rows /\ Over(w) /\ UNCHANGED <<completed, auditFailures>>
    BY <1>1, <1>5 DEF SyncFetchFails, At, Sound
  <2> PICK c \in DOMAIN rows : worker[w].conn = c
    BY <2>1
  <2>2. MarksStay
    <3>1. CASE rows' = rows
      BY <1>3, <2>1, <3>1
    <3>2. CASE rows' = [rows EXCEPT ![c].status = "error"]
      <4> DEFINE row == [rows[c] EXCEPT !.status = "error"]
      <4>1. row.synced = rows[c].synced /\ rows' = [rows EXCEPT ![c] = row]
        BY <1>1, <3>2, RowType DEF Connection
      <4> HIDE DEF row
      <4>. QED
        BY <2>1, <4>1, RowKeepsMark
    <3>. QED
      BY <1>5, <3>1, <3>2 DEF SyncFetchFails
  <2>. QED
    BY <1>2, <2>1, <2>2 DEF Over
<1>6. CASE SyncFlush(w)
  <2>1. At(w, "flush") /\ UNCHANGED <<rows, completed, auditFailures>>
    BY <1>6 DEF SyncFlush
  <2>2. CASE FlushFails(w)
    BY <1>2, <1>3, <2>1, <2>2 DEF FlushFails
  <2>3. CASE worker' = [worker EXCEPT ![w].at = "detect"]
    <3>1. \A v \in Workers : Keeps(v)
      BY <1>1, <2>1, <2>3 DEF Keeps, Syncing, At, Worker
    <3>. QED
      BY <1>3, <2>1, <3>1, QuietChain
  <2>. QED
    BY <1>6, <2>2, <2>3 DEF SyncFlush
<1>7. CASE SyncDetect(w)
  <2>1. At(w, "detect") /\ UNCHANGED <<rows, completed>>
    BY <1>7 DEF SyncDetect
  <2>2. CASE worker' = [worker EXCEPT ![w].at = "finish", ![w].carried = {}] /\ UNCHANGED auditFailures
    <3>1. \A v \in Workers : Keeps(v)
      BY <1>1, <2>1, <2>2 DEF Keeps, Syncing, At, Worker
    <3>. QED
      BY <1>3, <2>1, <2>2, <3>1, QuietChain
  <2>3. CASE auditFailures' = auditFailures + 1
    BY <1>1, <2>3 DEF Chain
  <2>4. CASE (FlushFails(w) \/ Leaves(w, Uncommitted(w), FALSE)) /\ UNCHANGED auditFailures
    BY <1>2, <1>3, <2>1, <2>4, UncommittedType DEF FlushFails
  <2>. QED
    BY <1>7, <2>2, <2>3, <2>4 DEF SyncDetect
<1>8. CASE SyncFinish(w)
  <2>1. Syncing(worker[w]) /\ UNCHANGED auditFailures
    BY <1>8 DEF SyncFinish, At, Syncing
  <2>2. CASE (FlushFails(w) \/ Over(w)) /\ UNCHANGED <<rows, completed>>
    BY <1>2, <1>3, <2>1, <2>2 DEF FlushFails, Over
  <2>3. CASE ~((FlushFails(w) \/ Over(w)) /\ UNCHANGED <<rows, completed>>)
    BY <1>8, <2>1, <2>3, FinishChain DEF SyncFinish
  <2>. QED
    BY <2>2, <2>3
<1>9. CASE SyncFetchRaises(w)
  <2>1. Leaves(w, Uncommitted(w), FALSE) /\ UNCHANGED <<rows, completed, auditFailures>>
    BY <1>9 DEF SyncFetchRaises
  <2>. QED
    BY <1>1, <1>2, <1>3, <2>1, UncommittedType
<1>. QED
  BY <1>4, <1>5, <1>6, <1>7, <1>8, <1>9 DEF Sync

\* The nightly job begins one window at a time.
LEMMA NightlyChain ==
  ASSUME IInv, IInv', Chain, NightlyStart \/ (\E c \in DOMAIN rows : NightlyNext(c)) \/ NightlyEnd
  PROVE  Chain'
<1>1. /\ worker \in [Workers -> Worker] /\ Job \in Workers /\ worker[Job] \in Worker /\ TablesOK
      /\ worker[Job].todo \in SUBSET Ids
      /\ UNCHANGED <<clock, signins, rows, telemetry, completed, auditFailures>>
  BY DEF IInv, TypeOK, TablesOK, Workers, Worker, NightlyStart, NightlyNext, NightlyEnd
<1>2. MarksStay
  BY <1>1 DEF MarksStay
<1>3. ASSUME NEW q \in Worker, worker' = [worker EXCEPT ![Job] = q], q.at \in {"idle", "next"}
      PROVE  Chain'
  <2>1. \A v \in Workers : Keeps(v)
    BY <1>1, <1>3 DEF Keeps, Syncing
  <2>. QED
    BY <1>1, <1>2, <2>1, QuietChain
<1>4. CASE NightlyStart
  <2>1. \A v \in Workers : Keeps(v)
    BY <1>1, <1>4 DEF NightlyStart, Keeps, Syncing, Worker
  <2>. QED
    BY <1>1, <1>2, <2>1, QuietChain
<1>5. ASSUME NEW c \in DOMAIN rows, NightlyNext(c) PROVE Chain'
  <2>1. worker[Job].at = "next"
    BY <1>5 DEF NightlyNext, At
  <2> PICK todo \in SUBSET Ids : todo = worker[Job].todo \ {c}
    BY <1>1
  <2>2. CASE Live(c) /\ ~worker[Job].failed
    <3> PICK o \in Worker : o = Loaded(Job, c)
      BY <1>1, LoadedSound
    <3> PICK q \in Worker : q = [o EXCEPT !.todo = todo]
      BY DEF Worker
    <3>1. worker' = [worker EXCEPT ![Job] = q]
      BY <1>1, <1>5, <2>2 DEF NightlyNext
    <3>2. o.at = "fetch" /\ o.conn = c /\ o.from = Since(c) /\ o.to = clock /\ o.logged = TRUE
      BY <1>1, LoadedSound
    <3>3. q.at = "fetch" /\ q.conn = c /\ q.from = Since(c) /\ q.to = clock /\ q.logged = TRUE
      BY <3>2 DEF Worker
    <3>4. Syncing(q) /\ ~Syncing(worker[Job])
      BY <2>1, <3>3 DEF Syncing
    <3>. QED
      BY <1>1, <3>1, <3>3, <3>4, LoadChain
  <2>3. CASE ~(Live(c) /\ ~worker[Job].failed)
    <3> PICK q \in Worker : q = [worker[Job] EXCEPT !.todo = todo]
      BY <1>1 DEF Worker
    <3>1. worker' = [worker EXCEPT ![Job] = q] /\ q.at = "next"
      BY <1>1, <1>5, <2>1, <2>3 DEF NightlyNext, Worker
    <3>. QED
      BY <1>3, <3>1
  <2>. QED
    BY <2>2, <2>3
<1>6. CASE NightlyEnd
  BY <1>3, <1>6, FreshSound DEF NightlyEnd
<1>. QED
  BY <1>4, <1>5, <1>6

\* Every step keeps the windows of a connection together.
LEMMA ChainStep == IInv /\ IInv' /\ Chain /\ [Next]_vars => Chain'
<1> SUFFICES ASSUME IInv, IInv', Chain, [Next]_vars PROVE Chain'
  OBVIOUS
<1>1. ASSUME NEW p \in Providers, SignIn(p) PROVE Chain'
  BY <1>1, QuietChain DEF SignIn, MarksStay, Keeps
<1>2. ASSUME NEW r \in Requests, Request(r) PROVE Chain'
  BY <1>2, RequestChain
<1>3. ASSUME NEW w \in Workers, Sync(w) PROVE Chain'
  BY <1>3, SyncChain
<1>4. CASE NightlyStart \/ (\E c \in DOMAIN rows : NightlyNext(c)) \/ NightlyEnd
  BY <1>4, NightlyChain
<1>5. CASE Crash
  <2>1. UNCHANGED <<rows, completed, auditFailures>> /\ worker' = [w \in Workers |-> Fresh]
    BY <1>5 DEF Crash
  <2>2. \A w \in Workers : Keeps(w)
    BY <2>1, FreshSound DEF Keeps, Syncing
  <2>. QED
    BY <2>1, <2>2, QuietChain DEF MarksStay
<1>6. CASE UNCHANGED vars
  BY <1>6, QuietChain DEF vars, MarksStay, Keeps
<1>. QED
  BY <1>1, <1>2, <1>3, <1>4, <1>5, <1>6 DEF Next

\* At first there is no window.
LEMMA ChainInit == Init => Chain
<1> SUFFICES ASSUME Init PROVE Chain
  OBVIOUS
<1>1. DOMAIN rows = {} /\ \A w \in Workers : ~Syncing(worker[w])
  BY FreshSound DEF Init, Syncing
<1>. QED
  BY <1>1 DEF Chain, WindowsHang, FirstsTouch, MarksHold

\* The windows hang together.
THEOREM WindowsHangTogether == Spec => []Chain
<1>1. Init /\ [][Next]_vars => []IInv
  BY InvariantHolds DEF Spec
<1>. QED
  BY <1>1, ChainInit, ChainStep, PTL DEF Spec

\* No sign-in falls between the completed windows of a connection while no audit entry fails.
THEOREM NothingFallsBetween == Spec => []NoHole
<1>1. IInv /\ Chain => NoHole
  <2> SUFFICES ASSUME IInv, MarksHold, NEW c \in DOMAIN rows, NEW t \in 1 .. rows[c].synced,
                      NEW a \in completed, a.conn = c, a.from < t
               PROVE  \E l \in completed : l.conn = c /\ l.from < t /\ t <= l.to
    BY DEF Chain, NoHole
  <2>1. Together(Of(c)) /\ a \in Of(c)
    BY DEF MarksHold, Of
  <2>2. PICK b \in Of(c) : b.to = rows[c].synced
    BY <2>1 DEF MarksHold
  <2>3. t \in Instants
    <3>1. b.to \in Instants
      BY WindowTypes DEF Of
    <3>. QED
      BY <2>2, <3>1, SyncBounds DEF Instants
  <2>4. t <= b.to
    BY <2>2
  <2>5. \E l \in Of(c) : l.from < t /\ t <= l.to
    BY <2>1, <2>2, <2>3, <2>4 DEF Together
  <2>. QED
    BY <2>5 DEF Of
<1>. QED
  BY <1>1, InvariantHolds, WindowsHangTogether, PTL
=============================================================================
