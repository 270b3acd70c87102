------------------------------ MODULE IdpSync -------------------------------
(***************************************************************************)
(* Tier 2: the connections of an organisation to its identity providers,   *)
(* and the syncs that turn the sign-ins logged there into telemetry.       *)
(*                                                                         *)
(* A sync fetches the sign-ins of a window that begins where the last one  *)
(* ended, adds one event per provider and day, runs detection, and at last *)
(* moves the window.  API requests and the nightly job of all connections  *)
(* do so in sessions of their own; the job has one session for all.        *)
(*                                                                         *)
(* All sign-ins are to applications that match one signature.  Each has an *)
(* instant of its own, and the providers list it at once.                  *)
(***************************************************************************)
EXTENDS Naturals, Sequences, FiniteSetsExt

CONSTANTS
  Providers,
  Requests,          \* API requests at a time
  Job,               \* the nightly job
  Window,            \* sync_window_hours, the reach of a first sync
  DayLength,         \* instants of a day, the part of a date in a signal hash
  PageLimit,         \* sign-ins on the 10 pages that a fetch reads
  MaxTime,           \* bound: instants
  MaxConnections,    \* bound: connections ever made
  MaxAuditFailures   \* bound: audit entries that fail

ASSUME SyncBounds ==
  /\ Job \notin Requests
  /\ Window \in Nat \ {0} /\ DayLength \in Nat \ {0} /\ PageLimit \in Nat \ {0}
  /\ MaxTime \in Nat \ {0} /\ MaxConnections \in Nat \ {0} /\ MaxAuditFailures \in Nat

VARIABLES
  clock,          \* the present instant
  signins,        \* per provider, the instants of its sign-ins
  rows,           \* idp_connections, in order of creation
  telemetry,      \* <<provider, day>> of the committed events
  completed,      \* the windows of the completed sync logs
  worker,         \* per session, where it is and what it holds
  auditFailures

vars == <<clock, signins, rows, telemetry, completed, worker, auditFailures>>

Workers == Requests \cup {Job}
Instants == 1 .. MaxTime
Ids == 1 .. MaxConnections
Day(t) == t \div DayLength
Days == {Day(t) : t \in Instants}

\* consented: the access token is one of the provider, not the placeholder.
\* synced: last_synced_at, 0 when there was no sync.
Connection == [provider : Providers, status : {"pending", "active", "error", "expired"},
               consented : BOOLEAN, synced : 0 .. MaxTime, deleted : BOOLEAN]

SyncWindow == [conn : Ids, from : 0 .. MaxTime, to : Instants]

\* seen: the connection as it was loaded.  batch: days of the added events.
\* repeated: two of them have the same hash.  logged: the sync log is there.
\* todo: of the job, the connections left.  carried: the events that a sync which
\* ended with an exception left uncommitted in its session; failed: the session
\* has failed in a flush.  Nobody rolls it back in either case.
Worker == [at : {"idle", "exchange", "load", "fetch", "flush", "detect", "finish", "next"},
           conn : Ids, from : 0 .. MaxTime, to : Instants,
           seen : [status : {"pending", "active", "error", "expired"}, consented : BOOLEAN],
           batch : SUBSET Days, repeated : BOOLEAN, logged : BOOLEAN,
           todo : SUBSET Ids, carried : SUBSET (Providers \X Days), failed : BOOLEAN]

Fresh == [at |-> "idle", conn |-> 1, from |-> 0, to |-> 1,
          seen |-> [status |-> "pending", consented |-> FALSE],
          batch |-> {}, repeated |-> FALSE, logged |-> FALSE, todo |-> {},
          carried |-> {}, failed |-> FALSE]

TypeOK ==
  /\ clock \in Instants
  /\ signins \in [Providers -> SUBSET Instants]
  /\ rows \in Seq(Connection) /\ Len(rows) <= MaxConnections
  /\ telemetry \in SUBSET (Providers \X Days)
  /\ completed \in SUBSET SyncWindow
  /\ worker \in [Workers -> Worker]
  /\ auditFailures \in 0 .. MaxAuditFailures

Init ==
  /\ clock = 1
  /\ signins = [p \in Providers |-> {}]
  /\ rows = <<>>
  /\ telemetry = {} /\ completed = {}
  /\ worker = [w \in Workers |-> Fresh]
  /\ auditFailures = 0

At(w, step) == worker[w].at = step
Live(c) == ~rows[c].deleted
LiveIds == {c \in DOMAIN rows : Live(c)}

\* The sync of a connection is over: a request closes its session, the job goes
\* on in the one it has, with what it left there.
Leaves(w, carried, failed) ==
  worker' = [worker EXCEPT ![w] =
    IF w = Job THEN [Fresh EXCEPT !.at = "next", !.todo = worker[w].todo,
                                  !.carried = carried, !.failed = failed]
               ELSE Fresh]

Over(w) == Leaves(w, {}, FALSE)
FlushFails(w) == Leaves(w, {}, TRUE)

\* The events that the session of w has inserted and not committed.
Uncommitted(w) ==
  worker[w].carried \cup
    (IF At(w, "detect") THEN {<<rows[worker[w].conn].provider, d>> : d \in worker[w].batch}
                        ELSE {})

\* Mutant: every window reaches back sync_window_hours.
SinceFixed(c) == IF clock > Window THEN clock - Window ELSE 0

Since(c) ==
  IF rows[c].synced # 0 THEN rows[c].synced
  ELSE IF clock > Window THEN clock - Window ELSE 0

\* The state of a session that has loaded connection c for a sync.
Loaded(w, c) ==
  [worker[w] EXCEPT !.at = "fetch", !.conn = c, !.from = Since(c), !.to = clock, !.logged = TRUE,
                    !.seen = [status |-> rows[c].status, consented |-> rows[c].consented]]

-----------------------------------------------------------------------------
(* The world.                                                              *)

\* A sync, with at most 10 requests of 60 s, takes less than sync_window_hours.
SyncsAreShort ==
  \A w \in Workers : worker[w].at \in {"fetch", "flush", "detect", "finish"} =>
    clock < worker[w].to + Window

SignIn(p) ==
  /\ clock < MaxTime /\ SyncsAreShort
  /\ clock' = clock + 1
  /\ signins' = [signins EXCEPT ![p] = @ \cup {clock + 1}]
  /\ UNCHANGED <<rows, telemetry, completed, worker, auditFailures>>

-----------------------------------------------------------------------------
(* The requests of an administrator.                                       *)

\* initiate_oauth_flow; uq_idp_org_provider_active refuses a second one.
Connect(r, p) ==
  /\ At(r, "idle") /\ Len(rows) < MaxConnections
  /\ \A c \in LiveIds : rows[c].provider # p
  /\ rows' = Append(rows, [provider |-> p, status |-> "pending", consented |-> FALSE,
                           synced |-> 0, deleted |-> FALSE])
  /\ UNCHANGED <<clock, signins, telemetry, completed, worker, auditFailures>>

\* handle_oauth_callback finds the pending connection of the provider.
CallbackLoad(r, c) ==
  /\ At(r, "idle") /\ c \in LiveIds /\ rows[c].status = "pending"
  /\ worker' = [worker EXCEPT ![r].at = "exchange", ![r].conn = c]
  /\ UNCHANGED <<clock, signins, rows, telemetry, completed, auditFailures>>

\* Mutant: the answer of the provider is not looked at.
CallbackExchangeUnchecked(r) ==
  LET c == worker[r].conn
  IN  /\ At(r, "exchange")
      /\ \E token \in BOOLEAN :
           rows' = [rows EXCEPT ![c].consented = token, ![c].status = "active"]
      /\ worker' = [worker EXCEPT ![r].at = "load"]
      /\ UNCHANGED <<clock, signins, telemetry, completed, auditFailures>>

\* The code is exchanged for tokens, or the request fails with a 502.
CallbackExchange(r) ==
  LET c == worker[r].conn
  IN  /\ At(r, "exchange")
      /\ \/ /\ rows' = [rows EXCEPT ![c].consented = TRUE, ![c].status = "active"]
            /\ worker' = [worker EXCEPT ![r].at = "load"]
         \/ rows' = rows /\ Over(r)
      /\ UNCHANGED <<clock, signins, telemetry, completed, auditFailures>>

\* The callback loads the connection again after its commit.
CallbackSync(r) ==
  LET c == worker[r].conn
  IN  /\ At(r, "load")
      /\ IF Live(c) THEN worker' = [worker EXCEPT ![r] = Loaded(r, c)] ELSE Over(r)
      /\ UNCHANGED <<clock, signins, rows, telemetry, completed, auditFailures>>

TriggerSync(r, c) ==
  /\ At(r, "idle") /\ c \in LiveIds
  /\ worker' = [worker EXCEPT ![r] = Loaded(r, c)]
  /\ UNCHANGED <<clock, signins, rows, telemetry, completed, auditFailures>>

Disconnect(r, c) ==
  /\ At(r, "idle") /\ c \in LiveIds
  /\ rows' = [rows EXCEPT ![c].deleted = TRUE, ![c].status = "expired"]
  /\ UNCHANGED <<clock, signins, telemetry, completed, worker, auditFailures>>

-----------------------------------------------------------------------------
(* sync_connection, of worker w.                                           *)

InWindow(c, from, to) == {t \in signins[rows[c].provider] : from < t /\ t <= to}

\* What the pages of a fetch may hold: all sign-ins of the window, or as many as
\* there are pages for; which ones depends on the order of the provider.
Fetches(c, from, to) ==
  LET all == InWindow(c, from, to)
  IN  IF Cardinality(all) <= PageLimit THEN {all} ELSE kSubset(PageLimit, all)

Stored(c, day) == <<rows[c].provider, day>> \in telemetry

\* An event is added for each sign-in whose hash the table does not hold; the
\* ones added before it in the loop are not in the table yet.
SyncFetch(w) ==
  LET c == worker[w].conn
  IN  /\ At(w, "fetch") /\ worker[w].seen.consented
      /\ \E fetched \in Fetches(c, worker[w].from, worker[w].to) :
           LET new == {t \in fetched : ~Stored(c, Day(t))}
           IN  worker' = [worker EXCEPT ![w].at = "flush", ![w].batch = {Day(t) : t \in new},
                            ![w].repeated = \E t, u \in new : t # u /\ Day(t) = Day(u)]
      /\ UNCHANGED <<clock, signins, rows, telemetry, completed, auditFailures>>

\* ConnectionError or PermissionError.  An UPDATE sets the status only when it
\* differs from the one that was loaded.
SyncFetchFails(w) ==
  LET c == worker[w].conn
  IN  /\ At(w, "fetch")
      /\ rows' = IF worker[w].seen.status = "error" THEN rows
                 ELSE [rows EXCEPT ![c].status = "error"]
      /\ telemetry' = telemetry \cup Uncommitted(w)
      /\ Over(w)
      /\ UNCHANGED <<clock, signins, completed, auditFailures>>

\* Any other exception of a fetch, such as that of a body that is not JSON, is not
\* caught: the connection keeps its status.
SyncFetchRaises(w) ==
  /\ At(w, "fetch")
  /\ Leaves(w, Uncommitted(w), FALSE)
  /\ UNCHANGED <<clock, signins, rows, telemetry, completed, auditFailures>>

\* uq_telemetry_org_signal_hash: the flush waits for the same hash of another
\* session, and fails on one that is there.
SyncFlush(w) ==
  LET hashes == {<<rows[worker[w].conn].provider, d>> : d \in worker[w].batch}
  IN  /\ At(w, "flush")
      /\ \A v \in Workers \ {w} : Uncommitted(v) \cap hashes = {}
      /\ IF worker[w].repeated \/ hashes \cap telemetry # {}
           THEN FlushFails(w)
           ELSE worker' = [worker EXCEPT ![w].at = "detect"]
      /\ UNCHANGED <<clock, signins, rows, telemetry, completed, auditFailures>>

\* Mutant: the sync log outlives the rollback.
SyncDetectKeepsLog(w) ==
  /\ At(w, "detect")
  /\ \/ /\ telemetry' = telemetry \cup Uncommitted(w)
        /\ worker' = [worker EXCEPT ![w].at = "finish", ![w].carried = {}]
        /\ UNCHANGED auditFailures
     \/ /\ auditFailures < MaxAuditFailures
        /\ auditFailures' = auditFailures + 1
        /\ worker' = [worker EXCEPT ![w].at = "finish", ![w].carried = {}]
        /\ UNCHANGED telemetry
     \/ /\ FlushFails(w) \/ Leaves(w, Uncommitted(w), FALSE)
        /\ UNCHANGED <<telemetry, auditFailures>>
  /\ UNCHANGED <<clock, signins, rows, completed>>

\* run_detection and run_attribution_pass commit the events and the sync log,
\* at an audit entry or at the end of the latter; or an audit entry fails and
\* rolls them back; or an exception ends the sync.
SyncDetect(w) ==
  /\ At(w, "detect")
  /\ \/ /\ telemetry' = telemetry \cup Uncommitted(w)
        /\ worker' = [worker EXCEPT ![w].at = "finish", ![w].carried = {}]
        /\ UNCHANGED auditFailures
     \/ /\ auditFailures < MaxAuditFailures
        /\ auditFailures' = auditFailures + 1
        /\ worker' = [worker EXCEPT ![w].at = "finish", ![w].carried = {},
                                     ![w].logged = FALSE]
        /\ UNCHANGED telemetry
     \/ /\ FlushFails(w) \/ Leaves(w, Uncommitted(w), FALSE)
        /\ UNCHANGED <<telemetry, auditFailures>>
  /\ UNCHANGED <<clock, signins, rows, completed>>

\* The connection was expired by the commit, so its new status is written
\* whatever it was; or what was left of detection raised an exception.
SyncFinish(w) ==
  LET c == worker[w].conn
  IN  /\ At(w, "finish")
      /\ \/ /\ rows' = [rows EXCEPT ![c].synced = worker[w].to, ![c].status = "active"]
            /\ completed' = IF worker[w].logged
                              THEN completed \cup {[conn |-> c, from |-> worker[w].from,
                                                    to |-> worker[w].to]}
                              ELSE completed
            /\ Over(w)
         \/ /\ FlushFails(w) \/ Over(w)
            /\ UNCHANGED <<rows, completed>>
      /\ UNCHANGED <<clock, signins, telemetry, auditFailures>>

Sync(w) == \/ SyncFetch(w) \/ SyncFetchFails(w) \/ SyncFetchRaises(w)
           \/ SyncFlush(w) \/ SyncDetect(w) \/ SyncFinish(w)

-----------------------------------------------------------------------------
(* nightly_tier2_sync.                                                     *)

NightlyStart ==
  /\ At(Job, "idle")
  /\ worker' = [worker EXCEPT ![Job].at = "next",
                  ![Job].todo = {c \in LiveIds : rows[c].status \in {"active", "pending"}}]
  /\ UNCHANGED <<clock, signins, rows, telemetry, completed, auditFailures>>

\* A connection that was disconnected meanwhile raises an exception and so
\* does, in a session whose flush has failed, each connection.
NightlyNext(c) ==
  /\ At(Job, "next") /\ c \in worker[Job].todo
  /\ worker' = [worker EXCEPT ![Job] =
                  [(IF Live(c) /\ ~@.failed THEN Loaded(Job, c) ELSE @)
                     EXCEPT !.todo = worker[Job].todo \ {c}]]
  /\ UNCHANGED <<clock, signins, rows, telemetry, completed, auditFailures>>

NightlyEnd ==
  /\ At(Job, "next") /\ worker[Job].todo = {}
  /\ worker' = [worker EXCEPT ![Job] = Fresh]
  /\ UNCHANGED <<clock, signins, rows, telemetry, completed, auditFailures>>

\* The server stops: what is not committed is rolled back.
Crash ==
  /\ \E w \in Workers : ~At(w, "idle")
  /\ worker' = [w \in Workers |-> Fresh]
  /\ UNCHANGED <<clock, signins, rows, telemetry, completed, auditFailures>>

Request(r) ==
  \/ \E p \in Providers : Connect(r, p)
  \/ \E c \in DOMAIN rows : CallbackLoad(r, c) \/ TriggerSync(r, c) \/ Disconnect(r, c)
  \/ CallbackExchange(r) \/ CallbackSync(r)

Next ==
  \/ \E p \in Providers : SignIn(p)
  \/ \E r \in Requests : Request(r)
  \/ \E w \in Workers : Sync(w)
  \/ NightlyStart \/ (\E c \in DOMAIN rows : NightlyNext(c)) \/ NightlyEnd
  \/ Crash

Spec == Init /\ [][Next]_vars

-----------------------------------------------------------------------------
(* Properties.                                                             *)

\* What a sync log calls completed is in the database: unless the provider
\* had more pages than the fetch reads, each sign-in of the window has its
\* event, whichever other sync took part of them, and although the log and
\* the events are committed apart and a failed audit entry rolls them back.
CompletedIsStored ==
  \A l \in completed :
    LET all == InWindow(l.conn, l.from, l.to)
    IN  Cardinality(all) <= PageLimit => \A t \in all : Stored(l.conn, Day(t))

\* No sign-in falls between two windows: up to last_synced_at, every one after
\* the beginning of some completed window is in a completed window, also when
\* two syncs of a connection overlap, fail half-way or are cut off.  A failed
\* audit entry does leave a hole: it takes back the log and the events of a
\* sync that then moves the window.
NoHole ==
  auditFailures = 0 =>
    \A c \in DOMAIN rows : \A t \in 1 .. rows[c].synced :
      (\E l \in completed : l.conn = c /\ l.from < t) =>
        \E l \in completed : l.conn = c /\ l.from < t /\ t <= l.to

\* A connection that is active was consented to, and one that waits for
\* consent was not, whatever a nightly sync of it does in between.
StatusAgreesWithConsent ==
  \A c \in DOMAIN rows : /\ rows[c].status = "active" => rows[c].consented
                         /\ rows[c].status = "pending" => ~rows[c].consented
=============================================================================
