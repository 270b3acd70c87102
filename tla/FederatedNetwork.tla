-------------------------- MODULE FederatedNetwork --------------------------
(***************************************************************************)
(* The federated registry: organisations that opted in submit hostnames,   *)
(* at most once a day each, and a hostname with enough submissions becomes *)
(* a candidate for the global registry.                                    *)
(*                                                                         *)
(* A submission is a transaction of several statements in a thread of its  *)
(* own; the nightly job makes the submissions of one token after another   *)
(* in one database session.                                                *)
(***************************************************************************)
EXTENDS Naturals, FiniteSets

CONSTANTS
  Orgs,               \* each with one connector token
  NoOrg,              \* the organisation of an idle session
  Hosts,
  Requests,           \* submissions that the server handles at a time
  Nightly,            \* the session of the nightly job
  Threshold,          \* PROMOTION_THRESHOLD, 3 in the code
  LastDay,            \* bound: days
  MaxSignatures,      \* bound: promotions of a host
  MaxAuditFailures    \* bound: audit entries that fail

ASSUME NetworkAssumption ==
  /\ Nightly \notin Requests /\ NoOrg \notin Orgs /\ Hosts # {}
  /\ Threshold \in Nat \ {0} /\ LastDay \in Nat /\ MaxSignatures \in Nat
  /\ MaxAuditFailures \in Nat

VARIABLES
  day,
  optedIn,          \* organisations whose token has federated_submissions_enabled
  submissions,      \* federated_submissions_count of their tokens
  log,              \* federated_submission_log, by its unique submission_token
  observations,     \* federated_hostname_observations, by the unique hostname_hash
  signatures,       \* how many signatures of the registry came from a host
  sessions,
  queue,            \* the tokens that the nightly job has still to visit
  auditFailures

vars == <<day, optedIn, submissions, log, observations, signatures, sessions, queue,
          auditFailures>>

Workers == Requests \cup {Nightly}
Days == 0 .. LastDay

Statuses == {"observing", "candidate", "promoted", "dismissed"}
None == [count |-> 0, status |-> "none"]
Observation == [count : Nat \ {0}, status : Statuses] \cup {None}

\* What a session has flushed for a host: the day of its log entry, the new count
\* and the status that it sets, if any.
Flushed == [day : Days, count : Nat \ {0}, status : {"observing", "candidate", "kept"}]
NotFlushed == [day |-> 0, count |-> 0, status |-> "none"]

\* counter: federated_submissions_count as the session has read it; tx: what it has
\* flushed and not committed; todo: the job's candidates of the token.
Session == [at : {"idle", "lookup", "select", "flush", "flushed", "count", "next", "token"},
            org : Orgs \cup {NoOrg}, host : Hosts, day : Days, counter : Nat, seen : Observation,
            todo : SUBSET Hosts, tx : [Hosts -> Flushed \cup {NotFlushed}]]

TypeOK ==
  /\ day \in Days
  /\ optedIn \in SUBSET Orgs /\ queue \in SUBSET Orgs
  /\ submissions \in [Orgs -> Nat]
  /\ log \in SUBSET (Orgs \X Hosts \X Days)
  /\ observations \in [Hosts -> Observation]
  /\ signatures \in [Hosts -> 0 .. MaxSignatures]
  /\ sessions \in [Workers -> Session]
  /\ auditFailures \in 0 .. MaxAuditFailures

Nothing == [h \in Hosts |-> NotFlushed]

Idle == [at |-> "idle", org |-> NoOrg, host |-> CHOOSE h \in Hosts : TRUE,
         day |-> 0, counter |-> 0, seen |-> None, todo |-> {}, tx |-> Nothing]

Init ==
  /\ day = 0 /\ optedIn = {} /\ queue = {}
  /\ submissions = [o \in Orgs |-> 0]
  /\ log = {}
  /\ observations = [h \in Hosts |-> None]
  /\ signatures = [h \in Hosts |-> 0]
  /\ sessions = [w \in Workers |-> Idle]
  /\ auditFailures = 0

\* Rows that another session has written wait for its commit.
Locked(w, h) == \E v \in Workers \ {w} : sessions[v].tx[h] # NotFlushed

\* COMMIT and ROLLBACK of the session w.
Commit(w) ==
  LET tx == sessions[w].tx IN
  /\ log' = log \cup {<<sessions[w].org, h, tx[h].day>> : h \in {g \in Hosts : tx[g] # NotFlushed}}
  /\ observations' = [h \in Hosts |->
       IF tx[h] = NotFlushed THEN observations[h]
       ELSE [count |-> tx[h].count,
             status |-> IF tx[h].status = "kept" THEN observations[h].status ELSE tx[h].status]]

Rollback == UNCHANGED <<log, observations>>

\* A failed audit entry has rolled its caller's transaction back.
AuditFails ==
  /\ auditFailures < MaxAuditFailures
  /\ auditFailures' = auditFailures + 1

Audit(w) == (Commit(w) /\ UNCHANGED auditFailures) \/ (Rollback /\ AuditFails)

-----------------------------------------------------------------------------
(* submit_hostname                                                         *)

\* The token is read, and a token that has not opted in goes no further.
Submit(r, o, h) ==
  /\ sessions[r].at = "idle" /\ o \in optedIn
  /\ sessions' = [sessions EXCEPT ![r] = [Idle EXCEPT
       !.at = "lookup", !.org = o, !.host = h, !.day = day, !.counter = submissions[o]]]
  /\ UNCHANGED <<day, optedIn, submissions, log, observations, signatures, queue,
                 auditFailures>>

\* The log entry of the day is there: accepted as a duplicate.
Duplicate(w) ==
  /\ sessions[w].at = "lookup"
  /\ <<sessions[w].org, sessions[w].host, sessions[w].day>> \in log
  /\ sessions' = [sessions EXCEPT ![w] = IF w = Nightly THEN [@ EXCEPT !.at = "next"] ELSE Idle]
  /\ UNCHANGED <<day, optedIn, submissions, log, observations, signatures, queue,
                 auditFailures>>

Lookup(w) ==
  /\ sessions[w].at = "lookup"
  /\ <<sessions[w].org, sessions[w].host, sessions[w].day>> \notin log
  /\ sessions' = [sessions EXCEPT ![w].at = "select"]
  /\ UNCHANGED <<day, optedIn, submissions, log, observations, signatures, queue, auditFailures>>

\* The observation as it is now: nothing is locked before the flush.
Select(w) ==
  /\ sessions[w].at = "select"
  /\ sessions' = [sessions EXCEPT ![w].at = "flush", ![w].seen = observations[sessions[w].host]]
  /\ UNCHANGED <<day, optedIn, submissions, log, observations, signatures, queue, auditFailures>>

\* Mutant: the submission token has no unique constraint.
NewHostOnly(w) ==
  sessions[w].seen = None /\ observations[sessions[w].host] # None

\* The unique constraints: another submission came first since.
Conflict(w) ==
  \/ <<sessions[w].org, sessions[w].host, sessions[w].day>> \in log
  \/ sessions[w].seen = None /\ observations[sessions[w].host] # None

\* The request fails.  The job's session is unusable, so its other candidates fail
\* too and what it has flushed is lost; it goes on with the next token.
FlushFails(w) ==
  /\ sessions[w].at = "flush" /\ ~Locked(w, sessions[w].host) /\ Conflict(w)
  /\ sessions' = [sessions EXCEPT ![w] = IF w = Nightly THEN [Idle EXCEPT !.at = "token"] ELSE Idle]
  /\ UNCHANGED <<day, optedIn, submissions, log, observations, signatures, queue,
                 auditFailures>>

\* Mutant: the threshold is passed, not reached.
EntryAbove(s) ==
  [day |-> s.day, count |-> s.seen.count + 1,
   status |-> IF s.seen.status \in {"none", "observing"} /\ s.seen.count + 1 > Threshold THEN "candidate"
              ELSE IF s.seen = None THEN "observing" ELSE "kept"]

\* The count is the one read plus one, whatever the row holds by now, and makes the
\* host a candidate if it reaches the threshold and the status read was observing.
Entry(s) ==
  [day |-> s.day, count |-> s.seen.count + 1,
   status |-> IF s.seen.status \in {"none", "observing"} /\ s.seen.count + 1 >= Threshold THEN "candidate"
              ELSE IF s.seen = None THEN "observing" ELSE "kept"]

Flush(w) ==
  /\ sessions[w].at = "flush" /\ ~Locked(w, sessions[w].host) /\ ~Conflict(w)
  /\ sessions' = [sessions EXCEPT ![w].at = "flushed", ![w].seen = None,
                                  ![w].tx[sessions[w].host] = Entry(sessions[w])]
  /\ UNCHANGED <<day, optedIn, submissions, log, observations, signatures, queue,
                 auditFailures>>

Due(s) == s.tx[s.host].status = "candidate"

\* The audit entry of the promotion commits everything flushed so far, or loses it
\* and the submission is counted all the same.  The token is read again.
Promote(w) ==
  /\ sessions[w].at = "flushed" /\ Due(sessions[w])
  /\ Audit(w)
  /\ sessions' = [sessions EXCEPT ![w].at = "count", ![w].tx = Nothing,
                                  ![w].counter = submissions[sessions[w].org]]
  /\ UNCHANGED <<day, optedIn, submissions, signatures, queue>>

Counts(w) ==
  \/ sessions[w].at = "count"
  \/ sessions[w].at = "flushed" /\ ~Due(sessions[w])

\* The counter is written with the submission, by the last audit entry.
Count(r) ==
  /\ r \in Requests /\ Counts(r)
  /\ \/ /\ Commit(r) /\ UNCHANGED auditFailures
        /\ submissions' = [submissions EXCEPT ![sessions[r].org] = sessions[r].counter + 1]
     \/ Rollback /\ AuditFails /\ UNCHANGED submissions
  /\ sessions' = [sessions EXCEPT ![r] = Idle]
  /\ UNCHANGED <<day, optedIn, signatures, queue>>

-----------------------------------------------------------------------------
(* nightly_federated_submission, submit_zero_day_candidates                *)

\* The rows of the tokens are read once, when the day begins.  Bound: the job of a
\* day is done before the next.
NextDay ==
  /\ day < LastDay
  /\ day' = day + 1
  /\ sessions[Nightly].at = "idle"
  /\ queue' = optedIn
  /\ sessions' = [sessions EXCEPT ![Nightly].at = "token"]
  /\ UNCHANGED <<optedIn, submissions, log, observations, signatures, auditFailures>>

\* pending: hosts of the pending zero-day candidates of o.
NextToken(o, pending) ==
  /\ sessions[Nightly].at = "token" /\ o \in queue
  /\ queue' = queue \ {o}
  /\ sessions' = [sessions EXCEPT ![Nightly] = [Idle EXCEPT
       !.at = "next", !.org = o, !.todo = pending]]
  /\ UNCHANGED <<day, optedIn, submissions, log, observations, signatures,
                 auditFailures>>

NextCandidate(h) ==
  /\ sessions[Nightly].at = "next" /\ h \in sessions[Nightly].todo
  /\ sessions' = [sessions EXCEPT ![Nightly].at = "lookup", ![Nightly].host = h,
                                  ![Nightly].day = day, ![Nightly].todo = @ \ {h}]
  /\ UNCHANGED <<day, optedIn, submissions, log, observations, signatures, queue,
                 auditFailures>>

\* The row of the token is no object that could be counted on: the error ends this
\* candidate, and what it has flushed stays for the next commit.
NotCounted ==
  /\ Counts(Nightly)
  /\ sessions' = [sessions EXCEPT ![Nightly].at = "next", ![Nightly].counter = 0]
  /\ UNCHANGED <<day, optedIn, submissions, log, observations, signatures, queue,
                 auditFailures>>

TokenDone ==
  /\ sessions[Nightly].at = "next" /\ sessions[Nightly].todo = {}
  /\ Commit(Nightly)
  /\ sessions' = [sessions EXCEPT ![Nightly] = [Idle EXCEPT !.at = "token"]]
  /\ UNCHANGED <<day, optedIn, submissions, signatures, queue, auditFailures>>

JobDone ==
  /\ sessions[Nightly].at = "token" /\ queue = {}
  /\ sessions' = [sessions EXCEPT ![Nightly] = Idle]
  /\ UNCHANGED <<day, optedIn, submissions, log, observations, signatures, queue,
                 auditFailures>>

-----------------------------------------------------------------------------
(* Administrators.  What they write does not depend on what they read, so  *)
(* they are one step, at the commit; one that loads the status which it    *)
(* sets does not write it, and is a step at the load.  One whose audit     *)
(* entry fails changes nothing.                                            *)

\* promote_to_registry, whatever the status: each adds another signature.
PromoteToRegistry(h) ==
  /\ observations[h] # None /\ \A w \in Workers : sessions[w].tx[h] = NotFlushed
  /\ signatures[h] < MaxSignatures
  /\ signatures' = [signatures EXCEPT ![h] = @ + 1]
  /\ observations' = [observations EXCEPT ![h].status = "promoted"]
  /\ UNCHANGED <<day, optedIn, submissions, log, sessions, queue, auditFailures>>

\* dismiss_candidate, whatever the status.
DismissCandidate(h) ==
  /\ observations[h] # None /\ \A w \in Workers : sessions[w].tx[h] = NotFlushed
  /\ observations' = [observations EXCEPT ![h].status = "dismissed"]
  /\ UNCHANGED <<day, optedIn, submissions, log, signatures, sessions, queue,
                 auditFailures>>

Enable(o) ==
  /\ optedIn' = optedIn \cup {o}
  /\ UNCHANGED <<day, submissions, log, observations, signatures, sessions, queue,
                 auditFailures>>

Disable(o) ==
  /\ optedIn' = optedIn \ {o}
  /\ UNCHANGED <<day, submissions, log, observations, signatures, sessions, queue,
                 auditFailures>>

\* The server restarts: what is not committed is gone, and the job until tomorrow.
Crash ==
  /\ \E w \in Workers : sessions[w].at # "idle"
  /\ sessions' = [w \in Workers |-> Idle] /\ queue' = {}
  /\ UNCHANGED <<day, optedIn, submissions, log, observations, signatures, auditFailures>>

Next ==
  \/ \E r \in Requests, o \in Orgs, h \in Hosts : Submit(r, o, h)
  \/ \E w \in Workers : Duplicate(w) \/ Lookup(w) \/ Select(w) \/ FlushFails(w) \/ Flush(w) \/ Promote(w)
  \/ \E r \in Requests : Count(r)
  \/ NextDay
  \/ \E o \in Orgs, pending \in SUBSET Hosts : NextToken(o, pending)
  \/ \E h \in Hosts : NextCandidate(h) \/ PromoteToRegistry(h) \/ DismissCandidate(h)
  \/ NotCounted \/ TokenDone \/ JobDone
  \/ \E o \in Orgs : Enable(o) \/ Disable(o)
  \/ Crash

Spec == Init /\ [][Next]_vars

-----------------------------------------------------------------------------
(* Properties.                                                             *)

Entries(h) == {e \in log : e[2] = h}

\* An observation counts no submission that is not in the log, however requests, the
\* job, failed audit entries and restarts interleave: the two rows are committed
\* together and the log has one entry a day.  Nor does a token, unless the entry of
\* the promotion failed (submit_hostname, steps 4 to 8).
CountIsBacked ==
  /\ \A h \in Hosts : observations[h].count <= Cardinality(Entries(h))
  /\ \A o \in Orgs : submissions[o] <= Cardinality({e \in log : e[1] = o}) + auditFailures

\* The threshold decides, even for a session that promotes on a count it read long
\* before: no hostname that reached it is still observed, and no candidate came
\* there with fewer submissions (submit_hostname, step 7).
ThresholdDecides ==
  \A h \in Hosts :
    /\ observations[h].count >= Threshold => observations[h].status # "observing"
    /\ observations[h].status = "candidate" => Cardinality(Entries(h)) >= Threshold

=============================================================================
