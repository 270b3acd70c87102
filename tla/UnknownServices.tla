-------------------------- MODULE UnknownServices ---------------------------
(***************************************************************************)
(* What the server makes of connector signals for hostnames that hide the  *)
(* service behind them, in one organisation: the zero-day classifier, the  *)
(* dark AI classifier and the review of their candidates.                  *)
(*                                                                         *)
(* An ingest stores its signal, commits, and only then classifies, over    *)
(* several transactions.  The event loop runs one ingest at a time; the    *)
(* reviewers' requests run in threads between its statements.              *)
(***************************************************************************)
EXTENDS TrafficFeatures, Sequences, FiniteSetsExt

CONSTANTS
  Hosts,
  KnownHosts,         \* the hostnames of the registry at the start
  HostMarks,          \* what a hostname holds
  Signals,            \* the metadata that a signal may have
  Days,               \* a signal hash holds a date
  MaxCandidates,      \* bound: candidates ever
  MaxDetections,      \* bound: detections ever
  MaxReopened,        \* bound: detections ever that an outdated session reopens
  MaxAuditFailures,   \* bound: audit entries that fail
  MaxCrashes          \* bound: restarts of the server

ASSUME ServicesAssumption ==
  /\ KnownHosts \subseteq Hosts /\ Hosts # {} /\ Days # {}
  /\ HostMarks \in [Hosts -> SUBSET Marks]
  /\ MaxCandidates \in Nat \ {0} /\ MaxDetections \in Nat \ {0}
  /\ MaxReopened \in Nat /\ MaxAuditFailures \in Nat /\ MaxCrashes \in Nat

VARIABLES
  events,           \* the committed telemetry, by what its hashes hold: <<host, day, match>>
  registry,         \* the hosts that match a signature
  candidates,       \* zero_day_candidates, in order of creation
  detections,       \* shadow_ai_detections, in order of creation
  reopened,         \* detections that an outdated session stored as active again
  ingest,           \* the ingest that holds the event loop
  answer,           \* how the last ingest ended
  auditFailures,
  crashes

vars == <<events, registry, candidates, detections, reopened, ingest, answer, auditFailures, crashes>>

\* link: detection_id, 0 for none.
Candidate == [host : Hosts, status : {"pending_review", "added_to_registry", "dismissed", "monitoring"},
              count : Nat \ {0}, link : Nat]

\* A standard detection comes from run_detection and has no zero_day_hostname;
\* signed: signature_id is the signature of the host.
Detection == [host : Hosts, kind : {"standard", "zero_day", "dark"},
              signed : BOOLEAN, active : BOOLEAN]

\* existing: the pending candidate that the lookup found, 0 for none.
Ingest == [at : {"idle", "lookup", "upsert", "detect", "link", "dark"}, host : Hosts,
           day : Days, dark : BOOLEAN, signed : BOOLEAN, existing : Nat, seen : Nat,
           detection : Nat]

Matches == {"signature", "unmatched"}

TypeOK ==
  /\ events \in SUBSET (Hosts \X Days \X Matches)
  /\ registry \in SUBSET Hosts
  /\ candidates \in Seq(Candidate) /\ Len(candidates) <= MaxCandidates
  /\ detections \in Seq(Detection) /\ Len(detections) <= MaxDetections
  /\ \A c \in DOMAIN candidates : candidates[c].link \in 0 .. Len(detections)
  /\ reopened \subseteq DOMAIN detections
  /\ ingest \in Ingest
  /\ answer \in {"none", "accepted", "failed"}
  /\ auditFailures \in 0 .. MaxAuditFailures
  /\ crashes \in 0 .. MaxCrashes

Idle == [at |-> "idle", host |-> CHOOSE h \in Hosts : TRUE, day |-> CHOOSE d \in Days : TRUE,
         dark |-> FALSE, signed |-> FALSE, existing |-> 0, seen |-> 0, detection |-> 0]

Init ==
  /\ events = {} /\ registry = KnownHosts
  /\ candidates = <<>> /\ detections = <<>> /\ reopened = {}
  /\ ingest = Idle /\ answer = "none"
  /\ auditFailures = 0 /\ crashes = 0

Open(c) == candidates[c].status \notin {"added_to_registry", "dismissed"}
OpenCandidates(h) == {c \in DOMAIN candidates : candidates[c].host = h /\ Open(c)}

\* The active rows with zero_day_hostname = h.
Hidden(h) ==
  {d \in DOMAIN detections : /\ detections[d].host = h /\ detections[d].active
                             /\ detections[d].kind # "standard"}

\* The active rows with the signature of h: uq_detection_org_sig_active.
Signed(h) ==
  {d \in DOMAIN detections : /\ detections[d].host = h /\ detections[d].active
                             /\ detections[d].signed}

NewDetection(h, kind, signed) ==
  [host |-> h, kind |-> kind, signed |-> signed, active |-> TRUE]

Ends(outcome) == ingest' = Idle /\ answer' = outcome

\* On to the dark AI classifier if it runs on this signal.
Continues(i) ==
  IF i.dark THEN /\ ingest' = [Idle EXCEPT !.at = "dark", !.host = i.host, !.day = i.day,
                                           !.dark = TRUE, !.signed = i.signed]
                 /\ UNCHANGED answer
            ELSE Ends("accepted")

\* A failed audit entry has rolled the transaction back.
AuditFails ==
  /\ auditFailures < MaxAuditFailures
  /\ auditFailures' = auditFailures + 1

-----------------------------------------------------------------------------
(* Tier3Ingestor.ingest_signal                                             *)

\* What the signal_hash of a signal holds: an event stored while no signature
\* matched the host is not found once one does.
Hashed(h, d) == <<h, d, IF h \in registry THEN "signature" ELSE "unmatched">>

\* The event of the signal, committed by its audit entry or taken back by it.
Stored(h, d) ==
  \/ /\ events' = events \cup {Hashed(h, d)}
     /\ UNCHANGED auditFailures
  \/ AuditFails /\ UNCHANGED events

\* Whether the two classifiers take the signal for AI traffic.
Classification(h, signal, matched) ==
  [zeroDay |-> ~matched /\ IsZeroDay(signal, HostMarks[h]),
   dark |-> IsDark(signal, HostMarks[h], matched)]

Classifications(h, matched) == {Classification(h, signal, matched) : signal \in Signals}

Classified(h, d, c) ==
  [Idle EXCEPT !.host = h, !.day = d, !.dark = c.dark, !.at = "lookup"]

\* Bound: an ingest adds one candidate and two detections at most.
Room == Len(candidates) < MaxCandidates /\ Len(detections) + 1 < MaxDetections

\* A signal with the hash of a stored event.
Duplicate(h, d) ==
  /\ ingest.at = "idle" /\ Hashed(h, d) \in events
  /\ Ends("accepted")
  /\ UNCHANGED <<events, registry, candidates, detections, reopened, auditFailures, crashes>>

\* Mutant: the event is left to the last commit of the ingest.
IngestUnknownEarly(h, d, c) ==
  /\ ingest.at = "idle" /\ Hashed(h, d) \notin events /\ Room /\ h \notin registry
  /\ \/ events' = events /\ UNCHANGED auditFailures
     \/ AuditFails /\ UNCHANGED events
  /\ IF c.zeroDay THEN ingest' = Classified(h, d, c) /\ UNCHANGED answer
     ELSE Continues(Classified(h, d, c))
  /\ UNCHANGED <<registry, candidates, detections, reopened, crashes>>

\* A new signal for a host without a signature.
IngestUnknown(h, d, c) ==
  /\ ingest.at = "idle" /\ Hashed(h, d) \notin events /\ Room /\ h \notin registry
  /\ Stored(h, d)
  /\ IF c.zeroDay THEN ingest' = Classified(h, d, c) /\ UNCHANGED answer
     ELSE Continues(Classified(h, d, c))
  /\ UNCHANGED <<registry, candidates, detections, reopened, crashes>>

\* A new signal that matches a signature: detection runs, and may find enough for
\* a detection where there is none.  The dark AI classifier then looks at hosts
\* whose name is that of a proxy.
IngestKnown(h, d, c) ==
  /\ ingest.at = "idle" /\ Hashed(h, d) \notin events /\ Room /\ h \in registry
  /\ Stored(h, d)
  /\ \/ UNCHANGED detections
     \/ /\ Signed(h) = {} /\ Hashed(h, d) \in events'
        /\ detections' = Append(detections, NewDetection(h, "standard", TRUE))
  /\ Continues([Classified(h, d, c) EXCEPT !.signed = TRUE])
  /\ UNCHANGED <<registry, candidates, reopened, crashes>>

-----------------------------------------------------------------------------
(* ZeroDayClassifier.classify_signal                                       *)

\* Only a pending candidate is looked for.
Lookup ==
  /\ ingest.at = "lookup"
  /\ LET pending == {c \in OpenCandidates(ingest.host) : candidates[c].status = "pending_review"}
     IN  ingest' = [ingest EXCEPT
           !.at = "upsert",
           !.existing = IF pending = {} THEN 0 ELSE CHOOSE c \in pending : TRUE,
           !.seen = IF pending = {} THEN 0 ELSE candidates[CHOOSE c \in pending : TRUE].count]
  /\ UNCHANGED <<events, registry, candidates, detections, reopened, answer, auditFailures, crashes>>

\* Mutant: the UPDATE sets every column to what the lookup has read.
UpsertedWhole ==
  IF ingest.existing # 0
    THEN [candidates EXCEPT ![ingest.existing].count = ingest.seen + 1,
                            ![ingest.existing].status = "pending_review"]
    ELSE Append(candidates, [host |-> ingest.host, status |-> "pending_review", count |-> 1, link |-> 0])

\* The candidates with the update or the insert of this ingest: the columns it
\* has changed, over whatever has been committed since it looked.
Upserted ==
  IF ingest.existing # 0
    THEN [candidates EXCEPT ![ingest.existing].count = ingest.seen + 1]
    ELSE Append(candidates, [host |-> ingest.host, status |-> "pending_review", count |-> 1, link |-> 0])

\* The flush of a new candidate, which the unique index refuses while the host has
\* an open one.
Upsert ==
  /\ ingest.at = "upsert"
  /\ \/ /\ ingest.existing = 0 /\ OpenCandidates(ingest.host) # {}
        /\ Ends("failed")
     \/ /\ ingest.existing # 0 \/ OpenCandidates(ingest.host) = {}
        /\ ingest' = [ingest EXCEPT !.at = "detect"]
        /\ UNCHANGED answer
  /\ UNCHANGED <<events, registry, candidates, detections, reopened, auditFailures, crashes>>

\* scalar_one_or_none raises if there is more than one row.
DetectFails ==
  /\ ingest.at = "detect" /\ Cardinality(Hidden(ingest.host)) > 1
  /\ Ends("failed")
  /\ UNCHANGED <<events, registry, candidates, detections, reopened, auditFailures, crashes>>

\* A detection of the host, zero-day or dark, is active already.
DetectNothing ==
  /\ ingest.at = "detect" /\ Cardinality(Hidden(ingest.host)) = 1
  /\ candidates' = Upserted
  /\ Continues(ingest)
  /\ UNCHANGED <<events, registry, detections, reopened, auditFailures, crashes>>

\* The audit entry of the new detection commits it with the candidate.
DetectCreates ==
  /\ ingest.at = "detect" /\ Hidden(ingest.host) = {}
  /\ candidates' = Upserted
  /\ detections' = Append(detections, NewDetection(ingest.host, "zero_day", FALSE))
  /\ ingest' = [ingest EXCEPT !.at = "link", !.detection = Len(detections) + 1,
                              !.existing = IF @ = 0 THEN Len(candidates) + 1 ELSE @]
  /\ UNCHANGED <<events, registry, reopened, answer, auditFailures, crashes>>

\* The audit entry takes both back.  A new candidate is gone and the link is set on
\* an object of no session; an old one would get a link to a row that is not there.
DetectRolledBack ==
  /\ ingest.at = "detect" /\ Hidden(ingest.host) = {}
  /\ AuditFails
  /\ IF ingest.existing = 0 THEN Continues(ingest) ELSE Ends("failed")
  /\ UNCHANGED <<events, registry, candidates, detections, reopened, crashes>>

\* Mutant: only a new candidate gets the link.
LinkNewOnly ==
  /\ ingest.at = "link"
  /\ candidates' = IF ingest.seen = 0 THEN [candidates EXCEPT ![ingest.existing].link = ingest.detection]
                                      ELSE candidates
  /\ Continues(ingest)
  /\ UNCHANGED <<events, registry, detections, reopened, auditFailures, crashes>>

Link ==
  /\ ingest.at = "link"
  /\ candidates' = [candidates EXCEPT ![ingest.existing].link = ingest.detection]
  /\ Continues(ingest)
  /\ UNCHANGED <<events, registry, detections, reopened, auditFailures, crashes>>

-----------------------------------------------------------------------------
(* DarkAIClassifier.classify                                               *)

DarkExists(h) == \E d \in Hidden(h) : detections[d].kind = "dark"

DarkSkips ==
  /\ ingest.at = "dark" /\ DarkExists(ingest.host)
  /\ Ends("accepted")
  /\ UNCHANGED <<events, registry, candidates, detections, reopened, auditFailures, crashes>>

\* The detection gets the signature of its host, which only one active detection has.
DarkConflicts ==
  /\ ingest.at = "dark" /\ ~DarkExists(ingest.host)
  /\ ingest.signed /\ Signed(ingest.host) # {}
  /\ Ends("failed")
  /\ UNCHANGED <<events, registry, candidates, detections, reopened, auditFailures, crashes>>

\* Mutant: it does not look for an active detection first.
DarkCreatesAnother ==
  /\ ingest.at = "dark"
  /\ detections' = Append(detections, NewDetection(ingest.host, "dark", ingest.signed))
  /\ Ends("accepted")
  /\ UNCHANGED <<events, registry, candidates, reopened, auditFailures, crashes>>

DarkCreates ==
  /\ ingest.at = "dark" /\ ~DarkExists(ingest.host)
  /\ ~ingest.signed \/ Signed(ingest.host) = {}
  /\ detections' = Append(detections, NewDetection(ingest.host, "dark", ingest.signed))
  /\ Ends("accepted")
  /\ UNCHANGED <<events, registry, candidates, reopened, auditFailures, crashes>>

DarkRolledBack ==
  /\ ingest.at = "dark" /\ ~DarkExists(ingest.host)
  /\ ~ingest.signed \/ Signed(ingest.host) = {}
  /\ AuditFails
  /\ Ends("accepted")
  /\ UNCHANGED <<events, registry, candidates, detections, reopened, crashes>>

-----------------------------------------------------------------------------
(* Threads: reviewers.  No action asks for the status the candidate has.   *)

\* The row that the ingest has flushed and not committed is locked, and an
\* uncommitted insert keeps the others from its place in the unique index.
Locked(c) ==
  /\ ingest.at = "detect"
  /\ \/ ingest.existing = c
     \/ ingest.existing = 0 /\ candidates[c].host = ingest.host

Reviewed(c, status) ==
  /\ ~Locked(c)
  /\ candidates' = [candidates EXCEPT ![c].status = status]
  /\ UNCHANGED <<events, detections, reopened, ingest, answer, auditFailures, crashes>>

AddToRegistry(c) ==
  /\ Reviewed(c, "added_to_registry")
  /\ registry' = registry \cup {candidates[c].host}

\* The suppression that it creates is of a method that no classifier looks up.
Dismiss(c) ==
  /\ Reviewed(c, "dismissed")
  /\ UNCHANGED registry

\* A closed candidate cannot be opened beside an open one: the flush fails inside
\* the audit entry, which rolls it back.
Monitor(c) ==
  /\ Open(c) \/ OpenCandidates(candidates[c].host) = {}
  /\ Reviewed(c, "monitoring")
  /\ UNCHANGED registry

\* dismiss_detection and escalate_to_inventory
CloseDetection(d) ==
  /\ detections[d].active
  /\ detections' = [detections EXCEPT ![d].active = FALSE]
  /\ UNCHANGED <<events, registry, candidates, reopened, ingest, answer, auditFailures, crashes>>

\* A review or a decay pass that loaded the detection while it was active stores
\* its status after it was closed.  The unique index fails it if the signature has
\* another active detection by then.
ReopenDetection(d) ==
  /\ ~detections[d].active /\ Cardinality(reopened \cup {d}) <= MaxReopened
  /\ ~detections[d].signed \/ Signed(detections[d].host) = {}
  /\ detections' = [detections EXCEPT ![d].active = TRUE]
  /\ reopened' = reopened \cup {d}
  /\ UNCHANGED <<events, registry, candidates, ingest, answer, auditFailures, crashes>>

Crash ==
  /\ ingest.at # "idle" /\ crashes < MaxCrashes
  /\ crashes' = crashes + 1
  /\ Ends("none")
  /\ UNCHANGED <<events, registry, candidates, detections, reopened, auditFailures>>

Next ==
  \/ \E h \in Hosts, d \in Days :
       \/ \E c \in Classifications(h, FALSE) : IngestUnknown(h, d, c)
       \/ \E c \in Classifications(h, TRUE) : IngestKnown(h, d, c)
  \/ \E h \in Hosts, d \in Days : Duplicate(h, d)
  \/ Lookup \/ Upsert
  \/ DetectFails \/ DetectNothing \/ DetectCreates \/ DetectRolledBack \/ Link
  \/ DarkSkips \/ DarkConflicts \/ DarkCreates \/ DarkRolledBack
  \/ \E c \in DOMAIN candidates : AddToRegistry(c) \/ Dismiss(c) \/ Monitor(c)
  \/ \E d \in DOMAIN detections : CloseDetection(d) \/ ReopenDetection(d)
  \/ Crash

Spec == Init /\ [][Next]_vars

-----------------------------------------------------------------------------
(* Properties.                                                             *)

ZeroDays == {d \in DOMAIN detections : detections[d].kind = "zero_day"}
Linked == {candidates[c].link : c \in DOMAIN candidates} \ {0}

\* The classifiers put no host twice on a reviewer's desk: it has one open candidate,
\* one active zero-day and one active dark detection at most, of which the database
\* ensures the first only (_upsert_candidate, _maybe_create_detection,
\* DarkAIClassifier.classify).  What an outdated session has stored as active again
\* after it was closed comes on top.
OneOpenCase ==
  \A h \in Hosts :
    /\ Cardinality(OpenCandidates(h)) <= 1
    /\ \A kind \in {"zero_day", "dark"} :
         Cardinality({d \in Hidden(h) \ reopened : detections[d].kind = kind}) <= 1

Counts == [c \in DOMAIN candidates |-> candidates[c].count]

\* No signal is counted twice by the candidates of its host, whatever is retried:
\* the event is committed before the classification.  An event that its audit entry
\* took back is the exception (ingest_signal).
NeverCountedTwice ==
  \A h \in Hosts :
    SumFunctionOnSet(Counts, {c \in DOMAIN candidates : candidates[c].host = h})
      <= Cardinality({e \in events : e[1] = h /\ e[3] = "unmatched"}) + auditFailures

\* An active zero-day detection is the link of its candidate, unless the server
\* stopped between the two commits or the detection was closed and an outdated
\* session stored it as active again, and a link is never to another's detection:
\* the next detection of the host takes the link only when this one is closed
\* (classify_signal).
LinkedUnlessCrash ==
  /\ Cardinality({d \in ZeroDays \ (Linked \cup reopened) : detections[d].active})
       <= crashes + (IF ingest.at = "link" THEN 1 ELSE 0)
  /\ \A c \in DOMAIN candidates : candidates[c].link # 0 =>
       /\ candidates[c].link \in ZeroDays
       /\ detections[candidates[c].link].host = candidates[c].host
       /\ \A b \in DOMAIN candidates : candidates[b].link = candidates[c].link => b = c

\* An ingest, with what it has read long before it commits, never undoes a review.
ReviewsStick ==
  [][ingest' # ingest =>
       \A c \in DOMAIN candidates : candidates'[c].status = candidates[c].status]_vars
=============================================================================
