# Shadow AI discovery engine: specification and verification

TLA+ models of the discovery engine in this repository, checked with TLC on small instances and proved with TLAPS for all of
them. Source paths below are relative to `src/`. `PROJECT.json` holds the same information for tools: which lines
each definition stands for, what each run checks, which mutation of a definition breaks each property.

## 1. The system

A FastAPI service (one uvicorn process) watches an organisation for AI tools nobody registered. Three tiers of sensors
write *telemetry events*; a scoring engine turns the events of one registry signature into one *detection*; detections
lose confidence when they are not seen; people review, dismiss or promote them. Synchronous endpoints run concurrently in a
thread pool, `/connector/ingest` and `/connector/heartbeat` on the event loop, six nightly jobs in an APScheduler
thread pool. Each has a SQLAlchemy session of its own (`autoflush=False`) on PostgreSQL at READ COMMITTED.

| Component | State | Operations | What makes it correct |
|---|---|---|---|
| Confidence scoring `confidence_engine.py` | none | weighted score, rolling average, band, signal hash | results are scores; bands agree with scores |
| Decay `decay_engine.py` | score, stale mark, `last_observed_at` of detections | decay pass, reactivation | score never above base; a stale one is low and asks for review; closed detections do not decay |
| Detection lifecycle `detection_service.py`, `routers/detections.py` | `shadow_ai_detections`, `ai_systems` | run_detection, dismiss, escalate, review, bulk variants, manual report | one active detection per signature; the inventory holds the registered ones exactly; closed ones are records |
| Suppressions `suppression_service.py`, `routers/scans.py` | `suppressed_detections` | lookup, create, lift | no detection of a dismissed tool while the suppression stands, but for what the dark AI side channel adds |
| Audit log `audit_service.py` | `audit_logs` | `log`: COMMIT, or ROLLBACK without a word | a handler's work is committed whole |
| Tier 1 scan `tier1_scanner.py` | telemetry | scan the questionnaire answers, then run_detection | one event per answer, signature and day; nothing for suppressed tools |
| Tier 2 sync `tier2_scanner.py`, `idp_connectors/` | `idp_connections`, sync logs | OAuth start and callback, sync, disconnect | windows without holes; an error is not for ever; no sync of a disconnected provider |
| Tier 3 ingest `tier3_ingestor.py`, `routers/connector.py` | `connector_tokens`, heartbeats, telemetry | validate, rate limit, ingest, heartbeat, revoke | no event after a revocation; at most 1000 an hour; no duplicates |
| Edge connector `connector/` | SQLite queue, scan window | scan, send, enqueue, flush | no signal lost without a reason, none counted twice; queue bounded |
| Zero-day and dark AI `zero_day_classifier.py`, `dark_ai_classifier.py` | candidates, detections without a signature | classify, review | one open case per hostname; no signal counted twice; reviews are not undone |
| Federated network `federated_aggregator.py` | observations, submission log | submit, nightly submission, promote, dismiss | the count is backed by submissions; the threshold decides |
| Jurisdiction and intent `jurisdiction_engine.py`, `regulatory_graph.py`, `intent_engine.py` | the assessment of a detection: JSON and summary columns | assess at a scan, on request, in the nightly pass | the two rule tables agree; columns and JSON agree; every open detection becomes current |
| Contamination `contamination_engine.py`, `external_signal_scanner.py` | index and agreement of a vendor | assess, update the agreement | the score follows from the signals; the index knows the agreement |
| Nightly jobs `main.py` | one session per job | six jobs over all organisations | one organisation's failure does not stop the others |
| Attribution `attribution_engine.py` | owner columns of detections | tail of every sync | an owner is whom the sign-ins speak for, or once spoke for; an AI system inherits him |
| Registry `signature_registry.py`, `registry_service.py`, `seed/` | signatures | seed, merge | weights of a signature sum to one |

**How they interact.** Every tier ends in `run_detection`, which reads *all* telemetry of the organisation. Detections,
suppressions and the inventory are tied by dismissals and escalations. Every handler calls `AuditService.log`, which
*commits* the caller's transaction in its middle, and on any error *rolls it back* and lets the caller go on: the
transactions of the program are not where its handlers begin and end.

**What is hard.** Interleaved sessions that decide on what they read before somebody else's commit; the commit and
rollback hidden in the audit entry; crashes between them; long sequences of scans, days and human actions; lost,
late and repeated requests of the connector and its queue at its limit; the thresholds of the scores. `PROJECT.json`
lists these as *hazards*, each at its line, with the properties that cover it, or why none does.

## 2. Modules

| Module | Models | Used by |
|---|---|---|
| `ConfidenceEngine` | scoring and decay as operators on integers | `DetectionLifecycle` |
| `DetectionRegister` | abstract: what the engine promises about findings | refined by the next two |
| `DetectionLifecycle` | signals, days and people, a handler per step | |
| `DetectionLifecycleProofs` | bounds and types of the scores; its invariants; its refinement of the register | |
| `DetectionSessions` | the same handlers, a database statement per step, by concurrent sessions | |
| `DetectionSessionsProofs` | its invariants, for any number of sessions; refinement of the register by serial ones | |
| `ConnectorDelivery` | the way of a signal from the connector to the telemetry table | |
| `IdpSync` | connections to identity providers, their syncs by requests and by the nightly job | |
| `IdpSyncProofs` | windows without holes, truthful logs, consent, for any number of sessions and connections | |
| `ConnectorToken` | tokens, rate limit and heartbeats of the ingest endpoint, as coroutines that interleave | |
| `ConnectorProofs` | delivery: bound of the queue, deduplication, no signal vanishes, the oldest overflow first; tokens: rate limit, totals, status and revocation | |
| `TrafficFeatures` | the behavioral and the side-channel score of a signal, as operators | `UnknownServices` |
| `UnknownServices` | zero-day and dark AI classification of an ingest, with the reviews between its statements | |
| `FederatedNetwork` | submissions of organisations, the nightly job and the administrators on one observation | |
| `FederatedNetworkProofs` | counts and threshold, for any number of organisations, hosts and sessions | |
| `IntentRules`, `JurisdictionGraph` | the two rule tables, as operators | `DetectionAssessment` |
| `DetectionAssessment` | the assessments of a detection by scans, requests and the nightly pass | |
| `DetectionAssessmentProofs` | obligations are matched and the columns sum up the JSON, for any number of sessions, tools and hosts | |
| `VendorContamination` | assessments of a vendor and updates of its agreement by concurrent requests | |
| `ServiceAndVendorProofs` | the invariants of `UnknownServices`, for any hosts, signals and reviews, and of `VendorContamination`, for any number of requests and vendors | |
| `OwnerAttribution` | the owner of a detection: syncs, passes, scans and people on one tool | `MCOwnerHistory` |
| `OwnerAttributionProofs` | whom the owners were measured from, for any number of actors and sessions and any lookback | |
| `MC...` | instances for TLC; `MCOwnerHistory` adds a history variable | |

### ConfidenceEngine

A score is `Numeric(5,4)` in the database, so it is an integer number of ten-thousandths; the constant `One` is 10000 in
the code and smaller in models that have to be small. What scoring reads of the events of a signature is its
`Evidence`: the kinds of signal present, the best match quality of each kind, and the number of events up to the
window of the rolling average. `AddSignal` adds an event, `ComputeScore`, `RollingAverage`, `Band` and `Decayed`
are the methods of the same names. The exponential is a constant function, `DecayFactor[tool][age]`. Python rounds a tie
to even on a binary float; the models round a tie up.

### DetectionLifecycle

One organisation. `rows[t]` is the sequence of detections ever made for tool `t`, a signature or the slug `unknown`
that manual reports share; `suppressed` the slugs with a standing suppression; `inventory` the AI systems by
their `source_detection_id`; `evidence` and `silence` the telemetry. `age` of a detection is the whole days since
`last_observed_at`.

| Action | Code |
|---|---|
| `SaveResponse` | an answer is written by the host application (external) |
| `Tier1Scan` | `Tier1Scanner.scan_organization`, with its `run_detection` |
| `StoreSignal` | `Tier3Ingestor.ingest_signal`, and a matched event of a Tier 2 sync |
| `StoreProxiedSignal` | the same for a connection through a proxy whose traffic has the shape of AI use: `DarkAIClassifier.classify` adds a detection of its own, a `dark` one, where no row is active |
| `ManualReport`, `ReviewDetection`, `DismissDetection`, `EscalateDetection`, `LiftSuppression` | the endpoints, with every service call they make |
| `DecayPass` | `DecayEngine.run_decay_pass` |
| `NextDay` | the date changes: hashes of today expire, everything gets older |

A Tier 2 sync runs detection once for all its events, `StoreSignal` once per event: a sync with several events for one
signature is only modelled as several. A signature has one questionnaire answer that mentions it. Bulk endpoints are
sequences of the single ones. Where the tool has an active detection, or the host an active dark one, the dark AI classifier adds
nothing: the insert breaks the index or is skipped, and `StoreSignal` is what is left.

### DetectionRegister

The promise, in three variables and four actions: findings that are active, hidden, dismissed or registered; a scan adds a finding only
where none is active, and none while a dismissal stands but a hidden one (what the dark AI side channel sees); only people close findings,
one at a time, together with the suppression or the AI system that belongs to it.

### DetectionSessions

One tool, scores left out. `rows`, `suppressions` and `systems` are committed state; `session[p]` says where a handler is, which
row it loaded and as what (`seen`), and whether it holds the lock of an uncommitted UPDATE. `Scan*`, `Dismiss*`, `Escalate*`,
`Review*`, `Lift*` and `Decay*` are the statements of the handlers. Modelled of the libraries, from how the code uses them:

- an UPDATE names the row by its key and sets the changed columns only, so it overwrites what others committed to the
  status since the load (`CommitRow`, `WithStatus`); it waits for the row lock of another session (`RowLocked`);
- an INSERT waits for another session's uncommitted row with the same unique key and then fails (`ActiveKeyBusy`,
  `SystemKeyBusy`, `SuppressionKeyBusy`, `ActiveKeyTaken`);
- an audit entry commits, or rolls back and goes on: the two disjuncts of each `*Audit` action;
- a commit expires what the session has loaded, so the decay loop reads its next row again (`DecayReload`);
- `Crash` rolls back every open transaction.

### ConnectorDelivery

Signals are numbered as the sources see them. `disk` is the committed queue; `flush` selects it (`StartScan`), tries row by
row (`FlushRow`) and commits once at its end (`FlushCommit`, which also opens the next scan window); `SendSignal` is a new
signal of the scan; `FinishScan` sleeps, and the time of the scan itself falls into no window. Each request has one of six
`Outcomes`; a delayed one stays on the `wire` and may arrive after its retry, and an `unaudited` one is answered 200 although a failed
audit entry took the event back (`IngestRolledBack`). `Ingest` deduplicates by the signal hash, which holds the signature that the tool
matches on arrival: `stored` has, per signal, the events by that match, and `RegistryChanges` changes it. `Unlucky` bounds the signals to
which delays, lost entries and changes happen; a lost answer, a refusal or a crash may happen to each.
A corrupt queue row and SQLite errors are left out.

### IdpSync

Sign-ins happen at instants of one clock, and all match one signature. `rows` are the connections, `completed` the windows
of the sync logs with status `completed`, `telemetry` the committed events as pairs of a provider and a day, which is what
their hash tells apart. `worker[w]` is the session of a request or of the nightly job.

| Action | Code |
|---|---|
| `Connect`, `Disconnect`, `TriggerSync` | the endpoints of `routers/idp.py` |
| `CallbackLoad`, `CallbackExchange`, `CallbackSync` | `handle_oauth_callback`: select, exchange of the code and commit, sync |
| `SyncFetch`, `SyncFetchFails`, `SyncFetchRaises`, `SyncFlush`, `SyncDetect`, `SyncFinish` | `sync_connection`: request to the provider and duplicate check, its failure, an exception that is not caught, flush, `run_detection` with `run_attribution_pass`, final commit |
| `NightlyStart`, `NightlyNext`, `NightlyEnd` | `nightly_tier2_sync` |
| `SignIn`, `Crash` | the world |

What detection does to detections is in the modules above; here it is where the events and the sync log are committed, rolled
back with a failed audit entry, or left in the session by an exception. The job's session is never rolled
back: uncommitted events of a failed sync are *carried* into the next one, and a failed flush ends the job's work.
A window of at most `PageLimit` sign-ins is fetched whole, of a larger one some. `SyncsAreShort` is the one assumption on
time: a sync takes less than its window of 24 hours; a fetch makes at most 10 requests of at most 60 s.

### ConnectorToken

A request is `Post`ed (token looked up, validated and rate-limited, all before the first await), waits for its body, and goes on when the
body arrives: `BodyArrives` and `BodyArrivesAwaits` are the code after it, up to its own commit in `Store` or the rollback of
`StoreRolledBack`. The endpoints are coroutines, so each action runs from one await to the next; `Generate` and `Revoke` come from threads
at any moment but that `Post` is one step: a revocation between its lookup of the token and its commit is as good as one after it.
`recent[t][n]` counts the requests admitted at most `n` instants ago and exists for the properties only, `token[t]` is the row.
`HeartbeatDelete` and `HeartbeatInsert` are the upsert of a heartbeat; `Online`, `Stale` and `Offline` are the sums of `GET
/connector/status` over the `Rows` of the heartbeat table.

### UnknownServices and TrafficFeatures

The features of a signal (call frequency, payload, endpoint words, recency; the timing of proxied traffic) are graded and weighted in
`TrafficFeatures`; `UnknownServices` uses them to decide which classifications an ingest begins. Its steps are the transactions of
`ingest_signal`: event with audit entry (`IngestUnknown`, `IngestKnown`), `Lookup`, `Upsert`, the zero-day detection (`Detect*`), its
`Link`, the dark detection (`Dark*`). The event loop has one ingest at a time; `AddToRegistry`, `Dismiss`, `Monitor` and `CloseDetection`
run between any two steps, except that a flushed candidate is locked. `ReopenDetection` is a review or a decay pass that loaded a detection
while it was active and stores its status after it was closed; `reopened` remembers which. An event is known by its host, day and match, as
its hash is: one that came before the host was added to the registry is not found after it. A candidate is pending, monitored or closed, and
`link` is the detection it names.

### FederatedNetwork

A session looks up its log entry, selects the observation, flushes both rows and commits with an audit entry: `Lookup`, `Select`, `Flush`,
`Promote`, `Count`. `tx` is what it has flushed and not committed, a row in it is locked. The nightly job is the session `Nightly`: it
visits the tokens in `queue`, and its candidates in one transaction per token. In the job the token is a plain row of a select and not an
object, so the last step of each submission raises (`NotCounted`) and the flushed rows wait for the commit of the token. Administrators ask
for no status before they write, so their handlers are single steps. (An UPDATE leaves out a status equal to the one just loaded; the models
write it.)

### DetectionAssessment, IntentRules, JurisdictionGraph

`IntentRules` chooses action, subject and context of a text by the order of the pattern tables and derives its obligations; a text is the
set of classes that have a word in it. `JurisdictionGraph` has the 16 articles with their triggers, `Traverse`, the missing governance
and the highest risk. `DetectionAssessment` stores verdicts: a session loads the row, reads the signature (`ReadSignature`), and
writes the columns that differ from what it loaded (`Merged`). `PassStarts` and `PassContinues` are the nightly pass, `SeedSignatures`
a changed registry, `Restart` a deployment with another version of the graph.

### VendorContamination

A request for an assessment reads the telemetry, the row, may ask the outside service, reads the agreement and stores
(`AssessVendor`, `ReadRow` or `ReadRowAndScan`, `ReadAgreement`, `Store`); an update of the agreement reads and flushes it first
(`UpdateDpa`, `FlushDpa`) and holds its lock through its own assessment. `Store` is the one commit. A column is in the UPDATE if its value
differs from what was read; a float never equals its decimal unless it is a binary fraction (`Exact`), so most scores are written
always. `outdated` and `mixed` are history variables: they mark the vendors on which the code gives no guarantee, because a late session stored over a newer
agreement, or over a row that it had not read. Of an agreement's two columns only `covers_ai_processing` is kept: the score does not read
`dpa_exists` (section 4).

### OwnerAttribution

One tool. `events` has, by provider and age in days, the actor of the one event that the hash allows (it has no actor in it); `rows` the two
owner columns and the status of its detections, `systems` the owners that AI systems have inherited. A sync (`SyncConnection`) stores what
is new in its window, which may reach back any number of days, and begins a pass, which loads (`PassLoads`), reads again after the commit
for another tool (`PassReloads`), counts (`Compute`) and commits with its audit entry (`Store`) or loses its work (`StoreRolledBack`). An
escalation reads the owner (`EscalateLoads`) and inserts the AI system with him later (`EscalateInserts`), or fails. `Store` writes the
columns that differ from what the pass read. `mixed` marks the detections where that row was no longer the stored one. `MCOwnerHistory`
remembers every owner and confidence the events have spoken for.

## 3. Runs

| Run | Checks | Bounds |
|---|---|---|
| `lifecycle` | five invariants, `ClosedDetectionsFrozen`, `ImplementsRegister`; `ReportsAreSettled`, `DetectableToolIsDetected` under fairness | 1 signature, 1 manual report, 2 detections, window 2, ages to 1 (30 days), scores in tenths, connections to a host that no pattern covers, a dark score at the threshold |
| `sessions` | `OneSystemPerDetection`, `SystemIsLinked`, `DismissedIsSuppressed` | 2 sessions (symmetric), 3 detections |
| `sessions_serial` | `ImplementsRegister`, statement by statement | 1 session, 3 detections |
| `delivery` | four invariants and `QueueDrains` under fairness | 3 signals, queue of 2, 2 attempts, 1 restart, 1 unlucky signal, 1 change of its match |
| `idp_sync` | `CompletedIsStored`, `NoHole`, `StatusAgreesWithConsent` | 1 connection, a request and the job, 4 instants in days of 2, pages for 2, 1 failed audit entry |
| `token` | `SlidingLimit`, `TotalsAgree`, `StatusAddsUp`, `RevocationHolds`; `GetsThrough` under fairness | 1 token, 2 requests, 2 signals, limit 2, an hour of 2 ticks |
| `unknown` | `OneOpenCase`, `NeverCountedTwice`, `LinkedUnlessCrash`, `ReviewsStick` | 1 relayed host, 2 days, 3 candidates, 4 detections, 1 reopened, 1 failed audit entry, 1 crash |
| `federated` | `CountIsBacked`, `ThresholdDecides` | 2 organisations (symmetric), 1 host, a request and the job, threshold 3, 2 days, 1 failed audit entry |
| `assessment` | `ObligationsAreMatched`, `SummaryAgrees`; `CurrentInTheEnd` under fairness | 1 tool, 1 host, a request and the job, 2 texts, 2 graph versions, 1 fault |
| `vendors` | `AgreementIsAssessed`, `SignalsAddUp` | 1 vendor, 2 requests (symmetric) |
| `owner_history` | `OwnersWereMeasured` | 2 actors (symmetric), 1 provider, lookback 2, 1 detection, 1 escalation under way, a request and the job (symmetric) |
| `age_is_silence` | one documented claim, which TLC refutes (section 4) | 1 signature, 2 detections, window 2, ages to 2 (a day is 20), scores in hundredths |

**Why the bounds are enough.** In `lifecycle` a signature can be detected, dismissed, lifted, detected again and go stale twice; a tool's
rows interact with no other tool's. One model day is thirty days of category `llm`, in which a score halves: a high one stays and a medium
one goes stale, and older ages behave like the last one. The window is 2 instead of 10: the average is then of one old and one new score,
and every band change happens. The one input is the weakest there is: a connection that is a finding only together with a mention, so that
evidence comes to its threshold in two steps of two tiers. Dark detections start at the threshold of the side channel and decay twice as
fast, so one day makes them stale. A tool with evidence enough from a single connection is not in this run; it is in `age_is_silence` and in
the theorems, which hold for all inputs. `RoomAfter` keeps the last row open so that a scan always has room for the next detection. In
`sessions` two sessions are enough for each race of section 4: a handler has one load and one writing transaction, and the interference is
between a pair; three detections allow a dismissed, a registered and an active one together. In `delivery` three signals overflow a queue of
two, and two failures abandon a row; the code's numbers are 10000 and 3, and the theorems hold for all of them. The middle one of the three
signals is the unlucky one: there are one before it and one after it whose order with it matters, and signals share nothing but the queue.
In `idp_sync` four instants allow three sign-ins, more than the pages hold, two of one day, and two syncs that overlap or follow each other;
a first sync reaches back `Window` = 1. Connections of different providers meet only in the job's session, which the run leaves out (section
4). In `token` two requests of one token are the race around the limit and the revocation, and the hour is long enough for a window that
starts in the middle of another; tokens share nothing. In `unknown` a host has at most one open candidate and one ingest at a time, so the
third candidate and the fourth detection are those that follow a review and the same host's signal on a second day, or its signal after it
was added to the registry; two days are enough for two stored events of one match, and the theorems hold for any number. `federated` needs
the third submission to reach the threshold, and gets it from two organisations on two days. In `assessment` two versions make an assessment
old, two texts move the intent; seeding alternates between a high and a medium risk profile, which trigger different articles; a request and
the job are the race on a detection, and the theorems hold for any number of sessions. In `vendors` the merge of columns is between a pair
of sessions, and the theorems hold for any number. In `owner_history` three days are the least in which two thirds and less than three
fifths both occur, one of them on the edge of the lookback; two passes are the race on a detection, and a second detection of the tool would
begin like the first.

**Fairness.** `lifecycle` assumes that days pass and that the Tier 1 and decay jobs run
(`main.py` schedules both daily); nobody has to click anything. The nightly scan visits only organisations that have questionnaire responses
(`main.py:50`), so it is assumed to run where there is a mention (`NightlyTier1Scan`), and `DetectableToolIsDetected` is about such organisations; in any other,
Tier 2 or 3 telemetry waits for the next signal or sync. `delivery` assumes that the scan loop goes
on and that a request ends one way or another (the client has a timeout of 30 s); nothing assumes that a request ever
succeeds, that messages arrive or that the connector stops crashing before its bound. `token` assumes that time passes, that the event
loop resumes each coroutine, and that the connector keeps posting and is not always preceded by others (strong
fairness, since its requests are enabled only while a slot is free). `assessment` assumes that the scheduler starts the pass each
night and that a pass, once started, takes its steps.

**Deadlock** is checked in every run.

## 4. Where the code departs from its documentation

One claim is a run that TLC finds violated, `age_is_silence`: the comments say that days are counted since the last
signal (`decay_engine.py`), but every scan refreshes `last_observed_at` of all detections with telemetry, so with the nightly
Tier 1 scan of an organisation an hour before the decay pass nothing of it ever decays, except what has no signature, like manual reports.

The rest was met while modelling. The models contain the behaviour unless the text says otherwise; no property is claimed against it.

*Detections.* Decay starts from the base score of the first detection, not from the rolling average: a score that scans had lowered goes up.
The decay pass commits inside its loop and does not ask again: it reopens a detection that was closed meanwhile. A scan or review under way
makes a detection active beside a suppression that was committed after its lookup. A failed audit entry rolls back the work of its caller,
and the request is answered with success. The score that is stored is the rolling average, which may be under the discard threshold of 0.40
that the fresh score passed. A dismissal and an escalation that load one active detection both succeed. An escalated tool is detected again
as new at the next scan. The band is not updated by decay or reactivation. The dark AI classifier asks for no suppression: "The suppression
table prevents re-detection of dismissed tools via the same method" (`docs/DEVELOPMENT_LOG.md:548`, `models/suppression.py:14`), but the
next proxied signal of a tool that was dismissed adds an active detection, also one of a method that was dismissed before
(`dark_ai_classifier.py:313`). `SuppressedToolIsQuiet` excludes these, and the register calls them hidden. What `DismissedIsSuppressed` says
is that a dismissal has committed a suppression, lifted or not.

*Identity providers.* Two sign-ins to one application on one day, both new, get one hash, so the flush of their sync fails, and again every
night, because the window does not move. A failed audit entry in a sync takes back its events and the window moves past them (`NoHole`
excludes it). A nightly sync turns a connection that waits for consent to `error`, and the callback then finds none. The job has one session
for all connections and does not roll it back: after a failed flush each later sync of the night fails. Only two kinds of failed fetches set
the status to `error` (`tier2_scanner.py:172`); after any other the connection is as it was, with a sync log that stays `running`, or is
rolled back.

*Connector.* It flushes its queue at the start of a scan and not on every successful call (`connector/queue_manager.py:15`). The status
endpoint counts a connector that has been silent for a day both as offline and among those without a heartbeat. A revocation that commits
while a request waits for its body does not stop that request. The signal hash holds the signature that matches on arrival
(`tier3_ingestor.py:226`, `tier3_ingestor.py:332`), so a signal that is sent again after the registry began to match its tool otherwise is
stored a second time (`StoredOnce` excludes it). When the audit entry of an event fails, the event is rolled back, the answer is 200 all the
same, and the connector forgets its signal (`AccountedFor` names it as a reason). The comments and the docs have a limit of "1000 requests
per hour per token" (`routers/connector.py:272`, `docs/DEVELOPMENT_LOG.md:1836`): the hour starts with a request and is counted anew after
it, so an hour that lies across two windows admits twice the limit, which is what `SlidingLimit` and its theorem say.

*Log sources* (not modelled). A file source is to match the destination fields of its log, but a record without one is counted for every
tool (`connector/sources/local_file.py:82`, also `cloudtrail.py:84`), since the empty text is part of every pattern. One line of JSON that
is no object, or one time without a zone, loses all signals of the scan of its source. Records of a file without a readable time are in
every window and are reported by every scan; times in syslog format get the year 1900 or do not parse. Fetches stop at 10000 records. The
Azure and GCP sources are made without credentials (`connector.py:118`, `connector.py:127`) and read nothing.

*Owners.* An owner is not removed when nobody has the share any more, and an AI system may inherit him (`detection_service.py:551`). The
module docstring asks for more than 60%, code and tests for at least 60%. The share is of days and providers and not of sign-ins, because
one event is stored of a day, whoever came first. An escalation inherits the owner that it read when it began, also when a pass has stored
another since. A pass may write an owner on a detection that was closed meanwhile.

*Registry.* `get_merged_registry` returns the active global signatures; there are no overrides of an organisation to merge.

*Unknown services.* The next signal of a monitored hostname fails after its event is stored, and its retry is a duplicate, so the candidate
never hears of it. A host with both an active zero-day and an active dark detection makes a lookup fail that expects one row. Dismissing a
candidate does not keep the next signal from opening another. A matched proxied signal of a tool with an active detection violates the index
of active detections. `review_candidate` has no guard on the status. A review or a decay pass that loaded a hidden detection before it was
closed makes it active again (`decay_engine.py:117`), beside the one that an ingest created meanwhile, and without a link: `OneOpenCase` and
`LinkedUnlessCrash` except what was reopened so.

*Federated network.* The threshold of "3+ independent organizations" counts submissions, one per organisation, hostname and day: one
organisation reaches it alone in three days. A dismissal is not final: a session that read `observing` writes `candidate`
over it, and an administrator may promote after it. The nightly job counts no submission, because the token it holds is a plain
row. Two submissions that read the same count leave one count. A failed audit entry of a promotion loses the submission and
counts it.

*Assessments.* The docstring of the engine says "If ANY condition matches: include article" (`jurisdiction_engine.py:21`) and, a few lines
on, "AND logic between condition types when multiple condition types are specified" (`jurisdiction_engine.py:26`). The code takes one match
of any type as enough, and so do `Triggers` and `ObligationsAreMatched`. By the second reading the two rule tables would not agree: Article
6 of the EU AI Act, which an intent may oblige to by its action, subject and context, has categories among its conditions and would be
missed for a tool of another category. A tool with any matched article has the highest risk `critical`. Detections without a signature match
nothing, and a dark detection of a known tool keeps an empty assessment until it is refreshed. Re-seeding the registry assesses nothing
again, and two sessions that overlap it leave columns of two assessments on one row: an UPDATE has only the columns whose value differs from
what its session read (`jurisdiction_engine.py:163`), so the count may stay of one assessment beside the JSON of another, where
`docs/DEVELOPMENT_LOG.md:2283` calls it a "Denormalized regulation count for dashboards." The same happens without any change of the
registry to a dark detection of a known tool, which is assessed without a signature when it is created (`dark_ai_classifier.py:358`) and
with it by a refresh: one refresh stores before the creation stores its assessment, and a second reads before it and stores after it,
without the columns that it read as it would write them. `SummaryAgrees` excludes both. (The second needs two requests, where the run has
one and the job: the proof found it.) The obligations `GDPR_ART6` and `GDPR_ART9` are not in the graph; Article 6 of the EU AI Act is not
matched for a financial decision as such. A GET after a failed audit entry finds no assessment and fails to serialise.

*Vendors.* "No DPA: 1.0 (maximum gap)" (`contamination_engine.py:36`) holds of a missing record only: a record that says that there is no
agreement (`dpa_exists` false) scores 0.5 like one without AI coverage, since the score does not read that column
(`contamination_engine.py:187`). A failed external scan scores 0.1, where its docstring says 0.5 (`external_signal_scanner.py:160`). Every
assessment, also without a scan, renews the time by which scans are throttled and stores the neutral score: daily assessments starve the
scan and erase its result. Of two concurrent updates of an agreement, one that says what it has read is not written. An assessment that read
the agreement before an update and stores after it leaves the old contractual signal (`AgreementIsAssessed` excludes it until the next
assessment that nothing overlaps).

## 5. Proofs

All theorems hold for every value of the constants that satisfies the named assumptions in the modules.

- `DetectionLifecycleProofs` has three parts.
  *Scores*: the score, the rolling average and the decayed score of scores are scores (`ComputeScoreType`,
  `RollingAverageType`, `DecayedType`), and decay never exceeds the base (`DecayedBound`). They rest on two facts about
  rounded division.
  *Invariants*: `TypeCorrect`, `OneActiveDetection`, `SuppressionHolds`, `InventoryComplete`, `StaleStaysLow`, `ClosedStaysClosed`. The
  inductive invariant `IInv` is the conjunction of these properties: none is inductive alone. A scan appends a detection when no row is
  active, which keeps "only the newest" because the others are closed; a suppressed tool has no active row but a dark one because a scan of
  a tool without an active row asks for the suppression, no step turns a row into a dark one, and a dismissal closes the only active row
  *because* only the newest is active. So `SuppressionHolds` says of the dark AI side channel that it is the only way around a suppression,
  and of all other paths that there is none. The lemma `StepKinds` says once what each action can do to a row (`InitInv`, `StepInv`,
  `Invariance` follow the usual pattern).
  *Refinement*: `LifecycleImplementsRegister`, by the step simulation: a scan is `Detect` of the set of
  tools that got a row and the set of those that got a hidden one, days, decay and reviews are stuttering steps, the rest map one to one.
- `DetectionSessionsProofs`: `TypeCorrect`, `EscalatedOnce`, `LinksStay`, `DismissalIsWhole`, `SerialSessionsImplementRegister`. The
  invariant adds what each session holds while the others commit (`Holds`): the row it loaded still exists; an AI system that it inserted
  and did not commit is the only one of that detection; a dismissal that found a standing suppression goes on with one in the table, lifted
  or not. `LinksStay` is that a write over a row loaded before the escalation does not take its link away: `StatusFacts` and `SessionStep`
  say that no step but the escalation's own commit touches that column. `SessionStep` turns the invariant into one lemma for all steps that
  add neither a detection nor an AI system; the two that do, `ScanAudit` and `EscalateAudit`, have proofs of their own. The refinement
  assumes `Serial`, that one session at a time is between its statements, since section 4 lists what overlapping ones do. Its invariant adds
  that what a handler has read still holds when it commits (`Alone`): no active detection appeared under a scan, the loaded detection is
  still active, the suppression to lift still stands; and that at most one suppression stands. Each statement then stutters but the five
  commits, which are `Detect`, `Dismiss` (twice), `Escalate` and `Lift`.
- `ConnectorProofs` has two parts.
  *Delivery*: `DeliveryTypes`, `QueueIsBounded`, `NothingTwice`, `NothingVanishes`, `OldestGoFirst`. While a flush works, the committed rows
  do not count: its commit replaces them. So the invariant adds `Tried`: each of them is stored, under way or dropped, or among the rows
  that the flush keeps or has still to try. For `NothingTwice` it says that a signal with an event of another match than the present one is
  among the `rematched`. `OldestGoFirst` (until a restart, which sees old signals again) has the invariant `InOrder`: what overflowed, the
  rows that a flush kept and has still to try, the queue, the batch and what no scan has covered are one rising sequence, piece after piece.
  *Tokens*: `TokenTypes`, `RateIsLimited`, `TotalsAlwaysAgree`, `StatusAlwaysAddsUp`, `RevocationIsFinal`. For the rate the
  invariant (`Windowed`) splits the last hour at the start of the limiter's window: the requests since are at most its count, those before at
  most the limit. For the totals and the heartbeats it says that a request between a read and the write that depends on it holds the event
  loop, so what it read is what it finds (`Sound`), and that the heartbeat rows of a token are none or one, also between the
  two statements of the upsert.
- `ServiceAndVendorProofs` has two parts.
  *Services*: `ServicesTypes`, `OneOpenCaseHolds`, `NeverCountedTwiceHolds`, `LinkedUnlessCrashHolds`, `ReviewsStickHolds`. An ingest
  decides by what it read transactions ago, so the invariant says that it still stands: the candidate it found, or that there was none
  (`ReadsHold`), and the detection it is about to link (`LinkHolds`); a zero-day detection that nothing links was left by a restart
  (`Abandoned`) or reopened. An outdated session that reopens one adds it to `reopened`, which the counts of active detections leave out, so
  the reads of an ingest stand for the others. The counts are a sum over all candidates, a fold of the community modules. That it changes by
  one when one candidate does needs no induction over data: finite sets are well-founded under inclusion (a library theorem without operator
  parameters), so a set on which two sums disagreed would have a smallest such subset (`MinimalSubset`, `OneSum`, `SumExists`,
  `SumWithout`).
  *Vendors*: `VendorTypes`, `AgreementIsKnown`, `ScoreAddsUp`. The invariant says of each session that it holds
  the agreement as it is, or as it is about to become, unless it is `stale`, and that one session at a time holds the lock of a
  vendor's agreement. So a session that stores a change keeps all others from changing the contractual column of a vendor that is not
  outdated, and the merge of columns keeps the right one although it compares with an old row. `SessionStep` covers the steps
  that change one session only; `Store` has a proof of its own on top of `MergedRow`.
- `DetectionAssessmentProofs`: `AssessmentTypes`, `ObligationsAlwaysMatched`, `SummariesAgree`. The first is about the two tables: for every text,
  profile and article, an article that the intent obliges to is triggered by a part of that intent (`ArticleTriggers`, `ObligationsTrigger`),
  and `Traverse` leaves no triggered article of the risk out; the
  smallest position that `SelectInSeq` finds exists by `MinimalSubset`, so `Classify` and `BestIntent` return what the tables hold. The
  second is not inductive, since a session stores only the columns it changed. `AssessmentInv` adds that the tool, intent and band of a row
  never change under a session, so that sessions that find the same profile write the same columns (`Fresh`), and that the columns in the
  table are either all as the session read them or all as it will write them (`ReadHolds`): what the merge leaves out is then equal (`MergedFacts`).
- `OwnerAttributionProofs`: `OwnersAreMeasured`. A pass may store what it found in events that have left the lookback since, so the
  invariant says of each pass about to store that its finding has been measured (`FindingIsMeasured` shows that `Attribution`
  returns nothing else), and that every measurement of the events is in the history. `StoreStep` is the heart: where the pass read the
  row as it is, a column that the merge leaves alone already has the finding's value. The owner that an escalation has
  read was measured too, and stays so however late it inserts him. It assumes finitely many providers, since it
  counts their events.
- `FederatedNetworkProofs`: `TypeCorrect`, `CountsAreBacked`, `ThresholdIsDecisive`. A session writes a count that it computed from an old
  read, so the invariant says of each session what it has read (`Known`) and flushed (`Pending`): the count it read is at most the number of log
  entries, and what it flushed is at most one more, with a log entry that is still missing and will be committed with it. The log only grows, a
  host once read as more than observed is never observed again, and one session at a time has flushed a host (`Exclusive`).
- `IdpSyncProofs`: `TypeCorrect`, `ConsentAgrees`, `LogsTellTheTruth`, `NothingFallsBetween`, with two invariants. The first
  says of each session what its sync still has to do (`Sound`): after the fetch, each sign-in of its window is
  stored or among the days that the session will flush, unless the provider had more than a fetch reads (`Covered`); before its log is
  committed as completed all are stored. So a log that says `completed` tells the truth (`LogsHold`).
  The second, `Chain`, holds while no audit entry has failed: the completed windows of a connection leave no instant between them
  uncovered (`Together`), `last_synced_at` is the end of one of them (`MarksHold`), and each window under way touches one of them, or the other
  windows under way while none is completed (`Touch`, `WindowsHang`, `FirstsTouch`). A sync that completes therefore only extends
  what is covered, however old its window is. The proof uses `SyncsAreShort`, the assumption on time of section 2.

**Only model-checked**: the five liveness properties (`ReportsAreSettled`, `DetectableToolIsDetected`, `QueueDrains`, `GetsThrough`, `CurrentInTheEnd`) and
the deadlock checks, which need ENABLED and fairness and are outside of the prover's reach; and the violation, which is a counterexample. Every
safety invariant, action property and refinement that a passing run checks is also a theorem. What the
folds and pattern tables compute is proved as far as these theorems need it.

## 6. What is not modelled

Every module of the plan is written, and every safety property is proved.

Modelled in part:

- *Edge connector*: the log sources fold the records they read into one signal for each tool and appear as these signals; SQLite errors and
  a corrupt queue row are left out.
- *Nightly jobs*: each is in the module of its component; what the failed flush of one organisation's Tier 1 scan does to the
  organisations after it is only described above.
- *Registry*: weights, categories and risk levels are constants, and seeding changes a profile.
- *Contamination and capability*: the capability report aggregates stored rows and changes nothing.

Left out for good: schemas and input validation, metrics and health endpoints, logging, encryption of tokens, and the text of
the audit log: they decide nothing about the state above. The external parts (PostgreSQL, SQLAlchemy, SQLite, the
network, the host application) are modelled only as far as the code relies on them, and marked external in the map.
