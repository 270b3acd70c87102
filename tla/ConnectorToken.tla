--------------------------- MODULE ConnectorToken ---------------------------
(***************************************************************************)
(* The server's side of the edge connectors: the tokens of an organisation *)
(* (tier3_ingestor), and the two endpoints that a connector calls with a   *)
(* token (routers/connector).                                              *)
(*                                                                         *)
(* /connector/ingest and /connector/heartbeat are coroutines of one event  *)
(* loop: nothing else of theirs runs while one holds the loop, and each    *)
(* lets go of it only where it awaits its body.  Tokens are generated and  *)
(* revoked in threads, at any moment.                                      *)
(***************************************************************************)
EXTENDS Naturals, Sequences, FiniteSets

CONSTANTS
  Tokens,
  Requests,       \* requests of connectors under way at a time
  Signals,        \* the well-formed bodies, one per signal hash
  Free,           \* nobody holds the event loop
  Limit,          \* RATE_LIMIT_PER_HOUR
  Hour,           \* instants of an hour, for the rate limit
  OnlineHours,    \* a heartbeat is 'online' up to this age ...
  StaleHours,     \* ... and 'stale' up to this one, in instants
  NoWindow        \* hour_window_start IS NULL

ASSUME TokenAssumption ==
  /\ Tokens # {} /\ Signals # {} /\ Free \notin Requests
  /\ Limit \in Nat \ {0} /\ Hour \in Nat \ {0}
  /\ OnlineHours \in Nat /\ StaleHours \in Nat /\ OnlineHours < StaleHours
  /\ NoWindow \notin Nat

VARIABLES
  token,      \* the rows of connector_tokens
  events,     \* per signal, the tokens of the committed events with its hash
  beats,      \* per token, the ages of its rows in connector_heartbeats
  request,    \* per request, the step it stands before and what it holds
  loop,       \* the request that holds the event loop
  recent      \* history: recent[t][n] requests of t were admitted at most n instants ago

vars == <<token, events, beats, request, loop, recent>>

\* window: the age of hour_window_start, which saturates once it is over.
Token == [state : {"none", "live", "expired", "revoked"}, window : 0 .. Hour + 1 \cup {NoWindow},
          used : 0 .. Limit, total : Nat]

\* seen: signals_total as the request loaded it.  rows: the heartbeats it deleted.
Request == [at : {"idle", "body", "store", "beat", "insert"}, token : Tokens,
            signal : Signals, seen : Nat, rows : Nat]

Ages == 0 .. StaleHours + 1

TypeOK ==
  /\ token \in [Tokens -> Token]
  /\ events \in [Signals -> Seq(Tokens)]
  /\ beats \in [Tokens -> Seq(Ages)]
  /\ request \in [Requests -> Request]
  /\ loop \in Requests \cup {Free}
  /\ recent \in [Tokens -> [0 .. Hour -> Nat]]

NoToken == [state |-> "none", window |-> NoWindow, used |-> 0, total |-> 0]

Idle == [at |-> "idle", token |-> CHOOSE t \in Tokens : TRUE,
         signal |-> CHOOSE s \in Signals : TRUE, seen |-> 0, rows |-> 0]

Init ==
  /\ token = [t \in Tokens |-> NoToken]
  /\ events = [s \in Signals |-> <<>>]
  /\ beats = [t \in Tokens |-> <<>>]
  /\ request = [r \in Requests |-> Idle]
  /\ loop = Free
  /\ recent = [t \in Tokens |-> [instants \in 0 .. Hour |-> 0]]

At(r, step) == request[r].at = step

Uses(r, t) == request[r].at # "idle" /\ request[r].token = t

\* Mutant: revoked_at and is_active are not looked at.
ValidIfNotExpired(t) == token[t].state \in {"live", "revoked"}

\* validate_connector_token
Valid(t) == token[t].state = "live"

Recorded(s) == events[s] # <<>>

Leave(r) ==
  /\ request' = [request EXCEPT ![r] = Idle]
  /\ loop' = Free

-----------------------------------------------------------------------------
(* Tokens.  A token whose audit entry fails is rolled back, as is a        *)
(* revocation: nothing has happened.                                       *)

Generate(t) ==
  /\ token[t].state = "none"
  /\ token' = [token EXCEPT ![t].state = "live"]
  /\ UNCHANGED <<events, beats, request, loop, recent>>

Revoke(t) ==
  /\ token[t].state \in {"live", "expired"}
  /\ token' = [token EXCEPT ![t].state = "revoked"]
  /\ UNCHANGED <<events, beats, request, loop, recent>>

\* The calendar reaches expires_at, which is at least a day after creation.
Expire(t) ==
  /\ token[t].state = "live"
  /\ token' = [token EXCEPT ![t].state = "expired"]
  /\ UNCHANGED <<events, beats, request, loop, recent>>

-----------------------------------------------------------------------------
(* POST /connector/ingest                                                  *)

WindowOver(t) == token[t].window = NoWindow \/ token[t].window > Hour

\* requests_this_hour as the limit is compared with it.
Used(t) == IF WindowOver(t) THEN 0 ELSE token[t].used

Admitted(r, t) ==
  /\ token' = [token EXCEPT ![t].window = IF WindowOver(t) THEN 0 ELSE @,
                            ![t].used = Used(t) + 1]
  /\ recent' = [recent EXCEPT ![t] = [instants \in 0 .. Hour |-> @[instants] + 1]]
  /\ request' = [request EXCEPT ![r].at = "body", ![r].token = t]
  /\ UNCHANGED <<events, beats, loop>>

\* Mutant: a request that is refused starts the hour again.
PostRestartsWindow(r, t) ==
  /\ loop = Free /\ At(r, "idle") /\ Valid(t)
  /\ \/ Used(t) < Limit /\ Admitted(r, t)
     \/ /\ Used(t) >= Limit
        /\ token' = [token EXCEPT ![t].window = 0]
        /\ UNCHANGED <<events, beats, request, loop, recent>>

\* Mutant: the start of the hour stays where it was when the count begins anew.
PostKeepsWindow(r, t) ==
  /\ loop = Free /\ At(r, "idle") /\ Valid(t) /\ Used(t) < Limit
  /\ token' = [token EXCEPT ![t].window = IF @ = NoWindow THEN 0 ELSE @, ![t].used = Used(t) + 1]
  /\ recent' = [recent EXCEPT ![t] = [instants \in 0 .. Hour |-> @[instants] + 1]]
  /\ request' = [request EXCEPT ![r].at = "body", ![r].token = t]
  /\ UNCHANGED <<events, beats, loop>>

\* Up to the await of the body.  The token is selected, checked and committed with two
\* statements; a revocation between them commits other columns of the row and is as one
\* after this step, which stores nothing but the limiter's columns.  The other outcomes, 401 for a token that is
\* not valid and 429 at the limit, write nothing.
Post(r, t) ==
  /\ loop = Free /\ At(r, "idle") /\ Valid(t) /\ Used(t) < Limit
  /\ Admitted(r, t)

\* The body is not JSON, has a forbidden field, fails validation or names
\* another organisation, or the signal is recorded already.
BodyRefused(r) ==
  /\ loop = Free /\ At(r, "body")
  /\ Leave(r)
  /\ UNCHANGED <<token, events, beats, recent>>

\* Mutant: the loop goes on to other requests between the read and the commit.
BodyArrivesAwaits(r, s) ==
  /\ loop = Free /\ At(r, "body") /\ ~Recorded(s)
  /\ loop' = loop
  /\ request' = [request EXCEPT ![r].at = "store", ![r].signal = s,
                                ![r].seen = token[request[r].token].total]
  /\ UNCHANGED <<token, events, beats, recent>>

\* A new signal: the token, which the commit of the admission expired, is read
\* again.  Nothing asks whether it is still valid.
BodyArrives(r, s) ==
  /\ loop = Free /\ At(r, "body") /\ ~Recorded(s)
  /\ loop' = r
  /\ request' = [request EXCEPT ![r].at = "store", ![r].signal = s,
                                ![r].seen = token[request[r].token].total]
  /\ UNCHANGED <<token, events, beats, recent>>

\* The event and the counters are committed together: by the audit entry of an
\* unknown tool, by run_detection for a known one.
Store(r) ==
  /\ At(r, "store")
  /\ LET t == request[r].token IN
       /\ token' = [token EXCEPT ![t].total = request[r].seen + 1]
       /\ events' = [events EXCEPT ![request[r].signal] = Append(@, t)]
  /\ Leave(r)
  /\ UNCHANGED <<beats, recent>>

\* The audit entry fails and takes both back; the answer is the same.
StoreRolledBack(r) ==
  /\ At(r, "store")
  /\ Leave(r)
  /\ UNCHANGED <<token, events, beats, recent>>

-----------------------------------------------------------------------------
(* POST /connector/heartbeat                                               *)

PostHeartbeat(r, t) ==
  /\ loop = Free /\ At(r, "idle") /\ Valid(t)
  /\ request' = [request EXCEPT ![r].at = "beat", ![r].token = t]
  /\ UNCHANGED <<token, events, beats, loop, recent>>

HeartbeatRefused(r) ==
  /\ loop = Free /\ At(r, "beat")
  /\ Leave(r)
  /\ UNCHANGED <<token, events, beats, recent>>

\* Mutant: the loop goes on between the DELETE and the INSERT.
HeartbeatDeleteAwaits(r) ==
  /\ loop = Free /\ At(r, "beat")
  /\ loop' = loop
  /\ request' = [request EXCEPT ![r].at = "insert", ![r].rows = Len(beats[request[r].token])]
  /\ UNCHANGED <<token, events, beats, recent>>

HeartbeatDelete(r) ==
  /\ loop = Free /\ At(r, "beat")
  /\ loop' = r
  /\ request' = [request EXCEPT ![r].at = "insert", ![r].rows = Len(beats[request[r].token])]
  /\ UNCHANGED <<token, events, beats, recent>>

HeartbeatInsert(r) ==
  /\ At(r, "insert")
  /\ LET t == request[r].token IN
       beats' = [beats EXCEPT ![t] = SubSeq(@, request[r].rows + 1, Len(@)) \o <<0>>]
  /\ Leave(r)
  /\ UNCHANGED <<token, events, recent>>

-----------------------------------------------------------------------------

\* An instant passes; ages beyond the last threshold are all alike.
Tick ==
  /\ token' = [t \in Tokens |->
       IF token[t].window = NoWindow THEN token[t]
       ELSE [token[t] EXCEPT !.window = IF @ > Hour THEN @ ELSE @ + 1]]
  /\ beats' = [t \in Tokens |-> [i \in DOMAIN beats[t] |->
                 IF beats[t][i] > StaleHours THEN beats[t][i] ELSE beats[t][i] + 1]]
  /\ recent' = [t \in Tokens |-> [instants \in 0 .. Hour |->
                  IF instants = 0 THEN 0 ELSE recent[t][instants - 1]]]
  /\ UNCHANGED <<events, request, loop>>

\* The server restarts; its transactions are rolled back.
Crash ==
  /\ request' = [r \in Requests |-> Idle]
  /\ loop' = Free
  /\ UNCHANGED <<token, events, beats, recent>>

\* A step of the coroutine of r once its body is there.
Resume(r) ==
  \/ \E s \in Signals : BodyArrives(r, s)
  \/ BodyRefused(r) \/ Store(r) \/ StoreRolledBack(r)
  \/ HeartbeatRefused(r) \/ HeartbeatDelete(r) \/ HeartbeatInsert(r)

Next ==
  \/ Tick \/ Crash
  \/ \E t \in Tokens : Generate(t) \/ Revoke(t) \/ Expire(t)
  \/ \E r \in Requests, t \in Tokens : Post(r, t) \/ PostHeartbeat(r, t)
  \/ \E r \in Requests : Resume(r)

Spec == Init /\ [][Next]_vars

\* Time passes, the loop resumes each coroutine in its turn, and a connector
\* that keeps sending is served among the others.
Fairness ==
  /\ WF_vars(Tick)
  /\ \A r \in Requests : SF_vars(Resume(r))
  /\ \A t \in Tokens : SF_vars(\E r \in Requests : Post(r, t))

FairSpec == Spec /\ Fairness

-----------------------------------------------------------------------------
(* GET /connector/status                                                   *)

\* The rows of connector_heartbeats: a token and which of its rows.
Rows == UNION {{t} \X DOMAIN beats[t] : t \in Tokens}

Heartbeats(ages) == {row \in Rows : beats[row[1]][row[2]] \in ages}

Online == Cardinality(Heartbeats(0 .. OnlineHours))
Stale == Cardinality(Heartbeats(OnlineHours + 1 .. StaleHours))
Silent == Cardinality(Heartbeats({StaleHours + 1}))

\* The tokens whose connectors the status is about, also the expired ones.
ActiveTokens == {t \in Tokens : token[t].state \in {"live", "expired"}}

Offline ==
  LET without == Cardinality(ActiveTokens) - (Online + Stale)
  IN  Silent + (IF without < 0 THEN 0 ELSE without)

-----------------------------------------------------------------------------
(* Properties.                                                             *)

\* In any hour, however it lies to the windows of the rate limit, a token has
\* at most twice the limit of requests admitted (routers/connector.py:268-302).
SlidingLimit ==
  \A t \in Tokens : recent[t][Hour] <= 2 * Limit

\* The signals with an event of token t.
BroughtBy(t) == {s \in Signals : \E i \in DOMAIN events[s] : events[s][i] = t}

\* A signal is stored once, and signals_total is the number of events that its
\* token brought, although the lookup and the increment are two statements apart
\* from the insert, with rollbacks and crashes in between (ingest_signal).
TotalsAgree ==
  /\ \A s \in Signals : Len(events[s]) <= 1
  /\ \A t \in Tokens : token[t].total = Cardinality(BroughtBy(t))

\* The status counts each connector by one heartbeat at most, which no constraint of
\* the table ensures, calls those silent for a day offline, and leaves none of the
\* active tokens out (process_heartbeat, get_connector_status).
StatusAddsUp ==
  /\ Online + Stale + Silent <= Cardinality({t \in Tokens : token[t].state # "none"})
  /\ Offline >= Silent
  /\ Online + Stale + Offline >= Cardinality(ActiveTokens)

\* A revocation is for good, whatever the requests under way still write, and the
\* token opens no request after it (revoke_token: 'subsequent ingest calls').
RevocationHolds ==
  [][\A t \in Tokens : token[t].state = "revoked" =>
       /\ token'[t].state = "revoked"
       /\ {r \in Requests : Uses(r, t)}' \subseteq {r \in Requests : Uses(r, t)}]_vars

\* A connector that keeps sending with a valid token is admitted again and again:
\* its refused requests do not prolong the hour that it waits for.
GetsThrough ==
  \A t \in Tokens : <>[]Valid(t) => []<>(recent[t][0] > 0)

=============================================================================
