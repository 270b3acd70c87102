----------------------- MODULE FederatedNetworkProofs -----------------------
(***************************************************************************)
(* The properties of FederatedNetwork, for any number of organisations,    *)
(* hosts and sessions, any threshold and any days.                         *)
(*                                                                         *)
(* A session writes a count that it computed from an old read, so the      *)
(* invariant says of each session what that read, and then what it has     *)
(* flushed, still has to do with the log and the observation: the log only *)
(* grows, a host that was read as more than observed is never observed     *)
(* again, and one session at a time has flushed a host.                    *)
(***************************************************************************)
EXTENDS FederatedNetwork, FiniteSetTheorems, TLAPS

\* The entries of a log for a host, and those that an organisation brought.
For(l, h) == {e \in l : e[2] = h}
By(l, o) == {e \in l : e[1] = o}

\* The hosts whose rows a session in state s has flushed and not committed.
Held(s) == {h \in Hosts : s.tx[h] # NotFlushed}

Settled(observation) == observation.status \notin {"none", "observing"}

\* Organisation o has flushed f for host h, with log l and observation now.
Pending(o, h, f, l, now) ==
  /\ <<o, h, f.day>> \notin l
  /\ f.count <= Cardinality(For(l, h)) + 1
  /\ f.status = "observing" => now = None /\ f.count < Threshold
  /\ f.status = "candidate" => f.count >= Threshold
  /\ f.status = "kept" => now # None /\ (f.count < Threshold \/ Settled(now))

\* A host was read as seen, and is now what it is.
Known(h, seen, l, now) ==
  /\ seen.count <= Cardinality(For(l, h))
  /\ seen # None => now # None
  /\ Settled(seen) => Settled(now)

\* A session may be in state s, with log l, observations obs and failed audit entries.
Holds(s, l, obs, failed) ==
  /\ s.at \in {"idle", "token"} => Held(s) = {}
  /\ s.at \notin {"idle", "token"} => s.org \in Orgs
  /\ IsFiniteSet(Held(s))
  /\ \A h \in Held(s) : Pending(s.org, h, s.tx[h], l, obs[h])
  /\ s.at = "flush" => Known(s.host, s.seen, l, obs[s.host])
  /\ s.at \in {"next", "lookup", "select", "flush", "flushed"} =>
       s.counter <= Cardinality(By(l, s.org)) + failed
  /\ s.at = "flushed" => s.host \in Held(s)
  /\ s.at = "count" => s.counter < Cardinality(By(l, s.org)) + failed

Exclusive ==
  \A v, w \in Workers : v # w => Held(sessions[v]) \cap Held(sessions[w]) = {}

IInv ==
  /\ TypeOK
  /\ IsFiniteSet(log)
  /\ \A w \in Workers : Holds(sessions[w], log, observations, auditFailures)
  /\ Exclusive
  /\ CountIsBacked
  /\ ThresholdDecides

-----------------------------------------------------------------------------
(* Logs.                                                                   *)

\* The entries of a finite log are counted by natural numbers.
LEMMA Counted ==
  ASSUME NEW l, IsFiniteSet(l)
  PROVE  \A x : Cardinality(For(l, x)) \in Nat /\ Cardinality(By(l, x)) \in Nat
<1>1. ASSUME NEW x PROVE IsFiniteSet(For(l, x)) /\ IsFiniteSet(By(l, x))
  BY FS_Subset DEF For, By
<1>. QED
  BY <1>1, FS_CardinalityType

\* A log that grows has at least as many of each.
LEMMA LogGrows ==
  ASSUME NEW l, NEW m, IsFiniteSet(m), l \subseteq m
  PROVE  \A x : /\ Cardinality(For(l, x)) <= Cardinality(For(m, x))
                /\ Cardinality(By(l, x)) <= Cardinality(By(m, x))
<1> SUFFICES ASSUME NEW x
             PROVE  /\ Cardinality(For(l, x)) <= Cardinality(For(m, x))
                    /\ Cardinality(By(l, x)) <= Cardinality(By(m, x))
  OBVIOUS
<1>1. IsFiniteSet(For(m, x)) /\ IsFiniteSet(By(m, x))
  BY FS_Subset DEF For, By
<1>2. For(l, x) \in SUBSET For(m, x) /\ By(l, x) \in SUBSET By(m, x)
  BY DEF For, By
<1>. QED
  BY <1>1, <1>2, FS_Subset

\* An entry that was not there adds one to both.
LEMMA NewEntry ==
  ASSUME NEW l, NEW m, IsFiniteSet(m), l \subseteq m,
         NEW o, NEW h, NEW d, <<o, h, d>> \in m \ l
  PROVE  /\ Cardinality(For(l, h)) + 1 <= Cardinality(For(m, h))
         /\ Cardinality(By(l, o)) + 1 <= Cardinality(By(m, o))
<1> DEFINE e == <<o, h, d>>
<1>1. /\ IsFiniteSet(l) /\ IsFiniteSet(For(l, h)) /\ IsFiniteSet(By(l, o))
      /\ IsFiniteSet(For(m, h)) /\ IsFiniteSet(By(m, o))
  BY FS_Subset DEF For, By
<1>2. e \notin For(l, h) /\ e \notin By(l, o)
  BY DEF For, By
<1>3. For(l, h) \cup {e} \in SUBSET For(m, h) /\ By(l, o) \cup {e} \in SUBSET By(m, o)
  BY DEF For, By
<1>4. /\ Cardinality(For(l, h) \cup {e}) = Cardinality(For(l, h)) + 1
      /\ Cardinality(By(l, o) \cup {e}) = Cardinality(By(l, o)) + 1
  BY <1>1, <1>2, FS_AddElement
<1>. QED
  BY <1>1, <1>3, <1>4, FS_Subset

-----------------------------------------------------------------------------
(* Sessions.                                                               *)

\* An idle session holds nothing.
LEMMA IdleHolds ==
  /\ Idle \in Session
  /\ Idle.at = "idle" /\ Idle.org = NoOrg /\ Idle.counter = 0 /\ Idle.seen = None
  /\ Idle.todo = {} /\ Idle.tx = Nothing
  /\ Held(Idle) = {}
<1>1. NotFlushed \in Flushed \cup {NotFlushed} /\ None \in Observation
  BY DEF Observation
<1>2. Nothing \in [Hosts -> Flushed \cup {NotFlushed}]
  BY DEF Nothing
<1>3. 0 \in Days
  BY NetworkAssumption DEF Days
<1>4. (CHOOSE h \in Hosts : TRUE) \in Hosts
  BY NetworkAssumption
<1>. QED
  BY <1>1, <1>2, <1>3, <1>4 DEF Idle, Session, Held, Nothing

\* A session may be in a state if it might be before: others have written to the log and
\* to the observations, but not to what it has flushed.
LEMMA HoldsStays ==
  ASSUME NEW s \in Session, NEW l, NEW m, NEW obs, NEW now, NEW failed \in Nat, NEW more \in Nat,
         Holds(s, l, obs, failed), IsFiniteSet(m), l \subseteq m, failed <= more,
         \A h \in Hosts : /\ obs[h] # None => now[h] # None
                          /\ Settled(obs[h]) => Settled(now[h]),
         \A h \in Held(s) : For(m, h) = For(l, h) /\ now[h] = obs[h]
  PROVE  Holds(s, m, now, more)
<1>1. IsFiniteSet(l)
  BY FS_Subset
<1>2. \A x : /\ Cardinality(For(l, x)) \in Nat /\ Cardinality(By(l, x)) \in Nat
             /\ Cardinality(For(m, x)) \in Nat /\ Cardinality(By(m, x)) \in Nat
             /\ Cardinality(For(l, x)) <= Cardinality(For(m, x))
             /\ Cardinality(By(l, x)) <= Cardinality(By(m, x))
  BY <1>1, Counted, LogGrows
<1>3. s.counter \in Nat /\ s.host \in Hosts /\ s.seen.count \in Nat
  BY DEF Session, Observation, None
<1>4. \A h \in Held(s) : Pending(s.org, h, s.tx[h], m, now[h])
  <2> SUFFICES ASSUME NEW h \in Held(s) PROVE Pending(s.org, h, s.tx[h], m, now[h])
    OBVIOUS
  <2>1. For(m, h) = For(l, h) /\ now[h] = obs[h] /\ Pending(s.org, h, s.tx[h], l, obs[h])
    BY DEF Holds
  <2>2. \A d : <<s.org, h, d>> \in m => <<s.org, h, d>> \in l
    BY <2>1 DEF For
  <2>. QED
    BY <2>1, <2>2 DEF Pending
<1>5. s.at = "flush" => Known(s.host, s.seen, m, now[s.host])
  BY <1>2, <1>3 DEF Holds, Known
<1>6. s.at \in {"next", "lookup", "select", "flush", "flushed"} =>
        s.counter <= Cardinality(By(m, s.org)) + more
  BY <1>2, <1>3 DEF Holds
<1>7. s.at = "count" => s.counter < Cardinality(By(m, s.org)) + more
  BY <1>2, <1>3 DEF Holds
<1>. QED
  BY <1>4, <1>5, <1>6, <1>7 DEF Holds

\* At first no session is open and no host has been submitted.
LEMMA InitInv == Init => IInv
<1> SUFFICES ASSUME Init PROVE IInv
  OBVIOUS
<1>1. TypeOK
  BY IdleHolds, NetworkAssumption DEF Init, TypeOK, Days, Observation
<1>2. IsFiniteSet(log)
  BY FS_EmptySet DEF Init
<1>3. \A w \in Workers : Holds(sessions[w], log, observations, auditFailures)
  BY IdleHolds, FS_EmptySet DEF Init, Holds
<1>4. Exclusive
  BY IdleHolds DEF Init, Exclusive
<1>5. CountIsBacked
  <2>1. \A x : Entries(x) = {} /\ {e \in log : e[1] = x} = {}
    BY DEF Init, Entries
  <2>. QED
    BY <2>1, FS_EmptySet DEF Init, CountIsBacked, None
<1>6. ThresholdDecides
  BY NetworkAssumption DEF Init, ThresholdDecides, None
<1>. QED
  BY <1>1, <1>2, <1>3, <1>4, <1>5, <1>6 DEF IInv

-----------------------------------------------------------------------------
(* Steps.                                                                  *)

\* Everything but the sessions has its type.
TablesOK ==
  /\ day \in Days
  /\ optedIn \in SUBSET Orgs /\ queue \in SUBSET Orgs
  /\ submissions \in [Orgs -> Nat]
  /\ log \in SUBSET (Orgs \X Hosts \X Days)
  /\ observations \in [Hosts -> Observation]
  /\ signatures \in [Hosts -> 0 .. MaxSignatures]
  /\ auditFailures \in 0 .. MaxAuditFailures

\* Tables change, and one session, in a way that the other sessions may not notice.
LEMMA SessionStep ==
  ASSUME IInv, TablesOK', NEW w \in Workers, NEW s \in Session,
         sessions' = [sessions EXCEPT ![w] = s],
         Holds(s, log', observations', auditFailures'),
         IsFiniteSet(log'), log \subseteq log', auditFailures <= auditFailures',
         \A h \in Hosts : /\ observations[h] # None => observations'[h] # None
                          /\ Settled(observations[h]) => Settled(observations'[h]),
         \A v \in Workers \ {w} :
           /\ Held(s) \cap Held(sessions[v]) = {}
           /\ \A h \in Held(sessions[v]) : For(log', h) = For(log, h) /\ observations'[h] = observations[h],
         CountIsBacked', ThresholdDecides'
  PROVE  IInv'
<1>1. sessions \in [Workers -> Session] /\ auditFailures \in Nat /\ auditFailures' \in Nat
  BY NetworkAssumption DEF IInv, TypeOK, TablesOK
<1>2. \A v \in Workers : sessions'[v] = IF v = w THEN s ELSE sessions[v]
  BY <1>1
<1>3. TypeOK'
  BY <1>1 DEF TypeOK, TablesOK
<1>4. ASSUME NEW v \in Workers
      PROVE  Holds(sessions'[v], log', observations', auditFailures')
  <2>1. CASE v = w
    BY <1>2, <2>1
  <2>2. CASE v # w
    <3>1. sessions[v] \in Session /\ Holds(sessions[v], log, observations, auditFailures)
      BY <1>1 DEF IInv
    <3>2. Holds(sessions[v], log', observations', auditFailures')
      BY <1>1, <2>2, <3>1, HoldsStays
    <3>. QED
      BY <1>2, <2>2, <3>2
  <2>. QED
    BY <2>1, <2>2
<1>5. Exclusive'
  <2> SUFFICES ASSUME NEW u \in Workers, NEW v \in Workers, u # v
               PROVE  Held(sessions'[u]) \cap Held(sessions'[v]) = {}
    BY DEF Exclusive, Held
  <2>. QED
    BY <1>2 DEF IInv, Exclusive
<1>. QED
  BY <1>3, <1>4, <1>5 DEF IInv

\* One session changes, and holds no more than before; no submission is added.
LEMMA QuietStep ==
  ASSUME IInv, TablesOK', NEW w \in Workers, NEW s \in Session,
         sessions' = [sessions EXCEPT ![w] = s],
         UNCHANGED <<log, observations, submissions>>,
         auditFailures' \in {auditFailures, auditFailures + 1},
         Holds(s, log, observations, auditFailures'), Held(s) \subseteq Held(sessions[w])
  PROVE  IInv'
<1>1. CountIsBacked' /\ ThresholdDecides'
  <2>1. \A o \in Orgs : /\ submissions[o] \in Nat
                        /\ Cardinality({e \in log : e[1] = o}) \in Nat
    BY Counted DEF IInv, TypeOK, By
  <2>2. auditFailures \in Nat /\ auditFailures' \in Nat
    BY NetworkAssumption DEF IInv, TypeOK, TablesOK
  <2>. QED
    BY <2>1, <2>2 DEF IInv, CountIsBacked, ThresholdDecides, Entries
<1>2. \A v \in Workers \ {w} : Held(s) \cap Held(sessions[v]) = {}
  BY DEF IInv, Exclusive
<1>3. auditFailures <= auditFailures'
  BY NetworkAssumption DEF IInv, TypeOK, TablesOK
<1>. QED
  BY <1>1, <1>2, <1>3, SessionStep DEF IInv

\* A session that goes on with what it has flushed.
LEMMA MovedOn ==
  ASSUME NEW o \in Session, NEW s \in Session, NEW l, NEW obs, NEW failed,
         Holds(o, l, obs, failed), o.at \notin {"idle", "token"}, s.at \notin {"idle", "token"},
         s.tx = o.tx, s.org = o.org,
         s.at = "flush" => Known(s.host, s.seen, l, obs[s.host]),
         s.at \in {"next", "lookup", "select", "flush", "flushed"} =>
           s.counter <= Cardinality(By(l, s.org)) + failed,
         s.at \notin {"flushed", "count"}
  PROVE  Holds(s, l, obs, failed) /\ Held(s) = Held(o)
BY DEF Holds, Held

\* A submission begins with the counter of the token as it is.
LEMMA SubmitInv ==
  ASSUME IInv, NEW r \in Requests, NEW o \in Orgs, NEW h \in Hosts, Submit(r, o, h)
  PROVE  IInv'
<1> DEFINE s == [Idle EXCEPT !.at = "lookup", !.org = o, !.host = h, !.day = day,
                             !.counter = submissions[o]]
<1>1. day \in Days /\ submissions[o] \in Nat
  BY DEF IInv, TypeOK
<1>2. s \in Session /\ s.at = "lookup" /\ s.org = o /\ s.counter = submissions[o] /\ s.tx = Nothing
  BY <1>1, IdleHolds DEF Session
<1>3. Held(s) = {}
  BY <1>2 DEF Held, Nothing
<1>4. submissions[o] <= Cardinality(By(log, o)) + auditFailures
  BY DEF IInv, CountIsBacked, By
<1>5. sessions' = [sessions EXCEPT ![r] = s] /\ r \in Workers /\ TablesOK'
      /\ UNCHANGED <<log, observations, submissions, auditFailures>>
  BY DEF Submit, TablesOK, IInv, TypeOK, Workers
<1> HIDE DEF s
<1>6. Holds(s, log, observations, auditFailures')
  BY <1>2, <1>3, <1>4, <1>5, FS_EmptySet DEF Holds
<1>. QED
  BY <1>2, <1>3, <1>5, <1>6, QuietStep

\* A session that ends, or the job on its way to the next token, holds nothing.
LEMMA LeaveStep ==
  ASSUME IInv, TablesOK', NEW w \in Workers, NEW at \in {"idle", "token"},
         sessions' = [sessions EXCEPT ![w] = [Idle EXCEPT !.at = at]],
         UNCHANGED <<log, observations, submissions, auditFailures>>
  PROVE  IInv'
<1> DEFINE s == [Idle EXCEPT !.at = at]
<1>1. s \in Session /\ s.at = at /\ s.tx = Nothing
  BY IdleHolds DEF Session
<1>2. Held(s) = {}
  BY <1>1 DEF Held, Nothing
<1> HIDE DEF s
<1>3. Holds(s, log, observations, auditFailures')
  BY <1>1, <1>2, FS_EmptySet DEF Holds
<1>. QED
  BY <1>1, <1>2, <1>3, QuietStep DEF s

\* Steps of a submission before its flush.
LEMMA BeforeFlushInv ==
  ASSUME IInv, NEW w \in Workers, Duplicate(w) \/ Lookup(w) \/ Select(w) \/ FlushFails(w)
  PROVE  IInv'
<1> DEFINE o == sessions[w]
<1>1. o \in Session /\ Holds(o, log, observations, auditFailures) /\ o.host \in Hosts
  BY DEF IInv, TypeOK, Session
<1>2. TablesOK' /\ UNCHANGED <<log, observations, submissions, auditFailures>>
  BY DEF Duplicate, Lookup, Select, FlushFails, TablesOK, IInv, TypeOK
<1>3. Idle = [Idle EXCEPT !.at = "idle"]
  BY IdleHolds DEF Session
<1>4. ASSUME NEW s \in Session, sessions' = [sessions EXCEPT ![w] = s],
             Holds(s, log, observations, auditFailures), Held(s) = Held(o)
      PROVE  IInv'
  BY <1>2, <1>4, QuietStep
<1>5. CASE Duplicate(w)
  <2> DEFINE s == [o EXCEPT !.at = "next"]
  <2>1. o.at = "lookup" /\ sessions' = [sessions EXCEPT ![w] = IF w = Nightly THEN s ELSE Idle]
    BY <1>5 DEF Duplicate
  <2>2. s \in Session /\ s.at = "next" /\ s.tx = o.tx /\ s.org = o.org /\ s.counter = o.counter
    BY <1>1 DEF Session
  <2> HIDE DEF s
  <2>3. s.counter <= Cardinality(By(log, s.org)) + auditFailures
    BY <1>1, <2>1, <2>2 DEF Holds
  <2>4. Holds(s, log, observations, auditFailures) /\ Held(s) = Held(o)
    BY <1>1, <2>1, <2>2, <2>3, MovedOn
  <2>. QED
    BY <1>2, <1>3, <1>4, <2>1, <2>2, <2>4, LeaveStep
<1>6. CASE Lookup(w)
  <2> DEFINE s == [o EXCEPT !.at = "select"]
  <2>1. o.at = "lookup" /\ sessions' = [sessions EXCEPT ![w] = s]
    BY <1>6 DEF Lookup
  <2>2. s \in Session /\ s.at = "select" /\ s.tx = o.tx /\ s.org = o.org /\ s.counter = o.counter
    BY <1>1 DEF Session
  <2> HIDE DEF s
  <2>3. s.counter <= Cardinality(By(log, s.org)) + auditFailures
    BY <1>1, <2>1, <2>2 DEF Holds
  <2>4. Holds(s, log, observations, auditFailures) /\ Held(s) = Held(o)
    BY <1>1, <2>1, <2>2, <2>3, MovedOn
  <2>. QED
    BY <1>4, <2>1, <2>2, <2>4
<1>7. CASE Select(w)
  <2> DEFINE s == [o EXCEPT !.at = "flush", !.seen = observations[o.host]]
  <2>1. o.at = "select" /\ sessions' = [sessions EXCEPT ![w] = s]
    BY <1>7 DEF Select
  <2>2. observations[o.host] \in Observation
    BY <1>1 DEF IInv, TypeOK
  <2>3. /\ s \in Session /\ s.at = "flush" /\ s.tx = o.tx /\ s.org = o.org
        /\ s.counter = o.counter /\ s.host = o.host /\ s.seen = observations[o.host]
    BY <1>1, <2>2 DEF Session
  <2> HIDE DEF s
  <2>4. Known(s.host, s.seen, log, observations[s.host])
    BY <1>1, <2>3 DEF IInv, CountIsBacked, Known, Entries, For
  <2>5. s.counter <= Cardinality(By(log, s.org)) + auditFailures
    BY <1>1, <2>1, <2>3 DEF Holds
  <2>6. Holds(s, log, observations, auditFailures) /\ Held(s) = Held(o)
    BY <1>1, <2>1, <2>3, <2>4, <2>5, MovedOn
  <2>. QED
    BY <1>4, <2>1, <2>3, <2>6
<1>8. CASE FlushFails(w)
  BY <1>2, <1>3, <1>8, LeaveStep DEF FlushFails
<1>. QED
  BY <1>5, <1>6, <1>7, <1>8

\* The flush: what was read of the host still holds of it, and nobody else holds it.
LEMMA FlushInv ==
  ASSUME IInv, NEW w \in Workers, Flush(w)
  PROVE  IInv'
<1> DEFINE o == sessions[w]
           f == Entry(o)
           s == [o EXCEPT !.at = "flushed", !.seen = None, !.tx[o.host] = f]
<1>1. /\ o \in Session /\ Holds(o, log, observations, auditFailures) /\ o.at = "flush"
      /\ o.host \in Hosts /\ o.seen \in Observation /\ o.day \in Days /\ o.seen.count \in Nat
  BY DEF IInv, TypeOK, Session, Flush, Observation, None
<1>2. /\ <<o.org, o.host, o.day>> \notin log
      /\ o.seen = None => observations[o.host] = None
      /\ \A v \in Workers \ {w} : sessions[v].tx[o.host] = NotFlushed
  BY DEF Flush, Conflict, Locked
<1>3. f.day = o.day /\ f.count = o.seen.count + 1 /\ f.status \in {"observing", "candidate", "kept"}
  BY DEF Entry
<1>4. f \in Flushed /\ f # NotFlushed
  BY <1>1, <1>3 DEF Entry, Flushed, NotFlushed
<1>5. Pending(o.org, o.host, f, log, observations[o.host])
  <2>1. Known(o.host, o.seen, log, observations[o.host])
    BY <1>1 DEF Holds
  <2>2. Threshold \in Nat /\ Cardinality(For(log, o.host)) \in Nat
    BY Counted, NetworkAssumption DEF IInv
  <2>3. f.count <= Cardinality(For(log, o.host)) + 1
    BY <1>1, <1>3, <2>1, <2>2 DEF Known
  <2>4. f.status = "candidate" => f.count >= Threshold
    BY <1>1, <2>2 DEF Entry
  <2>5. f.status = "observing" => o.seen = None /\ f.count < Threshold
    BY <1>1, <2>2 DEF Entry, None
  <2>6. f.status = "kept" => o.seen # None /\ (f.count < Threshold \/ Settled(o.seen))
    BY <1>1, <2>2 DEF Entry, Settled
  <2>. QED
    BY <1>2, <1>3, <2>1, <2>3, <2>4, <2>5, <2>6 DEF Pending, Known
<1> HIDE DEF f
<1>6. /\ s \in Session /\ s.at = "flushed" /\ s.org = o.org /\ s.host = o.host
      /\ s.counter = o.counter /\ s.tx = [o.tx EXCEPT ![o.host] = f]
  BY <1>1, <1>4 DEF Session, Observation
<1>7. sessions' = [sessions EXCEPT ![w] = s] /\ TablesOK'
      /\ UNCHANGED <<log, observations, submissions, auditFailures>>
  BY DEF Flush, TablesOK, IInv, TypeOK, f
<1> HIDE DEF s
<1>8. Held(s) = Held(o) \cup {o.host} /\ \A h \in Hosts : s.tx[h] = IF h = o.host THEN f ELSE o.tx[h]
  BY <1>1, <1>4, <1>6 DEF Held, Session
<1>9. Holds(s, log, observations, auditFailures)
  <2>1. IsFiniteSet(Held(s))
    BY <1>1, <1>8, FS_AddElement DEF Holds
  <2>2. \A h \in Held(s) : Pending(s.org, h, s.tx[h], log, observations[h])
    BY <1>1, <1>5, <1>6, <1>8 DEF Holds, Held
  <2>. QED
    BY <1>1, <1>6, <1>8, <2>1, <2>2 DEF Holds
<1>10. \A v \in Workers \ {w} : Held(s) \cap Held(sessions[v]) = {}
  BY <1>2, <1>8 DEF IInv, Exclusive, Held
<1>11. CountIsBacked' /\ ThresholdDecides'
  BY <1>7 DEF IInv, CountIsBacked, ThresholdDecides, Entries
<1>12. auditFailures <= auditFailures'
  BY <1>7, NetworkAssumption DEF TablesOK
<1>. QED
  BY <1>6, <1>7, <1>9, <1>10, <1>11, <1>12, SessionStep DEF IInv

-----------------------------------------------------------------------------
(* Commits.                                                                *)

\* What a commit does to the log and to the observations: each host that the session has
\* flushed has another entry and the observation that the session computed.
LEMMA Committed ==
  ASSUME IInv, NEW w \in Workers, sessions[w].at \notin {"idle", "token"}, Commit(w)
  PROVE  /\ log' \in SUBSET (Orgs \X Hosts \X Days) /\ IsFiniteSet(log') /\ log \subseteq log'
         /\ \A h \in Held(sessions[w]) : <<sessions[w].org, h, sessions[w].tx[h].day>> \in log' \ log
         /\ \A h \in Hosts \ Held(sessions[w]) :
              For(log', h) = For(log, h) /\ observations'[h] = observations[h]
<1> DEFINE o == sessions[w]
           T == {<<o.org, h, o.tx[h].day>> : h \in Held(o)}
<1>1. /\ o.org \in Orgs /\ IsFiniteSet(Held(o)) /\ Held(o) \subseteq Hosts
      /\ \A h \in Held(o) : o.tx[h] \in Flushed /\ <<o.org, h, o.tx[h].day>> \notin log
  <2>1. o \in Session /\ Holds(o, log, observations, auditFailures)
    BY DEF IInv, TypeOK
  <2>2. \A h \in Held(o) : o.tx[h] \in Flushed
    BY <2>1 DEF Session, Held
  <2>. QED
    BY <2>1, <2>2 DEF Holds, Held, Pending
<1>2. log' = log \cup T
  BY DEF Commit, Held
<1>3. IsFiniteSet(T)
  <2> DEFINE f == [h \in Held(o) |-> <<o.org, h, o.tx[h].day>>]
  <2>1. f \in Surjection(Held(o), T)
    BY DEF Surjection
  <2>. QED
    BY <1>1, <2>1, FS_Surjection
<1>4. T \subseteq Orgs \X Hosts \X Days
  BY <1>1 DEF Flushed
<1>5. IsFiniteSet(log') /\ log \subseteq log' /\ log' \subseteq Orgs \X Hosts \X Days
  BY <1>2, <1>3, <1>4, FS_Union DEF IInv, TypeOK
<1>6. \A h \in Held(o) : <<o.org, h, o.tx[h].day>> \in log' \ log
  BY <1>1, <1>2
<1>7. ASSUME NEW h \in Hosts \ Held(o)
      PROVE  For(log', h) = For(log, h) /\ observations'[h] = observations[h]
  <2>1. \A e \in T : e[2] # h
    OBVIOUS
  <2>2. o.tx[h] = NotFlushed
    BY DEF Held
  <2>. QED
    BY <1>2, <2>1, <2>2 DEF For, Commit
<1>. QED
  BY <1>5, <1>6, <1>7

\* A commit leaves every observation in order: it is backed by the log, and what a host
\* had become it is still.
LEMMA InOrder ==
  ASSUME IInv, NEW w \in Workers, sessions[w].at \notin {"idle", "token"}, Commit(w), NEW h \in Hosts
  PROVE  /\ observations'[h] \in Observation
         /\ observations[h] # None => observations'[h] # None
         /\ Settled(observations[h]) => Settled(observations'[h])
         /\ observations'[h].count <= Cardinality(For(log', h))
         /\ observations'[h].count >= Threshold => observations'[h].status # "observing"
         /\ observations'[h].status = "candidate" => Cardinality(For(log', h)) >= Threshold
<1> DEFINE o == sessions[w]
           f == o.tx[h]
           n == Cardinality(For(log, h))
           m == Cardinality(For(log', h))
<1>1. n \in Nat /\ m \in Nat /\ Threshold \in Nat
  BY Committed, Counted, NetworkAssumption DEF IInv
<1>2. /\ observations[h] \in Observation /\ observations[h].count \in Nat
      /\ observations[h].count <= n
      /\ observations[h].count >= Threshold => observations[h].status # "observing"
      /\ observations[h].status = "candidate" => n >= Threshold
  BY DEF IInv, TypeOK, CountIsBacked, ThresholdDecides, Entries, For, Observation, None
<1>3. CASE h \notin Held(o)
  BY <1>2, <1>3, Committed
<1>4. CASE h \in Held(o)
  <2>1. f # NotFlushed /\ f \in Flushed
    BY <1>4 DEF IInv, TypeOK, Session, Held
  <2>2. f.count \in Nat \ {0} /\ f.status \in {"observing", "candidate", "kept"}
    BY <2>1 DEF Flushed
  <2>3. Pending(o.org, h, f, log, observations[h])
    BY <1>4 DEF IInv, Holds
  <2>4. n + 1 <= m
    BY <1>4, Committed, NewEntry
  <2>5. observations' = [g \in Hosts |->
          IF o.tx[g] = NotFlushed THEN observations[g]
          ELSE [count |-> o.tx[g].count,
                status |-> IF o.tx[g].status = "kept" THEN observations[g].status ELSE o.tx[g].status]]
    BY DEF Commit
  <2>6. observations'[h] = [count |-> f.count,
                            status |-> IF f.status = "kept" THEN observations[h].status ELSE f.status]
    BY <2>1, <2>5
  <2>7. observations'[h].count = f.count
        /\ observations'[h].status = IF f.status = "kept" THEN observations[h].status ELSE f.status
    BY <2>6
  <2>8. f.status = "kept" => observations[h].status \in Statuses
    BY <1>2, <2>3 DEF Pending, Observation
  <2>9. observations'[h] \in Observation /\ observations'[h] # None
    BY <2>2, <2>6, <2>8 DEF Observation, None, Statuses
  <2>10. f.status = "observing" => ~Settled(observations[h])
    BY <2>3 DEF Pending, Settled, None
  <2>11. Settled(observations[h]) => Settled(observations'[h])
    BY <2>2, <2>7, <2>10 DEF Settled
  <2>12. f.count <= n + 1 /\ f.count <= m
    BY <1>1, <2>2, <2>3, <2>4 DEF Pending
  <2>13. observations'[h].count >= Threshold => observations'[h].status # "observing"
    BY <1>1, <2>2, <2>3, <2>7 DEF Pending, Settled
  <2>14. observations'[h].status = "candidate" => m >= Threshold
    BY <1>1, <1>2, <2>2, <2>3, <2>4, <2>7, <2>12 DEF Pending
  <2>. QED
    BY <2>7, <2>9, <2>11, <2>12, <2>13, <2>14
<1>. QED
  BY <1>3, <1>4

\* A session commits and has nothing flushed any more; the tokens count no more than the log.
LEMMA CommitStep ==
  ASSUME IInv, NEW w \in Workers, sessions[w].at \notin {"idle", "token"}, Commit(w),
         NEW s \in Session, s.tx = Nothing, sessions' = [sessions EXCEPT ![w] = s],
         Holds(s, log', observations', auditFailures'),
         UNCHANGED <<day, optedIn, signatures, queue, auditFailures>>,
         submissions' \in [Orgs -> Nat],
         \A o \in Orgs : submissions'[o] <= Cardinality(By(log', o)) + auditFailures
  PROVE  IInv'
<1>1. Held(s) = {}
  BY DEF Held, Nothing
<1>2. observations' \in [Hosts -> Observation]
  <2>1. observations' = [h \in Hosts |-> observations'[h]]
    BY DEF Commit
  <2>. QED
    BY <2>1, InOrder
<1>3. TablesOK'
  BY <1>2, Committed DEF IInv, TypeOK, TablesOK
<1>4. CountIsBacked'
  BY InOrder DEF CountIsBacked, Entries, For, By
<1>5. ThresholdDecides'
  BY InOrder DEF ThresholdDecides, Entries, For
<1>6. \A v \in Workers \ {w} : \A h \in Held(sessions[v]) :
        For(log', h) = For(log, h) /\ observations'[h] = observations[h]
  BY Committed DEF IInv, Exclusive, Held
<1>7. auditFailures <= auditFailures'
  BY NetworkAssumption DEF IInv, TypeOK
<1>. QED
  BY <1>1, <1>3, <1>4, <1>5, <1>6, <1>7, Committed, InOrder, SessionStep

\* The promotion: the token that is read again counts no entry of this submission yet.
LEMMA PromoteInv ==
  ASSUME IInv, NEW w \in Workers, Promote(w)
  PROVE  IInv'
<1> DEFINE o == sessions[w]
           s == [o EXCEPT !.at = "count", !.tx = Nothing, !.counter = submissions[o.org]]
<1>1. /\ o \in Session /\ Holds(o, log, observations, auditFailures) /\ o.at = "flushed"
      /\ o.org \in Orgs /\ o.host \in Held(o)
  BY DEF IInv, TypeOK, Promote, Holds
<1>2. submissions[o.org] \in Nat /\ auditFailures \in Nat
  BY <1>1, NetworkAssumption DEF IInv, TypeOK
<1>3. /\ s \in Session /\ s.at = "count" /\ s.tx = Nothing /\ s.org = o.org
      /\ s.counter = submissions[o.org]
  BY <1>1, <1>2, IdleHolds DEF Session
<1>4. sessions' = [sessions EXCEPT ![w] = s] /\ UNCHANGED <<day, optedIn, submissions, signatures, queue>>
  BY DEF Promote
<1> HIDE DEF s
<1>5. Held(s) = {}
  BY <1>3 DEF Held, Nothing
<1>6. \A x \in Orgs : submissions[x] <= Cardinality(By(log, x)) + auditFailures
  BY DEF IInv, CountIsBacked, By
<1>7. \A x \in Orgs : submissions[x] \in Nat /\ Cardinality(By(log, x)) \in Nat
  BY Counted DEF IInv, TypeOK
<1>8. CASE Commit(w) /\ UNCHANGED auditFailures
  <2>1. IsFiniteSet(log') /\ log \subseteq log' /\ <<o.org, o.host, o.tx[o.host].day>> \in log' \ log
    BY <1>1, <1>8, Committed
  <2>2. Cardinality(By(log, o.org)) + 1 <= Cardinality(By(log', o.org))
    BY <2>1, NewEntry
  <2>3. \A x \in Orgs : /\ Cardinality(By(log', x)) \in Nat
                        /\ Cardinality(By(log, x)) <= Cardinality(By(log', x))
    BY <2>1, Counted, LogGrows
  <2>4. s.counter < Cardinality(By(log', s.org)) + auditFailures'
    BY <1>1, <1>2, <1>3, <1>6, <1>7, <1>8, <2>2, <2>3
  <2>5. Holds(s, log', observations', auditFailures')
    BY <1>1, <1>3, <1>5, <2>4, FS_EmptySet DEF Holds
  <2>6. \A x \in Orgs : submissions'[x] <= Cardinality(By(log', x)) + auditFailures
    BY <1>2, <1>4, <1>6, <1>7, <2>3
  <2>7. submissions' \in [Orgs -> Nat]
    BY <1>4 DEF IInv, TypeOK
  <2>. QED
    BY <1>1, <1>3, <1>4, <1>8, <2>5, <2>6, <2>7, CommitStep
<1>9. CASE Rollback /\ AuditFails
  <2>1. TablesOK' /\ UNCHANGED <<log, observations, submissions>> /\ auditFailures' = auditFailures + 1
    BY <1>4, <1>9, NetworkAssumption DEF IInv, TypeOK, TablesOK, Rollback, AuditFails
  <2>2. s.counter < Cardinality(By(log, s.org)) + auditFailures'
    BY <1>1, <1>2, <1>3, <1>6, <1>7, <2>1
  <2>3. Holds(s, log, observations, auditFailures')
    BY <1>1, <1>3, <1>5, <2>2, FS_EmptySet DEF Holds
  <2>. QED
    BY <1>3, <1>4, <1>5, <2>1, <2>3, QuietStep
<1>. QED
  BY <1>8, <1>9 DEF Promote, Audit

\* The end of a submission: the counter that is written is less by one than the token may have.
LEMMA CountInv ==
  ASSUME IInv, NEW r \in Requests, Count(r)
  PROVE  IInv'
<1> DEFINE o == sessions[r]
<1>1. /\ r \in Workers /\ o \in Session /\ Holds(o, log, observations, auditFailures)
      /\ o.at \in {"count", "flushed"} /\ o.org \in Orgs /\ o.counter \in Nat
      /\ sessions' = [sessions EXCEPT ![r] = Idle] /\ UNCHANGED <<day, optedIn, signatures, queue>>
  BY DEF IInv, TypeOK, Session, Workers, Count, Counts, Holds
<1>2. auditFailures \in Nat
      /\ \A x \in Orgs : submissions[x] \in Nat /\ Cardinality(By(log, x)) \in Nat
  BY Counted, NetworkAssumption DEF IInv, TypeOK
<1>3. \A x \in Orgs : submissions[x] <= Cardinality(By(log, x)) + auditFailures
  BY DEF IInv, CountIsBacked, By
<1>4. Holds(Idle, log', observations', auditFailures')
  BY IdleHolds, FS_EmptySet DEF Holds
<1>5. CASE /\ Commit(r) /\ UNCHANGED auditFailures
           /\ submissions' = [submissions EXCEPT ![o.org] = o.counter + 1]
  <2>1. IsFiniteSet(log') /\ log \subseteq log'
    BY <1>1, <1>5, Committed
  <2>2. \A x \in Orgs : /\ Cardinality(By(log', x)) \in Nat
                        /\ Cardinality(By(log, x)) <= Cardinality(By(log', x))
    BY <2>1, Counted, LogGrows
  <2>3. o.counter + 1 <= Cardinality(By(log', o.org)) + auditFailures
    <3>1. CASE o.at = "count"
      <4>1. o.counter < Cardinality(By(log, o.org)) + auditFailures
        BY <1>1, <3>1 DEF Holds
      <4>. QED
        BY <1>1, <1>2, <2>2, <4>1
    <3>2. CASE o.at = "flushed"
      <4>1. o.counter <= Cardinality(By(log, o.org)) + auditFailures /\ o.host \in Held(o)
        BY <1>1, <3>2 DEF Holds
      <4>2. <<o.org, o.host, o.tx[o.host].day>> \in log' \ log
        BY <1>1, <1>5, <4>1, Committed
      <4>3. Cardinality(By(log, o.org)) + 1 <= Cardinality(By(log', o.org))
        BY <2>1, <4>2, NewEntry
      <4>. QED
        BY <1>1, <1>2, <2>2, <4>1, <4>3
    <3>. QED
      BY <1>1, <3>1, <3>2
  <2>4. submissions' \in [Orgs -> Nat]
    BY <1>1, <1>5 DEF IInv, TypeOK
  <2>5. \A x \in Orgs : submissions'[x] <= Cardinality(By(log', x)) + auditFailures
    <3> SUFFICES ASSUME NEW x \in Orgs
                 PROVE  submissions'[x] <= Cardinality(By(log', x)) + auditFailures
      OBVIOUS
    <3>1. submissions'[x] = IF x = o.org THEN o.counter + 1 ELSE submissions[x]
      BY <1>5 DEF IInv, TypeOK
    <3>. QED
      BY <1>2, <1>3, <2>2, <2>3, <3>1
  <2>. QED
    BY <1>1, <1>4, <1>5, <2>4, <2>5, IdleHolds, CommitStep
<1>6. CASE Rollback /\ AuditFails /\ UNCHANGED submissions
  <2>1. TablesOK' /\ UNCHANGED <<log, observations, submissions>> /\ auditFailures' = auditFailures + 1
    BY <1>1, <1>6, NetworkAssumption DEF IInv, TypeOK, TablesOK, Rollback, AuditFails
  <2>. QED
    BY <1>1, <1>4, <2>1, IdleHolds, QuietStep
<1>. QED
  BY <1>5, <1>6 DEF Count

\* The job's own steps, which add to the database only when it commits.
LEMMA JobInv ==
  ASSUME IInv, \/ NextDay \/ NotCounted \/ JobDone
               \/ \E o \in Orgs, pending \in SUBSET Hosts : NextToken(o, pending)
               \/ \E h \in Hosts : NextCandidate(h)
  PROVE  IInv'
<1> DEFINE o == sessions[Nightly]
<1>1. /\ Nightly \in Workers /\ o \in Session /\ Holds(o, log, observations, auditFailures)
      /\ auditFailures \in Nat
  BY NetworkAssumption DEF IInv, TypeOK, Workers
<1>2. ASSUME NEW s \in Session, sessions' = [sessions EXCEPT ![Nightly] = s], TablesOK',
             Holds(s, log, observations, auditFailures), Held(s) \subseteq Held(o),
             UNCHANGED <<log, observations, submissions, auditFailures>>
      PROVE  IInv'
  BY <1>1, <1>2, QuietStep
<1>3. CASE NextDay
  <2> DEFINE s == [o EXCEPT !.at = "token"]
  <2>1. o.at = "idle" /\ sessions' = [sessions EXCEPT ![Nightly] = s]
    BY <1>3 DEF NextDay
  <2>2. s \in Session /\ s.at = "token" /\ s.tx = o.tx
    BY <1>1 DEF Session
  <2>3. TablesOK' /\ UNCHANGED <<log, observations, submissions, auditFailures>>
    BY <1>3, NetworkAssumption DEF NextDay, IInv, TypeOK, TablesOK, Days
  <2> HIDE DEF s
  <2>4. Held(s) = Held(o)
    BY <2>2 DEF Held
  <2>5. Holds(s, log, observations, auditFailures)
    BY <1>1, <2>1, <2>2, <2>4 DEF Holds
  <2>. QED
    BY <1>2, <2>1, <2>2, <2>3, <2>4, <2>5
<1>4. CASE NotCounted
  <2> DEFINE s == [o EXCEPT !.at = "next", !.counter = 0]
  <2>1. o.at \in {"count", "flushed"} /\ sessions' = [sessions EXCEPT ![Nightly] = s]
    BY <1>4 DEF NotCounted, Counts
  <2>2. s \in Session /\ s.at = "next" /\ s.tx = o.tx /\ s.org = o.org /\ s.counter = 0
    BY <1>1 DEF Session
  <2>3. TablesOK' /\ UNCHANGED <<log, observations, submissions, auditFailures>>
    BY <1>4 DEF NotCounted, IInv, TypeOK, TablesOK
  <2> HIDE DEF s
  <2>4. s.counter <= Cardinality(By(log, s.org)) + auditFailures
    BY <1>1, <2>2, Counted DEF IInv
  <2>5. Holds(s, log, observations, auditFailures) /\ Held(s) = Held(o)
    BY <1>1, <2>1, <2>2, <2>4, MovedOn
  <2>. QED
    BY <1>2, <2>1, <2>2, <2>3, <2>5
<1>5. CASE JobDone
  <2>1. sessions' = [sessions EXCEPT ![Nightly] = Idle]
    BY <1>5 DEF JobDone
  <2>2. TablesOK' /\ UNCHANGED <<log, observations, submissions, auditFailures>>
    BY <1>5 DEF JobDone, IInv, TypeOK, TablesOK
  <2>3. Holds(Idle, log, observations, auditFailures)
    BY IdleHolds, FS_EmptySet DEF Holds
  <2>. QED
    BY <1>2, <2>1, <2>2, <2>3, IdleHolds
<1>6. ASSUME NEW x \in Orgs, NEW pending \in SUBSET Hosts, NextToken(x, pending) PROVE IInv'
  <2> DEFINE s == [Idle EXCEPT !.at = "next", !.org = x, !.todo = pending]
  <2>1. sessions' = [sessions EXCEPT ![Nightly] = s]
    BY <1>6 DEF NextToken
  <2>2. s \in Session /\ s.at = "next" /\ s.org = x /\ s.tx = Nothing /\ s.counter = 0
    BY IdleHolds DEF Session
  <2>3. TablesOK' /\ UNCHANGED <<log, observations, submissions, auditFailures>>
    BY <1>6 DEF NextToken, IInv, TypeOK, TablesOK
  <2> HIDE DEF s
  <2>4. Held(s) = {}
    BY <2>2 DEF Held, Nothing
  <2>5. s.counter <= Cardinality(By(log, s.org)) + auditFailures
    BY <1>1, <2>2, Counted DEF IInv
  <2>6. Holds(s, log, observations, auditFailures)
    BY <2>2, <2>4, <2>5, FS_EmptySet DEF Holds
  <2>. QED
    BY <1>2, <2>1, <2>2, <2>3, <2>4, <2>6
<1>7. ASSUME NEW h \in Hosts, NextCandidate(h) PROVE IInv'
  <2> DEFINE s == [o EXCEPT !.at = "lookup", !.host = h, !.day = day, !.todo = @ \ {h}]
  <2>1. o.at = "next" /\ sessions' = [sessions EXCEPT ![Nightly] = s]
    BY <1>7 DEF NextCandidate
  <2>2. /\ s \in Session /\ s.at = "lookup" /\ s.tx = o.tx /\ s.org = o.org
        /\ s.counter = o.counter
    BY <1>1 DEF Session, IInv, TypeOK
  <2>3. TablesOK' /\ UNCHANGED <<log, observations, submissions, auditFailures>>
    BY <1>7 DEF NextCandidate, IInv, TypeOK, TablesOK
  <2> HIDE DEF s
  <2>4. s.counter <= Cardinality(By(log, s.org)) + auditFailures
    BY <1>1, <2>1, <2>2 DEF Holds
  <2>5. Holds(s, log, observations, auditFailures) /\ Held(s) = Held(o)
    BY <1>1, <2>1, <2>2, <2>4, MovedOn
  <2>. QED
    BY <1>2, <2>1, <2>2, <2>3, <2>5
<1>. QED
  BY <1>3, <1>4, <1>5, <1>6, <1>7

\* The job is done with a token: what its submissions have flushed is committed.
LEMMA TokenDoneInv ==
  ASSUME IInv, TokenDone
  PROVE  IInv'
<1> DEFINE s == [Idle EXCEPT !.at = "token"]
<1>1. /\ Nightly \in Workers /\ sessions[Nightly].at = "next" /\ Commit(Nightly)
      /\ sessions' = [sessions EXCEPT ![Nightly] = s]
      /\ UNCHANGED <<day, optedIn, submissions, signatures, queue, auditFailures>>
  BY DEF TokenDone, Workers
<1>2. s \in Session /\ s.at = "token" /\ s.tx = Nothing
  BY IdleHolds DEF Session
<1> HIDE DEF s
<1>3. Held(s) = {}
  BY <1>2 DEF Held, Nothing
<1>4. Holds(s, log', observations', auditFailures')
  BY <1>2, <1>3, FS_EmptySet DEF Holds
<1>5. IsFiniteSet(log') /\ log \subseteq log'
  BY <1>1, Committed
<1>6. \A x \in Orgs : /\ Cardinality(By(log, x)) \in Nat /\ Cardinality(By(log', x)) \in Nat
                      /\ Cardinality(By(log, x)) <= Cardinality(By(log', x))
  BY <1>5, Counted, LogGrows DEF IInv
<1>7. submissions' \in [Orgs -> Nat] /\ auditFailures \in Nat
      /\ \A x \in Orgs : submissions[x] \in Nat /\ submissions'[x] = submissions[x]
  BY <1>1, NetworkAssumption DEF IInv, TypeOK
<1>8. \A x \in Orgs : submissions[x] <= Cardinality(By(log, x)) + auditFailures
  BY DEF IInv, CountIsBacked, By
<1>9. \A x \in Orgs : submissions'[x] <= Cardinality(By(log', x)) + auditFailures
  BY <1>6, <1>7, <1>8
<1>. QED
  BY <1>1, <1>2, <1>4, <1>7, <1>9, CommitStep

\* An administrator sets the status of a host that no session has flushed.
LEMMA AdministratorInv ==
  ASSUME IInv, \/ \E h \in Hosts : PromoteToRegistry(h) \/ DismissCandidate(h)
               \/ \E o \in Orgs : Enable(o) \/ Disable(o)
  PROVE  IInv'
<1> DEFINE s == sessions[Nightly]
<1>1. /\ Nightly \in Workers /\ s \in Session /\ sessions = [sessions EXCEPT ![Nightly] = s]
      /\ Holds(s, log, observations, auditFailures) /\ auditFailures \in Nat
  BY NetworkAssumption DEF IInv, TypeOK, Workers
<1>2. ASSUME NEW o \in Orgs, Enable(o) \/ Disable(o) PROVE IInv'
  <2>1. UNCHANGED <<log, observations, submissions, auditFailures, sessions>> /\ TablesOK'
    BY <1>2 DEF Enable, Disable, IInv, TypeOK, TablesOK
  <2>. QED
    BY <1>1, <2>1, QuietStep
<1>3. ASSUME NEW h \in Hosts, PromoteToRegistry(h) \/ DismissCandidate(h) PROVE IInv'
  <2> DEFINE now == observations'[h]
  <2>1. /\ UNCHANGED <<log, submissions, auditFailures, sessions>>
        /\ observations[h] # None /\ \A w \in Workers : h \notin Held(sessions[w])
    BY <1>3 DEF PromoteToRegistry, DismissCandidate, Held
  <2>2. PICK status \in {"promoted", "dismissed"} :
          observations' = [observations EXCEPT ![h].status = status]
    BY <1>3 DEF PromoteToRegistry, DismissCandidate
  <2>3. /\ now.status = status /\ now.count = observations[h].count /\ now.count \in Nat \ {0}
        /\ now \in Observation /\ now # None
    BY <2>1, <2>2 DEF IInv, TypeOK, Observation, None, Statuses
  <2>4. observations' \in [Hosts -> Observation]
        /\ \A g \in Hosts \ {h} : observations'[g] = observations[g]
    BY <2>2, <2>3 DEF IInv, TypeOK
  <2>5. signatures' \in [Hosts -> 0 .. MaxSignatures]
    BY <1>3, NetworkAssumption DEF PromoteToRegistry, DismissCandidate, IInv, TypeOK
  <2>6. TablesOK'
    BY <1>3, <2>4, <2>5 DEF PromoteToRegistry, DismissCandidate, IInv, TypeOK, TablesOK
  <2>7. \A g \in Hosts : /\ observations[g] # None => observations'[g] # None
                         /\ Settled(observations[g]) => Settled(observations'[g])
    BY <2>3, <2>4 DEF Settled
  <2>8. \A w \in Workers : \A g \in Held(sessions[w]) : observations'[g] = observations[g]
    BY <2>1, <2>4 DEF Held
  <2>9. CountIsBacked'
    BY <2>1, <2>3, <2>4 DEF IInv, CountIsBacked, Entries
  <2>10. ThresholdDecides'
    BY <2>1, <2>3, <2>4 DEF IInv, ThresholdDecides, Entries
  <2>11. Holds(s, log, observations', auditFailures)
    BY <1>1, <2>7, <2>8, HoldsStays DEF IInv
  <2>12. \A v \in Workers \ {Nightly} : Held(s) \cap Held(sessions[v]) = {}
    BY <1>1 DEF IInv, Exclusive
  <2>. QED
    BY <1>1, <2>1, <2>6, <2>7, <2>8, <2>9, <2>10, <2>11, <2>12, SessionStep DEF IInv
<1>. QED
  BY <1>2, <1>3

\* A restart ends every session.
LEMMA CrashInv ==
  ASSUME IInv, Crash
  PROVE  IInv'
<1>1. /\ sessions' = [w \in Workers |-> Idle] /\ queue' = {}
      /\ UNCHANGED <<day, optedIn, submissions, log, observations, signatures, auditFailures>>
  BY DEF Crash
<1>2. TypeOK'
  BY <1>1, IdleHolds DEF IInv, TypeOK
<1>3. Holds(Idle, log, observations, auditFailures)
  BY IdleHolds, FS_EmptySet DEF Holds
<1>4. Exclusive'
  BY <1>1, IdleHolds DEF Exclusive
<1>5. CountIsBacked' /\ ThresholdDecides'
  BY <1>1 DEF IInv, CountIsBacked, ThresholdDecides, Entries
<1>. QED
  BY <1>1, <1>2, <1>3, <1>4, <1>5 DEF IInv

\* Nothing changes.
LEMMA StutterInv ==
  ASSUME IInv, UNCHANGED vars
  PROVE  IInv'
<1>1. Exclusive' /\ CountIsBacked' /\ ThresholdDecides' /\ TypeOK'
  BY DEF IInv, vars, Exclusive, CountIsBacked, ThresholdDecides, Entries, TypeOK
<1>. QED
  BY <1>1 DEF IInv, vars

\* Every step keeps the invariant.
LEMMA StepInv == IInv /\ [Next]_vars => IInv'
<1> SUFFICES ASSUME IInv, [Next]_vars PROVE IInv'
  OBVIOUS
<1>1. CASE \E r \in Requests, o \in Orgs, h \in Hosts : Submit(r, o, h)
  BY <1>1, SubmitInv
<1>2. CASE \E w \in Workers : Duplicate(w) \/ Lookup(w) \/ Select(w) \/ FlushFails(w) \/ Flush(w)
                              \/ Promote(w)
  BY <1>2, BeforeFlushInv, FlushInv, PromoteInv
<1>3. CASE \E r \in Requests : Count(r)
  BY <1>3, CountInv
<1>4. CASE NextDay \/ NotCounted \/ JobDone \/ TokenDone
           \/ \E o \in Orgs, pending \in SUBSET Hosts : NextToken(o, pending)
  BY <1>4, JobInv, TokenDoneInv
<1>5. CASE \E h \in Hosts : NextCandidate(h) \/ PromoteToRegistry(h) \/ DismissCandidate(h)
  BY <1>5, JobInv, AdministratorInv
<1>6. CASE \E o \in Orgs : Enable(o) \/ Disable(o)
  BY <1>6, AdministratorInv
<1>7. CASE Crash
  BY <1>7, CrashInv
<1>8. CASE UNCHANGED vars
  BY <1>8, StutterInv
<1>. QED
  BY <1>1, <1>2, <1>3, <1>4, <1>5, <1>6, <1>7, <1>8 DEF Next

\* Every reachable state satisfies the invariant.
THEOREM InvariantHolds == Spec => []IInv
BY InitInv, StepInv, PTL DEF Spec

-----------------------------------------------------------------------------
(* Results.                                                                *)

\* Every variable keeps its type: whatever a session flushes, an observation that is
\* written has a count of at least one and one of the four statuses, never "kept".
THEOREM TypeCorrect == Spec => []TypeOK
<1>1. IInv => TypeOK
  BY DEF IInv
<1>. QED
  BY <1>1, InvariantHolds, PTL

\* However many sessions write counts that they computed from old reads, however often the
\* server restarts and promotions fail in between: the count of a host is backed by as many
\* entries of the log, and the counter of a token by its entries and the failed audit
\* entries (submit_hostname).
THEOREM CountsAreBacked == Spec => []CountIsBacked
<1>1. IInv => CountIsBacked
  BY DEF IInv
<1>. QED
  BY <1>1, InvariantHolds, PTL

\* Whatever the threshold: a host that reached it is not observed any more, although the
\* session that reached it decided on what it had read before its flush, and a candidate
\* has that many entries in the log (submit_hostname, step 7).
THEOREM ThresholdIsDecisive == Spec => []ThresholdDecides
<1>1. IInv => ThresholdDecides
  BY DEF IInv
<1>. QED
  BY <1>1, InvariantHolds, PTL
=============================================================================
