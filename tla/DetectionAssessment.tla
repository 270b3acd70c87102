------------------------ MODULE DetectionAssessment -------------------------
(***************************************************************************)
(* Which regulations a detection falls under: the assessment that its      *)
(* creation, later signals, users and the nightly pass each compute from   *)
(* the detection and the registry, and store on the detection.             *)
(*                                                                         *)
(* A tool has one detection here, and so has a host; a detection that was  *)
(* closed stays closed.  Their status is the subject of DetectionLifecycle *)
(* and DetectionSessions.                                                  *)
(***************************************************************************)
EXTENDS Integers, IntentRules, JurisdictionGraph

CONSTANTS
  Tools,              \* tools of the registry: their detections have its signature
  Hosts,              \* hosts whose detections come from the traffic classifiers
  NoTool,             \* the signature of a detection that matches no tool
  Requests,           \* requests and scans that the server handles at a time
  Nightly,            \* the session of the scheduled scan and of the nightly pass
  Evidence,           \* texts of the telemetry
  MaxTexts,           \* bound: texts that speak of a tool when it is detected
  Bands,              \* confidence bands of what the classifiers find
  Seeds,              \* the profiles that the registry has for a tool, at some time
  LastVersion,        \* bound: GRAPH_VERSIONs
  MaxFaults           \* bound: audit entries that fail, restarts and changes of the registry

\* The category and risk level of the signatures in KNOWN_AI_SIGNATURES.
Catalogue ==
  {[category |-> "llm", risk |-> r] : r \in {"medium", "high", "critical"}}
  \cup {[category |-> c, risk |-> "medium"] : c \in {"image_gen", "voice_ai", "embedding"}}
  \cup {[category |-> c, risk |-> "high"] : c \in {"agent", "code_assistant", "image_gen"}}
  \cup {[category |-> "data_ai", risk |-> r] : r \in {"low", "medium", "high"}}

ASSUME AssessmentAssumption ==
  /\ Tools \cap Hosts = {} /\ Tools \cup Hosts # {}
  /\ NoTool \notin Tools /\ Nightly \notin Requests
  /\ Evidence \subseteq Text /\ Seeds \subseteq Catalogue /\ Seeds # {}
  /\ Bands \subseteq {"medium", "high"}
  /\ MaxTexts \in Nat /\ MaxFaults \in Nat /\ LastVersion \in Nat \ {0}

VARIABLES
  registry,         \* the profile of each tool in ai_signature_registry
  detections,       \* shadow_ai_detections, by tool or host
  sessions,
  version,          \* GRAPH_VERSION of the running code
  faults,           \* how many of them there were
  overlapped        \* history: the registry changed while a session was at work

vars == <<registry, detections, sessions, version, faults, overlapped>>

Cases == Tools \cup Hosts
Workers == Requests \cup {Nightly}
Versions == 0 .. LastVersion      \* 0: none

\* The JSON of an assessment: what matched, and the basis it matched on.
Assessment ==
  [articles : SUBSET DOMAIN Articles, missing : Nat, highest : Risks \cup {None},
   risk : Risks \cup {None}, graph : Versions]
NoAssessment == [articles |-> {}, missing |-> 0, highest |-> None, risk |-> None, graph |-> 0]

Null == -1      \* no count yet

\* count, highest, graph: applicable_regulations_count, highest_regulatory_risk and
\* jurisdiction_graph_version, the columns that repeat what the JSON says.
Detection ==
  [status : {"absent", "open", "closed"}, tool : Tools \cup {NoTool}, intent : Intent,
   band : {"medium", "high"}, json : Assessment, count : Nat \cup {Null}, highest : Risks \cup {None},
   graph : Versions]

Absent ==
  [status |-> "absent", tool |-> NoTool, intent |-> NoIntent, band |-> "medium",
   json |-> NoAssessment, count |-> Null, highest |-> None, graph |-> 0]

\* loaded: the row as the session has read it; new: as the session has changed it; todo:
\* the other detections of the nightly pass.
Session == [at : {"idle", "insert", "loaded", "read", "next"}, case : Cases,
            loaded : Detection, new : Detection, todo : SUBSET Cases]

Idle == [at |-> "idle", case |-> CHOOSE c \in Cases : TRUE, loaded |-> Absent,
         new |-> Absent, todo |-> {}]

TypeOK ==
  /\ registry \in [Tools -> Catalogue] /\ detections \in [Cases -> Detection]
  /\ sessions \in [Workers -> Session] /\ version \in Versions \ {0}
  /\ faults \in 0 .. MaxFaults /\ overlapped \in BOOLEAN

Init ==
  /\ registry \in [Tools -> Seeds]
  /\ detections = [c \in Cases |-> Absent]
  /\ sessions = [w \in Workers |-> Idle]
  /\ version = 1
  /\ faults = 0 /\ overlapped = FALSE

-----------------------------------------------------------------------------
(* The assessment and how it is stored.                                    *)

\* What the graph says of a tool's category and risk and an intent, as a function: the
\* traversal is pure, so it is computed once for each combination that can occur.
Verdict ==
  LET Profiles == Seeds \cup {[category |-> "other", risk |-> band] : band \in Bands}
      Intents == {NoIntent} \cup {Classify(text) : text \in Evidence}
      Attributes(p, i) == [category |-> p.category, risk |-> p.risk, action |-> i.action,
                           subject |-> i.subject, context |-> i.context]
  IN [p \in Profiles |-> [i \in Intents |->
        LET x == Attributes(p, i)
            matched == Traverse(x)
        IN [articles |-> matched, risk |-> p.risk, highest |-> HighestRisk(matched, p.risk),
            missing |-> Cardinality(MissingGovernance(matched, x)),
            regulations |-> Cardinality(RegulationsOf(matched))]]]

\* The profile of a detection without a signature: the band of its confidence serves as
\* the level of risk.
Unmatched(row) == [category |-> "other", risk |-> row.band]

\* The row as assess_detection leaves it in the session.
Assessed(row, profile) ==
  LET verdict == Verdict[profile][row.intent]
  IN [row EXCEPT
        !.json = [articles |-> verdict.articles, missing |-> verdict.missing,
                  highest |-> verdict.highest, risk |-> verdict.risk, graph |-> version],
        !.count = verdict.regulations, !.highest = verdict.highest, !.graph = version]

\* Mutant: the count is written by the first assessment only.
MergedOnce(row, loaded, new) ==
  [row EXCEPT !.json = new.json, !.graph = new.graph, !.highest = new.highest,
              !.count = IF loaded.count = Null THEN new.count ELSE @]

\* The UPDATE names the columns whose value the session changed, and no others.  The
\* JSON holds the time of the assessment, so it always is one of them.
Merged(row, loaded, new) ==
  [row EXCEPT
     !.json = new.json,
     !.count = IF new.count = loaded.count THEN @ ELSE new.count,
     !.highest = IF new.highest = loaded.highest THEN @ ELSE new.highest,
     !.graph = IF new.graph = loaded.graph THEN @ ELSE new.graph]

Fault == faults < MaxFaults /\ faults' = faults + 1

Active(c) == detections[c].status = "open"
Current(c) == detections[c].graph = version

\* Where the session goes after a detection.
Finish(w) ==
  IF w = Nightly /\ sessions[w].todo # {} THEN [sessions[w] EXCEPT !.at = "next"] ELSE Idle

-----------------------------------------------------------------------------
(* Creation.                                                               *)

\* run_detection finds telemetry of the tool and no detection that is open.
ScanFinds(w, t) ==
  /\ sessions[w].at = "idle" /\ detections[t].status = "absent"
  /\ \E n \in 0 .. MaxTexts : \E texts \in [1 .. n -> Evidence] :
       LET row == [Absent EXCEPT !.status = "open", !.tool = t, !.intent = BestIntent(texts)]
       IN sessions' = [sessions EXCEPT ![w] =
            [at |-> "insert", case |-> t, loaded |-> row, new |-> Assessed(row, registry[t]),
             todo |-> {}]]
  /\ UNCHANGED <<registry, detections, version, faults, overlapped>>

\* Another scan was first: the unique index refuses the row.
ScanConflicts(w) ==
  /\ sessions[w].at = "insert" /\ detections[sessions[w].case].status # "absent"
  /\ sessions' = [sessions EXCEPT ![w] = Idle]
  /\ UNCHANGED <<registry, detections, version, faults, overlapped>>

\* An intent has an audit entry of its own, which commits the detection before it is
\* assessed; a detection without one is committed by the entry of its assessment.
ScanInserts(w) ==
  LET row == sessions[w].loaded
      c == sessions[w].case
  IN /\ sessions[w].at = "insert" /\ detections[c].status = "absent"
     /\ IF row.intent # NoIntent
          THEN /\ detections' = [detections EXCEPT ![c] = row]
               /\ sessions' = [sessions EXCEPT ![w].at = "loaded"]
          ELSE /\ detections' = [detections EXCEPT ![c] = sessions[w].new]
               /\ sessions' = [sessions EXCEPT ![w] = Idle]
     /\ UNCHANGED <<registry, version, faults, overlapped>>

\* The first audit entry fails and takes the new row with it.
ScanRolledBack(w) ==
  /\ sessions[w].at = "insert" /\ Fault
  /\ sessions' = [sessions EXCEPT ![w] = Idle]
  /\ UNCHANGED <<registry, detections, version, overlapped>>

\* A zero-day detection, which nothing assesses when it is created.
ZeroDayFound(h, band) ==
  /\ detections[h].status = "absent"
  /\ detections' = [detections EXCEPT ![h] = [Absent EXCEPT !.status = "open", !.band = band]]
  /\ UNCHANGED <<registry, sessions, version, faults, overlapped>>

\* A dark AI detection: committed by its own audit entry, then assessed as one without
\* a signature, also when the host belongs to a tool.
DarkFound(w, h, tool, band) ==
  LET row == [Absent EXCEPT !.status = "open", !.tool = tool, !.band = band]
  IN /\ sessions[w].at = "idle" /\ detections[h].status = "absent"
     /\ detections' = [detections EXCEPT ![h] = row]
     /\ sessions' = [sessions EXCEPT ![w] =
          [at |-> "read", case |-> h, loaded |-> row, new |-> Assessed(row, Unmatched(row)),
           todo |-> {}]]
     /\ UNCHANGED <<registry, version, faults, overlapped>>

-----------------------------------------------------------------------------
(* Assessment of a stored detection.                                       *)

Load(w, c, todo) ==
  sessions' = [sessions EXCEPT ![w] =
    [Idle EXCEPT !.at = "loaded", !.case = c, !.loaded = detections[c], !.todo = todo]]

\* A later signal: run_detection updates an open detection and assesses it.  (Updates of
\* the scheduled scan are left to the requests, which do the same.)
ScanUpdates(w, t) ==
  /\ sessions[w].at = "idle" /\ Active(t) /\ Load(w, t, {})
  /\ UNCHANGED <<registry, detections, version, faults, overlapped>>

\* refresh_jurisdiction_assessment, also of a closed detection.
Refresh(w, c) ==
  /\ sessions[w].at = "idle" /\ detections[c].status # "absent" /\ Load(w, c, {})
  /\ UNCHANGED <<registry, detections, version, faults, overlapped>>

\* get_jurisdiction_assessment, which assesses a detection that has no JSON.
Get(w, c) ==
  /\ sessions[w].at = "idle" /\ detections[c].status # "absent"
  /\ detections[c].json = NoAssessment /\ Load(w, c, {})
  /\ UNCHANGED <<registry, detections, version, faults, overlapped>>

\* Mutant: a detection that was never assessed is not selected.
DueIfOlder == {c \in Cases : Active(c) /\ detections[c].json # NoAssessment /\ ~Current(c)}

\* The detections that run_assessment_pass selects.
Due == {c \in Cases : Active(c) /\ (detections[c].json = NoAssessment \/ ~Current(c))}

\* nightly_jurisdiction_pass selects them all, and loads the first.
PassStarts(c) ==
  /\ sessions[Nightly].at = "idle" /\ c \in Due /\ Load(Nightly, c, Due \ {c})
  /\ UNCHANGED <<registry, detections, version, faults, overlapped>>

\* A commit or a rollback expired the rows of the session: the next one is loaded anew.
PassContinues(c) ==
  /\ sessions[Nightly].at = "next" /\ c \in sessions[Nightly].todo
  /\ Load(Nightly, c, sessions[Nightly].todo \ {c})
  /\ UNCHANGED <<registry, detections, version, faults, overlapped>>

ReadSignature(w) ==
  LET row == sessions[w].loaded
      profile == IF row.tool = NoTool THEN Unmatched(row) ELSE registry[row.tool]
  IN /\ sessions[w].at = "loaded"
     /\ sessions' = [sessions EXCEPT ![w].at = "read", ![w].new = Assessed(row, profile)]
     /\ UNCHANGED <<registry, detections, version, faults, overlapped>>

\* The audit entry of the assessment commits the row.
Store(w) ==
  LET c == sessions[w].case
  IN /\ sessions[w].at = "read"
     /\ detections' = [detections EXCEPT
          ![c] = Merged(@, sessions[w].loaded, sessions[w].new)]
     /\ sessions' = [sessions EXCEPT ![w] = Finish(w)]
     /\ UNCHANGED <<registry, version, faults, overlapped>>

\* It fails: the assessment is lost, and nobody is told.
StoreRolledBack(w) ==
  /\ sessions[w].at = "read" /\ Fault
  /\ sessions' = [sessions EXCEPT ![w] = Finish(w)]
  /\ UNCHANGED <<registry, detections, version, overlapped>>

-----------------------------------------------------------------------------
(* The rest of the system.                                                 *)

\* A user dismisses or escalates the detection; the assessment stays as it is.
Close(c) ==
  /\ Active(c)
  /\ detections' = [detections EXCEPT ![c].status = "closed"]
  /\ UNCHANGED <<registry, sessions, version, faults, overlapped>>

\* seed_signatures writes new values over the registry and assesses nothing again.
SeedSignatures(t, profile) ==
  /\ Fault /\ profile # registry[t]
  /\ registry' = [registry EXCEPT ![t] = profile]
  /\ overlapped' = (overlapped \/ \E w \in Workers : sessions[w].at # "idle")
  /\ UNCHANGED <<detections, sessions, version>>

\* The server restarts, with the same code or a new version of the graph.
Restart(v) ==
  /\ Fault /\ v \in {version, version + 1} \cap Versions
  /\ version' = v
  /\ sessions' = [w \in Workers |-> Idle]
  /\ UNCHANGED <<registry, detections, overlapped>>

Next ==
  \/ \E w \in Workers, t \in Tools : ScanFinds(w, t)
  \/ \E w \in Requests, t \in Tools : ScanUpdates(w, t)
  \/ \E h \in Hosts, band \in Bands :
       \/ ZeroDayFound(h, band)
       \/ \E w \in Requests, tool \in Tools \cup {NoTool} : DarkFound(w, h, tool, band)
  \/ \E w \in Requests, c \in Cases : Refresh(w, c) \/ Get(w, c)
  \/ \E c \in Cases : PassStarts(c) \/ PassContinues(c) \/ Close(c)
  \/ \E w \in Workers :
       \/ ScanConflicts(w) \/ ScanInserts(w) \/ ScanRolledBack(w)
       \/ ReadSignature(w) \/ Store(w) \/ StoreRolledBack(w)
  \/ \E t \in Tools, profile \in Seeds : SeedSignatures(t, profile)
  \/ \E v \in Versions : Restart(v)

Spec == Init /\ [][Next]_vars

\* The scheduler starts the pass every night, and what it started goes on; nobody has to
\* ask for an assessment.
Fairness ==
  /\ WF_vars(\E c \in Cases : PassStarts(c) \/ PassContinues(c))
  /\ WF_vars(ScanConflicts(Nightly) \/ ScanInserts(Nightly) \/ ScanRolledBack(Nightly))
  /\ WF_vars(ReadSignature(Nightly))
  /\ WF_vars(Store(Nightly) \/ StoreRolledBack(Nightly))

FairSpec == Spec /\ Fairness

-----------------------------------------------------------------------------
(* Properties.                                                             *)

\* Two tables of the code, written apart, agree: an article that the intent rules name
\* as an obligation of the use case is among the articles that the graph matched,
\* whenever the graph has it and it applies to the tool's risk (REGULATORY_RISK_MAP,
\* ARTICLE_DEFINITIONS, _traverse_graph).  The exception is Article 6 for a financial
\* decision, which the graph knows by its subject and context only.  It holds because one
\* matching condition of any type is enough; were all the types of an article to match, as
\* the docstring of the engine also has it, Article 6 would be missed wherever the tool is
\* of another category or its context is not known.
ObligationsAreMatched ==
  \A c \in Cases :
    LET row == detections[c]
    IN \A o \in Obligations(row.intent) \cap DOMAIN Articles :
         /\ row.json.risk \in Articles[o].risks
         /\ ~(o = "EU_AI_ACT_ART6" /\ row.intent.action = "financial_decision")
         => o \in row.json.articles

\* What the columns of a row say of its assessment is what the JSON says.
Summarised(row) ==
  /\ row.count = IF row.json = NoAssessment THEN Null
                  ELSE Cardinality(RegulationsOf(row.json.articles))
  /\ row.highest = row.json.highest
  /\ row.graph = row.json.graph

\* The columns that the lists and dashboards read say what the JSON says, unless two
\* sessions that assess a detection alike may differ, and each store some columns of the
\* row: when the registry changed under a session, and for a dark AI detection of a tool's
\* host, whose classifier has no signature for it where the others do (assess_detection,
\* lines 160 to 166, DarkAIClassifier.classify).
SummaryAgrees ==
  ~overlapped =>
    \A c \in Cases : (c \in Hosts => detections[c].tool = NoTool) => Summarised(detections[c])

\* A detection that is not assessed by the graph of the running code, because its
\* assessment was rolled back, the graph is newer or nothing assessed it yet, will be,
\* or it is closed first (run_assessment_pass).
CurrentInTheEnd ==
  \A c \in Cases : Active(c) /\ ~Current(c) ~> ~Active(c) \/ Current(c)
=============================================================================
