------------------------- MODULE DetectionLifecycle -------------------------
(***************************************************************************)
(* The life of a detection in one organisation: telemetry is scored into   *)
(* detections (detection_service.run_detection), silent detections decay   *)
(* and go stale (decay_engine), people review, dismiss or promote them     *)
(* (detection_service, routers/detections), and dismissed tools are        *)
(* suppressed until the suppression is lifted (suppression_service).       *)
(*                                                                         *)
(* Every handler runs here as one step; DetectionSessions takes them apart *)
(* into database statements of concurrent sessions.                        *)
(***************************************************************************)
EXTENDS ConfidenceEngine, Sequences

CONSTANTS
  Signatures,    \* signatures of the merged registry, one slug each
  Unknown,       \* the slug "unknown" of a detection without a signature
  Weights,       \* confidence_weights of each signature, in percent
  SignalInputs,  \* the <<kind, match quality>> of the Tier 2 and 3 signals that arrive
  DarkScores,    \* composite scores of the proxied connections that arrive
  DecayFactor,   \* exp(-lambda * days) of each tool's category, as a score
  DarkDecay,     \* the same with the lambda of dark AI detections
  MaxAge,        \* bound: ages are counted in days up to MaxAge, then saturate
  MaxRows,       \* bound: detections ever created per signature
  MaxReports     \* bound: manual reports

Tools == Signatures \cup {Unknown}
Ages == 0 .. MaxAge

ASSUME UnknownAssumption == Unknown \notin Signatures
ASSUME WeightsAssumption == Weights \in [Signatures -> [SignalTypes -> 0 .. 100]]
ASSUME InputsAssumption ==
  /\ SignalInputs \subseteq {"identity_match", "endpoint_match"} \X Scores
  /\ \A input \in SignalInputs : input[2] \in SignalScores[input[1]]
ASSUME BoundsAssumption == MaxAge \in Nat \ {0} /\ MaxRows \in Nat \ {0} /\ MaxReports \in Nat
ASSUME DecayAssumption ==
  /\ DecayFactor \in [Tools -> [Ages -> Scores]]
  /\ DarkDecay \in [Ages -> Scores]
  /\ \A t \in Tools : DecayFactor[t][0] = One
  /\ DarkDecay[0] = One
ASSUME DarkAssumption == DarkScores \subseteq 6 * (One \div 10) .. One

VARIABLES
  mentioned,     \* signatures that some questionnaire response names
  hashed,        \* signatures whose mention has a telemetry event of today
  evidence,      \* per signature, its telemetry events as scoring reads them
  silence,       \* per signature, days since its newest telemetry event
  rows,          \* per tool, its detections in order of creation
  suppressed,    \* tool slugs with a suppression that is not lifted
  inventory      \* source_detection_id of the AI systems: <<tool, index>>

vars == <<mentioned, hashed, evidence, silence, rows, suppressed, inventory>>

ActiveStatuses == {"new", "reviewed", "needs_review"}
TerminalStatuses == {"dismissed", "registered"}

\* age is the whole days since last_observed_at while the detection is active.
\* dark is is_dark_ai: the detection comes from a connection through a proxy.
Detection == [status : ActiveStatuses \cup TerminalStatuses,
              score  : Scores,
              base   : Scores,
              band   : Bands,
              stale  : BOOLEAN,
              dark   : BOOLEAN,
              age    : Ages]

TypeOK ==
  /\ mentioned \in SUBSET Signatures
  /\ hashed \in SUBSET Signatures
  /\ evidence \in [Signatures -> Evidence]
  /\ silence \in [Signatures -> Ages]
  /\ rows \in [Tools -> Seq(Detection)]
  /\ suppressed \in SUBSET Tools
  /\ inventory \in SUBSET (Tools \X Nat)

Active(d) == d.status \in ActiveStatuses

ActiveRows(t) == {i \in DOMAIN rows[t] : Active(rows[t][i])}

NewDetection(score) ==
  [status |-> "new", score |-> score, base |-> score, band |-> Band(score),
   stale |-> FALSE, dark |-> FALSE, age |-> 0]

DarkDetection(score) == [NewDetection(score) EXCEPT !.dark = TRUE]

Init ==
  /\ mentioned = {}
  /\ hashed = {}
  /\ evidence = [s \in Signatures |-> NoEvidence]
  /\ silence = [s \in Signatures |-> MaxAge]
  /\ rows = [t \in Tools |-> <<>>]
  /\ suppressed = {}
  /\ inventory = {}

-----------------------------------------------------------------------------
(* run_detection.  Every scan ends with it, over the whole telemetry.      *)

\* Mutant: the stale mark survives the reactivation.
ReactivatedStillStale(d, score) ==
  [d EXCEPT !.status = "new", !.base = score, !.score = score, !.age = 0]

\* A new score for a stale detection reactivates it with that score as its
\* base; the band keeps its value.
Reactivated(d, score) ==
  [d EXCEPT !.stale = FALSE, !.status = "new", !.base = score, !.score = score, !.age = 0]

Refreshed(d, score) ==
  [d EXCEPT !.score = score, !.band = Band(score), !.age = 0]

Observed(d, count, score) ==
  LET average == RollingAverage(d.score, count, score)
  IN  IF d.stale THEN Reactivated(d, average) ELSE Refreshed(d, average)

\* Mutant: no suppression is looked up.
NeverSuppressed(s) == FALSE

\* Mutant: a dismissed detection is looked up, not the suppression.
EverDismissed(s) == \E i \in DOMAIN rows[s] : rows[s][i].status = "dismissed"

IsSuppressed(s) == s \in suppressed

\* The detections of signature s after a run over evidence ev.
Detected(s, ev) ==
  LET score == ComputeScore(Weights[s], ev)
  IN  IF ev.count = 0 \/ Band(score) = "discard"
        THEN rows[s]
      ELSE IF ActiveRows(s) # {}
        THEN [i \in DOMAIN rows[s] |->
                IF Active(rows[s][i]) THEN Observed(rows[s][i], ev.count, score)
                                      ELSE rows[s][i]]
      ELSE IF IsSuppressed(s)
        THEN rows[s]
      ELSE Append(rows[s], NewDetection(score))

\* The detections of every tool after it.
Ran(ev) == [t \in Tools |-> IF t \in Signatures THEN Detected(t, ev[t]) ELSE rows[t]]

RunDetection(ev) == rows' = Ran(ev)

-----------------------------------------------------------------------------
(* Signals.                                                                *)

\* A user's questionnaire answer names signature s.  (Answers are written by
\* the host application; the scanners only read them.)
SaveResponse(s) ==
  /\ mentioned' = mentioned \cup {s}
  /\ UNCHANGED <<hashed, evidence, silence, rows, suppressed, inventory>>

\* The signal_hash of a mention holds today's date: it is new once a day.
NewMentions == mentioned \ (suppressed \cup hashed)

Tier1Scan ==
  /\ hashed' = hashed \cup NewMentions
  /\ evidence' = [s \in Signatures |->
                    IF s \in NewMentions THEN AddSignal(evidence[s], "keyword_match", One)
                                         ELSE evidence[s]]
  /\ silence' = [s \in Signatures |-> IF s \in NewMentions THEN 0 ELSE silence[s]]
  /\ RunDetection(evidence')
  /\ UNCHANGED <<mentioned, suppressed, inventory>>

\* A Tier 2 sign-in or a Tier 3 connection matched to s and not a duplicate.
\* Neither tier asks for a suppression before it stores the event.
StoreSignal(s, type, quality) ==
  /\ evidence' = [evidence EXCEPT ![s] = AddSignal(@, type, quality)]
  /\ silence' = [silence EXCEPT ![s] = 0]
  /\ RunDetection(evidence')
  /\ UNCHANGED <<mentioned, hashed, suppressed, inventory>>

\* A Tier 3 connection to s that went through a proxy, a gateway or a bare
\* address and whose traffic has the shape of AI use: after run_detection
\* DarkAIClassifier.classify adds a detection of its own under the signature.
\* It asks for no suppression.  (With an active detection of s its insert
\* breaks uq_detection_org_sig_active, and what run_detection committed is
\* the effect: StoreSignal.  So it is for a score below the threshold and for
\* a host that has an active dark detection.)
StoreProxiedSignal(s, quality, score) ==
  /\ evidence' = [evidence EXCEPT ![s] = AddSignal(@, "endpoint_match", quality)]
  /\ silence' = [silence EXCEPT ![s] = 0]
  /\ \A i \in DOMAIN Ran(evidence')[s] : ~Active(Ran(evidence')[s][i])
  /\ rows' = [Ran(evidence') EXCEPT ![s] = Append(@, DarkDetection(score))]
  /\ UNCHANGED <<mentioned, hashed, suppressed, inventory>>

\* Any member of the organisation reports a tool by name: no signature, 0.50.
ManualReport ==
  /\ Len(rows[Unknown]) < MaxReports
  /\ rows' = [rows EXCEPT ![Unknown] = Append(@, NewDetection(5 * (One \div 10)))]
  /\ UNCHANGED <<mentioned, hashed, evidence, silence, suppressed, inventory>>

-----------------------------------------------------------------------------
(* Time.                                                                   *)

Older(age) == Minimum(age + 1, MaxAge)

NextDay ==
  /\ hashed' = {}
  /\ silence' = [s \in Signatures |-> Older(silence[s])]
  /\ rows' = [t \in Tools |-> [i \in DOMAIN rows[t] |->
                IF Active(rows[t][i]) THEN [rows[t][i] EXCEPT !.age = Older(@)]
                                      ELSE rows[t][i]]]
  /\ UNCHANGED <<mentioned, evidence, suppressed, inventory>>

\* exp(-lambda * days) with the decay_lambda of the row.
Factor(t, d) == IF d.dark THEN DarkDecay[d.age] ELSE DecayFactor[t][d.age]

\* Mutant: dismissed and registered detections decay too.
DecayClosedToo(t, d) ==
  LET score == Decayed(d.base, Factor(t, d))
  IN  IF d.stale \/ d.age = 0 THEN d ELSE [d EXCEPT !.score = score]

\* Mutant: a detection that somebody reviewed does not decay.
DecayUnreviewed(t, d) ==
  LET score == Decayed(d.base, Factor(t, d))
  IN  IF d.status # "new" \/ d.stale \/ d.age = 0 THEN d
      ELSE IF score < DiscardThreshold
        THEN [d EXCEPT !.score = score, !.stale = TRUE, !.status = "needs_review"]
      ELSE [d EXCEPT !.score = score]

\* What the decay pass makes of a detection of tool t.
Decay(t, d) ==
  LET score == Decayed(d.base, Factor(t, d))
  IN  IF ~Active(d) \/ d.stale \/ d.age = 0 THEN d
      ELSE IF score < DiscardThreshold
        THEN [d EXCEPT !.score = score, !.stale = TRUE, !.status = "needs_review"]
      ELSE [d EXCEPT !.score = score]

DecayPass ==
  /\ rows' = [t \in Tools |-> [i \in DOMAIN rows[t] |-> Decay(t, rows[t][i])]]
  /\ UNCHANGED <<mentioned, hashed, evidence, silence, suppressed, inventory>>

-----------------------------------------------------------------------------
(* People.                                                                 *)

WithStatus(t, i, status) == [rows EXCEPT ![t][i].status = status]

\* Mutant: the review does not look at the status first.
ReviewClosedToo(t, i) ==
  /\ i \in DOMAIN rows[t]
  /\ rows' = WithStatus(t, i, "reviewed")
  /\ UNCHANGED <<mentioned, hashed, evidence, silence, suppressed, inventory>>

ReviewDetection(t, i) ==
  /\ i \in ActiveRows(t)
  /\ rows' = WithStatus(t, i, "reviewed")
  /\ UNCHANGED <<mentioned, hashed, evidence, silence, suppressed, inventory>>

\* The last detection that MaxRows allows is never closed, so that
\* run_detection always has room for the next one.
RoomAfter(t) == t \in Signatures => Len(rows[t]) < MaxRows

\* Mutant: a registered detection can be dismissed.
DismissRegisteredToo(t, i) ==
  /\ i \in DOMAIN rows[t] /\ rows[t][i].status # "dismissed"
  /\ RoomAfter(t)
  /\ rows' = WithStatus(t, i, "dismissed")
  /\ suppressed' = suppressed \cup {t}
  /\ UNCHANGED <<mentioned, hashed, evidence, silence, inventory>>

\* Mutant: the suppression is filed under the slug of a detection without a
\* signature.
DismissAsUnknown(t, i) ==
  /\ i \in ActiveRows(t)
  /\ RoomAfter(t)
  /\ rows' = WithStatus(t, i, "dismissed")
  /\ suppressed' = suppressed \cup {Unknown}
  /\ UNCHANGED <<mentioned, hashed, evidence, silence, inventory>>

DismissDetection(t, i) ==
  /\ i \in ActiveRows(t)
  /\ RoomAfter(t)
  /\ rows' = WithStatus(t, i, "dismissed")
  /\ suppressed' = suppressed \cup {t}
  /\ UNCHANGED <<mentioned, hashed, evidence, silence, inventory>>

EscalateDetection(t, i) ==
  /\ i \in ActiveRows(t)
  /\ RoomAfter(t)
  /\ <<t, i>> \notin inventory
  /\ rows' = WithStatus(t, i, "registered")
  /\ inventory' = inventory \cup {<<t, i>>}
  /\ UNCHANGED <<mentioned, hashed, evidence, silence, suppressed>>

LiftSuppression(t) ==
  /\ t \in suppressed
  /\ suppressed' = suppressed \ {t}
  /\ UNCHANGED <<mentioned, hashed, evidence, silence, rows, inventory>>

-----------------------------------------------------------------------------
Next ==
  \/ \E s \in Signatures : SaveResponse(s)
  \/ Tier1Scan
  \/ \E s \in Signatures, input \in SignalInputs : StoreSignal(s, input[1], input[2])
  \/ \E s \in Signatures, input \in SignalInputs, score \in DarkScores :
       input[1] = "endpoint_match" /\ StoreProxiedSignal(s, input[2], score)
  \/ ManualReport
  \/ NextDay
  \/ DecayPass
  \/ \E t \in Tools : \E i \in DOMAIN rows[t] :
       \/ ReviewDetection(t, i)
       \/ DismissDetection(t, i)
       \/ EscalateDetection(t, i)
  \/ \E t \in Tools : LiftSuppression(t)

Spec == Init /\ [][Next]_vars

\* Days pass and the nightly jobs run; nobody has to click anything.  The
\* nightly scan visits an organisation only if it has questionnaire responses:
\* no fairness is assumed of the scans of one without a mention.
NightlyTier1Scan == mentioned # {} /\ Tier1Scan

Fairness == WF_vars(NextDay) /\ WF_vars(NightlyTier1Scan) /\ WF_vars(DecayPass)

FairSpec == Spec /\ Fairness

-----------------------------------------------------------------------------
(* Safety.                                                                 *)

\* The only active detection of a signature is its newest one: run_detection
\* finds at most one row to update, which is what the partial unique index
\* uq_detection_org_sig_active would otherwise refuse at the flush.
OnlyNewestActive ==
  \A s \in Signatures : ActiveRows(s) \subseteq {Len(rows[s])}

\* While the suppression of a tool is not lifted no telemetry of any tier, no
\* reactivation and no later dismissal or escalation leaves it with an active
\* detection, except one that the dark AI side channel added: it is the only
\* path to a detection that does not ask for the suppression.
SuppressedToolIsQuiet ==
  \A s \in Signatures \cap suppressed : \A i \in ActiveRows(s) : rows[s][i].dark

\* Exactly the registered detections have an AI system in the inventory.
InventoryMatchesRegistered ==
  /\ \A e \in inventory :
       e[2] \in DOMAIN rows[e[1]] /\ rows[e[1]][e[2]].status = "registered"
  /\ \A t \in Tools : \A i \in DOMAIN rows[t] :
       rows[t][i].status = "registered" => <<t, i>> \in inventory

\* A stale detection is below the discard threshold and waits for review: no
\* scan, decay pass or review raises it without reactivating it.
StaleBelowThreshold ==
  \A t \in Tools : \A i \in ActiveRows(t) :
    rows[t][i].stale => /\ rows[t][i].score < DiscardThreshold
                        /\ rows[t][i].status # "new"

\* A dismissed or registered detection is a record: later scans, decay passes
\* and reviews leave it as it was, and it is never deleted.
ClosedDetectionsFrozen ==
  [][\A t \in Tools : \A i \in DOMAIN rows[t] :
       ~Active(rows[t][i]) => /\ i \in DOMAIN rows'[t]
                              /\ rows'[t][i] = rows[t][i]]_vars

\* The engine is a register of findings: scans only add findings where none is
\* active and, but for hidden ones, no dismissal stands; only people close them,
\* one at a time, together with the suppression or the AI system that goes with
\* it.
Finding(d) == IF ~Active(d) THEN d.status ELSE IF d.dark THEN "hidden" ELSE "active"

RegisterStatus == [t \in Tools |-> [i \in DOMAIN rows[t] |-> Finding(rows[t][i])]]

Register == INSTANCE DetectionRegister WITH status <- RegisterStatus

ImplementsRegister == Register!Spec

-----------------------------------------------------------------------------
(* Liveness.                                                               *)

\* A manual report that nobody handles goes stale and so asks for review.
ReportsAreSettled ==
  \A i \in 1 .. MaxReports :
    (i \in ActiveRows(Unknown) /\ ~rows[Unknown][i].stale)
      ~> (i \notin ActiveRows(Unknown) \/ rows[Unknown][i].stale)

Detectable(s) == s \notin suppressed /\ Band(ComputeScore(Weights[s], evidence[s])) # "discard"

\* In an organisation whose questionnaire responses name any tool, a tool with
\* enough evidence that is not suppressed (any more) is detected by a later
\* nightly scan, whichever tier the evidence is of.
DetectableToolIsDetected ==
  \A s \in Signatures :
    (mentioned # {} /\ Detectable(s)) ~> (ActiveRows(s) # {} \/ ~Detectable(s))

-----------------------------------------------------------------------------
(* What the documentation says of the code and the code does not keep.     *)

\* The decay formula counts "days_since_last_signal": a detection is not
\* younger than the newest signal for its signature.
AgeIsSilence ==
  \A s \in Signatures : \A i \in ActiveRows(s) : rows[s][i].age >= silence[s]
=============================================================================
