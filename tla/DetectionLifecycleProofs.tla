---------------------- MODULE DetectionLifecycleProofs ----------------------
(***************************************************************************)
(* Proofs about DetectionLifecycle for every set of signatures, all        *)
(* weights, inputs, decay factors and bounds: about its scores, its        *)
(* invariants and the register that it implements.                         *)
(***************************************************************************)
EXTENDS DetectionLifecycle, TLAPS

-----------------------------------------------------------------------------
(* The scoring operators of ConfidenceEngine, for every window and grid.   *)

(* The integer quotient n \div d is the q with q*d <= n < (q+1)*d.         *)
LEMMA DivisionBounds ==
  ASSUME NEW n \in Nat, NEW d \in Nat \ {0}
  PROVE  /\ n \div d \in Nat
         /\ (n \div d) * d <= n
         /\ n < (n \div d + 1) * d
  BY SMT

(* Rounding a quotient that is at most k gives at most k.                  *)
LEMMA RoundedQuotientBound ==
  ASSUME NEW n \in Nat, NEW d \in Nat \ {0}, NEW k \in Nat, n <= k * d
  PROVE  RoundedQuotient(n, d) \in 0 .. k
<1> DEFINE q == (2 * n + d) \div (2 * d)
<1>1. 2 * n + d \in Nat /\ 2 * d \in Nat \ {0}
  OBVIOUS
<1>2. q \in Nat /\ q * (2 * d) <= 2 * n + d
  BY <1>1, DivisionBounds
<1>3. q <= k
  <2>1. SUFFICES ASSUME q >= k + 1 PROVE FALSE
    BY <1>2
  <2>2. q * (2 * d) >= (k + 1) * (2 * d)
    BY <2>1, <1>1, <1>2
  <2>3. QED BY <2>2, <1>2
<1>4. QED BY <1>2, <1>3 DEF RoundedQuotient

(* A signal type of the breakdown has a score between 0 and One.           *)
LEMMA OneProperties ==
  /\ One \in Nat \ {0}
  /\ DiscardThreshold \in Nat /\ HighThreshold \in Nat
  /\ DiscardThreshold <= HighThreshold /\ HighThreshold <= One
  /\ 5 * (One \div 10) \in Scores
  BY OneAssumption DEF DiscardThreshold, HighThreshold, Scores

(* Adding an event to the evidence of a signature leaves it well formed.   *)
LEMMA AddSignalType ==
  ASSUME NEW ev \in Evidence, NEW type \in SignalTypes, NEW quality \in Scores
  PROVE  /\ AddSignal(ev, type, quality) \in Evidence
         /\ AddSignal(ev, type, quality).count \in 1 .. Window
<1>1. ev.count \in 0 .. Window /\ ev.seen \in SUBSET SignalTypes
      /\ ev.best \in [SignalTypes -> Scores]
  BY DEF Evidence
<1>2. Maximum(ev.best[type], quality) \in Scores
  BY <1>1 DEF Maximum
<1>3. [ev.best EXCEPT ![type] = Maximum(@, quality)] \in [SignalTypes -> Scores]
  BY <1>1, <1>2
<1>4. Minimum(ev.count + 1, Window) \in 1 .. Window
  BY <1>1, WindowAssumption DEF Minimum
<1>5. QED BY <1>1, <1>3, <1>4 DEF AddSignal, Evidence

(* The confidence score is an average: it never leaves [0, 1].             *)
THEOREM ComputeScoreType ==
  ASSUME NEW weights \in [SignalTypes -> 0 .. 100], NEW ev \in Evidence
  PROVE  ComputeScore(weights, ev) \in Scores
<1> DEFINE W(t) == EffectiveWeight(weights, ev, t)
           C(t) == W(t) * ev.best[t]
<1>1. ASSUME NEW t \in SignalTypes
      PROVE  W(t) \in Nat /\ C(t) \in Nat /\ C(t) <= One * W(t)
  <2>1. W(t) \in Nat
    BY DEF EffectiveWeight
  <2>2. ev.best[t] \in Nat /\ ev.best[t] <= One /\ One \in Nat
    BY OneProperties DEF Evidence, Scores
  <2>3. C(t) \in Nat /\ C(t) <= One * W(t)
    BY <2>1, <2>2
  <2>4. QED BY <2>1, <2>3
<1>2. /\ "endpoint_match" \in SignalTypes /\ "identity_match" \in SignalTypes
      /\ "volume_match" \in SignalTypes /\ "keyword_match" \in SignalTypes
  BY DEF SignalTypes
<1>3. /\ TotalWeight(weights, ev) =
           W("endpoint_match") + W("identity_match") + W("volume_match") + W("keyword_match")
      /\ WeightedSum(weights, ev) =
           C("endpoint_match") + C("identity_match") + C("volume_match") + C("keyword_match")
  BY DEF TotalWeight, WeightedSum
<1> HIDE DEF W, C
<1>4. /\ TotalWeight(weights, ev) \in Nat /\ WeightedSum(weights, ev) \in Nat
      /\ WeightedSum(weights, ev) <= One * TotalWeight(weights, ev)
  BY <1>1, <1>2, <1>3, OneProperties
<1>5. CASE TotalWeight(weights, ev) = 0
  BY <1>5, OneProperties DEF ComputeScore, Scores
<1>6. CASE TotalWeight(weights, ev) # 0
  <2>1. RoundedQuotient(WeightedSum(weights, ev), TotalWeight(weights, ev)) \in 0 .. One
    BY <1>4, <1>6, OneProperties, RoundedQuotientBound
  <2>2. QED BY <2>1, <1>6 DEF ComputeScore, Scores
<1>7. QED BY <1>5, <1>6

(* The rolling average of two scores is a score.                           *)
THEOREM RollingAverageType ==
  ASSUME NEW existing \in Scores, NEW count \in 1 .. Window, NEW new \in Scores
  PROVE  RollingAverage(existing, count, new) \in Scores
<1> DEFINE p == Minimum(count - 1, Window - 1)
           w == Minimum(count, Window)
<1>1. p \in Nat /\ w \in Nat \ {0} /\ w = p + 1
  BY WindowAssumption DEF Minimum
<1>2. existing \in Nat /\ existing <= One /\ new \in Nat /\ new <= One /\ One \in Nat
  BY OneProperties DEF Scores
<1> HIDE DEF p, w
<1>3. existing * p \in Nat /\ existing * p <= One * p
  BY <1>1, <1>2
<1>4. existing * p + new \in Nat /\ existing * p + new <= One * w
  BY <1>1, <1>2, <1>3
<1>5. RoundedQuotient(existing * p + new, w) \in 0 .. One
  BY <1>1, <1>2, <1>4, RoundedQuotientBound
<1>6. QED BY <1>5 DEF RollingAverage, Scores, p, w

(* Decay never raises the base confidence it starts from.                  *)
THEOREM DecayedBound ==
  ASSUME NEW base \in Scores, NEW factor \in Scores
  PROVE  Decayed(base, factor) \in 0 .. base
<1>1. base \in Nat /\ factor \in Nat /\ factor <= One /\ One \in Nat \ {0}
  BY OneProperties DEF Scores
<1>2. base * factor \in Nat /\ base * factor <= base * One
  BY <1>1
<1>3. QED BY <1>1, <1>2, RoundedQuotientBound DEF Decayed

\* A decayed score is a score.
LEMMA DecayedType ==
  ASSUME NEW base \in Scores, NEW factor \in Scores
  PROVE  Decayed(base, factor) \in Scores
  BY DecayedBound, OneProperties DEF Scores

\* The band of a score is a band.
LEMMA BandType ==
  ASSUME NEW score \in Scores
  PROVE  Band(score) \in Bands
  BY DEF Band, Bands

-----------------------------------------------------------------------------
(* The invariants of the lifecycle.                                        *)

(* A function on 1..n is a sequence of length n.                           *)
LEMMA FunctionIsSequence ==
  ASSUME NEW S, NEW n \in Nat, NEW f \in [1 .. n -> S]
  PROVE  f \in Seq(S) /\ Len(f) = n /\ DOMAIN f = 1 .. n
  OBVIOUS

(* Rewriting one element of a sequence keeps its length and its type.      *)
LEMMA ExceptIsSequence ==
  ASSUME NEW S, NEW q \in Seq(S), NEW i \in DOMAIN q, NEW d \in S
  PROVE  LET r == [q EXCEPT ![i] = d]
         IN  r \in Seq(S) /\ Len(r) = Len(q) /\ DOMAIN r = DOMAIN q
  OBVIOUS

\* A scan makes a detection of the right type.
LEMMA NewDetectionType ==
  ASSUME NEW score \in Scores
  PROVE  NewDetection(score) \in Detection
  BY BandType, BoundsAssumption DEF NewDetection, Detection, ActiveStatuses, Ages

\* So does the side channel, and both make an active one that is not stale.
LEMMA DarkDetectionType ==
  ASSUME NEW score \in Scores
  PROVE  /\ DarkDetection(score) \in Detection
         /\ DarkDetection(score).dark
         /\ DarkDetection(score).status = "new" /\ DarkDetection(score).stale = FALSE
<1>1. NewDetection(score) \in Detection
  BY NewDetectionType
<1>2. NewDetection(score).status = "new" /\ NewDetection(score).stale = FALSE
  BY DEF NewDetection
<1>3. QED BY <1>1, <1>2 DEF DarkDetection, Detection

\* A scan that sees a detection again keeps its type.
LEMMA ObservedType ==
  ASSUME NEW d \in Detection, NEW count \in 1 .. Window, NEW score \in Scores
  PROVE  Observed(d, count, score) \in Detection
<1> DEFINE average == RollingAverage(d.score, count, score)
<1>1. d.score \in Scores
  BY DEF Detection
<1>2. average \in Scores
  BY <1>1, RollingAverageType
<1>3. Band(average) \in Bands
  BY <1>2, BandType
<1>4. 0 \in Ages /\ "new" \in ActiveStatuses
  BY BoundsAssumption DEF Ages, ActiveStatuses
<1> HIDE DEF average
<1>5. Reactivated(d, average) \in Detection
  BY <1>2, <1>4 DEF Reactivated, Detection
<1>6. Refreshed(d, average) \in Detection
  BY <1>2, <1>3, <1>4 DEF Refreshed, Detection
<1>7. QED BY <1>5, <1>6 DEF Observed, average

(* The scores of a tool's evidence and of a decayed detection are scores.  *)
LEMMA DecayTypeLemma ==
  ASSUME NEW t \in Tools, NEW d \in Detection
  PROVE  Decay(t, d) \in Detection
<1> DEFINE score == Decayed(d.base, Factor(t, d))
<1>1. d.base \in Scores /\ d.age \in Ages
  BY DEF Detection
<1>2. Factor(t, d) \in Scores
  BY <1>1, DecayAssumption DEF Factor
<1>3. score \in Scores
  BY <1>1, <1>2, DecayedType
<1> HIDE DEF score
<1>4. [d EXCEPT !.score = score] \in Detection
  BY <1>3 DEF Detection
<1>5. [d EXCEPT !.score = score, !.stale = TRUE, !.status = "needs_review"] \in Detection
  BY <1>3 DEF Detection, ActiveStatuses
<1>6. QED BY <1>4, <1>5 DEF Decay, score

-----------------------------------------------------------------------------
(***************************************************************************)
(* The inductive invariant is the conjunction of the checked invariants.   *)
(* They need each other: a dismissal leaves its tool without an active     *)
(* detection (SuppressedToolIsQuiet) because only the newest one was       *)
(* active (OnlyNewestActive), a run of the detection creates a row only    *)
(* where no row is active and no suppression stands, and the side channel  *)
(* a dark one only where no row is active.                                 *)
(***************************************************************************)
IInv == /\ TypeOK
        /\ OnlyNewestActive
        /\ SuppressedToolIsQuiet
        /\ InventoryMatchesRegistered
        /\ StaleBelowThreshold

StaleOK(d) == Active(d) /\ d.stale => d.score < DiscardThreshold /\ d.status # "new"

Kept(d, e) == IF Active(d) THEN Active(e) /\ e.dark = d.dark ELSE e = d

\* The detections new of tool t continue the detections old: closed ones are
\* kept as they are, active ones stay active and as dark as they were, and at
\* most one is added: for a signature only when it has no active one, and a
\* dark one if it is suppressed; no dark one without a signature.
Continues(t, old, new) ==
  /\ new \in Seq(Detection)
  /\ Len(new) \in {Len(old), Len(old) + 1}
  /\ \A i \in DOMAIN old : Kept(old[i], new[i])
  /\ Len(new) = Len(old) + 1 =>
       /\ Active(new[Len(new)])
       /\ t \notin Signatures => ~new[Len(new)].dark
       /\ t \in Signatures => /\ t \in suppressed => new[Len(new)].dark
                              /\ \A i \in DOMAIN old : ~Active(old[i])
  /\ \A i \in DOMAIN new : StaleOK(new[i])

(* Leaving a tool's detections alone continues them.                       *)
LEMMA SameContinues ==
  ASSUME IInv, NEW t \in Tools
  PROVE  Continues(t, rows[t], rows[t])
<1>1. rows[t] \in Seq(Detection)
  BY DEF IInv, TypeOK
<1>2. \A i \in DOMAIN rows[t] : StaleOK(rows[t][i])
  BY DEF IInv, StaleBelowThreshold, StaleOK, ActiveRows
<1>3. Len(rows[t]) # Len(rows[t]) + 1
  BY <1>1
<1>4. QED BY <1>1, <1>2, <1>3 DEF Continues, Kept

(* Appending a detection continues a tool that has no active one.          *)
LEMMA AppendContinues ==
  ASSUME IInv, NEW t \in Tools, NEW d \in Detection, d.status = "new", d.stale = FALSE,
         t \in Signatures => (t \in suppressed => d.dark) /\ ActiveRows(t) = {},
         t \notin Signatures => ~d.dark
  PROVE  Continues(t, rows[t], Append(rows[t], d))
<1> DEFINE q == Append(rows[t], d)
<1>1. rows[t] \in Seq(Detection) /\ d \in Detection
  BY DEF IInv, TypeOK
<1>2. Active(d) /\ StaleOK(d)
  BY DEF Active, ActiveStatuses, StaleOK
<1>3. /\ q \in Seq(Detection) /\ Len(q) = Len(rows[t]) + 1 /\ q[Len(q)] = d
      /\ \A i \in DOMAIN rows[t] : i \in DOMAIN q /\ q[i] = rows[t][i]
      /\ \A i \in DOMAIN q : i \in DOMAIN rows[t] \/ q[i] = d
  BY <1>1
<1>4. \A i \in DOMAIN rows[t] : StaleOK(rows[t][i])
  BY DEF IInv, StaleBelowThreshold, StaleOK, ActiveRows
<1>5. \A i \in DOMAIN q : StaleOK(q[i])
  BY <1>2, <1>3, <1>4
<1>6. t \in Signatures => \A i \in DOMAIN rows[t] : ~Active(rows[t][i])
  BY DEF ActiveRows
<1> HIDE DEF q
<1>7. Continues(t, rows[t], q)
  BY <1>1, <1>2, <1>3, <1>5, <1>6 DEF Continues, Kept
<1>8. QED BY <1>7 DEF q

(* Rewriting each row of a tool, the closed ones by themselves and the     *)
(* active ones by an active row, continues the tool.                       *)
LEMMA MapContinues ==
  ASSUME IInv, NEW t \in Tools, NEW q,
         DOMAIN q = DOMAIN rows[t],
         q = [i \in DOMAIN rows[t] |-> q[i]],
         \A i \in DOMAIN rows[t] :
           /\ q[i] \in Detection
           /\ StaleOK(q[i])
           /\ Kept(rows[t][i], q[i])
  PROVE  Continues(t, rows[t], q)
<1>1. rows[t] \in Seq(Detection) /\ Len(rows[t]) \in Nat /\ DOMAIN rows[t] = 1 .. Len(rows[t])
  BY DEF IInv, TypeOK
<1>2. q \in [1 .. Len(rows[t]) -> Detection]
  BY <1>1
<1>3. q \in Seq(Detection) /\ Len(q) = Len(rows[t])
  BY <1>1, <1>2, FunctionIsSequence
<1>4. Len(q) # Len(rows[t]) + 1
  BY <1>1, <1>3
<1>5. \A i \in DOMAIN q : StaleOK(q[i])
  BY Zenon
<1>6. \A i \in DOMAIN rows[t] : Kept(rows[t][i], q[i])
  OBVIOUS
<1>7. QED BY ONLY <1>3, <1>4, <1>5, <1>6 DEF Continues

(* An observed detection stays active and dark or not, and is not stale.   *)
LEMMA ObservedActive ==
  ASSUME NEW d \in Detection, NEW count, NEW score, Active(d)
  PROVE  Kept(d, Observed(d, count, score)) /\ StaleOK(Observed(d, count, score))
<1> DEFINE average == RollingAverage(d.score, count, score)
<1> HIDE DEF average
<1>1. ASSUME d.stale
      PROVE  /\ Reactivated(d, average).status = "new" /\ Reactivated(d, average).stale = FALSE
             /\ Reactivated(d, average).dark = d.dark
  BY DEF Reactivated, Detection
<1>2. ASSUME ~d.stale
      PROVE  /\ Refreshed(d, average).status = d.status /\ Refreshed(d, average).stale = d.stale
             /\ Refreshed(d, average).dark = d.dark
  BY DEF Refreshed, Detection
<1>3. d.stale \in BOOLEAN
  BY DEF Detection
<1>4. QED BY <1>1, <1>2, <1>3 DEF Observed, StaleOK, Kept, Active, ActiveStatuses, average

(* run_detection continues the detections of every signature.              *)
LEMMA DetectedContinues ==
  ASSUME IInv, NEW s \in Signatures, NEW ev \in Evidence
  PROVE  Continues(s, rows[s], Detected(s, ev))
<1> DEFINE score == ComputeScore(Weights[s], ev)
           q == [i \in DOMAIN rows[s] |->
                   IF Active(rows[s][i]) THEN Observed(rows[s][i], ev.count, score)
                                         ELSE rows[s][i]]
<1>1. s \in Tools /\ score \in Scores
  BY WeightsAssumption, ComputeScoreType DEF Tools
<1>2. ev.count \in 0 .. Window
  BY DEF Evidence
<1>3. rows[s] \in Seq(Detection)
  BY <1>1 DEF IInv, TypeOK
<1>4. \A i \in DOMAIN rows[s] : rows[s][i] \in Detection
  BY <1>3
<1> HIDE DEF score
<1>5. CASE ev.count = 0 \/ Band(score) = "discard"
  <2>1. Detected(s, ev) = rows[s]
    BY <1>5 DEF Detected, score
  <2>2. QED BY <2>1, <1>1, SameContinues
<1>6. CASE ev.count # 0 /\ Band(score) # "discard" /\ ActiveRows(s) # {}
  <2>1. Detected(s, ev) = q
    BY <1>6 DEF Detected, score
  <2>2. ASSUME NEW i \in DOMAIN rows[s]
        PROVE  /\ q[i] \in Detection
               /\ StaleOK(q[i])
               /\ Kept(rows[s][i], q[i])
    <3>1. rows[s][i] \in Detection /\ ev.count \in 1 .. Window
      BY <1>2, <1>4, <1>6, WindowAssumption
    <3>2. CASE Active(rows[s][i])
      <4>1. q[i] = Observed(rows[s][i], ev.count, score)
        BY <3>2
      <4>2. QED BY <4>1, <3>1, <3>2, <1>1, ObservedType, ObservedActive
    <3>3. CASE ~Active(rows[s][i])
      <4>1. q[i] = rows[s][i]
        BY <3>3
      <4>2. QED BY <4>1, <3>1, <3>3 DEF StaleOK, Kept
    <3>4. QED BY <3>2, <3>3
  <2>3. DOMAIN q = DOMAIN rows[s] /\ q = [i \in DOMAIN rows[s] |-> q[i]]
    OBVIOUS
  <2> HIDE DEF q
  <2>4. QED BY <2>1, <2>2, <2>3, <1>1, MapContinues
<1>7. CASE ev.count # 0 /\ Band(score) # "discard" /\ ActiveRows(s) = {}
  <2>1. CASE s \in suppressed
    <3>1. Detected(s, ev) = rows[s]
      BY <1>7, <2>1 DEF Detected, IsSuppressed, score
    <3>2. QED BY <3>1, <1>1, SameContinues
  <2>2. CASE s \notin suppressed
    <3>1. Detected(s, ev) = Append(rows[s], NewDetection(score))
      BY <1>7, <2>2 DEF Detected, IsSuppressed, score
    <3>2. /\ NewDetection(score) \in Detection
          /\ NewDetection(score).status = "new" /\ NewDetection(score).stale = FALSE
      BY <1>1, NewDetectionType DEF NewDetection
    <3>3. QED BY <3>1, <3>2, <2>2, <1>1, <1>7, AppendContinues
  <2>3. QED BY <2>1, <2>2
<1>8. QED BY <1>5, <1>6, <1>7

(* Ageing and decay continue the detections of every tool.                 *)
LEMMA AgedContinues ==
  ASSUME IInv, NEW t \in Tools
  PROVE  Continues(t, rows[t], [i \in DOMAIN rows[t] |->
           IF Active(rows[t][i]) THEN [rows[t][i] EXCEPT !.age = Older(@)] ELSE rows[t][i]])
<1> DEFINE q == [i \in DOMAIN rows[t] |->
             IF Active(rows[t][i]) THEN [rows[t][i] EXCEPT !.age = Older(@)] ELSE rows[t][i]]
<1>1. ASSUME NEW i \in DOMAIN rows[t]
      PROVE  /\ q[i] \in Detection
             /\ StaleOK(q[i])
             /\ Kept(rows[t][i], q[i])
  <2> DEFINE d == rows[t][i]
             e == [d EXCEPT !.age = Older(@)]
  <2>1. d \in Detection
    BY DEF IInv, TypeOK
  <2>2. StaleOK(d)
    BY DEF IInv, StaleBelowThreshold, StaleOK, ActiveRows
  <2> HIDE DEF d
  <2>3. d.age \in Ages /\ Older(d.age) \in Ages
    BY <2>1, BoundsAssumption DEF Detection, Older, Minimum, Ages
  <2>4. e \in Detection /\ e.status = d.status /\ e.stale = d.stale /\ e.score = d.score
        /\ e.dark = d.dark
    BY <2>1, <2>3 DEF Detection
  <2>5. q[i] = IF Active(d) THEN e ELSE d
    BY DEF d
  <2> HIDE DEF q, e
  <2>6. StaleOK(e) /\ (Active(e) <=> Active(d))
    BY <2>2, <2>4 DEF StaleOK, Active
  <2>7. CASE Active(d)
    BY <2>4, <2>5, <2>6, <2>7 DEF d, Kept
  <2>8. CASE ~Active(d)
    BY <2>1, <2>2, <2>5, <2>8 DEF d, Kept
  <2>9. QED BY <2>7, <2>8
<1>2. DOMAIN q = DOMAIN rows[t] /\ q = [i \in DOMAIN rows[t] |-> q[i]]
  OBVIOUS
<1> HIDE DEF q
<1>3. Continues(t, rows[t], q)
  BY <1>1, <1>2, MapContinues
<1>4. QED BY <1>3 DEF q

\* A decay pass continues the detections of a tool: it closes and opens none.
LEMMA DecayContinues ==
  ASSUME IInv, NEW t \in Tools
  PROVE  Continues(t, rows[t], [i \in DOMAIN rows[t] |-> Decay(t, rows[t][i])])
<1> DEFINE q == [i \in DOMAIN rows[t] |-> Decay(t, rows[t][i])]
<1>1. ASSUME NEW i \in DOMAIN rows[t]
      PROVE  /\ q[i] \in Detection
             /\ StaleOK(q[i])
             /\ Kept(rows[t][i], q[i])
  <2> DEFINE d == rows[t][i]
             score == Decayed(d.base, Factor(t, d))
             low == [d EXCEPT !.score = score, !.stale = TRUE, !.status = "needs_review"]
             high == [d EXCEPT !.score = score]
  <2>1. d \in Detection
    BY DEF IInv, TypeOK
  <2>2. StaleOK(d)
    BY DEF IInv, StaleBelowThreshold, StaleOK, ActiveRows
  <2>3. q[i] = Decay(t, d)
    OBVIOUS
  <2> HIDE DEF d
  <2>4. Decay(t, d) \in Detection
    BY <2>1, DecayTypeLemma
  <2> HIDE DEF q, score
  <2>5. CASE ~Active(d) \/ d.stale \/ d.age = 0
    <3>1. Decay(t, d) = d
      BY <2>5 DEF Decay
    <3>2. QED BY <3>1, <2>1, <2>2, <2>3 DEF d, Kept
  <2>6. CASE Active(d) /\ ~d.stale /\ d.age # 0 /\ score < DiscardThreshold
    <3>1. Decay(t, d) = low
      BY <2>6 DEF Decay, score
    <3>2. low.score = score /\ low.status = "needs_review" /\ low.dark = d.dark
      BY <2>1 DEF Detection
    <3>3. Active(low) /\ StaleOK(low)
      BY <3>2, <2>6 DEF Active, ActiveStatuses, StaleOK
    <3>4. QED BY <3>1, <3>2, <3>3, <2>3, <2>4, <2>6 DEF d, Kept
  <2>7. CASE Active(d) /\ ~d.stale /\ d.age # 0 /\ ~(score < DiscardThreshold)
    <3>1. Decay(t, d) = high
      BY <2>7 DEF Decay, score
    <3>2. high.stale = d.stale /\ high.status = d.status /\ high.dark = d.dark
      BY <2>1 DEF Detection
    <3>3. Active(high) /\ StaleOK(high)
      BY <3>2, <2>7 DEF Active, StaleOK
    <3>4. QED BY <3>1, <3>2, <3>3, <2>3, <2>4, <2>7 DEF d, Kept
  <2>8. QED BY <2>5, <2>6, <2>7
<1>2. DOMAIN q = DOMAIN rows[t] /\ q = [i \in DOMAIN rows[t] |-> q[i]]
  OBVIOUS
<1> HIDE DEF q
<1>3. Continues(t, rows[t], q)
  BY <1>1, <1>2, MapContinues
<1>4. QED BY <1>3 DEF q

(* What setting the status of one row changes, and all it changes.         *)
LEMMA WithStatusFacts ==
  ASSUME IInv, NEW t \in Tools, NEW i \in DOMAIN rows[t],
         NEW status \in ActiveStatuses \cup TerminalStatuses
  PROVE  LET r == WithStatus(t, i, status)
         IN  /\ r \in [Tools -> Seq(Detection)]
             /\ \A u \in Tools : Len(r[u]) = Len(rows[u]) /\ DOMAIN r[u] = DOMAIN rows[u]
             /\ \A u \in Tools : u # t => r[u] = rows[u]
             /\ \A j \in DOMAIN rows[t] : j # i => r[t][j] = rows[t][j]
             /\ r[t][i].status = status
             /\ r[t][i].stale = rows[t][i].stale
             /\ r[t][i].score = rows[t][i].score
             /\ r[t][i].dark = rows[t][i].dark
<1> DEFINE d == rows[t][i]
           e == [d EXCEPT !.status = status]
           q == [rows[t] EXCEPT ![i] = e]
           r == [rows EXCEPT ![t] = q]
<1>1. rows \in [Tools -> Seq(Detection)] /\ rows[t] \in Seq(Detection) /\ d \in Detection
  BY DEF IInv, TypeOK
<1>2. WithStatus(t, i, status) = r
  BY DEF WithStatus
<1> HIDE DEF d
<1>3. /\ e \in Detection /\ e.status = status
      /\ e.stale = d.stale /\ e.score = d.score /\ e.dark = d.dark
  BY <1>1 DEF Detection
<1> HIDE DEF e
<1>4. /\ q \in Seq(Detection) /\ Len(q) = Len(rows[t]) /\ DOMAIN q = DOMAIN rows[t]
      /\ q[i] = e /\ \A j \in DOMAIN rows[t] : j # i => q[j] = rows[t][j]
  BY <1>1, <1>3, ExceptIsSequence
<1> HIDE DEF q
<1>5. r \in [Tools -> Seq(Detection)] /\ r[t] = q /\ \A u \in Tools : u # t => r[u] = rows[u]
  BY <1>1, <1>4
<1> HIDE DEF r
<1>6. \A u \in Tools : Len(r[u]) = Len(rows[u]) /\ DOMAIN r[u] = DOMAIN rows[u]
  BY <1>4, <1>5
<1>7. /\ r[t][i].status = status /\ r[t][i].stale = d.stale
      /\ r[t][i].score = d.score /\ r[t][i].dark = d.dark
  BY <1>3, <1>4, <1>5
<1>8. \A j \in DOMAIN rows[t] : j # i => r[t][j] = rows[t][j]
  BY <1>4, <1>5
<1>9. QED BY <1>2, <1>5, <1>6, <1>7, <1>8 DEF d

(* A review continues the detections of the tool.                          *)
LEMMA ReviewContinues ==
  ASSUME IInv, NEW t \in Tools, NEW i \in ActiveRows(t), NEW u \in Tools
  PROVE  Continues(u, rows[u], WithStatus(t, i, "reviewed")[u])
<1> DEFINE r == WithStatus(t, i, "reviewed")
<1>1. i \in DOMAIN rows[t] /\ Active(rows[t][i])
  BY DEF ActiveRows
<1>2. "reviewed" \in ActiveStatuses
  BY DEF ActiveStatuses
<1>3. /\ r \in [Tools -> Seq(Detection)]
      /\ \A v \in Tools : Len(r[v]) = Len(rows[v]) /\ DOMAIN r[v] = DOMAIN rows[v]
      /\ \A v \in Tools : v # t => r[v] = rows[v]
      /\ \A j \in DOMAIN rows[t] : j # i => r[t][j] = rows[t][j]
      /\ r[t][i].status = "reviewed"
      /\ r[t][i].stale = rows[t][i].stale
      /\ r[t][i].score = rows[t][i].score
      /\ r[t][i].dark = rows[t][i].dark
  BY <1>1, <1>2, WithStatusFacts
<1> HIDE DEF r
<1>4. CASE u # t
  BY <1>3, <1>4, SameContinues DEF r
<1>5. CASE u = t
  <2>1. \A j \in DOMAIN rows[t] : StaleOK(rows[t][j])
    BY DEF IInv, StaleBelowThreshold, StaleOK, ActiveRows
  <2>2. StaleOK(r[t][i]) /\ Active(r[t][i])
    BY <1>1, <1>2, <1>3, <2>1 DEF StaleOK, Active
  <2>3. rows[t] \in Seq(Detection) /\ r[t] \in Seq(Detection)
    BY <1>3 DEF IInv, TypeOK
  <2>4. ASSUME NEW j \in DOMAIN rows[t]
        PROVE  /\ r[t][j] \in Detection
               /\ StaleOK(r[t][j])
               /\ Kept(rows[t][j], r[t][j])
    <3>1. r[t][j] \in Detection
      BY <1>3, <2>3
    <3>2. CASE j = i
      BY <3>1, <3>2, <2>2, <1>1, <1>3 DEF Kept
    <3>3. CASE j # i
      BY <3>1, <3>3, <2>1, <1>3 DEF Kept
    <3>4. QED BY <3>2, <3>3
  <2>5. DOMAIN r[t] = DOMAIN rows[t] /\ r[t] = [j \in DOMAIN rows[t] |-> r[t][j]]
    BY <1>3, <2>3
  <2>6. Continues(t, rows[t], r[t])
    BY <2>4, <2>5, MapContinues
  <2>7. QED BY <2>6, <1>5 DEF r
<1>6. QED BY <1>4, <1>5

-----------------------------------------------------------------------------
(* Steps.                                                                  *)

\* What a step leaves to check once the detections are looked after.
EnvironmentTyped ==
  /\ mentioned \in SUBSET Signatures
  /\ hashed \in SUBSET Signatures
  /\ evidence \in [Signatures -> Evidence]
  /\ silence \in [Signatures -> Ages]

(* A step that continues the detections of every tool and touches neither  *)
(* the suppressions nor the inventory keeps the invariant.                 *)
LEMMA RowsStep ==
  ASSUME IInv, EnvironmentTyped',
         DOMAIN rows' = Tools, rows' = [t \in Tools |-> rows'[t]],
         \A t \in Tools : Continues(t, rows[t], rows'[t]),
         suppressed' = suppressed, inventory' = inventory
  PROVE  IInv'
<1>1. ASSUME NEW t \in Tools
      PROVE  /\ rows[t] \in Seq(Detection) /\ rows'[t] \in Seq(Detection)
             /\ Len(rows[t]) \in Nat /\ Len(rows'[t]) \in {Len(rows[t]), Len(rows[t]) + 1}
             /\ DOMAIN rows[t] = 1 .. Len(rows[t]) /\ DOMAIN rows'[t] = 1 .. Len(rows'[t])
             /\ \A i \in DOMAIN rows[t] : Kept(rows[t][i], rows'[t][i])
             /\ Len(rows'[t]) = Len(rows[t]) + 1 =>
                  /\ Active(rows'[t][Len(rows'[t])])
                  /\ t \in Signatures => /\ t \in suppressed => rows'[t][Len(rows'[t])].dark
                                         /\ \A i \in DOMAIN rows[t] : ~Active(rows[t][i])
             /\ \A i \in DOMAIN rows'[t] : StaleOK(rows'[t][i])
  <2>1. rows[t] \in Seq(Detection)
    BY DEF IInv, TypeOK
  <2>2. Continues(t, rows[t], rows'[t])
    OBVIOUS
  <2>3. QED BY <2>1, <2>2 DEF Continues
<1>2. TypeOK'
  <2>1. rows' \in [Tools -> Seq(Detection)]
    BY <1>1
  <2>2. QED BY <2>1 DEF IInv, TypeOK, EnvironmentTyped
<1>3. OnlyNewestActive'
  <2>1. SUFFICES ASSUME NEW s \in Signatures, NEW i \in DOMAIN rows'[s], Active(rows'[s][i])
                 PROVE  i = Len(rows'[s])
    BY DEF OnlyNewestActive, ActiveRows
  <2>2. s \in Tools
    BY DEF Tools
  <2>3. ActiveRows(s) \subseteq {Len(rows[s])}
    BY DEF IInv, OnlyNewestActive
  <2>4. CASE i \in DOMAIN rows[s]
    <3>1. Active(rows[s][i])
      BY <1>1, <2>1, <2>2, <2>4 DEF Kept, Active
    <3>2. i = Len(rows[s])
      BY <3>1, <2>3, <2>4 DEF ActiveRows
    <3>3. Len(rows'[s]) # Len(rows[s]) + 1
      BY <1>1, <2>2, <2>4, <3>1
    <3>4. QED BY <1>1, <2>2, <3>2, <3>3
  <2>5. CASE i \notin DOMAIN rows[s]
    BY <1>1, <2>2, <2>5
  <2>6. QED BY <2>4, <2>5
<1>4. SuppressedToolIsQuiet'
  <2>1. SUFFICES ASSUME NEW s \in Signatures \cap suppressed, NEW i \in DOMAIN rows'[s],
                        Active(rows'[s][i])
                 PROVE  rows'[s][i].dark
    BY DEF SuppressedToolIsQuiet, ActiveRows
  <2>2. s \in Tools
    BY DEF Tools
  <2>3. \A j \in DOMAIN rows[s] : Active(rows[s][j]) => rows[s][j].dark
    BY DEF IInv, SuppressedToolIsQuiet, ActiveRows
  <2>4. CASE i \in DOMAIN rows[s]
    <3>1. Kept(rows[s][i], rows'[s][i])
      BY <1>1, <2>2, <2>4
    <3>2. QED BY <2>1, <2>3, <2>4, <3>1 DEF Kept
  <2>5. CASE i \notin DOMAIN rows[s]
    <3>1. Len(rows'[s]) = Len(rows[s]) + 1 /\ i = Len(rows'[s])
      BY <1>1, <2>2, <2>5
    <3>2. QED BY <1>1, <2>2, <3>1
  <2>6. QED BY <2>4, <2>5
<1>5. InventoryMatchesRegistered'
  <2>1. ASSUME NEW e \in inventory
        PROVE  e[2] \in DOMAIN rows'[e[1]] /\ rows'[e[1]][e[2]].status = "registered"
    <3>1. e[1] \in Tools /\ e[2] \in DOMAIN rows[e[1]] /\ rows[e[1]][e[2]].status = "registered"
      BY DEF IInv, TypeOK, InventoryMatchesRegistered
    <3>2. ~Active(rows[e[1]][e[2]])
      BY <3>1 DEF Active, ActiveStatuses
    <3>3. QED BY <1>1, <3>1, <3>2 DEF Kept
  <2>2. ASSUME NEW t \in Tools, NEW i \in DOMAIN rows'[t], rows'[t][i].status = "registered"
        PROVE  <<t, i>> \in inventory
    <3>1. ~Active(rows'[t][i])
      BY <2>2 DEF Active, ActiveStatuses
    <3>2. i \in DOMAIN rows[t]
      BY <1>1, <3>1
    <3>3. rows'[t][i] = rows[t][i]
      BY <1>1, <3>1, <3>2 DEF Kept
    <3>4. QED BY <2>2, <3>2, <3>3 DEF IInv, InventoryMatchesRegistered
  <2>3. QED BY <2>1, <2>2 DEF InventoryMatchesRegistered
<1>6. StaleBelowThreshold'
  <2>1. SUFFICES ASSUME NEW t \in Tools, NEW i \in DOMAIN rows'[t],
                        Active(rows'[t][i]), rows'[t][i].stale
                 PROVE  rows'[t][i].score < DiscardThreshold /\ rows'[t][i].status # "new"
    BY DEF StaleBelowThreshold, ActiveRows
  <2>2. StaleOK(rows'[t][i])
    BY <1>1
  <2>3. QED BY <2>1, <2>2 DEF StaleOK
<1>7. QED BY <1>2, <1>3, <1>4, <1>5, <1>6 DEF IInv

(* The same step keeps every closed detection as it is.                    *)
LEMMA RowsStepFrozen ==
  ASSUME IInv, NEW t \in Tools, NEW i \in DOMAIN rows[t], ~Active(rows[t][i]),
         Continues(t, rows[t], rows'[t])
  PROVE  i \in DOMAIN rows'[t] /\ rows'[t][i] = rows[t][i]
<1>1. rows[t] \in Seq(Detection) /\ rows'[t] \in Seq(Detection)
  BY DEF IInv, TypeOK, Continues
<1>2. Len(rows'[t]) \in {Len(rows[t]), Len(rows[t]) + 1} /\ rows'[t][i] = rows[t][i]
  BY DEF Continues, Kept
<1>3. QED BY <1>1, <1>2

(* Closing the active detection i of tool t changes that row only, and     *)
(* leaves a signature without an active detection.                         *)
LEMMA CloseFacts ==
  ASSUME IInv, NEW t \in Tools, NEW i \in ActiveRows(t), NEW status \in TerminalStatuses,
         rows' = WithStatus(t, i, status)
  PROVE  /\ rows' \in [Tools -> Seq(Detection)]
         /\ \A u \in Tools : DOMAIN rows'[u] = DOMAIN rows[u] /\ Len(rows'[u]) = Len(rows[u])
         /\ \A u \in Tools : \A j \in DOMAIN rows[u] :
              u # t \/ j # i => rows'[u][j] = rows[u][j]
         /\ rows'[t][i].status = status
         /\ \A u \in Tools : \A j \in DOMAIN rows'[u] :
              rows'[u][j].status \in ActiveStatuses
                => rows'[u][j] = rows[u][j] /\ rows[u][j].status \in ActiveStatuses
         /\ t \in Signatures => \A j \in DOMAIN rows'[t] : rows'[t][j].status \notin ActiveStatuses
<1>1. i \in DOMAIN rows[t] /\ rows[t][i].status \in ActiveStatuses
  BY DEF ActiveRows, Active
<1>2. /\ rows' \in [Tools -> Seq(Detection)]
      /\ \A u \in Tools : DOMAIN rows'[u] = DOMAIN rows[u] /\ Len(rows'[u]) = Len(rows[u])
      /\ \A u \in Tools : u # t => rows'[u] = rows[u]
      /\ \A j \in DOMAIN rows[t] : j # i => rows'[t][j] = rows[t][j]
      /\ rows'[t][i].status = status
  BY <1>1, WithStatusFacts
<1>3. status \notin ActiveStatuses
  BY DEF ActiveStatuses, TerminalStatuses
<1>4. \A u \in Tools : \A j \in DOMAIN rows[u] : u # t \/ j # i => rows'[u][j] = rows[u][j]
  BY <1>2
<1>5. ASSUME NEW u \in Tools, NEW j \in DOMAIN rows'[u], rows'[u][j].status \in ActiveStatuses
      PROVE  rows'[u][j] = rows[u][j] /\ rows[u][j].status \in ActiveStatuses
  <2>1. u # t \/ j # i
    BY <1>2, <1>3, <1>5
  <2>2. QED BY <1>2, <1>4, <1>5, <2>1
<1>6. ASSUME t \in Signatures, NEW j \in DOMAIN rows'[t], rows'[t][j].status \in ActiveStatuses
      PROVE  FALSE
  <2>1. \A k \in DOMAIN rows[t] : rows[t][k].status \in ActiveStatuses => k = Len(rows[t])
    BY <1>6 DEF IInv, OnlyNewestActive, ActiveRows, Active
  <2>2. j \in DOMAIN rows[t] /\ rows[t][j].status \in ActiveStatuses
    BY <1>2, <1>5, <1>6
  <2>3. j = i
    BY <1>1, <2>1, <2>2
  <2>4. QED BY <1>2, <1>3, <1>6, <2>3
<1>7. QED BY <1>2, <1>4, <1>5, <1>6

(* So it keeps the parts of the invariant that only speak of detections.   *)
LEMMA CloseKeeps ==
  ASSUME IInv, NEW t \in Tools, NEW i \in ActiveRows(t), NEW status \in TerminalStatuses,
         rows' = WithStatus(t, i, status)
  PROVE  /\ OnlyNewestActive'
         /\ StaleBelowThreshold'
         /\ \A s \in Signatures \cap (suppressed \cup {t}) :
              \A j \in DOMAIN rows'[s] :
                rows'[s][j].status \in ActiveStatuses => rows'[s][j].dark
<1>1. /\ \A u \in Tools : DOMAIN rows'[u] = DOMAIN rows[u] /\ Len(rows'[u]) = Len(rows[u])
      /\ \A u \in Tools : \A j \in DOMAIN rows'[u] :
           rows'[u][j].status \in ActiveStatuses
             => rows'[u][j] = rows[u][j] /\ rows[u][j].status \in ActiveStatuses
      /\ t \in Signatures => \A j \in DOMAIN rows'[t] : rows'[t][j].status \notin ActiveStatuses
  BY CloseFacts
<1>2. Signatures \subseteq Tools
  BY DEF Tools
<1>3. OnlyNewestActive'
  BY <1>1, <1>2 DEF IInv, OnlyNewestActive, ActiveRows, Active
<1>4. StaleBelowThreshold'
  BY <1>1 DEF IInv, StaleBelowThreshold, ActiveRows, Active
<1>5. ASSUME NEW s \in Signatures \cap (suppressed \cup {t}), NEW j \in DOMAIN rows'[s],
             rows'[s][j].status \in ActiveStatuses
      PROVE  rows'[s][j].dark
  <2>1. CASE s = t
    BY <1>1, <1>5, <2>1
  <2>2. CASE s \in suppressed
    <3>1. \A k \in DOMAIN rows[s] : rows[s][k].status \in ActiveStatuses => rows[s][k].dark
      BY <2>2 DEF IInv, SuppressedToolIsQuiet, ActiveRows, Active
    <3>2. QED BY <1>1, <1>2, <1>5, <3>1
  <2>3. QED BY <2>1, <2>2
<1>6. QED BY <1>3, <1>4, <1>5

\* A dismissal preserves the invariant, because the active detection was the only one.
LEMMA DismissStep ==
  ASSUME IInv, NEW t \in Tools, NEW i \in DOMAIN rows[t], DismissDetection(t, i)
  PROVE  IInv'
<1>1. /\ i \in ActiveRows(t) /\ rows' = WithStatus(t, i, "dismissed")
      /\ suppressed' = suppressed \cup {t} /\ inventory' = inventory
      /\ UNCHANGED <<mentioned, hashed, evidence, silence>>
  BY DEF DismissDetection
<1>2. "dismissed" \in TerminalStatuses /\ "dismissed" # "registered"
  BY DEF TerminalStatuses
<1>3. TypeOK'
  BY <1>1, <1>2, CloseFacts DEF IInv, TypeOK
<1>4. OnlyNewestActive' /\ StaleBelowThreshold'
  BY <1>1, <1>2, CloseKeeps
<1>5. SuppressedToolIsQuiet'
  BY <1>1, <1>2, CloseKeeps DEF SuppressedToolIsQuiet, ActiveRows, Active
<1>6. InventoryMatchesRegistered'
  <2>1. /\ \A u \in Tools : DOMAIN rows'[u] = DOMAIN rows[u]
        /\ \A u \in Tools : \A j \in DOMAIN rows[u] :
             u # t \/ j # i => rows'[u][j] = rows[u][j]
        /\ rows'[t][i].status = "dismissed"
    BY <1>1, <1>2, CloseFacts
  <2>2. rows[t][i].status # "registered"
    BY <1>1 DEF ActiveRows, Active, ActiveStatuses
  <2>3. inventory \subseteq Tools \X Nat
    BY DEF IInv, TypeOK
  <2>4. ASSUME NEW e \in inventory
        PROVE  e[2] \in DOMAIN rows'[e[1]] /\ rows'[e[1]][e[2]].status = "registered"
    <3>1. e[1] \in Tools /\ e[2] \in DOMAIN rows[e[1]] /\ rows[e[1]][e[2]].status = "registered"
      BY <2>3 DEF IInv, InventoryMatchesRegistered
    <3>2. e[1] # t \/ e[2] # i
      BY <2>2, <3>1
    <3>3. QED BY <2>1, <3>1, <3>2
  <2>5. ASSUME NEW u \in Tools, NEW j \in DOMAIN rows'[u], rows'[u][j].status = "registered"
        PROVE  <<u, j>> \in inventory
    BY <2>1, <2>5, <1>2 DEF IInv, InventoryMatchesRegistered
  <2>6. QED BY <1>1, <2>4, <2>5 DEF InventoryMatchesRegistered
<1>7. QED BY <1>3, <1>4, <1>5, <1>6 DEF IInv

\* An escalation preserves the invariant: the detection and its AI system come together.
LEMMA EscalateStep ==
  ASSUME IInv, NEW t \in Tools, NEW i \in DOMAIN rows[t], EscalateDetection(t, i)
  PROVE  IInv'
<1>1. /\ i \in ActiveRows(t) /\ rows' = WithStatus(t, i, "registered")
      /\ suppressed' = suppressed /\ inventory' = inventory \cup {<<t, i>>}
      /\ UNCHANGED <<mentioned, hashed, evidence, silence>>
  BY DEF EscalateDetection
<1>2. "registered" \in TerminalStatuses
  BY DEF TerminalStatuses
<1>3. i \in Nat
  <2>1. rows[t] \in Seq(Detection)
    BY DEF IInv, TypeOK
  <2>2. QED BY <2>1
<1>4. TypeOK'
  BY <1>1, <1>2, <1>3, CloseFacts DEF IInv, TypeOK
<1>5. OnlyNewestActive' /\ StaleBelowThreshold'
  BY <1>1, <1>2, CloseKeeps
<1>6. SuppressedToolIsQuiet'
  BY <1>1, <1>2, CloseKeeps DEF SuppressedToolIsQuiet, ActiveRows, Active
<1>7. InventoryMatchesRegistered'
  <2>1. /\ \A u \in Tools : DOMAIN rows'[u] = DOMAIN rows[u]
        /\ \A u \in Tools : \A j \in DOMAIN rows[u] :
             u # t \/ j # i => rows'[u][j] = rows[u][j]
        /\ rows'[t][i].status = "registered"
    BY <1>1, <1>2, CloseFacts
  <2>2. inventory \subseteq Tools \X Nat
    BY DEF IInv, TypeOK
  <2>3. ASSUME NEW e \in inventory
        PROVE  e[2] \in DOMAIN rows'[e[1]] /\ rows'[e[1]][e[2]].status = "registered"
    <3>1. e[1] \in Tools /\ e[2] \in DOMAIN rows[e[1]] /\ rows[e[1]][e[2]].status = "registered"
      BY <2>2 DEF IInv, InventoryMatchesRegistered
    <3>2. QED BY <2>1, <3>1
  <2>4. ASSUME NEW u \in Tools, NEW j \in DOMAIN rows'[u], rows'[u][j].status = "registered"
        PROVE  <<u, j>> \in inventory \cup {<<t, i>>}
    BY <2>1, <2>4 DEF IInv, InventoryMatchesRegistered
  <2>5. QED BY <1>1, <2>1, <2>3, <2>4 DEF InventoryMatchesRegistered
<1>8. QED BY <1>4, <1>5, <1>6, <1>7 DEF IInv

\* A step that continues the detections of all tools, and a step that closes
\* one active detection.
ContinuingStep ==
  /\ EnvironmentTyped'
  /\ DOMAIN rows' = Tools /\ rows' = [t \in Tools |-> rows'[t]]
  /\ \A t \in Tools : Continues(t, rows[t], rows'[t])
  /\ suppressed' = suppressed /\ inventory' = inventory

ClosingStep ==
  \E t \in Tools, status \in TerminalStatuses : \E i \in ActiveRows(t) :
    rows' = WithStatus(t, i, status)

(* run_detection over any evidence continues the detections of all tools.  *)
LEMMA RanContinues ==
  ASSUME IInv, NEW ev \in [Signatures -> Evidence], NEW t \in Tools
  PROVE  Continues(t, rows[t], Ran(ev)[t])
<1>1. CASE t \in Signatures
  <2>1. Ran(ev)[t] = Detected(t, ev[t]) /\ ev[t] \in Evidence
    BY <1>1 DEF Ran
  <2>2. QED BY <1>1, <2>1, DetectedContinues
<1>2. CASE t \notin Signatures
  <2>1. Ran(ev)[t] = rows[t]
    BY <1>2 DEF Ran
  <2>2. QED BY <2>1, SameContinues
<1>3. QED BY <1>1, <1>2

\* So does the step that stores its result.
LEMMA RunDetectionContinues ==
  ASSUME IInv, NEW ev \in [Signatures -> Evidence], RunDetection(ev)
  PROVE  /\ DOMAIN rows' = Tools /\ rows' = [t \in Tools |-> rows'[t]]
         /\ \A t \in Tools : Continues(t, rows[t], rows'[t])
<1>1. rows' = Ran(ev)
  BY DEF RunDetection
<1>2. \A t \in Tools : Continues(t, rows[t], rows'[t])
  BY <1>1, RanContinues
<1>3. QED BY <1>1, <1>2 DEF Ran

(* The side channel's detection continues the tool as well: where it is    *)
(* added run_detection has left the tool's detections alone.               *)
LEMMA ProxiedContinues ==
  ASSUME IInv, NEW s \in Signatures, NEW ev \in [Signatures -> Evidence], NEW score \in Scores,
         \A i \in DOMAIN Ran(ev)[s] : ~Active(Ran(ev)[s][i]),
         rows' = [Ran(ev) EXCEPT ![s] = Append(@, DarkDetection(score))]
  PROVE  /\ DOMAIN rows' = Tools /\ rows' = [t \in Tools |-> rows'[t]]
         /\ \A t \in Tools : Continues(t, rows[t], rows'[t])
<1>1. s \in Tools
  BY DEF Tools
<1>2. PICK f : f = Ran(ev)
  OBVIOUS
<1>3. f = [t \in Tools |-> f[t]]
  BY <1>2 DEF Ran
<1>4. \A t \in Tools : Continues(t, rows[t], f[t])
  BY <1>2, RanContinues
<1>5. rows' = [f EXCEPT ![s] = Append(f[s], DarkDetection(score))]
  BY <1>2
<1>6. /\ rows' = [t \in Tools |-> rows'[t]]
      /\ rows'[s] = Append(f[s], DarkDetection(score))
      /\ \A t \in Tools : t # s => rows'[t] = f[t]
  BY <1>1, <1>3, <1>5
<1>7. f[s] = rows[s] /\ ActiveRows(s) = {}
  <2>1. /\ f[s] \in Seq(Detection) /\ Len(f[s]) \in {Len(rows[s]), Len(rows[s]) + 1}
        /\ \A i \in DOMAIN rows[s] : Kept(rows[s][i], f[s][i])
        /\ Len(f[s]) = Len(rows[s]) + 1 => Active(f[s][Len(f[s])])
    BY <1>1, <1>4 DEF Continues
  <2>2. rows[s] \in Seq(Detection)
    BY <1>1 DEF IInv, TypeOK
  <2>3. \A i \in DOMAIN f[s] : ~Active(f[s][i])
    BY <1>2
  <2>4. Len(f[s]) = Len(rows[s])
    BY <2>1, <2>2, <2>3
  <2>5. \A i \in DOMAIN rows[s] : f[s][i] = rows[s][i] /\ ~Active(rows[s][i])
    BY <2>1, <2>2, <2>3, <2>4 DEF Kept
  <2>6. QED BY <2>1, <2>2, <2>4, <2>5 DEF ActiveRows
<1>8. Continues(s, rows[s], rows'[s])
  BY <1>1, <1>6, <1>7, DarkDetectionType, AppendContinues
<1>9. QED BY <1>4, <1>6, <1>8

(* The steps of scans, signals, reports, time and reviews continue.        *)
LEMMA StepKinds ==
  ASSUME IInv, [Next]_vars
  PROVE  \/ ContinuingStep
         \/ \E s \in Signatures : SaveResponse(s)
         \/ \E t \in Tools : \E i \in DOMAIN rows[t] :
              DismissDetection(t, i) \/ EscalateDetection(t, i)
         \/ \E t \in Tools : LiftSuppression(t)
         \/ UNCHANGED vars
<1>1. TypeOK /\ EnvironmentTyped
  BY DEF IInv, TypeOK, EnvironmentTyped
<1>2. CASE Tier1Scan
  <2>1. evidence' \in [Signatures -> Evidence] /\ EnvironmentTyped'
    <3>1. /\ hashed' = hashed \cup NewMentions
          /\ evidence' = [s \in Signatures |->
                 IF s \in NewMentions THEN AddSignal(evidence[s], "keyword_match", One)
                                       ELSE evidence[s]]
          /\ silence' = [s \in Signatures |-> IF s \in NewMentions THEN 0 ELSE silence[s]]
          /\ mentioned' = mentioned
      BY <1>2 DEF Tier1Scan
    <3>2. One \in Scores /\ "keyword_match" \in SignalTypes
      BY OneProperties DEF Scores, SignalTypes
    <3>3. \A s \in Signatures : AddSignal(evidence[s], "keyword_match", One) \in Evidence
      BY <1>1, <3>2, AddSignalType DEF EnvironmentTyped
    <3>4. 0 \in Ages /\ NewMentions \subseteq Signatures
      BY <1>1, BoundsAssumption DEF Ages, NewMentions, EnvironmentTyped
    <3>5. QED BY <1>1, <3>1, <3>3, <3>4 DEF EnvironmentTyped
  <2>2. RunDetection(evidence') /\ suppressed' = suppressed /\ inventory' = inventory
    BY <1>2 DEF Tier1Scan
  <2>3. QED BY <2>1, <2>2, RunDetectionContinues DEF ContinuingStep
<1>3. ASSUME NEW s \in Signatures, NEW input \in SignalInputs, StoreSignal(s, input[1], input[2])
      PROVE  ContinuingStep
  <2>1. input[1] \in SignalTypes /\ input[2] \in Scores
    BY InputsAssumption DEF SignalTypes
  <2>2. AddSignal(evidence[s], input[1], input[2]) \in Evidence
    BY <1>1, <2>1, AddSignalType DEF EnvironmentTyped
  <2>3. evidence' \in [Signatures -> Evidence] /\ EnvironmentTyped'
    BY <1>1, <1>3, <2>2, BoundsAssumption DEF StoreSignal, EnvironmentTyped, Ages
  <2>4. RunDetection(evidence') /\ suppressed' = suppressed /\ inventory' = inventory
    BY <1>3 DEF StoreSignal
  <2>5. QED BY <2>3, <2>4, RunDetectionContinues DEF ContinuingStep
<1>9. ASSUME NEW s \in Signatures, NEW input \in SignalInputs, NEW score \in DarkScores,
             input[1] = "endpoint_match", StoreProxiedSignal(s, input[2], score)
      PROVE  ContinuingStep
  <2>1. "endpoint_match" \in SignalTypes /\ input[2] \in Scores /\ score \in Scores
    BY InputsAssumption, DarkAssumption, OneProperties DEF SignalTypes, Scores
  <2>2. AddSignal(evidence[s], "endpoint_match", input[2]) \in Evidence
    BY <1>1, <2>1, AddSignalType DEF EnvironmentTyped
  <2>3. evidence' \in [Signatures -> Evidence] /\ EnvironmentTyped'
    BY <1>1, <1>9, <2>2, BoundsAssumption DEF StoreProxiedSignal, EnvironmentTyped, Ages
  <2>4. /\ \A i \in DOMAIN Ran(evidence')[s] : ~Active(Ran(evidence')[s][i])
        /\ rows' = [Ran(evidence') EXCEPT ![s] = Append(@, DarkDetection(score))]
        /\ suppressed' = suppressed /\ inventory' = inventory
    BY <1>9 DEF StoreProxiedSignal
  <2>5. QED BY <2>1, <2>3, <2>4, ProxiedContinues DEF ContinuingStep
<1>4. CASE ManualReport
  <2> DEFINE half == 5 * (One \div 10)
             q == Append(rows[Unknown], NewDetection(half))
  <2>1. /\ rows' = [rows EXCEPT ![Unknown] = q]
        /\ suppressed' = suppressed /\ inventory' = inventory /\ EnvironmentTyped'
    BY <1>1, <1>4 DEF ManualReport, EnvironmentTyped
  <2>2. Unknown \in Tools /\ Unknown \notin Signatures /\ half \in Scores
    BY UnknownAssumption, OneProperties DEF Tools
  <2> HIDE DEF half
  <2>3. Continues(Unknown, rows[Unknown], q)
    <3>1. /\ NewDetection(half) \in Detection /\ NewDetection(half).dark = FALSE
          /\ NewDetection(half).status = "new" /\ NewDetection(half).stale = FALSE
      BY <2>2, NewDetectionType DEF NewDetection
    <3>2. QED BY <2>2, <3>1, AppendContinues
  <2>4. rows \in [Tools -> Seq(Detection)]
    BY <1>1 DEF TypeOK
  <2> HIDE DEF q
  <2>5. rows'[Unknown] = q /\ \A t \in Tools : t # Unknown => rows'[t] = rows[t]
    BY <2>1, <2>2, <2>4
  <2>6. ASSUME NEW t \in Tools
        PROVE  Continues(t, rows[t], rows'[t])
    BY <2>3, <2>5, SameContinues
  <2>7. DOMAIN rows' = Tools /\ rows' = [t \in Tools |-> rows'[t]]
    BY <2>1, <2>4
  <2>8. QED BY <2>1, <2>6, <2>7 DEF ContinuingStep
<1>5. CASE NextDay
  <2>1. rows' = [t \in Tools |-> [i \in DOMAIN rows[t] |->
           IF Active(rows[t][i]) THEN [rows[t][i] EXCEPT !.age = Older(@)] ELSE rows[t][i]]]
    BY <1>5 DEF NextDay
  <2>2. \A s \in Signatures : Older(silence[s]) \in Ages
    BY <1>1, BoundsAssumption DEF EnvironmentTyped, Older, Minimum, Ages
  <2>3. EnvironmentTyped' /\ suppressed' = suppressed /\ inventory' = inventory
    BY <1>1, <1>5, <2>2 DEF NextDay, EnvironmentTyped
  <2>4. ASSUME NEW t \in Tools
        PROVE  Continues(t, rows[t], rows'[t])
    BY <2>1, AgedContinues
  <2>5. DOMAIN rows' = Tools /\ rows' = [t \in Tools |-> rows'[t]]
    BY <2>1
  <2>6. QED BY <2>3, <2>4, <2>5 DEF ContinuingStep
<1>6. CASE DecayPass
  <2>1. /\ rows' = [t \in Tools |-> [i \in DOMAIN rows[t] |-> Decay(t, rows[t][i])]]
        /\ EnvironmentTyped' /\ suppressed' = suppressed /\ inventory' = inventory
    BY <1>1, <1>6 DEF DecayPass, EnvironmentTyped
  <2>2. ASSUME NEW t \in Tools
        PROVE  Continues(t, rows[t], rows'[t])
    BY <2>1, DecayContinues
  <2>3. DOMAIN rows' = Tools /\ rows' = [t \in Tools |-> rows'[t]]
    BY <2>1
  <2>4. QED BY <2>1, <2>2, <2>3 DEF ContinuingStep
<1>7. ASSUME NEW t \in Tools, NEW i \in DOMAIN rows[t], ReviewDetection(t, i)
      PROVE  ContinuingStep
  <2>1. /\ i \in ActiveRows(t) /\ rows' = WithStatus(t, i, "reviewed")
        /\ EnvironmentTyped' /\ suppressed' = suppressed /\ inventory' = inventory
    BY <1>1, <1>7 DEF ReviewDetection, EnvironmentTyped
  <2>2. ASSUME NEW u \in Tools
        PROVE  Continues(u, rows[u], rows'[u])
    BY <2>1, ReviewContinues
  <2>3. DOMAIN rows' = Tools /\ rows' = [u \in Tools |-> rows'[u]]
    BY <1>1, <2>1 DEF TypeOK, WithStatus
  <2>4. QED BY <2>1, <2>2, <2>3 DEF ContinuingStep
<1>8. QED BY <1>2, <1>3, <1>4, <1>5, <1>6, <1>7, <1>9 DEF Next

-----------------------------------------------------------------------------
(* Theorems.                                                               *)

(* No detection exists at the start.                                       *)
LEMMA InitInv == Init => IInv
<1> SUFFICES ASSUME Init PROVE IInv
  OBVIOUS
<1> USE DEF Init
<1>1. NoEvidence \in Evidence
  BY OneProperties, WindowAssumption DEF NoEvidence, Evidence, Scores
<1>2. TypeOK
  BY <1>1, BoundsAssumption DEF TypeOK, Ages
<1>3. \A t \in Tools : DOMAIN rows[t] = {}
  OBVIOUS
<1>4. Signatures \subseteq Tools
  BY DEF Tools
<1>5. OnlyNewestActive /\ SuppressedToolIsQuiet /\ StaleBelowThreshold
  BY <1>3, <1>4 DEF OnlyNewestActive, SuppressedToolIsQuiet, StaleBelowThreshold, ActiveRows
<1>6. InventoryMatchesRegistered
  BY <1>3 DEF InventoryMatchesRegistered
<1>7. QED BY <1>2, <1>5, <1>6 DEF IInv

(* Steps that leave the detections alone keep the invariant.               *)
LEMMA QuietStep ==
  ASSUME IInv, rows' = rows, inventory' = inventory, EnvironmentTyped',
         suppressed' \subseteq suppressed
  PROVE  IInv'
<1>1. TypeOK'
  BY DEF IInv, TypeOK, EnvironmentTyped
<1>2. \A t : ActiveRows(t)' = ActiveRows(t)
  BY DEF ActiveRows
<1>3. OnlyNewestActive' /\ SuppressedToolIsQuiet'
  BY <1>2 DEF IInv, OnlyNewestActive, SuppressedToolIsQuiet
<1>4. StaleBelowThreshold'
  BY <1>2 DEF IInv, StaleBelowThreshold
<1>5. InventoryMatchesRegistered'
  BY DEF IInv, InventoryMatchesRegistered
<1>6. QED BY <1>1, <1>3, <1>4, <1>5 DEF IInv

\* Every step preserves the invariant.
LEMMA StepInv == IInv /\ [Next]_vars => IInv'
<1> SUFFICES ASSUME IInv, [Next]_vars PROVE IInv'
  OBVIOUS
<1>1. EnvironmentTyped
  BY DEF IInv, TypeOK, EnvironmentTyped
<1>2. CASE ContinuingStep
  BY <1>2, RowsStep DEF ContinuingStep
<1>3. ASSUME NEW s \in Signatures, SaveResponse(s)
      PROVE  IInv'
  <2>1. EnvironmentTyped'
    BY <1>1, <1>3 DEF SaveResponse, EnvironmentTyped
  <2>2. QED BY <1>3, <2>1, QuietStep DEF SaveResponse
<1>4. ASSUME NEW t \in Tools, LiftSuppression(t)
      PROVE  IInv'
  <2>1. EnvironmentTyped' /\ suppressed' \subseteq suppressed
    BY <1>1, <1>4 DEF LiftSuppression, EnvironmentTyped
  <2>2. QED BY <1>4, <2>1, QuietStep DEF LiftSuppression
<1>5. CASE UNCHANGED vars
  <2>1. EnvironmentTyped' /\ rows' = rows /\ inventory' = inventory /\ suppressed' = suppressed
    BY <1>1, <1>5 DEF vars, EnvironmentTyped
  <2>2. QED BY <2>1, QuietStep
<1>6. ASSUME NEW t \in Tools, NEW i \in DOMAIN rows[t], DismissDetection(t, i)
      PROVE  IInv'
  BY <1>6, DismissStep
<1>7. ASSUME NEW t \in Tools, NEW i \in DOMAIN rows[t], EscalateDetection(t, i)
      PROVE  IInv'
  BY <1>7, EscalateStep
<1>8. QED BY <1>2, <1>3, <1>4, <1>5, <1>6, <1>7, StepKinds

\* The invariant holds in every reachable state.
LEMMA Invariance == Spec => []IInv
<1>1. QED BY InitInv, StepInv, PTL DEF Spec

(* Every field of every detection, score, counter and suppression keeps    *)
(* its type: no computed confidence leaves the range of Numeric(5,4) that  *)
(* the column allows, whatever the weights and the decay factors are.      *)
THEOREM TypeCorrect == Spec => []TypeOK
<1>1. IInv => TypeOK
  BY DEF IInv
<1>2. QED BY <1>1, Invariance, PTL

(* run_detection never finds two active detections of a signature, and     *)
(* never violates the index uq_detection_org_sig_active.                   *)
THEOREM OneActiveDetection == Spec => []OnlyNewestActive
<1>1. IInv => OnlyNewestActive
  BY DEF IInv
<1>2. QED BY <1>1, Invariance, PTL

(* Until somebody lifts it the suppression that a dismissal writes keeps   *)
(* the tool without an active detection, whatever signals arrive, but for  *)
(* what the dark AI side channel adds without asking for it.               *)
THEOREM SuppressionHolds == Spec => []SuppressedToolIsQuiet
<1>1. IInv => SuppressedToolIsQuiet
  BY DEF IInv
<1>2. QED BY <1>1, Invariance, PTL

(* The inventory holds an AI system for exactly the detections that were   *)
(* escalated.                                                              *)
THEOREM InventoryComplete == Spec => []InventoryMatchesRegistered
<1>1. IInv => InventoryMatchesRegistered
  BY DEF IInv
<1>2. QED BY <1>1, Invariance, PTL

(* A stale detection stays below the discard threshold until run_detection *)
(* reactivates it.                                                         *)
THEOREM StaleStaysLow == Spec => []StaleBelowThreshold
<1>1. IInv => StaleBelowThreshold
  BY DEF IInv
<1>2. QED BY <1>1, Invariance, PTL

(* No step rewrites or deletes a dismissed or registered detection.        *)
LEMMA StepFrozen ==
  IInv /\ [Next]_vars =>
    [\A t \in Tools : \A i \in DOMAIN rows[t] :
       ~Active(rows[t][i]) => /\ i \in DOMAIN rows'[t]
                              /\ rows'[t][i] = rows[t][i]]_vars
<1> SUFFICES ASSUME IInv, [Next]_vars, NEW t \in Tools, NEW i \in DOMAIN rows[t],
                    ~Active(rows[t][i])
             PROVE  i \in DOMAIN rows'[t] /\ rows'[t][i] = rows[t][i]
  OBVIOUS
<1>1. CASE ContinuingStep
  BY <1>1, RowsStepFrozen DEF ContinuingStep
<1>2. ASSUME NEW v \in Tools, NEW k \in DOMAIN rows[v],
             DismissDetection(v, k) \/ EscalateDetection(v, k)
      PROVE  ClosingStep
  BY <1>2 DEF DismissDetection, EscalateDetection, ClosingStep, TerminalStatuses
<1>3. CASE ClosingStep
  <2>1. PICK u \in Tools, status \in TerminalStatuses :
          \E j \in ActiveRows(u) : rows' = WithStatus(u, j, status)
    BY <1>3 DEF ClosingStep
  <2>2. PICK j \in ActiveRows(u) : rows' = WithStatus(u, j, status)
    BY <2>1
  <2>3. u # t \/ j # i
    BY DEF ActiveRows
  <2>4. /\ \A v \in Tools : DOMAIN rows'[v] = DOMAIN rows[v]
        /\ \A v \in Tools : \A k \in DOMAIN rows[v] : v # u \/ k # j => rows'[v][k] = rows[v][k]
    BY <2>2, CloseFacts
  <2>5. QED BY <2>3, <2>4
<1>4. CASE rows' = rows
  BY <1>4
<1>5. QED BY <1>1, <1>2, <1>3, <1>4, StepKinds DEF SaveResponse, LiftSuppression, vars

(* Dismissed and registered detections are records that stay as they were. *)
THEOREM ClosedStaysClosed == Spec => ClosedDetectionsFrozen
<1>1. QED BY Invariance, StepFrozen, PTL DEF Spec, ClosedDetectionsFrozen

-----------------------------------------------------------------------------
(* The lifecycle implements DetectionRegister.                             *)

Findings(q) == [i \in DOMAIN q |-> Finding(q[i])]

\* The findings that a sequence of detections stands for, one by one.
LEMMA FindingsSequence ==
  ASSUME NEW q \in Seq(Detection)
  PROVE  /\ Findings(q) \in Seq({"active", "hidden"} \cup ActiveStatuses \cup TerminalStatuses)
         /\ Len(Findings(q)) = Len(q)
         /\ DOMAIN Findings(q) = 1 .. Len(q)
         /\ \A i \in 1 .. Len(q) : Findings(q)[i] = Finding(q[i])
<1> DEFINE S == {"active", "hidden"} \cup ActiveStatuses \cup TerminalStatuses
<1>1. DOMAIN q = 1 .. Len(q) /\ Len(q) \in Nat
  OBVIOUS
<1>2. \A i \in DOMAIN q : q[i].status \in ActiveStatuses \cup TerminalStatuses
  <2>1. \A i \in DOMAIN q : q[i] \in Detection
    OBVIOUS
  <2>2. \A d \in Detection : d.status \in ActiveStatuses \cup TerminalStatuses
    BY DEF Detection
  <2>3. QED BY <2>1, <2>2
<1>3. \A i \in DOMAIN q : Finding(q[i]) \in S
  BY <1>2 DEF Finding
<1>4. Findings(q) \in [1 .. Len(q) -> S]
  BY <1>1, <1>3 DEF Findings
<1>5. \A i \in 1 .. Len(q) : Findings(q)[i] = Finding(q[i])
  BY <1>1 DEF Findings
<1> HIDE DEF S
<1>6. QED BY <1>1, <1>4, <1>5, FunctionIsSequence DEF S

\* What a step that makes new of old adds to the findings.
Adds(old, new) ==
  IF Len(new) = Len(old) THEN <<>> ELSE <<Finding(new[Len(new)])>>

(* Continuing a tool's detections adds at most one finding.                *)
LEMMA FindingsContinue ==
  ASSUME NEW t \in Tools, NEW old \in Seq(Detection), NEW new, Continues(t, old, new)
  PROVE  Findings(new) = Findings(old) \o Adds(old, new)
<1>1. /\ new \in Seq(Detection) /\ Len(new) \in {Len(old), Len(old) + 1}
      /\ \A i \in DOMAIN old : Kept(old[i], new[i])
  BY DEF Continues
<1>2. \A i \in 1 .. Len(old) : Finding(new[i]) = Finding(old[i])
  BY <1>1 DEF Finding, Kept
<1> DEFINE f == Findings(old)
           g == Findings(new)
           S == {"active", "hidden"} \cup ActiveStatuses \cup TerminalStatuses
<1>3. /\ f \in Seq(S) /\ Len(f) = Len(old) /\ DOMAIN f = 1 .. Len(old)
      /\ \A i \in 1 .. Len(old) : f[i] = Finding(old[i])
  BY FindingsSequence
<1>4. /\ g \in Seq(S) /\ Len(g) = Len(new) /\ DOMAIN g = 1 .. Len(new)
      /\ \A i \in 1 .. Len(new) : g[i] = Finding(new[i])
  BY <1>1, FindingsSequence
<1>5. Len(old) \in Nat /\ Len(new) \in Nat
  BY <1>1
<1> HIDE DEF f, g, S
<1>6. CASE Len(new) = Len(old)
  <2>1. \A i \in 1 .. Len(old) : g[i] = f[i]
    BY <1>2, <1>3, <1>4, <1>6
  <2>2. g = f
    BY <2>1, <1>3, <1>4, <1>6
  <2>3. f \o <<>> = f
    BY <1>3
  <2>4. QED BY <2>2, <2>3, <1>6 DEF f, g, Adds
<1>7. CASE Len(new) = Len(old) + 1
  <2> DEFINE last == Finding(new[Len(new)])
             h == f \o <<last>>
  <2>1. g[Len(new)] = last /\ last \in S
    BY <1>4, <1>5, <1>7
  <2>2. \A i \in 1 .. Len(old) : g[i] = f[i]
    BY <1>2, <1>3, <1>4, <1>5, <1>7
  <2> HIDE DEF last
  <2>3. h \in Seq(S) /\ Len(h) = Len(old) + 1 /\ h[Len(old) + 1] = last
    BY <1>3, <1>5, <2>1
  <2>4. \A i \in 1 .. Len(old) : h[i] = f[i]
    BY <1>3, <1>5, <2>1
  <2>5. \A i \in 1 .. Len(new) : g[i] = h[i]
    BY <2>1, <2>2, <2>3, <2>4, <1>5, <1>7
  <2>6. g = h
    BY <2>3, <2>5, <1>4, <1>7
  <2>7. Adds(old, new) = <<last>>
    BY <1>5, <1>7 DEF Adds, last
  <2>8. QED BY <2>6, <2>7 DEF f, g
<1>8. QED BY <1>1, <1>6, <1>7

(* Closing a detection closes its finding and no other.                    *)
LEMMA FindingsClose ==
  ASSUME IInv, NEW t \in Tools, NEW i \in ActiveRows(t), NEW status \in TerminalStatuses,
         rows' = WithStatus(t, i, status)
  PROVE  /\ i \in Register!ActiveIn(t)
         /\ RegisterStatus' = [RegisterStatus EXCEPT ![t][i] = status]
<1>1. /\ rows' \in [Tools -> Seq(Detection)]
      /\ \A u \in Tools : DOMAIN rows'[u] = DOMAIN rows[u]
      /\ \A u \in Tools : \A j \in DOMAIN rows[u] : u # t \/ j # i => rows'[u][j] = rows[u][j]
      /\ rows'[t][i].status = status
  BY CloseFacts
<1>2. i \in DOMAIN rows[t] /\ Active(rows[t][i])
  BY DEF ActiveRows
<1>3. i \in Register!ActiveIn(t)
  BY <1>2 DEF Register!ActiveIn, RegisterStatus, Finding
<1>4. Finding(rows'[t][i]) = status
  BY <1>1 DEF Finding, Active, ActiveStatuses, TerminalStatuses
<1>5. \A u \in Tools : \A j \in DOMAIN rows[u] :
        u # t \/ j # i => Finding(rows'[u][j]) = Finding(rows[u][j])
  BY <1>1
<1> DEFINE F == [u \in Tools |-> [j \in DOMAIN rows[u] |-> Finding(rows[u][j])]]
           G == [u \in Tools |-> [j \in DOMAIN rows[u] |-> Finding(rows'[u][j])]]
<1>6. G = [F EXCEPT ![t][i] = status]
  <2>1. \A u \in Tools : u # t => G[u] = F[u]
    BY <1>5
  <2>2. G[t] = [F[t] EXCEPT ![i] = status]
    BY <1>2, <1>4, <1>5
  <2>3. DOMAIN G = Tools /\ DOMAIN F = Tools /\ G = [u \in Tools |-> G[u]]
    OBVIOUS
  <2>4. F = [u \in Tools |-> F[u]]
    OBVIOUS
  <2> HIDE DEF F, G
  <2>5. QED BY <2>1, <2>2, <2>3, <2>4
<1>7. RegisterStatus' = G
  BY <1>1 DEF RegisterStatus
<1>8. QED BY <1>3, <1>6, <1>7 DEF RegisterStatus

\* The lifecycle begins where the register begins.
LEMMA InitRefines == Init => Register!Init
  BY DEF Init, Register!Init, RegisterStatus, Tools, Register!Tools

\* Every step of the lifecycle is a step of the register or a stutter.
LEMMA StepRefines == IInv /\ [Next]_vars => [Register!Next]_(Register!vars)
<1> SUFFICES ASSUME IInv, [Next]_vars PROVE [Register!Next]_(Register!vars)
  OBVIOUS
<1>0. Register!Tools = Tools /\ rows \in [Tools -> Seq(Detection)]
  BY DEF Register!Tools, Tools, IInv, TypeOK
<1>1. CASE ContinuingStep
  <2> DEFINE Grown(t) == Len(rows'[t]) = Len(rows[t]) + 1
             Last(t) == rows'[t][Len(rows'[t])]
             H == {s \in Signatures : Grown(s) /\ Last(s).dark}
             T == {t \in Tools : Grown(t) /\ t \notin H}
  <2>1. ASSUME NEW t \in Tools
        PROVE  /\ Len(rows[t]) \in Nat /\ Len(rows'[t]) \in {Len(rows[t]), Len(rows[t]) + 1}
               /\ Grown(t) => Active(Last(t)) /\ (t \notin Signatures => ~Last(t).dark)
               /\ Grown(t) /\ t \in Signatures =>
                    /\ t \in suppressed => Last(t).dark
                    /\ \A i \in DOMAIN rows[t] : ~Active(rows[t][i])
               /\ Findings(rows'[t]) = Findings(rows[t]) \o Adds(rows[t], rows'[t])
               /\ Last(t) \in Detection \/ ~Grown(t)
    <3>1. Continues(t, rows[t], rows'[t]) /\ rows[t] \in Seq(Detection)
      BY <1>0, <1>1 DEF ContinuingStep
    <3>2. rows'[t] \in Seq(Detection)
      BY <3>1 DEF Continues
    <3>3. Last(t) \in Detection \/ ~Grown(t)
      BY <3>1, <3>2
    <3>4. Findings(rows'[t]) = Findings(rows[t]) \o Adds(rows[t], rows'[t])
      BY <3>1, FindingsContinue
    <3>5. QED BY <3>1, <3>3, <3>4 DEF Continues
  <2>2. ASSUME NEW t \in (T \cup H) \cap Signatures
        PROVE  Register!ActiveIn(t) = {}
    <3>1. t \in Tools /\ \A i \in DOMAIN rows[t] : ~Active(rows[t][i])
      BY <2>1 DEF Tools
    <3>2. DOMAIN RegisterStatus[t] = DOMAIN rows[t]
      BY <3>1 DEF RegisterStatus
    <3>3. \A i \in DOMAIN rows[t] : RegisterStatus[t][i] \notin {"active", "hidden"}
      <4>1. SUFFICES ASSUME NEW i \in DOMAIN rows[t]
                     PROVE  rows[t][i].status \notin {"active", "hidden"}
        BY <3>1 DEF RegisterStatus, Finding
      <4>2. rows[t][i] \in Detection
        BY <1>0, <3>1
      <4>3. QED BY <4>2 DEF Detection, ActiveStatuses, TerminalStatuses
    <3>4. QED BY <3>2, <3>3 DEF Register!ActiveIn
  <2>3. T \cap Signatures \cap suppressed = {}
    BY <2>1
  <2>4. ASSUME NEW t \in Tools
        PROVE  Adds(rows[t], rows'[t]) = Register!Added(t, T, H)
    <3>1. CASE t \in H
      <4>1. Finding(Last(t)) = "hidden" /\ t \notin T /\ Len(rows'[t]) # Len(rows[t])
        BY <2>1, <3>1 DEF Finding
      <4>2. QED BY <4>1, <3>1 DEF Adds, Register!Added
    <3>2. CASE t \in T
      <4>1. Finding(Last(t)) = "active"
        <5>1. Active(Last(t))
          BY <2>1, <3>2
        <5>2. CASE t \in Signatures
          <6>1. ~Last(t).dark
            BY <3>2, <5>2
          <6>2. QED BY <5>1, <6>1 DEF Finding
        <5>3. CASE t \notin Signatures
          BY <5>1, <5>3, <2>1, <3>2 DEF Finding
        <5>4. QED BY <5>2, <5>3
      <4>2. Len(rows'[t]) # Len(rows[t])
        BY <2>1, <3>2
      <4>3. QED BY <4>1, <4>2, <3>2 DEF Adds, Register!Added
    <3>3. CASE t \notin T /\ t \notin H
      <4>1. Len(rows'[t]) = Len(rows[t])
        BY <2>1, <3>3
      <4>2. QED BY <4>1, <3>3 DEF Adds, Register!Added
    <3>4. QED BY <3>1, <3>2, <3>3
  <2>5. RegisterStatus' = [t \in Tools |-> RegisterStatus[t] \o Register!Added(t, T, H)]
    <3>1. RegisterStatus = [t \in Tools |-> Findings(rows[t])]
      BY DEF RegisterStatus, Findings
    <3>2. RegisterStatus' = [t \in Tools |-> Findings(rows'[t])]
      BY DEF RegisterStatus, Findings
    <3> HIDE DEF T, H
    <3>3. \A t \in Tools : Findings(rows'[t]) = Findings(rows[t]) \o Register!Added(t, T, H)
      BY <2>1, <2>4
    <3>4. QED BY <3>1, <3>2, <3>3
  <2>6. suppressed' = suppressed /\ inventory' = inventory
    BY <1>1 DEF ContinuingStep
  <2>7. T \in SUBSET Register!Tools /\ H \in SUBSET Signatures
    BY <1>0
  <2> HIDE DEF T, H
  <2>8. Register!Detect(T, H)
    BY <1>0, <2>2, <2>3, <2>5, <2>6 DEF Register!Detect
  <2>9. QED BY <2>7, <2>8 DEF Register!Next
<1>2. ASSUME NEW t \in Tools, NEW i \in DOMAIN rows[t], DismissDetection(t, i)
      PROVE  Register!Next
  <2>1. /\ i \in ActiveRows(t) /\ rows' = WithStatus(t, i, "dismissed")
        /\ suppressed' = suppressed \cup {t} /\ inventory' = inventory
    BY <1>2 DEF DismissDetection
  <2>2. Register!Dismiss(t, i)
    BY <2>1, FindingsClose DEF Register!Dismiss, TerminalStatuses
  <2>3. i \in DOMAIN RegisterStatus[t]
    BY DEF RegisterStatus
  <2>4. QED BY <1>0, <2>2, <2>3 DEF Register!Next
<1>3. ASSUME NEW t \in Tools, NEW i \in DOMAIN rows[t], EscalateDetection(t, i)
      PROVE  Register!Next
  <2>1. /\ i \in ActiveRows(t) /\ rows' = WithStatus(t, i, "registered")
        /\ suppressed' = suppressed /\ inventory' = inventory \cup {<<t, i>>}
    BY <1>3 DEF EscalateDetection
  <2>2. Register!Escalate(t, i)
    BY <2>1, FindingsClose DEF Register!Escalate, TerminalStatuses
  <2>3. i \in DOMAIN RegisterStatus[t]
    BY DEF RegisterStatus
  <2>4. QED BY <1>0, <2>2, <2>3 DEF Register!Next
<1>4. ASSUME NEW t \in Tools, LiftSuppression(t)
      PROVE  Register!Next
  <2>1. Register!Lift(t)
    BY <1>4 DEF LiftSuppression, Register!Lift, RegisterStatus
  <2>2. QED BY <1>0, <2>1 DEF Register!Next
<1>5. ASSUME NEW s \in Signatures, SaveResponse(s)
      PROVE  UNCHANGED Register!vars
  BY <1>5 DEF SaveResponse, Register!vars, RegisterStatus
<1>6. CASE UNCHANGED vars
  BY <1>6 DEF vars, Register!vars, RegisterStatus
<1>7. QED BY <1>1, <1>2, <1>3, <1>4, <1>5, <1>6, StepKinds

(* The engine's scans, signals, reports, decay passes and the decisions of *)
(* people implement the register: every step of the detailed specification *)
(* is a step of the abstract one or leaves its state alone.                *)
THEOREM LifecycleImplementsRegister == Spec => ImplementsRegister
<1>1. QED BY Invariance, InitRefines, StepRefines, PTL
           DEF Spec, ImplementsRegister, Register!Spec
=============================================================================
