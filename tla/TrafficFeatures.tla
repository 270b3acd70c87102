-------------------------- MODULE TrafficFeatures ---------------------------
(***************************************************************************)
(* The scores that the zero-day and the dark AI classifier compute from    *)
(* the metadata of a signal.  Scores are in hundredths, composites in ten  *)
(* thousandths; the code rounds to four decimals, so both are exact.       *)
(***************************************************************************)
EXTENDS Integers, FiniteSets

Absent == -1       \* an optional field that the connector left out

\* What the scores look for in a hostname.  Structural, Cdn, Vendors and ProxyWords
\* are the lists of the code; "versioned": /v1/ or /v2/.
Structural == {"api.", "/api/", "versioned", "/v3/", "inference.", "ml.", "ai.", "model.",
                "llm.", "chat.", "embed."}
ApiWords == {"api.", "/api/", "api"}
Cdn == {"cdn.", "static.", "assets.", "img.", "media."}
Marks == Structural \cup ApiWords \cup Cdn \cup {".ai at the end", ".ml at the end", "vendor", "proxy", "ipv4"}

Bounded(score, lowest, highest) ==
  IF score < lowest THEN lowest ELSE IF score > highest THEN highest ELSE score

\* The score of x is the one after the last bound that x has reached.
Graded(x, bounds, scores) == scores[1 + Cardinality({i \in DOMAIN bounds : bounds[i] <= x})]

GradedIfPresent(x, bounds, scores) == IF x = Absent THEN 50 ELSE Graded(x, bounds, scores)

Points(condition, points) == IF condition THEN points ELSE 0

-----------------------------------------------------------------------------
(* BehavioralFeatureExtractor                                              *)

CallFrequency(calls) == Graded(calls, <<5, 10, 100, 10000, 100000>>, <<10, 40, 70, 90, 70, 30>>)

PayloadGuess(marks) ==
  IF marks \cap Structural # {} THEN 70 ELSE IF marks \cap Cdn # {} THEN 20 ELSE 50

InAiDomain(marks) == marks \cap {".ai at the end", ".ml at the end"} # {}

EndpointPattern(marks) ==
  Bounded(  Points("api." \in marks, 25)
          + Points("inference." \in marks, 30)
          + Points(marks \cap {"ml.", "ai."} # {} \/ InAiDomain(marks), 20)
          + Points("versioned" \in marks, 15)
          + Points(InAiDomain(marks), 20)
          - 30 * Cardinality(marks \cap Cdn), 0, 100)

ServiceType(calls, marks) ==
  IF "vendor" \in marks THEN 100
  ELSE Bounded(50 + Points(calls \in 10 .. 50000, 20) + Points("versioned" \in marks, 15)
                  + Points(marks \cap ApiWords # {}, 15) + Points(InAiDomain(marks), 20), 0, 100)

\* days: from the first to the last call; silent: since the last.
Recency(days, silent) ==
  IF silent > 30 THEN 30 ELSE Graded(days, <<1, 8>>, <<50, 80, 90>>)

\* FEATURE_WEIGHTS
Behavioral(signal, marks) ==
    30 * CallFrequency(signal.calls) + 20 * PayloadGuess(marks) + 20 * EndpointPattern(marks)
  + 20 * ServiceType(signal.calls, marks) + 10 * Recency(signal.days, signal.silent)

-----------------------------------------------------------------------------
(* DarkAIClassifier                                                        *)

Variance(ms) == GradedIfPresent(ms, <<100, 500, 2001>>, <<10, 50, 80, 60>>)

Asymmetry(request, response) ==
  LET unit == IF request > 1 THEN request ELSE 1
  IN  IF Absent \in {request, response} THEN 50
      ELSE Graded(response, <<unit + 1, 5 * unit, 50 * unit>>, <<10, 50, 80, 90>>)

Gap(ms) == GradedIfPresent(ms, <<100, 2001, 60001>>, <<10, 40, 90, 50>>)
Reuse(percent) == GradedIfPresent(percent, <<30, 71>>, <<20, 60, 90>>)
Latency(ms) == GradedIfPresent(ms, <<50, 201, 2001>>, <<10, 30, 80, 60>>)

\* DARK_AI_WEIGHTS
Dark(signal) ==
    25 * Variance(signal.variance) + 20 * Asymmetry(signal.request, signal.response)
  + 20 * Gap(signal.gap) + 15 * Reuse(signal.reuse)
  + 10 * CallFrequency(signal.calls) + 10 * Latency(signal.latency)

IsProxyPattern(signal, marks) ==
  \/ marks \cap {"proxy", "cdn.", "ipv4"} # {}
  \/ signal.port \notin {Absent, 443}

TimingFields(signal) ==
  {f \in {"latency", "variance", "gap", "response"} : signal[f] # Absent}

-----------------------------------------------------------------------------
(* What the two classifiers make of a signal.                              *)

AiProbabilityThreshold == 5500
DarkAiThreshold == 6000

\* Only network signals of five calls or more are looked at.  MIN_DETECTION_SCORE is
\* below the threshold: whatever is a candidate is enough for a detection.
IsZeroDay(signal, marks) ==
  /\ signal.network /\ signal.calls >= 5
  /\ Behavioral(signal, marks) >= AiProbabilityThreshold

IsDark(signal, marks, matched) ==
  /\ IF matched THEN IsProxyPattern(signal, marks) ELSE Cardinality(TimingFields(signal)) >= 2
  /\ Dark(signal) >= DarkAiThreshold

=============================================================================
