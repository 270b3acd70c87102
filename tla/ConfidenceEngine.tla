-------------------------- MODULE ConfidenceEngine --------------------------
(***************************************************************************)
(* Confidence scoring (app/services/confidence_engine.py) and the decay    *)
(* formula (app/services/decay_engine.py).                                 *)
(*                                                                         *)
(* The database keeps scores as Numeric(5,4), so a score is an integer     *)
(* number of ten-thousandths: One is 10000 and rounding to four decimals   *)
(* is rounding to an integer.  One is a constant so that a model can use a *)
(* coarser grid.  (Python rounds a tie to even on the binary value of the  *)
(* float; a tie is rounded up here.)                                       *)
(***************************************************************************)
EXTENDS Integers

CONSTANTS
  Window,    \* length of the rolling average: 10 in the code
  One        \* the integer that stands for the confidence 1.0: 10000 in the code

ASSUME WindowAssumption == Window \in Nat \ {0}
ASSUME OneAssumption == One \in Nat \ {0} /\ One % 10 = 0

HighThreshold == 7 * (One \div 10)
DiscardThreshold == 4 * (One \div 10)

Scores == 0 .. One
Bands == {"high", "medium", "discard"}

SignalTypes == {"endpoint_match", "identity_match", "volume_match", "keyword_match"}

\* The match qualities that each kind of signal can be scored with.
SignalScores ==
  LET tenths(n) == n * (One \div 10)
  IN  [endpoint_match |-> {0, tenths(7), One},
       identity_match |-> {0, tenths(5), tenths(7), One},
       volume_match   |-> {0, tenths(6), One},
       keyword_match  |-> {0, One}]

Minimum(a, b) == IF a <= b THEN a ELSE b
Maximum(a, b) == IF a >= b THEN a ELSE b

\* n / d rounded to the nearest integer.
RoundedQuotient(n, d) == (2 * n + d) \div (2 * d)

(***************************************************************************)
(* The telemetry events of one signature, as far as scoring reads them:    *)
(* which kinds of signal are present, the best match quality of each kind, *)
(* and the number of events, of which only min(count, Window) matters.     *)
(***************************************************************************)
Evidence == [seen  : SUBSET SignalTypes,
             best  : [SignalTypes -> Scores],
             count : 0 .. Window]

NoEvidence == [seen  |-> {}, best |-> [t \in SignalTypes |-> 0], count |-> 0]

AddSignal(ev, type, quality) ==
  [seen  |-> ev.seen \cup {type},
   best  |-> [ev.best EXCEPT ![type] = Maximum(@, quality)],
   count |-> Minimum(ev.count + 1, Window)]

\* A kind of signal of which there is no event takes no part in the average.
EffectiveWeight(weights, ev, type) == IF type \in ev.seen THEN weights[type] ELSE 0

TotalWeight(weights, ev) ==
  LET w(type) == EffectiveWeight(weights, ev, type)
  IN  w("endpoint_match") + w("identity_match") + w("volume_match") + w("keyword_match")

WeightedSum(weights, ev) ==
  LET c(type) == EffectiveWeight(weights, ev, type) * ev.best[type]
  IN  c("endpoint_match") + c("identity_match") + c("volume_match") + c("keyword_match")

ComputeScore(weights, ev) ==
  IF TotalWeight(weights, ev) = 0
    THEN 0
    ELSE RoundedQuotient(WeightedSum(weights, ev), TotalWeight(weights, ev))

\* Mutant: the new computation is not one of the count.
RollingAverageOffByOne(existing, count, new) ==
  RoundedQuotient(existing * Minimum(count, Window) + new, Minimum(count, Window))

\* The average of the stored score, taken as the mean of the earlier
\* computations in the window, with the new one.  count >= 1 at every call.
RollingAverage(existing, count, new) ==
  RoundedQuotient(existing * Minimum(count - 1, Window - 1) + new,
                  Minimum(count, Window))

Band(score) ==
  IF score >= HighThreshold THEN "high"
  ELSE IF score >= DiscardThreshold THEN "medium"
  ELSE "discard"

\* base * exp(-lambda * days), where factor is exp(-lambda * days).
Decayed(base, factor) == RoundedQuotient(base * factor, One)
=============================================================================
