--------------------------- MODULE MCOwnerHistory ---------------------------
(***************************************************************************)
(* OwnerAttribution with a history variable: the owners and confidences    *)
(* that the events have ever spoken for.                                   *)
(***************************************************************************)
EXTENDS OwnerAttribution, TLC

VARIABLE measured

\* In thousandths, like the column.
Measure(age, a) ==
  [owner |-> a,
   share |-> Thousandths(Ratio(Cardinality(Of(events, age, a)), Cardinality(Named(events, age))))]

Measurements == {Measure(p[1], p[2]) : p \in {q \in Cutoffs \X Actors : Speaks(events, q[1], q[2])}}

HistoryInit == Init /\ measured = {}

HistoryNext ==
  /\ Next
  /\ measured' = IF events' = events THEN measured ELSE measured \cup Measurements'

HistorySpec == HistoryInit /\ [][HistoryNext]_<<vars, measured>>

\* No action tells the nightly session from one of a request.
Symmetric == Permutations(Actors) \cup Permutations(Workers)

\* Nobody is made responsible for a tool, on a detection or on the AI system made of it,
\* who did not have three fifths of its known sign-ins within the lookback at some time;
\* and the confidence is that of the owner, unless two passes overlapped on the detection
\* (compute_attribution, run_attribution_pass, escalate_to_ai_system).
OwnersWereMeasured ==
  /\ \A d \in Detections :
       /\ rows[d].owner # Nobody => \E m \in measured : m.owner = rows[d].owner
       /\ systems[d] \in Actors => \E m \in measured : m.owner = systems[d]
  /\ \A d \in Detections \ mixed :
       rows[d].owner # Nobody => [owner |-> rows[d].owner, share |-> rows[d].share] \in measured
=============================================================================
