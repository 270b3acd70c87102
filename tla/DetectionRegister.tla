------------------------- MODULE DetectionRegister --------------------------
(***************************************************************************)
(* What the discovery engine promises about the detections of an           *)
(* organisation, without scores, days or database sessions: a register of  *)
(* findings per tool, each active until a person dismisses it or makes it  *)
(* an AI system.  A tool has at most one active finding at a time.  What   *)
(* telemetry shows is not added while a dismissal of the tool stands; what *)
(* is seen of a tool that hides behind a proxy is added all the same, as a *)
(* hidden finding.                                                         *)
(*                                                                         *)
(* DetectionLifecycle and, as long as the sessions come one after another, *)
(* DetectionSessions implement this specification.                         *)
(***************************************************************************)
EXTENDS Naturals, Sequences

CONSTANTS
  Signatures,   \* the tools that the registry knows
  Unknown       \* the tool that manual reports are filed under

Tools == Signatures \cup {Unknown}

VARIABLES
  status,       \* per tool, the status of its findings in order of creation
  suppressed,   \* tools with a dismissal that stands
  inventory     \* the findings <<tool, index>> that became AI systems

vars == <<status, suppressed, inventory>>

ActiveIn(t) == {i \in DOMAIN status[t] : status[t][i] \in {"active", "hidden"}}

Init ==
  /\ status = [t \in Tools |-> <<>>]
  /\ suppressed = {}
  /\ inventory = {}

\* What one step adds to the findings of a tool.
Added(t, T, H) == IF t \in T THEN <<"active">> ELSE IF t \in H THEN <<"hidden">> ELSE <<>>

\* A scan adds a finding for each tool of T, and a hidden one for those of H.
\* A manual report is never refused.
Detect(T, H) ==
  /\ T \cap Signatures \cap suppressed = {}
  /\ \A t \in (T \cup H) \cap Signatures : ActiveIn(t) = {}
  /\ status' = [t \in Tools |-> status[t] \o Added(t, T, H)]
  /\ UNCHANGED <<suppressed, inventory>>

Dismiss(t, i) ==
  /\ i \in ActiveIn(t)
  /\ status' = [status EXCEPT ![t][i] = "dismissed"]
  /\ suppressed' = suppressed \cup {t}
  /\ UNCHANGED inventory

Escalate(t, i) ==
  /\ i \in ActiveIn(t)
  /\ status' = [status EXCEPT ![t][i] = "registered"]
  /\ inventory' = inventory \cup {<<t, i>>}
  /\ UNCHANGED suppressed

Lift(t) ==
  /\ t \in suppressed
  /\ suppressed' = suppressed \ {t}
  /\ UNCHANGED <<status, inventory>>

Next ==
  \/ \E T \in SUBSET Tools, H \in SUBSET Signatures : Detect(T, H)
  \/ \E t \in Tools : \E i \in DOMAIN status[t] : Dismiss(t, i) \/ Escalate(t, i)
  \/ \E t \in Tools : Lift(t)

Spec == Init /\ [][Next]_vars
=============================================================================
