----------------------- MODULE MCDetectionAssessment ------------------------
(***************************************************************************)
(* Texts for each of the intent rules, and some that speak of more than    *)
(* one thing.                                                              *)
(***************************************************************************)
EXTENDS DetectionAssessment

Says(actions, subjects, contexts) ==
  [actions |-> actions, subjects |-> subjects, contexts |-> contexts]

Texts ==
  {Says({"evaluating", "content_generation"}, {"job_candidates", "employees"}, {}),
   Says({"surveillance"}, {"employees"}, {}),
   Says({"financial_decision"}, {}, {}),
   Says({}, {"patients"}, {"healthcare"}),
   Says({"processing_personal_data", "healthcare"}, {"customers"}, {}),
   Says({}, {}, {})}

High == {"high"}

SeedProfiles ==
  {[category |-> "llm", risk |-> "high"], [category |-> "embedding", risk |-> "medium"]}
=============================================================================
