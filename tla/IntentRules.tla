---------------------------- MODULE IntentRules -----------------------------
(***************************************************************************)
(* The intent engine: which action, data subject and business context a    *)
(* text speaks of, and which obligations follow.  A text is the classes    *)
(* that have at least one trigger word in it.                              *)
(***************************************************************************)
EXTENDS SequencesExt

None == "none"

\* The keys of the three pattern tables, in the order in which they are tried.
ActionOrder ==
  <<"evaluating", "processing_personal_data", "automated_decision", "content_generation",
    "surveillance", "financial_decision", "legal_analysis", "healthcare">>

SubjectOrder ==
  <<"job_candidates", "employees", "customers", "patients", "financial_subjects",
    "general_public", "internal_data">>

ContextOrder ==
  <<"hr", "legal", "finance", "healthcare", "customer_support", "engineering", "marketing",
    "education">>

Elements(order) == {order[i] : i \in DOMAIN order}

Text == [actions : SUBSET Elements(ActionOrder), subjects : SUBSET Elements(SubjectOrder),
         contexts : SUBSET Elements(ContextOrder)]

Intent == [action : Elements(ActionOrder) \cup {None},
           subject : Elements(SubjectOrder) \cup {None},
           context : Elements(ContextOrder) \cup {None}]

NoIntent == [action |-> None, subject |-> None, context |-> None]

\* The first class in the order of its table that the text hits.
Extract(order, hits) ==
  LET first == SelectInSeq(order, LAMBDA class : class \in hits)
  IN IF first = 0 THEN None ELSE order[first]

\* classify; NoIntent is its None.
Classify(text) ==
  [action |-> Extract(ActionOrder, text.actions),
   subject |-> Extract(SubjectOrder, text.subjects),
   context |-> Extract(ContextOrder, text.contexts)]

\* classification_confidence: 3 is high, 2 is medium, 1 is low.
Confidence(intent) == Cardinality({f \in DOMAIN intent : intent[f] # None})

\* REGULATORY_RISK_MAP, rule by rule, and the default.
Conditions(intent) ==
  LET a == intent.action
      s == intent.subject
      c == intent.context
  IN <<a \in {"evaluating", "automated_decision"} /\ s = "job_candidates",
       a = "surveillance" /\ s = "employees",
       a = "financial_decision" \/ s = "financial_subjects",
       c = "healthcare" \/ s = "patients",
       /\ a = "processing_personal_data"
       /\ s \in {"customers", "general_public", "employees", "job_candidates"},
       a = "content_generation" /\ s = "internal_data" /\ c \in {"engineering", "marketing"},
       a = "legal_analysis" \/ c = "legal",
       TRUE>>

RuleObligations ==
  <<{"EU_AI_ACT_ART6", "EU_AI_ACT_ART13", "GDPR_ART22"},
    {"GDPR_ART6", "EU_AI_ACT_ART6"},
    {"EU_AI_ACT_ART6", "GDPR_ART22"},
    {"EU_AI_ACT_ART6", "HIPAA_MINIMUM_NECESSARY"},
    {"GDPR_ART5", "INDIA_DPDP_S4"},
    {},
    {"GDPR_ART9"},
    {}>>

\* The obligations of the first rule whose condition holds.
Obligations(intent) == RuleObligations[SelectInSeq(Conditions(intent), LAMBDA holds : holds)]

\* _extract_best_intent: the first classification of the highest confidence.
BestIntent(texts) ==
  LET strength(text) == Confidence(Classify(text))
      best == SelectInSeq(texts, LAMBDA text : \A i \in DOMAIN texts : strength(texts[i]) <= strength(text))
  IN IF best = 0 THEN NoIntent ELSE Classify(texts[best])
=============================================================================
