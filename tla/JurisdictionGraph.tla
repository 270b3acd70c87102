------------------------- MODULE JurisdictionGraph --------------------------
(***************************************************************************)
(* The regulatory graph and its traversal: the articles that a detection   *)
(* triggers, the governance that is missing, the highest risk.             *)
(***************************************************************************)
EXTENDS Naturals, FiniteSets

Risks == {"low", "medium", "high", "critical"}
Elevated == {"high", "critical"}
Noticeable == {"medium"} \cup Elevated

\* An article applies to some levels of risk, and any one of the conditions triggers it.
Article(regulation, risks, categories, actions, subjects, contexts) ==
  [regulation |-> regulation, risks |-> risks, categories |-> categories,
   actions |-> actions, subjects |-> subjects, contexts |-> contexts]

Persons == {"customers", "employees", "general_public", "job_candidates"}
Sectors == {"hr", "finance", "healthcare", "legal"}

EuAiAct ==
  [EU_AI_ACT_ART5 |-> Article("EU_AI_ACT", {"critical"}, {},
     {"surveillance", "social_scoring", "subliminal_manipulation"}, {},
     {"law_enforcement", "government"}),
   EU_AI_ACT_ART6 |-> Article("EU_AI_ACT", Elevated, {"llm", "agent", "code_assistant"}, {},
     {"job_candidates", "employees", "patients", "financial_subjects", "general_public"},
     Sectors \cup {"law_enforcement", "education"}),
   EU_AI_ACT_ART9 |-> Article("EU_AI_ACT", Elevated, {"llm", "agent"}, {}, {}, Sectors),
   EU_AI_ACT_ART13 |-> Article("EU_AI_ACT", Elevated, {}, {}, Persons \cup {"patients"}, {}),
   EU_AI_ACT_ART14 |-> Article("EU_AI_ACT", Elevated, {},
     {"automated_decision", "evaluating", "financial_decision", "healthcare"}, {}, Sectors)]

DataProtection ==
  [GDPR_ART5 |-> Article("GDPR", Noticeable, {}, {"processing_personal_data"},
     Persons \cup {"patients"}, {}),
   GDPR_ART22 |-> Article("GDPR", Elevated, {},
     {"automated_decision", "evaluating", "financial_decision"},
     Persons \cup {"financial_subjects"}, {}),
   GDPR_ART35 |-> Article("GDPR", Elevated, {},
     {"automated_decision", "processing_personal_data", "surveillance"}, Persons, {}),
   INDIA_DPDP_S4 |-> Article("INDIA_DPDP", Noticeable, {}, {"processing_personal_data"},
     Persons, {}),
   INDIA_DPDP_S8 |-> Article("INDIA_DPDP", Noticeable, {"llm", "agent", "data_ai", "embedding"},
     {}, Persons, {})]

SectorAndFrameworks ==
  [HIPAA_MINIMUM_NECESSARY |-> Article("HIPAA", Elevated, {}, {}, {"patients"}, {"healthcare"}),
   HIPAA_SAFEGUARDS |-> Article("HIPAA", Elevated, {"llm", "data_ai", "agent"}, {}, {},
     {"healthcare"}),
   ISO_42001_C4 |-> Article("ISO_42001", Noticeable,
     {"llm", "agent", "code_assistant", "data_ai"}, {}, {}, {}),
   ISO_42001_C8 |-> Article("ISO_42001", Noticeable, {"llm", "agent", "code_assistant"},
     {}, {}, {}),
   NIST_GOVERN |-> Article("NIST_AI_RMF", Noticeable,
     {"llm", "agent", "code_assistant", "data_ai"}, {}, {}, {}),
   NIST_MAP |-> Article("NIST_AI_RMF", Noticeable, {},
     {"automated_decision", "evaluating", "processing_personal_data"}, {}, {})]

\* ARTICLE_DEFINITIONS, by id.
Articles ==
  [id \in DOMAIN EuAiAct \cup DOMAIN DataProtection \cup DOMAIN SectorAndFrameworks |->
     CASE id \in DOMAIN EuAiAct -> EuAiAct[id]
       [] id \in DOMAIN DataProtection -> DataProtection[id]
       [] OTHER -> SectorAndFrameworks[id]]

-----------------------------------------------------------------------------
(* The traversal.  x: the category, risk, action, subject and context of a *)
(* detection.                                                              *)

\* Mutant: the data subjects are not looked at.
TriggersBySystemOnly(article, x) ==
  \/ x.category \in article.categories
  \/ x.action \in article.actions
  \/ x.context \in article.contexts

\* Any condition of any type.  The docstring of the engine says so (line 21), and then
\* "AND logic between condition types" (line 26), which is not what the code does.
Triggers(article, x) ==
  \/ x.category \in article.categories
  \/ x.action \in article.actions
  \/ x.subject \in article.subjects
  \/ x.context \in article.contexts

\* _traverse_graph
Traverse(x) ==
  {id \in DOMAIN Articles : x.risk \in Articles[id].risks /\ Triggers(Articles[id], x)}

RegulationsOf(matched) == {Articles[id].regulation : id \in matched}

\* _compute_missing_governance: the rules of MISSING_GOVERNANCE_RULES that hold.
MissingGovernance(matched, x) ==
  LET regulations == RegulationsOf(matched)
  IN {action \in {"conformity assessment", "DPIA", "human oversight",
                  "business associate agreement", "consent mechanism", "risk assessment",
                  "data subject rights"} :
        CASE action = "conformity assessment" -> "EU_AI_ACT" \in regulations /\ x.risk \in Elevated
          [] action = "DPIA" -> "GDPR" \in regulations /\ x.action = "automated_decision"
          [] action = "human oversight" -> regulations \cap {"GDPR", "EU_AI_ACT"} # {}
          [] action = "business associate agreement" -> "HIPAA" \in regulations
          [] action = "consent mechanism" -> "INDIA_DPDP" \in regulations
          [] action = "risk assessment" -> x.risk \in Elevated
          [] OTHER -> x.subject \in {"patients", "employees", "job_candidates"}}

Rank == [low |-> 0, medium |-> 1, high |-> 2, critical |-> 3]

\* _compute_highest_risk: raised to every level that a matched article applies to,
\* and not only to the level at which it matched.
HighestRisk(matched, base) ==
  CHOOSE r \in Risks :
    LET reached == {base} \cup UNION {Articles[id].risks : id \in matched}
    IN r \in reached /\ \A other \in reached : Rank[other] <= Rank[r]
=============================================================================
