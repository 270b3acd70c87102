------------------- MODULE DetectionAssessmentProofs -----------------------
(***************************************************************************)
(* Theorems about DetectionAssessment: whatever the order in which scans,  *)
(* users and the nightly pass assess a detection, the articles its intent  *)
(* names as obligations are matched, and its columns sum up its JSON.      *)
(*                                                                         *)
(* The first is a fact about two tables, which is proved for every article *)
(* and every attribute that triggers it: an article that an intent obliges *)
(* to is triggered by a part of that intent, and Traverse leaves none out. *)
(*                                                                         *)
(* The second is not inductive, as a session stores only the columns that  *)
(* it changed and takes the others from whoever stored before.  The tool,  *)
(* intent and band of a row never change, so that all sessions that find   *)
(* the same profile write the same columns.  The invariant says that those *)
(* in the table are either as the session has read them, all of them, or   *)
(* all as it is going to write them: then what it leaves out is the same.  *)
(***************************************************************************)
EXTENDS DetectionAssessment, FiniteSetTheorems, TLAPS

-----------------------------------------------------------------------------
(* What the two tables say.                                                *)

\* Of some subsets of a finite set, one has none of the others below it.
LEMMA MinimalSubset ==
  ASSUME NEW S, IsFiniteSet(S), NEW B \in SUBSET SUBSET S, B # {}
  PROVE  \E T \in B : \A U \in B : U \subseteq T => U = T
<1>1. IsWellFoundedOn(StrictSubsetOrdering(S), FiniteSubsetsOf(S))
  BY FS_StrictSubsetOrderingWellFounded
<1>2. B \subseteq FiniteSubsetsOf(S)
  BY FS_FiniteSubsetsOfFinite
<1>3. PICK T \in B : \A U \in B : ~ (<<U, T>> \in StrictSubsetOrdering(S))
  BY <1>1, <1>2, WFMin
<1>4. ASSUME NEW U \in B, U \subseteq T
      PROVE  U = T
  BY <1>3, <1>4 DEF StrictSubsetOrdering
<1> QED BY <1>4

\* The least number of a set of naturals is one of them, and no greater than any: Min of
\* the community modules, by which the rules choose the earliest keyword of a text.
LEMMA MinIs ==
  ASSUME NEW S \in SUBSET Nat, S # {}
  PROVE  Min(S) \in S /\ \A k \in S : Min(S) <= k
<1>0. \A j \in S : j \in Nat
  OBVIOUS
<1>1. PICK n \in S : n \in Nat
  BY <1>0
<1> DEFINE D == 0 .. n
           Upto(k) == {j \in S : j <= k}
           B == {Upto(k) : k \in Upto(n)}
<1>2. IsFiniteSet(D)
  BY FS_Interval
<1>3. B \in SUBSET SUBSET D /\ B # {}
  <2>1. \A k \in Upto(n) : Upto(k) \subseteq D
    <3> SUFFICES ASSUME NEW k \in S, k <= n, NEW j \in S, j <= k PROVE j \in 0 .. n
      OBVIOUS
    <3> QED BY <1>0, <1>1
  <2>2. n \in Upto(n)
    OBVIOUS
  <2> HIDE DEF Upto, D
  <2> QED BY <2>1, <2>2
<1>4. PICK T \in B : \A U \in B : U \subseteq T => U = T
  <2> HIDE DEF B, D
  <2> QED BY <1>2, <1>3, MinimalSubset
<1>5. PICK m \in Upto(n) : T = Upto(m)
  OBVIOUS
<1>6. ASSUME NEW k \in S, k < m
      PROVE  FALSE
  <2>1. k \in Upto(n) /\ Upto(k) \subseteq Upto(m)
    <3>1. m \in S /\ m <= n
      OBVIOUS
    <3>2. \A j \in S : j <= k => j <= m
      BY <1>0, <1>6, <3>1
    <3>3. k <= n
      BY <1>0, <1>1, <1>6, <3>1
    <3> QED BY <3>2, <3>3
  <2>2. Upto(k) = Upto(m)
    <3> HIDE DEF Upto
    <3> QED BY <1>4, <1>5, <2>1
  <2>3. m \in Upto(m) /\ m \notin Upto(k)
    BY <1>6
  <2> HIDE DEF Upto
  <2> QED BY <2>2, <2>3
<1>7. m \in S /\ \A k \in S : m <= k
  BY <1>6
<1> QED BY <1>7 DEF Min

\* What a rule table extracts from a text is one of its values, or none.
LEMMA ExtractType ==
  ASSUME NEW order, NEW hits, DOMAIN order = 1 .. Len(order), Len(order) \in Nat
  PROVE  Extract(order, hits) \in Elements(order) \cup {None}
<1> DEFINE I == {i \in 1 .. Len(order) : order[i] \in hits}
<1>1. SelectInSeq(order, LAMBDA class : class \in hits) = IF I # {} THEN Min(I) ELSE 0
  BY DEF SelectInSeq
<1>2. I \in SUBSET Nat /\ 0 \notin I /\ I \subseteq DOMAIN order
  OBVIOUS
<1>4. Extract(order, hits) = IF I # {} THEN order[Min(I)] ELSE None
  <2>1. CASE I # {}
    <3>1. Min(I) \in I
      BY <1>2, <2>1, MinIs
    <3>2. Min(I) # 0
      BY <3>1, <1>2
    <3> QED BY <2>1, <3>2, <1>1 DEF Extract
  <2>2. CASE I = {}
    BY <1>1, <2>2 DEF Extract
  <2> QED BY <2>1, <2>2
<1>5. I # {} => Min(I) \in DOMAIN order
  <2> SUFFICES ASSUME I # {} PROVE Min(I) \in DOMAIN order
    OBVIOUS
  <2> HIDE DEF I
  <2>1. Min(I) \in I
    BY <1>2, MinIs
  <2> QED BY <2>1, <1>2
<1> HIDE DEF I
<1> QED BY <1>4, <1>5 DEF Elements

\* The intent of a text has the types of its columns.
LEMMA ClassifyType == \A text : Classify(text) \in Intent
<1>1. /\ Len(ActionOrder) = 8 /\ DOMAIN ActionOrder = 1 .. 8
      /\ Len(SubjectOrder) = 7 /\ DOMAIN SubjectOrder = 1 .. 7
      /\ Len(ContextOrder) = 8 /\ DOMAIN ContextOrder = 1 .. 8
  BY DEF ActionOrder, SubjectOrder, ContextOrder
<1>2. \A hits : /\ Extract(ActionOrder, hits) \in Elements(ActionOrder) \cup {None}
                /\ Extract(SubjectOrder, hits) \in Elements(SubjectOrder) \cup {None}
                /\ Extract(ContextOrder, hits) \in Elements(ContextOrder) \cup {None}
  BY <1>1, ExtractType
<1> QED BY <1>2 DEF Classify, Intent

Intents == {NoIntent} \cup {Classify(text) : text \in Evidence}
Profiles == Seeds \cup {[category |-> "other", risk |-> band] : band \in Bands}

\* The best intent of some texts is that of one of them, or none.
LEMMA BestIntentType ==
  ASSUME NEW n \in Nat, NEW texts \in [1 .. n -> Evidence]
  PROVE  BestIntent(texts) \in Intents
<1> DEFINE Best(i) == \A j \in DOMAIN texts :
                        Confidence(Classify(texts[j])) <= Confidence(Classify(texts[i]))
           I == {i \in 1 .. Len(texts) : Best(i)}
<1>1. BestIntent(texts) = IF (IF I # {} THEN Min(I) ELSE 0) = 0 THEN NoIntent
                          ELSE Classify(texts[IF I # {} THEN Min(I) ELSE 0])
  BY DEF BestIntent, SelectInSeq
<1>2. texts \in Seq(Evidence) /\ Len(texts) = n
  OBVIOUS
<1>3. I \in SUBSET Nat /\ I \subseteq 1 .. n
  BY <1>2
<1> HIDE DEF I
<1>4. CASE I = {}
  BY <1>1, <1>4 DEF Intents
<1>5. CASE I # {}
  <2>1. Min(I) \in I
    BY <1>3, <1>5, MinIs
  <2>2. Min(I) \in 1 .. n /\ Min(I) # 0
    <3>1. \A k \in 1 .. n : k # 0
      OBVIOUS
    <3> QED BY ONLY <1>3, <2>1, <3>1
  <2>3. texts[Min(I)] \in Evidence
    BY <2>2
  <2> QED BY <1>1, <1>5, <2>2, <2>3 DEF Intents
<1> QED BY <1>4, <1>5

-----------------------------------------------------------------------------
(* The graph.                                                              *)

ArticleIds ==
  {"EU_AI_ACT_ART5", "EU_AI_ACT_ART6", "EU_AI_ACT_ART9", "EU_AI_ACT_ART13", "EU_AI_ACT_ART14",
   "GDPR_ART5", "GDPR_ART22", "GDPR_ART35", "INDIA_DPDP_S4", "INDIA_DPDP_S8",
   "HIPAA_MINIMUM_NECESSARY", "HIPAA_SAFEGUARDS", "ISO_42001_C4", "ISO_42001_C8",
   "NIST_GOVERN", "NIST_MAP"}

Regulations == {"EU_AI_ACT", "GDPR", "INDIA_DPDP", "HIPAA", "ISO_42001", "NIST_AI_RMF"}

\* What the properties ask of an article.
LEMMA ArticleTable ==
  /\ DOMAIN Articles = ArticleIds
  /\ \A id \in DOMAIN Articles :
       Articles[id].regulation \in Regulations /\ Articles[id].risks \subseteq Risks
<1>1. /\ DOMAIN EuAiAct = {"EU_AI_ACT_ART5", "EU_AI_ACT_ART6", "EU_AI_ACT_ART9", "EU_AI_ACT_ART13",
                           "EU_AI_ACT_ART14"}
      /\ \A id \in DOMAIN EuAiAct :
           EuAiAct[id].regulation \in Regulations /\ EuAiAct[id].risks \subseteq Risks
  BY DEF EuAiAct, Article, Regulations, Risks, Elevated, Noticeable
<1>2. /\ DOMAIN DataProtection = {"GDPR_ART5", "GDPR_ART22", "GDPR_ART35", "INDIA_DPDP_S4", "INDIA_DPDP_S8"}
      /\ \A id \in DOMAIN DataProtection :
           DataProtection[id].regulation \in Regulations /\ DataProtection[id].risks \subseteq Risks
  BY DEF DataProtection, Article, Regulations, Risks, Elevated, Noticeable
<1>3. /\ DOMAIN SectorAndFrameworks = {"HIPAA_MINIMUM_NECESSARY", "HIPAA_SAFEGUARDS", "ISO_42001_C4",
                                       "ISO_42001_C8", "NIST_GOVERN", "NIST_MAP"}
      /\ \A id \in DOMAIN SectorAndFrameworks :
           SectorAndFrameworks[id].regulation \in Regulations /\ SectorAndFrameworks[id].risks \subseteq Risks
  BY DEF SectorAndFrameworks, Article, Regulations, Risks, Elevated, Noticeable
<1>4. DOMAIN Articles = DOMAIN EuAiAct \cup DOMAIN DataProtection \cup DOMAIN SectorAndFrameworks
  BY DEF Articles
<1>5. /\ \A id \in DOMAIN EuAiAct : Articles[id] = EuAiAct[id]
      /\ \A id \in DOMAIN DataProtection : Articles[id] = DataProtection[id]
      /\ \A id \in DOMAIN SectorAndFrameworks : Articles[id] = SectorAndFrameworks[id]
  BY <1>1, <1>2, <1>3 DEF Articles
<1> QED BY <1>1, <1>2, <1>3, <1>4, <1>5 DEF ArticleIds

\* What triggers the articles that the intent rules name.
LEMMA ArticleTriggers ==
  /\ {"job_candidates", "employees", "patients", "financial_subjects"} \subseteq Articles["EU_AI_ACT_ART6"].subjects
  /\ "healthcare" \in Articles["EU_AI_ACT_ART6"].contexts
  /\ "job_candidates" \in Articles["EU_AI_ACT_ART13"].subjects
  /\ {"job_candidates", "financial_subjects"} \subseteq Articles["GDPR_ART22"].subjects
  /\ "financial_decision" \in Articles["GDPR_ART22"].actions
  /\ "patients" \in Articles["HIPAA_MINIMUM_NECESSARY"].subjects
  /\ "healthcare" \in Articles["HIPAA_MINIMUM_NECESSARY"].contexts
  /\ "processing_personal_data" \in Articles["GDPR_ART5"].actions
  /\ "processing_personal_data" \in Articles["INDIA_DPDP_S4"].actions
<1>1. /\ Articles["EU_AI_ACT_ART6"] = EuAiAct["EU_AI_ACT_ART6"]
      /\ Articles["EU_AI_ACT_ART13"] = EuAiAct["EU_AI_ACT_ART13"]
      /\ Articles["GDPR_ART22"] = DataProtection["GDPR_ART22"]
      /\ Articles["HIPAA_MINIMUM_NECESSARY"] = SectorAndFrameworks["HIPAA_MINIMUM_NECESSARY"]
      /\ Articles["GDPR_ART5"] = DataProtection["GDPR_ART5"]
      /\ Articles["INDIA_DPDP_S4"] = DataProtection["INDIA_DPDP_S4"]
  BY DEF Articles, EuAiAct, DataProtection, SectorAndFrameworks
<1>2. /\ EuAiAct["EU_AI_ACT_ART6"].subjects =
           {"job_candidates", "employees", "patients", "financial_subjects", "general_public"}
      /\ "healthcare" \in EuAiAct["EU_AI_ACT_ART6"].contexts
      /\ EuAiAct["EU_AI_ACT_ART13"].subjects = Persons \cup {"patients"}
  BY DEF EuAiAct, Article, Sectors
<1>3. /\ DataProtection["GDPR_ART22"].subjects = Persons \cup {"financial_subjects"}
      /\ "financial_decision" \in DataProtection["GDPR_ART22"].actions
      /\ "processing_personal_data" \in DataProtection["GDPR_ART5"].actions
      /\ "processing_personal_data" \in DataProtection["INDIA_DPDP_S4"].actions
  BY DEF DataProtection, Article
<1>4. /\ "patients" \in SectorAndFrameworks["HIPAA_MINIMUM_NECESSARY"].subjects
      /\ "healthcare" \in SectorAndFrameworks["HIPAA_MINIMUM_NECESSARY"].contexts
  BY DEF SectorAndFrameworks, Article
<1> QED BY <1>1, <1>2, <1>3, <1>4 DEF Persons

\* A matched article applies to the risk and is triggered by one of the attributes.
LEMMA ObligationsTrigger ==
  ASSUME NEW i, NEW x, x.action = i.action, x.subject = i.subject, x.context = i.context,
         NEW o \in Obligations(i) \cap DOMAIN Articles, x.risk \in Articles[o].risks,
         ~(o = "EU_AI_ACT_ART6" /\ i.action = "financial_decision")
  PROVE  o \in Traverse(x)
<1> DEFINE I == {k \in 1 .. 8 : Conditions(i)[k]}
<1>1. Len(Conditions(i)) = 8
  BY DEF Conditions
<1>2. SelectInSeq(Conditions(i), LAMBDA holds : holds) = IF I # {} THEN Min(I) ELSE 0
  BY <1>1 DEF SelectInSeq
<1>3. 8 \in I /\ I \in SUBSET Nat
  <2>1. Conditions(i)[8]
    BY DEF Conditions
  <2> QED BY <2>1
<1>4. Min(I) \in I
  <2> HIDE DEF I
  <2> QED BY <1>3, MinIs
<1>5. Obligations(i) = RuleObligations[Min(I)]
  BY <1>2, <1>3 DEF Obligations
<1>6. PICK k \in 1 .. 8 : Conditions(i)[k] /\ o \in RuleObligations[k]
  BY <1>4, <1>5
<1> HIDE DEF I
<1>7. Triggers(Articles[o], x)
  <2>0. o \in ArticleIds
    BY ArticleTable
  <2>1. CASE k = 1
    <3>1. i.subject = "job_candidates" /\ o \in {"EU_AI_ACT_ART6", "EU_AI_ACT_ART13", "GDPR_ART22"}
      BY <1>6, <2>1 DEF Conditions, RuleObligations
    <3> QED BY <3>1, ArticleTriggers DEF Triggers
  <2>2. CASE k = 2
    <3>1. i.subject = "employees" /\ o \in {"GDPR_ART6", "EU_AI_ACT_ART6"}
      BY <1>6, <2>2 DEF Conditions, RuleObligations
    <3>2. o = "EU_AI_ACT_ART6"
      BY <2>0, <3>1 DEF ArticleIds
    <3> QED BY <3>1, <3>2, ArticleTriggers DEF Triggers
  <2>3. CASE k = 3
    <3>1. /\ i.action = "financial_decision" \/ i.subject = "financial_subjects"
          /\ o \in {"EU_AI_ACT_ART6", "GDPR_ART22"}
      BY <1>6, <2>3 DEF Conditions, RuleObligations
    <3> QED BY <3>1, ArticleTriggers DEF Triggers
  <2>4. CASE k = 4
    <3>1. /\ i.context = "healthcare" \/ i.subject = "patients"
          /\ o \in {"EU_AI_ACT_ART6", "HIPAA_MINIMUM_NECESSARY"}
      BY <1>6, <2>4 DEF Conditions, RuleObligations
    <3> QED BY <3>1, ArticleTriggers DEF Triggers
  <2>5. CASE k = 5
    <3>1. i.action = "processing_personal_data" /\ o \in {"GDPR_ART5", "INDIA_DPDP_S4"}
      BY <1>6, <2>5 DEF Conditions, RuleObligations
    <3> QED BY <3>1, ArticleTriggers DEF Triggers
  <2>6. CASE k \in {6, 7, 8}
    BY <1>6, <2>0, <2>6 DEF RuleObligations, ArticleIds
  <2> QED BY <2>1, <2>2, <2>3, <2>4, <2>5, <2>6
<1> QED BY <1>7 DEF Traverse

\* The highest risk is a level of risk.
LEMMA HighestRiskType ==
  ASSUME NEW matched \in SUBSET DOMAIN Articles, NEW base \in Risks
  PROVE  HighestRisk(matched, base) \in Risks
<1> DEFINE reached == {base} \cup UNION {Articles[id].risks : id \in matched}
<1>1. reached \subseteq Risks /\ base \in reached
  BY ArticleTable
<1> HIDE DEF reached
<1>2. \E r \in Risks : r \in reached /\ \A other \in reached : Rank[other] <= Rank[r]
  BY <1>1 DEF Risks, Rank
<1>3. HighestRisk(matched, base) =
        CHOOSE r \in Risks : r \in reached /\ \A other \in reached : Rank[other] <= Rank[r]
  BY DEF HighestRisk, reached
<1> QED BY <1>2, <1>3

\* Three more elements leave a set finite.
LEMMA ThreeMore ==
  ASSUME NEW S, IsFiniteSet(S), NEW a, NEW b, NEW c
  PROVE  IsFiniteSet(S \cup {a, b, c})
<1>1. IsFiniteSet(S \cup {a})
  BY FS_AddElement
<1>2. PICK T : T = S \cup {a}
  OBVIOUS
<1>3. IsFiniteSet(T \cup {b})
  BY ONLY <1>1, <1>2, FS_AddElement
<1>4. PICK U : U = T \cup {b}
  OBVIOUS
<1>5. IsFiniteSet(U \cup {c})
  BY ONLY <1>3, <1>4, FS_AddElement
<1>6. U \cup {c} = S \cup {a, b, c}
  BY <1>2, <1>4
<1> QED BY <1>5, <1>6

\* The regulations of some articles can be counted.
LEMMA RegulationsCount ==
  ASSUME NEW matched \in SUBSET DOMAIN Articles
  PROVE  Cardinality(RegulationsOf(matched)) \in Nat
<1>1. RegulationsOf(matched) \subseteq Regulations
  BY ArticleTable DEF RegulationsOf
<1>2. IsFiniteSet(Regulations)
  <2>1. IsFiniteSet({} \cup {"EU_AI_ACT", "GDPR", "INDIA_DPDP"})
    BY FS_EmptySet, ThreeMore
  <2>2. PICK T : T = {} \cup {"EU_AI_ACT", "GDPR", "INDIA_DPDP"}
    OBVIOUS
  <2>3. IsFiniteSet(T \cup {"HIPAA", "ISO_42001", "NIST_AI_RMF"})
    BY ONLY <2>1, <2>2, ThreeMore
  <2> QED BY <2>2, <2>3 DEF Regulations
<1> QED BY <1>1, <1>2, FS_Subset, FS_CardinalityType

\* And so can the measures that are missing.
LEMMA GovernanceCount ==
  ASSUME NEW matched, NEW x
  PROVE  Cardinality(MissingGovernance(matched, x)) \in Nat
<1> DEFINE Rules == {"conformity assessment", "DPIA", "human oversight",
                     "business associate agreement", "consent mechanism", "risk assessment",
                     "data subject rights"}
<1>1. MissingGovernance(matched, x) \subseteq Rules
  BY DEF MissingGovernance
<1>2. IsFiniteSet(Rules)
  <2>1. IsFiniteSet({"conformity assessment"} \cup {"DPIA", "human oversight", "business associate agreement"})
    BY FS_Singleton, ThreeMore
  <2>2. PICK T : T = {"conformity assessment"} \cup {"DPIA", "human oversight", "business associate agreement"}
    OBVIOUS
  <2>3. IsFiniteSet(T \cup {"consent mechanism", "risk assessment", "data subject rights"})
    BY ONLY <2>1, <2>2, ThreeMore
  <2> QED BY <2>2, <2>3
<1> HIDE DEF Rules
<1> QED BY <1>1, <1>2, FS_Subset, FS_CardinalityType

Attributes(p, i) == [category |-> p.category, risk |-> p.risk, action |-> i.action,
                     subject |-> i.subject, context |-> i.context]

\* An assessment that an intent demands has the articles of its obligations.
Covers(intent, json) ==
  \A o \in Obligations(intent) \cap DOMAIN Articles :
    json.risk \in Articles[o].risks /\ ~(o = "EU_AI_ACT_ART6" /\ intent.action = "financial_decision")
      => o \in json.articles

\* The table of verdicts says what the traversal finds.
LEMMA VerdictIs ==
  ASSUME NEW p \in Profiles, NEW i \in Intents, NEW x, x = Attributes(p, i)
  PROVE  Verdict[p][i] = [articles |-> Traverse(x), risk |-> p.risk,
                          highest |-> HighestRisk(Traverse(x), p.risk),
                          missing |-> Cardinality(MissingGovernance(Traverse(x), x)),
                          regulations |-> Cardinality(RegulationsOf(Traverse(x)))]
BY DEF Verdict, Profiles, Intents, Attributes

\* A verdict has the types of the columns, counts what it lists, and covers the
\* obligations of its intent.
LEMMA VerdictFacts ==
  ASSUME NEW p \in Profiles, NEW i \in Intents, NEW v, v = Verdict[p][i], p.risk \in Risks
  PROVE  /\ v.articles \in SUBSET DOMAIN Articles /\ v.missing \in Nat
         /\ v.highest \in Risks /\ v.risk \in Risks
         /\ v.regulations = Cardinality(RegulationsOf(v.articles)) /\ v.regulations \in Nat
         /\ Covers(i, v)
<1>0. PICK x : x = Attributes(p, i)
  OBVIOUS
<1>1. /\ x.action = i.action /\ x.subject = i.subject /\ x.context = i.context
      /\ x.risk = p.risk
  BY <1>0 DEF Attributes
<1>2. /\ v.articles = Traverse(x) /\ v.risk = p.risk
      /\ v.highest = HighestRisk(Traverse(x), p.risk)
      /\ v.missing = Cardinality(MissingGovernance(Traverse(x), x))
      /\ v.regulations = Cardinality(RegulationsOf(Traverse(x)))
  <2>1. Verdict[p][i] = [articles |-> Traverse(x), risk |-> p.risk,
                         highest |-> HighestRisk(Traverse(x), p.risk),
                         missing |-> Cardinality(MissingGovernance(Traverse(x), x)),
                         regulations |-> Cardinality(RegulationsOf(Traverse(x)))]
    BY <1>0, VerdictIs
  <2> QED BY <2>1
<1>3. Traverse(x) \in SUBSET DOMAIN Articles
  BY DEF Traverse
<1>4. v.highest \in Risks
  BY <1>2, <1>3, HighestRiskType
<1>5. v.missing \in Nat /\ v.regulations \in Nat
  BY <1>2, <1>3, RegulationsCount, GovernanceCount
<1>6. Covers(i, v)
  <2> SUFFICES ASSUME NEW o \in Obligations(i) \cap DOMAIN Articles, v.risk \in Articles[o].risks,
                      ~(o = "EU_AI_ACT_ART6" /\ i.action = "financial_decision")
               PROVE  o \in v.articles
    BY DEF Covers
  <2> QED BY <1>1, <1>2, ObligationsTrigger
<1> QED BY <1>2, <1>3, <1>4, <1>5, <1>6

-----------------------------------------------------------------------------
(* The invariant.                                                          *)

\* The profile that a session finds for a row.
ProfileOf(row, reg) == IF row.tool = NoTool THEN Unmatched(row) ELSE reg[row.tool]

\* The columns that repeat what the JSON says.
Columns(row) == [count |-> row.count, highest |-> row.highest, graph |-> row.graph]

\* These columns, as an assessment of the row writes them now.
Fresh(row, reg, ver) ==
  LET verdict == Verdict[ProfileOf(row, reg)][row.intent]
  IN [count |-> verdict.regulations, highest |-> verdict.highest, graph |-> ver]

SameSubject(row, other) ==
  row.tool = other.tool /\ row.intent = other.intent /\ row.band = other.band

\* All sessions find the same profile for the row.
Agreed(c, row) == c \in Hosts => row.tool = NoTool

\* A detection of a tool has its signature, and each row has a profile and an intent that
\* the table of verdicts knows.
RowHolds(c, row, mixed) ==
  /\ row.intent \in Intents
  /\ row.status # "absent" =>
       /\ c \in Tools => row.tool = c
       /\ row.tool = NoTool => row.band \in Bands
  /\ Covers(row.intent, row.json)
  /\ ~mixed /\ Agreed(c, row) => Summarised(row)

\* A row that is not inserted yet, which may be stored as it was before its assessment or
\* after.
InsertHolds(s) ==
  s.at = "insert" =>
    /\ s.case \in Tools /\ s.loaded.status = "open" /\ s.loaded.tool = s.case
    /\ s.loaded.json = NoAssessment /\ Summarised(s.loaded)
    /\ s.loaded.intent \in Intents
    /\ s.new.status = "open" /\ SameSubject(s.new, s.loaded)
    /\ Covers(s.new.intent, s.new.json) /\ Summarised(s.new)

\* What a session has read of a row stands, but for the columns of an assessment: they
\* are as it has read them, or all as they are going to be, since whoever stored them
\* since has found the same.
ReadHolds(s, row, reg, ver, mixed) ==
  /\ s.at \in {"loaded", "read"} =>
       /\ row.status # "absent" /\ SameSubject(row, s.loaded)
       /\ ~mixed /\ Agreed(s.case, row) =>
            Columns(row) = Columns(s.loaded) \/ Columns(row) = Fresh(row, reg, ver)
  /\ s.at = "read" =>
       /\ Covers(s.loaded.intent, s.new.json) /\ Summarised(s.new)
       /\ ~mixed /\ Agreed(s.case, row) => Columns(s.new) = Fresh(row, reg, ver)

SessionHolds(s, table, reg, ver, mixed) ==
  /\ InsertHolds(s) /\ ReadHolds(s, table[s.case], reg, ver, mixed)
  /\ \A c \in s.todo : table[c].status # "absent"

AssessmentInv ==
  /\ TypeOK /\ registry \in [Tools -> Seeds]
  /\ \A c \in Cases : RowHolds(c, detections[c], overlapped)
  /\ \A w \in Workers : SessionHolds(sessions[w], detections, registry, version, overlapped)

-----------------------------------------------------------------------------
(* What an assessment writes.                                              *)

\* A profile is of a level of risk; that of the registry and that of a classifier's
\* band are in the table of verdicts.
LEMMA ProfileFacts ==
  /\ \A p \in Profiles : p.risk \in Risks
  /\ \A p \in Seeds : p \in Profiles
  /\ \A row : row.band \in Bands => Unmatched(row) \in Profiles
<1>1. \A p \in Catalogue : p.risk \in Risks
  BY DEF Catalogue, Risks
<1>2. \A band \in Bands : band \in Risks
  BY AssessmentAssumption DEF Risks
<1>3. \A p \in Seeds : p.risk \in Risks
  BY <1>1, AssessmentAssumption
<1>4. \A row : row.band \in Bands => Unmatched(row) \in Profiles
  BY DEF Profiles, Unmatched
<1> QED BY <1>2, <1>3, <1>4 DEF Profiles

\* The intents of the table are intents.
LEMMA IntentsType == Intents \subseteq Intent
<1>1. NoIntent \in Intent
  BY DEF NoIntent, Intent
<1> QED BY <1>1, ClassifyType DEF Intents

\* A version of the running graph is a version, and not that of no assessment.
LEMMA VersionFacts ==
  ASSUME NEW v \in Versions \ {0}
  PROVE  v \in Versions /\ v # 0 /\ v \in Nat /\ 0 \in Versions
BY AssessmentAssumption DEF Versions

\* An assessed row covers the obligations of its intent, sums up its JSON, and is
\* otherwise as it was.
LEMMA AssessedFacts ==
  ASSUME version \in Versions \ {0}, NEW row \in Detection, row.intent \in Intents,
         NEW p \in Profiles, NEW a, a = Assessed(row, p)
  PROVE  /\ a \in Detection /\ a.status = row.status /\ SameSubject(a, row)
         /\ Covers(row.intent, a.json) /\ Summarised(a)
         /\ Columns(a) = [count |-> Verdict[p][row.intent].regulations,
                          highest |-> Verdict[p][row.intent].highest, graph |-> version]
<1>1. PICK v : v = Verdict[p][row.intent]
  OBVIOUS
<1>2. /\ v.articles \in SUBSET DOMAIN Articles /\ v.missing \in Nat
      /\ v.highest \in Risks /\ v.risk \in Risks
      /\ v.regulations = Cardinality(RegulationsOf(v.articles)) /\ v.regulations \in Nat
      /\ Covers(row.intent, v)
  BY <1>1, ProfileFacts, VerdictFacts
<1>3. a = [row EXCEPT
             !.json = [articles |-> v.articles, missing |-> v.missing,
                       highest |-> v.highest, risk |-> v.risk, graph |-> version],
             !.count = v.regulations, !.highest = v.highest, !.graph = version]
  BY <1>1 DEF Assessed
<1>4. /\ a.status = row.status /\ a.tool = row.tool /\ a.intent = row.intent /\ a.band = row.band
      /\ a.json = [articles |-> v.articles, missing |-> v.missing,
                   highest |-> v.highest, risk |-> v.risk, graph |-> version]
      /\ a.count = v.regulations /\ a.highest = v.highest /\ a.graph = version
  BY <1>3 DEF Detection
<1>5. version \in Versions /\ version # 0
  BY VersionFacts
<1>6. a.json \in Assessment
  BY <1>2, <1>4, <1>5 DEF Assessment
<1>7. a \in Detection
  BY <1>2, <1>3, <1>5, <1>6, <1>4 DEF Detection
<1>8. Covers(row.intent, a.json)
  BY <1>2, <1>4 DEF Covers
<1>9. Summarised(a)
  BY <1>2, <1>4, <1>5 DEF Summarised, NoAssessment
<1> QED BY <1>1, <1>4, <1>7, <1>8, <1>9 DEF SameSubject, Columns

\* A stored row has the JSON of the session, and its columns too, if those in the table
\* are the ones that the session has read or already the ones that it writes.
LEMMA MergedFacts ==
  ASSUME NEW row \in Detection, NEW loaded \in Detection, NEW new \in Detection,
         NEW m, m = Merged(row, loaded, new)
  PROVE  /\ m \in Detection /\ m.status = row.status /\ SameSubject(m, row)
         /\ m.json = new.json
         /\ Columns(row) = Columns(loaded) \/ Columns(row) = Columns(new)
              => Columns(m) = Columns(new)
<1>1. /\ m.status = row.status /\ m.tool = row.tool /\ m.intent = row.intent /\ m.band = row.band
      /\ m.json = new.json
      /\ m.count = IF new.count = loaded.count THEN row.count ELSE new.count
      /\ m.highest = IF new.highest = loaded.highest THEN row.highest ELSE new.highest
      /\ m.graph = IF new.graph = loaded.graph THEN row.graph ELSE new.graph
  BY DEF Merged, Detection
<1>2. m \in Detection
  BY DEF Merged, Detection
<1>3. ASSUME Columns(row) = Columns(loaded) \/ Columns(row) = Columns(new)
      PROVE  Columns(m) = Columns(new)
  <2>1. \/ row.count = loaded.count /\ row.highest = loaded.highest /\ row.graph = loaded.graph
        \/ row.count = new.count /\ row.highest = new.highest /\ row.graph = new.graph
    BY <1>3 DEF Columns
  <2> QED BY <1>1, <2>1 DEF Columns
<1> QED BY <1>1, <1>2, <1>3 DEF SameSubject

\* Without an assessment there is no risk that an article could apply to.
LEMMA NothingCovered == \A intent : Covers(intent, NoAssessment)
<1>1. NoAssessment.risk \notin Risks
  BY DEF NoAssessment, Risks, None
<1> QED BY <1>1, ArticleTable DEF Covers

\* A row that nothing has assessed.
NewRow(tool, intent, band) ==
  [status |-> "open", tool |-> tool, intent |-> intent, band |-> band, json |-> NoAssessment,
   count |-> Null, highest |-> None, graph |-> 0]

\* Such a row has the types of its columns, sums up that there is no JSON, and owes nothing.
LEMMA NewRowFacts ==
  ASSUME NEW tool \in Tools \cup {NoTool}, NEW intent \in Intents, NEW band \in {"medium", "high"},
         NEW row, row = NewRow(tool, intent, band)
  PROVE  /\ row \in Detection /\ row.status = "open" /\ row.tool = tool
         /\ row.intent = intent /\ row.band = band /\ row.json = NoAssessment
         /\ Summarised(row) /\ Covers(intent, row.json)
<1>1. /\ row.status = "open" /\ row.tool = tool /\ row.intent = intent /\ row.band = band
      /\ row.json = NoAssessment /\ row.count = Null /\ row.highest = None /\ row.graph = 0
  BY DEF NewRow
<1>2. 0 \in Versions
  BY AssessmentAssumption DEF Versions
<1>3. NoAssessment \in Assessment
  BY <1>2 DEF NoAssessment, Assessment
<1>4. row \in Detection
  BY <1>2, <1>3, IntentsType DEF NewRow, Detection
<1>5. Summarised(row)
  BY <1>1 DEF Summarised, NoAssessment
<1>7. Covers(intent, row.json)
  BY <1>1, NothingCovered
<1> QED BY <1>1, <1>4, <1>5, <1>7

\* Nothing is under way in an idle session.
LEMMA IdleFacts ==
  /\ Idle \in Session /\ Idle.at = "idle" /\ Idle.todo = {} /\ Absent \in Detection
  /\ \A table, reg, ver, mixed : SessionHolds(Idle, table, reg, ver, mixed)
<1>1. (CHOOSE c \in Cases : TRUE) \in Cases
  BY AssessmentAssumption DEF Cases
<1>2. 0 \in Versions
  BY AssessmentAssumption DEF Versions
<1>3. NoAssessment \in Assessment
  BY <1>2 DEF NoAssessment, Assessment
<1>4. NoIntent \in Intent
  BY DEF NoIntent, Intent
<1>5. Absent \in Detection
  BY <1>2, <1>3, <1>4 DEF Absent, Detection
<1>6. Idle \in Session /\ Idle.at = "idle" /\ Idle.todo = {}
  BY <1>1, <1>5 DEF Idle, Session
<1> QED BY <1>5, <1>6 DEF SessionHolds, InsertHolds, ReadHolds

-----------------------------------------------------------------------------
(* The invariant holds.                                                    *)

Sheltered ==
  UNCHANGED <<registry, version, overlapped>> /\ faults' \in 0 .. MaxFaults

\* The bound of the failures holds.
LEMMA FaultFacts ==
  ASSUME faults \in 0 .. MaxFaults
  PROVE  (UNCHANGED faults \/ Fault) => faults' \in 0 .. MaxFaults
BY AssessmentAssumption DEF Fault

\* A step that changes one session only.
LEMMA SessionStep ==
  ASSUME AssessmentInv, Sheltered, UNCHANGED detections, NEW w \in Workers, NEW s \in Session,
         sessions' = [sessions EXCEPT ![w] = s],
         SessionHolds(s, detections, registry, version, overlapped)
  PROVE  AssessmentInv'
<1>1. /\ sessions' \in [Workers -> Session]
      /\ \A x \in Workers : sessions'[x] = s \/ sessions'[x] = sessions[x]
  BY DEF AssessmentInv, TypeOK
<1>2. TypeOK' /\ registry' \in [Tools -> Seeds]
  BY <1>1 DEF AssessmentInv, TypeOK, Sheltered
<1>3. \A c \in Cases : RowHolds(c, detections'[c], overlapped')
  BY DEF AssessmentInv, Sheltered
<1>4. \A x \in Workers : SessionHolds(sessions'[x], detections', registry', version', overlapped')
  BY <1>1 DEF AssessmentInv, Sheltered
<1> QED BY <1>2, <1>3, <1>4 DEF AssessmentInv

\* A step that stores a row, and may change one session: what another session has read of
\* the row stands.
LEMMA RowStep ==
  ASSUME AssessmentInv, Sheltered, NEW c \in Cases, NEW row \in Detection,
         detections' = [detections EXCEPT ![c] = row],
         NEW w \in Workers, NEW s \in Session,
         sessions' = [sessions EXCEPT ![w] = s] \/ UNCHANGED sessions,
         SessionHolds(s, detections', registry, version, overlapped),
         row.status # "absent", RowHolds(c, row, overlapped),
         detections[c].status # "absent" =>
           /\ SameSubject(row, detections[c])
           /\ ~overlapped /\ Agreed(c, row) =>
                Columns(row) = Columns(detections[c]) \/ Columns(row) = Fresh(row, registry, version)
  PROVE  AssessmentInv'
<1>1. /\ sessions' \in [Workers -> Session]
      /\ \A x \in Workers : sessions'[x] = s \/ sessions'[x] = sessions[x]
  BY DEF AssessmentInv, TypeOK
<1>2. /\ detections' \in [Cases -> Detection] /\ detections'[c] = row
      /\ \A d \in Cases : d # c => detections'[d] = detections[d]
  BY DEF AssessmentInv, TypeOK
<1>3. TypeOK' /\ registry' \in [Tools -> Seeds]
  BY <1>1, <1>2 DEF AssessmentInv, TypeOK, Sheltered
<1>4. \A d \in Cases : RowHolds(d, detections'[d], overlapped')
  BY <1>2 DEF AssessmentInv, Sheltered
<1>5. ASSUME NEW t \in Session, SessionHolds(t, detections, registry, version, overlapped)
      PROVE  SessionHolds(t, detections', registry, version, overlapped)
  <2>1. t.case \in Cases /\ t.todo \in SUBSET Cases
    BY DEF Session
  <2>2. \A d \in t.todo : detections'[d].status # "absent"
    BY <1>2, <1>5, <2>1 DEF SessionHolds
  <2>3. CASE t.case # c
    BY <1>2, <1>5, <2>1, <2>2, <2>3 DEF SessionHolds
  <2>4. CASE t.case = c
    <3>1. ReadHolds(t, detections[c], registry, version, overlapped)
      BY <1>5, <2>4 DEF SessionHolds
    <3>2. CASE t.at \in {"loaded", "read"}
      <4>1. detections[c].status # "absent" /\ SameSubject(detections[c], t.loaded)
        BY <3>1, <3>2 DEF ReadHolds
      <4>2. /\ SameSubject(row, t.loaded)
            /\ Agreed(c, row) <=> Agreed(c, detections[c])
            /\ Fresh(row, registry, version) = Fresh(detections[c], registry, version)
        BY <4>1 DEF SameSubject, Agreed, Fresh, ProfileOf, Unmatched
      <4>3. ReadHolds(t, row, registry, version, overlapped)
        BY <2>4, <3>1, <3>2, <4>1, <4>2 DEF ReadHolds
      <4> QED BY <1>2, <1>5, <2>2, <2>4, <4>3 DEF SessionHolds
    <3>3. CASE t.at \notin {"loaded", "read"}
      BY <1>5, <2>2, <3>3 DEF SessionHolds, ReadHolds
    <3> QED BY <3>2, <3>3
  <2> QED BY <2>3, <2>4
<1>6. ASSUME NEW x \in Workers
      PROVE  SessionHolds(sessions'[x], detections', registry', version', overlapped')
  <2>1. CASE sessions'[x] = s
    BY <2>1 DEF Sheltered
  <2>2. CASE sessions'[x] = sessions[x]
    <3>1. /\ sessions[x] \in Session
          /\ SessionHolds(sessions[x], detections, registry, version, overlapped)
      BY DEF AssessmentInv, TypeOK
    <3> QED BY <1>5, <2>2, <3>1 DEF Sheltered
  <2> QED BY <1>1, <2>1, <2>2
<1> QED BY <1>3, <1>4, <1>6 DEF AssessmentInv

\* Nothing is detected at first.
LEMMA AssessmentInitInv == Init => AssessmentInv
<1> SUFFICES ASSUME Init PROVE AssessmentInv
  OBVIOUS
<1>1. 1 \in Versions \ {0}
  BY AssessmentAssumption DEF Versions
<1>2. /\ \A c \in Cases : detections[c] = Absent
      /\ \A w \in Workers : sessions[w] = Idle
  BY DEF Init
<1>3. registry \in [Tools -> Seeds] /\ registry \in [Tools -> Catalogue]
  BY AssessmentAssumption DEF Init
<1>4. TypeOK
  <2>1. detections \in [Cases -> Detection] /\ sessions \in [Workers -> Session]
    BY IdleFacts DEF Init
  <2>2. faults = 0 /\ version = 1 /\ overlapped = FALSE
    BY DEF Init
  <2>3. 0 \in 0 .. MaxFaults
    BY AssessmentAssumption
  <2> QED BY <1>1, <1>3, <2>1, <2>2, <2>3 DEF TypeOK
<1>5. \A c \in Cases : RowHolds(c, Absent, overlapped)
  <2>1. /\ Absent.status = "absent" /\ Absent.intent = NoIntent /\ Absent.json = NoAssessment
        /\ Absent.count = Null /\ Absent.highest = None /\ Absent.graph = 0
    BY DEF Absent
  <2>2. NoIntent \in Intents
    BY DEF Intents
  <2>3. Covers(NoIntent, NoAssessment)
    BY NothingCovered
  <2>4. Summarised(Absent)
    BY <2>1 DEF Summarised, NoAssessment
  <2> QED BY <2>1, <2>2, <2>3, <2>4 DEF RowHolds
<1>6. \A w \in Workers : SessionHolds(sessions[w], detections, registry, version, overlapped)
  BY <1>2, IdleFacts
<1> QED BY <1>2, <1>3, <1>4, <1>5, <1>6 DEF AssessmentInv

\* What a session holds that has loaded a row.
LEMMA LoadStep ==
  ASSUME AssessmentInv, NEW w \in Workers, NEW c \in Cases, NEW todo \in SUBSET Cases,
         detections[c].status # "absent", \A d \in todo : detections[d].status # "absent",
         Load(w, c, todo), UNCHANGED <<registry, detections, version, faults, overlapped>>
  PROVE  AssessmentInv'
<1>1. PICK s : s = [Idle EXCEPT !.at = "loaded", !.case = c, !.loaded = detections[c], !.todo = todo]
  OBVIOUS
<1>2. sessions' = [sessions EXCEPT ![w] = s]
  BY <1>1 DEF Load
<1>3. detections[c] \in Detection
  BY DEF AssessmentInv, TypeOK
<1>4. /\ s.at = "loaded" /\ s.case = c /\ s.loaded = detections[c] /\ s.todo = todo
      /\ s \in Session
  BY <1>1, <1>3, IdleFacts DEF Session
<1>5. SessionHolds(s, detections, registry, version, overlapped)
  BY <1>4 DEF SessionHolds, InsertHolds, ReadHolds, SameSubject
<1>6. Sheltered
  BY DEF Sheltered, AssessmentInv, TypeOK
<1> QED BY <1>2, <1>4, <1>5, <1>6, SessionStep

\* A session that lets go of what it has, or goes on to the next detection of the pass.
LEMMA LeaveFacts ==
  ASSUME AssessmentInv, NEW w \in Workers, NEW table,
         \A c \in Cases : detections[c].status # "absent" => table[c].status # "absent"
  PROVE  /\ Finish(w) \in Session
         /\ SessionHolds(Finish(w), table, registry, version, overlapped)
<1>1. sessions[w] \in Session /\ SessionHolds(sessions[w], detections, registry, version, overlapped)
  BY DEF AssessmentInv, TypeOK
<1>2. CASE w = Nightly /\ sessions[w].todo # {}
  <2>1. PICK s : s = [sessions[w] EXCEPT !.at = "next"]
    OBVIOUS
  <2>2. s \in Session /\ s.at = "next" /\ s.todo = sessions[w].todo /\ s.todo \in SUBSET Cases
    BY <1>1, <2>1 DEF Session
  <2>3. SessionHolds(s, table, registry, version, overlapped)
    BY <1>1, <2>2 DEF SessionHolds, InsertHolds, ReadHolds
  <2> QED BY <1>2, <2>1, <2>2, <2>3 DEF Finish
<1>3. CASE ~(w = Nightly /\ sessions[w].todo # {})
  BY <1>3, IdleFacts DEF Finish
<1> QED BY <1>2, <1>3

\* A scan finds an intent, and assesses the row that it is going to insert.
LEMMA ScanFindsStep ==
  ASSUME AssessmentInv, NEW w \in Workers, NEW t \in Tools, ScanFinds(w, t)
  PROVE  AssessmentInv'
<1>1. PICK n \in 0 .. MaxTexts : \E texts \in [1 .. n -> Evidence] :
        sessions' = [sessions EXCEPT ![w] =
          [at |-> "insert", case |-> t,
           loaded |-> [Absent EXCEPT !.status = "open", !.tool = t, !.intent = BestIntent(texts)],
           new |-> Assessed([Absent EXCEPT !.status = "open", !.tool = t,
                                           !.intent = BestIntent(texts)], registry[t]),
           todo |-> {}]]
  BY DEF ScanFinds
<1>2. n \in Nat
  BY AssessmentAssumption
<1>3. PICK texts \in [1 .. n -> Evidence] :
        sessions' = [sessions EXCEPT ![w] =
          [at |-> "insert", case |-> t,
           loaded |-> [Absent EXCEPT !.status = "open", !.tool = t, !.intent = BestIntent(texts)],
           new |-> Assessed([Absent EXCEPT !.status = "open", !.tool = t,
                                           !.intent = BestIntent(texts)], registry[t]),
           todo |-> {}]]
  BY <1>1
<1>4. PICK intent \in Intents : intent = BestIntent(texts)
  BY <1>2, BestIntentType
<1>5. PICK row : row = [Absent EXCEPT !.status = "open", !.tool = t, !.intent = intent]
  OBVIOUS
<1>6. row = NewRow(t, intent, "medium")
  BY <1>5 DEF Absent, NewRow
<1>7. /\ row \in Detection /\ row.status = "open" /\ row.tool = t
      /\ row.intent = intent /\ row.json = NoAssessment
      /\ Summarised(row)
  BY <1>6, NewRowFacts
<1>8. registry[t] \in Profiles /\ version \in Versions \ {0}
  BY ProfileFacts DEF AssessmentInv, TypeOK
<1>9. PICK a : a = Assessed(row, registry[t])
  OBVIOUS
<1>10. /\ a \in Detection /\ a.status = row.status /\ SameSubject(a, row)
       /\ Covers(intent, a.json) /\ Summarised(a)
  BY <1>7, <1>8, <1>9, AssessedFacts
<1>11. PICK s : s = [at |-> "insert", case |-> t, loaded |-> row, new |-> a, todo |-> {}]
  OBVIOUS
<1>12. sessions' = [sessions EXCEPT ![w] = s]
  BY <1>3, <1>4, <1>5, <1>9, <1>11
<1>13. s \in Session
  BY <1>7, <1>10, <1>11 DEF Session, Cases
<1>14. SessionHolds(s, detections, registry, version, overlapped)
  BY <1>7, <1>10, <1>11 DEF SessionHolds, InsertHolds, ReadHolds, SameSubject
<1>15. Sheltered /\ UNCHANGED detections
  BY DEF ScanFinds, Sheltered, AssessmentInv, TypeOK
<1> QED BY <1>12, <1>13, <1>14, <1>15, SessionStep

\* The row is inserted: as it was found, if it has an intent, else as it was assessed.
LEMMA ScanInsertsStep ==
  ASSUME AssessmentInv, NEW w \in Workers, ScanInserts(w)
  PROVE  AssessmentInv'
<1>1. PICK old \in Session : old = sessions[w]
  BY DEF AssessmentInv, TypeOK
<1>2. PICK c \in Cases : c = old.case
  BY DEF Session
<1>3. /\ old.at = "insert" /\ detections[c].status = "absent"
      /\ SessionHolds(old, detections, registry, version, overlapped)
  BY <1>1, <1>2 DEF ScanInserts, AssessmentInv
<1>4. /\ c \in Tools /\ old.loaded.status = "open" /\ old.loaded.tool = c
      /\ old.loaded.json = NoAssessment /\ Summarised(old.loaded)
      /\ old.loaded.intent \in Intents
      /\ old.new.status = "open" /\ SameSubject(old.new, old.loaded)
      /\ Covers(old.new.intent, old.new.json) /\ Summarised(old.new)
  BY <1>2, <1>3 DEF SessionHolds, InsertHolds
<1>5. old.loaded \in Detection /\ old.new \in Detection /\ NoTool \notin Tools
  BY AssessmentAssumption DEF Session
<1>6. Sheltered
  BY DEF ScanInserts, Sheltered, AssessmentInv, TypeOK
<1>7. Covers(old.loaded.intent, NoAssessment)
  BY NothingCovered
<1>8. CASE old.loaded.intent # NoIntent
  <2>1. PICK s : s = [old EXCEPT !.at = "loaded"]
    OBVIOUS
  <2>2. /\ s \in Session /\ s.at = "loaded" /\ s.case = c /\ s.loaded = old.loaded
        /\ s.todo = old.todo /\ s.todo \in SUBSET Cases
    BY <1>2, <2>1 DEF Session
  <2>3. /\ detections' = [detections EXCEPT ![c] = old.loaded]
        /\ sessions' = [sessions EXCEPT ![w] = s]
    BY <1>1, <1>2, <1>8, <2>1 DEF ScanInserts
  <2>4. SessionHolds(s, detections', registry, version, overlapped)
    <3>1. detections'[c] = old.loaded /\ \A d \in Cases : d # c => detections'[d] = detections[d]
      BY <2>3 DEF AssessmentInv, TypeOK
    <3>2. \A d \in s.todo : detections'[d].status # "absent"
      BY <1>3, <1>4, <2>2, <3>1 DEF SessionHolds
    <3> QED BY <1>4, <2>2, <3>1, <3>2 DEF SessionHolds, InsertHolds, ReadHolds, SameSubject
  <2>5. RowHolds(c, old.loaded, overlapped)
    BY <1>4, <1>5, <1>7 DEF RowHolds
  <2>6. old.loaded \in Detection /\ old.loaded.status # "absent" /\ detections[c].status = "absent"
    BY <1>3, <1>4, <1>5
  <2> QED BY ONLY AssessmentInv, w \in Workers, c \in Cases, <1>6, <2>2, <2>3, <2>4, <2>5, <2>6, RowStep
<1>9. CASE old.loaded.intent = NoIntent
  <2>1. /\ detections' = [detections EXCEPT ![c] = old.new]
        /\ sessions' = [sessions EXCEPT ![w] = Idle]
    BY <1>1, <1>2, <1>9 DEF ScanInserts
  <2>2. RowHolds(c, old.new, overlapped)
    BY <1>4, <1>5 DEF RowHolds, SameSubject
  <2>3. old.new \in Detection /\ old.new.status # "absent" /\ detections[c].status = "absent"
    BY <1>3, <1>4, <1>5
  <2> QED BY ONLY AssessmentInv, w \in Workers, c \in Cases, <1>6, <2>1, <2>2, <2>3, IdleFacts, RowStep
<1> QED BY <1>8, <1>9

\* A detection of a host appears in the table before anything assesses it.
LEMMA ZeroDayStep ==
  ASSUME AssessmentInv, NEW h \in Hosts, NEW band \in Bands, ZeroDayFound(h, band)
  PROVE  AssessmentInv'
<1>1. PICK row : row = [Absent EXCEPT !.status = "open", !.band = band]
  OBVIOUS
<1>2. row = NewRow(NoTool, NoIntent, band)
  BY <1>1 DEF Absent, NewRow
<1>3. NoIntent \in Intents /\ band \in {"medium", "high"} /\ h \in Cases /\ h \notin Tools
  BY AssessmentAssumption DEF Intents, Cases
<1>4. /\ row \in Detection /\ row.status = "open" /\ row.tool = NoTool
      /\ row.intent = NoIntent /\ row.band = band /\ row.json = NoAssessment
      /\ Summarised(row) /\ Covers(NoIntent, row.json)
  BY <1>2, <1>3, NewRowFacts
<1>5. RowHolds(h, row, overlapped)
  BY <1>3, <1>4 DEF RowHolds
<1>6. /\ detections' = [detections EXCEPT ![h] = row] /\ UNCHANGED sessions
      /\ detections[h].status = "absent"
  BY <1>1 DEF ZeroDayFound
<1>7. Sheltered
  BY DEF ZeroDayFound, Sheltered, AssessmentInv, TypeOK
<1>8. Nightly \in Workers
  BY DEF Workers
<1>9. row.status # "absent"
  BY <1>4
<1> QED BY ONLY AssessmentInv, <1>3, <1>4, <1>5, <1>6, <1>7, <1>8, <1>9, IdleFacts, RowStep

\* A dark AI detection has no part in the summary if it has a tool, and else the profile
\* that every other session finds too.
LEMMA DarkStep ==
  ASSUME AssessmentInv, NEW w \in Workers, NEW h \in Hosts, NEW tool \in Tools \cup {NoTool},
         NEW band \in Bands, DarkFound(w, h, tool, band)
  PROVE  AssessmentInv'
<1>1. PICK row : row = [Absent EXCEPT !.status = "open", !.tool = tool, !.band = band]
  OBVIOUS
<1>2. row = NewRow(tool, NoIntent, band)
  BY <1>1 DEF Absent, NewRow
<1>3. NoIntent \in Intents /\ band \in {"medium", "high"} /\ h \in Cases /\ h \notin Tools
  BY AssessmentAssumption DEF Intents, Cases
<1>4. /\ row \in Detection /\ row.status = "open" /\ row.tool = tool
      /\ row.intent = NoIntent /\ row.band = band /\ row.json = NoAssessment
      /\ Summarised(row) /\ Covers(NoIntent, row.json)
  BY <1>2, <1>3, NewRowFacts
<1>5. RowHolds(h, row, overlapped)
  BY <1>3, <1>4 DEF RowHolds
<1>6. PICK a : a = Assessed(row, Unmatched(row))
  OBVIOUS
<1>7. Unmatched(row) \in Profiles /\ version \in Versions \ {0} /\ row.intent \in Intents
  BY <1>3, <1>4, ProfileFacts DEF AssessmentInv, TypeOK
<1>8. /\ a \in Detection /\ Covers(NoIntent, a.json) /\ Summarised(a)
      /\ Columns(a) = [count |-> Verdict[Unmatched(row)][row.intent].regulations,
                       highest |-> Verdict[Unmatched(row)][row.intent].highest, graph |-> version]
  BY <1>4, <1>6, <1>7, AssessedFacts
<1>9. Agreed(h, row) => Columns(a) = Fresh(row, registry, version)
  BY <1>8 DEF Agreed, Fresh, ProfileOf
<1>10. PICK s : s = [at |-> "read", case |-> h, loaded |-> row, new |-> a, todo |-> {}]
  OBVIOUS
<1>11. /\ detections' = [detections EXCEPT ![h] = row] /\ sessions' = [sessions EXCEPT ![w] = s]
       /\ detections[h].status = "absent"
  BY <1>1, <1>6, <1>10 DEF DarkFound
<1>12. s \in Session
  BY <1>3, <1>4, <1>8, <1>10 DEF Session
<1>13. SessionHolds(s, detections', registry, version, overlapped)
  <2>1. detections'[h] = row
    BY <1>3, <1>11 DEF AssessmentInv, TypeOK
  <2>2. s.at = "read" /\ s.case = h /\ s.loaded = row /\ s.new = a /\ s.todo = {}
    BY <1>10
  <2> QED BY <1>4, <1>8, <1>9, <2>1, <2>2 DEF SessionHolds, InsertHolds, ReadHolds, SameSubject
<1>14. Sheltered /\ row.status # "absent"
  BY <1>4 DEF DarkFound, Sheltered, AssessmentInv, TypeOK
<1> QED BY ONLY AssessmentInv, w \in Workers, <1>3, <1>4, <1>5, <1>11, <1>12, <1>13, <1>14, RowStep

\* A session computes an assessment from the row as it has read it.
LEMMA ReadStep ==
  ASSUME AssessmentInv, NEW w \in Workers, ReadSignature(w)
  PROVE  AssessmentInv'
<1>1. PICK old \in Session : old = sessions[w]
  BY DEF AssessmentInv, TypeOK
<1>2. PICK c \in Cases : c = old.case
  BY DEF Session
<1>3. PICK row \in Detection : row = old.loaded
  BY DEF Session
<1>4. /\ old.at = "loaded" /\ SessionHolds(old, detections, registry, version, overlapped)
      /\ RowHolds(c, detections[c], overlapped) /\ detections[c] \in Detection
  BY <1>1 DEF ReadSignature, AssessmentInv, TypeOK
<1>5. /\ detections[c].status # "absent" /\ SameSubject(detections[c], row)
      /\ ~overlapped /\ Agreed(c, detections[c]) =>
           \/ Columns(detections[c]) = Columns(row)
           \/ Columns(detections[c]) = Fresh(detections[c], registry, version)
  BY <1>2, <1>3, <1>4 DEF SessionHolds, ReadHolds
<1>6. row.intent \in Intents /\ version \in Versions \ {0}
  BY <1>4, <1>5 DEF RowHolds, SameSubject, AssessmentInv, TypeOK
<1>7. PICK p : p = ProfileOf(row, registry)
  OBVIOUS
<1>8. p \in Profiles
  <2>1. CASE row.tool = NoTool
    BY <1>4, <1>5, <1>7, <2>1, ProfileFacts DEF RowHolds, SameSubject, ProfileOf
  <2>2. CASE row.tool # NoTool
    <3>1. row.tool \in Tools /\ registry \in [Tools -> Seeds]
      BY <2>2 DEF Detection, AssessmentInv
    <3> QED BY <1>7, <2>2, <3>1, ProfileFacts DEF ProfileOf
  <2> QED BY <2>1, <2>2
<1>9. PICK a : a = Assessed(row, p)
  OBVIOUS
<1>10. /\ a \in Detection /\ Covers(row.intent, a.json) /\ Summarised(a)
       /\ Columns(a) = [count |-> Verdict[p][row.intent].regulations,
                        highest |-> Verdict[p][row.intent].highest, graph |-> version]
  BY <1>6, <1>8, <1>9, AssessedFacts
<1>11. Columns(a) = Fresh(detections[c], registry, version)
  BY <1>5, <1>7, <1>10 DEF Fresh, ProfileOf, SameSubject, Unmatched
<1>12. PICK s : s = [old EXCEPT !.at = "read", !.new = a]
  OBVIOUS
<1>13. /\ s \in Session /\ s.at = "read" /\ s.case = c /\ s.loaded = row /\ s.new = a
       /\ s.todo = old.todo
  BY <1>2, <1>3, <1>10, <1>12 DEF Session
<1>14. sessions' = [sessions EXCEPT ![w] = s]
  <2>1. sessions' = [sessions EXCEPT ![w] = [@ EXCEPT !.at = "read", !.new = a]]
    BY <1>1, <1>3, <1>7, <1>9 DEF ReadSignature, ProfileOf
  <2> QED BY <1>1, <1>12, <2>1
<1>15. SessionHolds(s, detections, registry, version, overlapped)
  BY <1>4, <1>5, <1>10, <1>11, <1>13 DEF SessionHolds, InsertHolds, ReadHolds
<1>16. Sheltered /\ UNCHANGED detections
  BY DEF ReadSignature, Sheltered, AssessmentInv, TypeOK
<1> QED BY ONLY AssessmentInv, w \in Workers, <1>13, <1>14, <1>15, <1>16, SessionStep

\* The row that a session stores sums up its JSON: where a column stays as it was, the row
\* has what the session writes in all the others too.
LEMMA StoreStep ==
  ASSUME AssessmentInv, NEW w \in Workers, Store(w)
  PROVE  AssessmentInv'
<1>1. PICK old \in Session : old = sessions[w]
  BY DEF AssessmentInv, TypeOK
<1>2. PICK c \in Cases : c = old.case
  BY DEF Session
<1>3. /\ old.at = "read" /\ SessionHolds(old, detections, registry, version, overlapped)
      /\ RowHolds(c, detections[c], overlapped) /\ detections[c] \in Detection
      /\ old.loaded \in Detection /\ old.new \in Detection
  BY <1>1 DEF Store, AssessmentInv, TypeOK, Session
<1>4. PICK row \in Detection : row = detections[c]
  BY <1>3
<1>5. /\ row.status # "absent" /\ SameSubject(row, old.loaded)
      /\ Covers(old.loaded.intent, old.new.json) /\ Summarised(old.new)
      /\ ~overlapped /\ Agreed(c, row) =>
           /\ Columns(row) = Columns(old.loaded) \/ Columns(row) = Fresh(row, registry, version)
           /\ Columns(old.new) = Fresh(row, registry, version)
  BY <1>2, <1>3, <1>4 DEF SessionHolds, ReadHolds
<1>6. PICK m : m = Merged(row, old.loaded, old.new)
  OBVIOUS
<1>7. /\ m \in Detection /\ m.status = row.status /\ SameSubject(m, row)
      /\ m.json = old.new.json
      /\ Columns(row) = Columns(old.loaded) \/ Columns(row) = Columns(old.new)
           => Columns(m) = Columns(old.new)
  BY <1>3, <1>6, MergedFacts
<1>8. /\ Agreed(c, m) <=> Agreed(c, row)
      /\ Fresh(m, registry, version) = Fresh(row, registry, version)
  BY <1>7 DEF SameSubject, Agreed, Fresh, ProfileOf, Unmatched
<1>9. ~overlapped /\ Agreed(c, m) => Columns(m) = Columns(old.new)
  BY <1>5, <1>7, <1>8
<1>10. ~overlapped /\ Agreed(c, m) => Summarised(m)
  BY <1>5, <1>7, <1>9 DEF Summarised, Columns
<1>11. RowHolds(c, m, overlapped)
  BY <1>3, <1>4, <1>5, <1>7, <1>10 DEF RowHolds, SameSubject
<1>12. /\ detections' = [detections EXCEPT ![c] = m]
       /\ sessions' = [sessions EXCEPT ![w] = Finish(w)]
  BY <1>1, <1>2, <1>4, <1>6 DEF Store
<1>13. \A d \in Cases : detections[d].status # "absent" => detections'[d].status # "absent"
  BY <1>4, <1>5, <1>7, <1>12 DEF AssessmentInv, TypeOK
<1>14. /\ Finish(w) \in Session
       /\ SessionHolds(Finish(w), detections', registry, version, overlapped)
  BY <1>13, LeaveFacts
<1>15. ~overlapped /\ Agreed(c, m) => Columns(m) = Fresh(m, registry, version)
  BY <1>5, <1>8, <1>9
<1>16. Sheltered /\ m.status # "absent" /\ SameSubject(m, detections[c])
  BY <1>4, <1>5, <1>7 DEF Store, Sheltered, AssessmentInv, TypeOK
<1> QED BY ONLY AssessmentInv, w \in Workers, c \in Cases, <1>7, <1>11, <1>12, <1>14, <1>15, <1>16, RowStep

\* A closed detection keeps its assessment.
LEMMA CloseStep ==
  ASSUME AssessmentInv, NEW c \in Cases, Close(c)
  PROVE  AssessmentInv'
<1>1. PICK row \in Detection : row = detections[c]
  BY DEF AssessmentInv, TypeOK
<1>2. PICK closed : closed = [row EXCEPT !.status = "closed"]
  OBVIOUS
<1>3. /\ closed \in Detection /\ closed.status = "closed" /\ SameSubject(closed, row)
      /\ Columns(closed) = Columns(row) /\ closed.json = row.json
      /\ Summarised(row) => Summarised(closed)
  BY <1>2 DEF Detection, SameSubject, Columns, Summarised
<1>4. row.status = "open" /\ RowHolds(c, row, overlapped)
  BY <1>1 DEF Close, Active, AssessmentInv
<1>5. RowHolds(c, closed, overlapped)
  BY <1>3, <1>4 DEF RowHolds, SameSubject, Agreed
<1>6. detections' = [detections EXCEPT ![c] = closed] /\ UNCHANGED sessions
  <2>1. detections' = [detections EXCEPT ![c] = [@ EXCEPT !.status = "closed"]]
    BY DEF Close
  <2> QED BY <1>1, <1>2, <2>1 DEF Close
<1>7. Sheltered /\ Nightly \in Workers /\ closed.status # "absent"
  BY <1>3 DEF Close, Sheltered, AssessmentInv, TypeOK, Workers
<1>8. SameSubject(closed, detections[c]) /\ Columns(closed) = Columns(detections[c])
  BY <1>1, <1>3
<1> QED BY ONLY AssessmentInv, c \in Cases, <1>3, <1>5, <1>6, <1>7, <1>8, IdleFacts, RowStep

\* A changed registry makes what sessions at work have computed uncertain.
LEMMA SeedStep ==
  ASSUME AssessmentInv, NEW t \in Tools, NEW profile \in Seeds, SeedSignatures(t, profile)
  PROVE  AssessmentInv'
<1>1. /\ registry' = [registry EXCEPT ![t] = profile]
      /\ overlapped' = (overlapped \/ \E w \in Workers : sessions[w].at # "idle")
      /\ UNCHANGED <<detections, sessions, version>> /\ Fault
  BY DEF SeedSignatures
<1>2. registry' \in [Tools -> Seeds] /\ registry' \in [Tools -> Catalogue]
  BY <1>1, AssessmentAssumption DEF AssessmentInv, TypeOK
<1>3. TypeOK'
  <2>1. faults' \in 0 .. MaxFaults
    BY <1>1, FaultFacts DEF AssessmentInv, TypeOK
  <2>2. overlapped' \in BOOLEAN
    BY <1>1
  <2> QED BY <1>1, <1>2, <2>1, <2>2 DEF AssessmentInv, TypeOK
<1>4. overlapped => overlapped'
  BY <1>1
<1>5. \A c \in Cases : RowHolds(c, detections'[c], overlapped')
  BY <1>1, <1>4 DEF AssessmentInv, RowHolds
<1>6. ASSUME NEW w \in Workers
      PROVE  SessionHolds(sessions'[w], detections', registry', version', overlapped')
  <2>1. SessionHolds(sessions[w], detections, registry, version, overlapped)
    BY DEF AssessmentInv
  <2>2. CASE sessions[w].at = "idle"
    BY <1>1, <2>1, <2>2 DEF SessionHolds, InsertHolds, ReadHolds
  <2>3. CASE sessions[w].at # "idle"
    <3>1. overlapped'
      BY <1>1, <2>3
    <3> QED BY <1>1, <2>1, <3>1 DEF SessionHolds, ReadHolds
  <2> QED BY <2>2, <2>3
<1> QED BY <1>2, <1>3, <1>5, <1>6 DEF AssessmentInv

\* A restart ends all sessions, and with them what they have computed for another version.
LEMMA RestartStep ==
  ASSUME AssessmentInv, NEW v \in Versions, Restart(v)
  PROVE  AssessmentInv'
<1>1. /\ version' = v /\ v \in {version, version + 1} \cap Versions
      /\ \A w \in Workers : sessions'[w] = Idle
      /\ sessions' = [w \in Workers |-> Idle]
      /\ UNCHANGED <<registry, detections, overlapped>> /\ Fault
  BY DEF Restart
<1>2. version' \in Versions \ {0}
  <2>1. version \in Versions \ {0}
    BY DEF AssessmentInv, TypeOK
  <2>2. version \in Nat /\ version # 0
    BY <2>1, VersionFacts
  <2>3. version + 1 # 0
    BY <2>2
  <2> QED BY <1>1, <2>2, <2>3
<1>3. sessions' \in [Workers -> Session]
  BY <1>1, IdleFacts
<1>4. faults' \in 0 .. MaxFaults
  BY <1>1, FaultFacts DEF AssessmentInv, TypeOK
<1>5. TypeOK'
  BY <1>1, <1>2, <1>3, <1>4 DEF AssessmentInv, TypeOK
<1>6. \A c \in Cases : RowHolds(c, detections'[c], overlapped')
  BY <1>1 DEF AssessmentInv
<1>7. \A w \in Workers : SessionHolds(sessions'[w], detections', registry', version', overlapped')
  BY <1>1, IdleFacts
<1> QED BY <1>1, <1>5, <1>6, <1>7 DEF AssessmentInv

\* A session that gives up, or goes on to the next detection of the pass, with nothing stored.
LEMMA GiveUpStep ==
  ASSUME AssessmentInv, NEW w \in Workers, UNCHANGED <<registry, detections, version, overlapped>>,
         UNCHANGED faults \/ Fault,
         sessions' = [sessions EXCEPT ![w] = Idle] \/ sessions' = [sessions EXCEPT ![w] = Finish(w)]
  PROVE  AssessmentInv'
<1>1. Sheltered
  BY FaultFacts DEF Sheltered, AssessmentInv, TypeOK
<1>2. CASE sessions' = [sessions EXCEPT ![w] = Idle]
  BY <1>1, <1>2, IdleFacts, SessionStep
<1>3. CASE sessions' = [sessions EXCEPT ![w] = Finish(w)]
  <2>1. Finish(w) \in Session /\ SessionHolds(Finish(w), detections, registry, version, overlapped)
    BY LeaveFacts
  <2> QED BY <1>1, <1>3, <2>1, SessionStep
<1> QED BY <1>2, <1>3

\* The pass loads the first of the detections that are due, or the next one.
LEMMA PassStep ==
  ASSUME AssessmentInv, NEW c \in Cases, PassStarts(c) \/ PassContinues(c)
  PROVE  AssessmentInv'
<1>1. Nightly \in Workers /\ Nightly \notin Requests
  BY AssessmentAssumption DEF Workers
<1>2. CASE PassStarts(c)
  <2>1. \A d \in Due : d \in Cases /\ detections[d].status # "absent"
    BY DEF Due, Active
  <2>2. c \in Due /\ Due \ {c} \in SUBSET Cases
    BY <1>2, <2>1 DEF PassStarts
  <2>3. Load(Nightly, c, Due \ {c}) /\ UNCHANGED <<registry, detections, version, faults, overlapped>>
    BY <1>2 DEF PassStarts
  <2> QED BY <1>1, <2>1, <2>2, <2>3, LoadStep
<1>3. CASE PassContinues(c)
  <2>1. PICK todo \in SUBSET Cases : todo = sessions[Nightly].todo
    BY <1>1 DEF AssessmentInv, TypeOK, Session
  <2>2. \A d \in todo : detections[d].status # "absent"
    BY <1>1, <2>1 DEF AssessmentInv, SessionHolds
  <2>3. /\ c \in todo /\ Load(Nightly, c, todo \ {c})
        /\ UNCHANGED <<registry, detections, version, faults, overlapped>>
    BY <1>3, <2>1 DEF PassContinues
  <2> QED BY <1>1, <2>2, <2>3, LoadStep
<1> QED BY <1>2, <1>3

\* No step of the system breaks the invariant.
LEMMA AssessmentStepInv == AssessmentInv /\ [Next]_vars => AssessmentInv'
<1> SUFFICES ASSUME AssessmentInv, [Next]_vars PROVE AssessmentInv'
  OBVIOUS
<1>1. ASSUME NEW w \in Workers, NEW t \in Tools, ScanFinds(w, t)
      PROVE  AssessmentInv'
  BY <1>1, ScanFindsStep
<1>2. ASSUME NEW w \in Requests, NEW c \in Cases, ScanUpdates(w, c) \/ Refresh(w, c) \/ Get(w, c)
      PROVE  AssessmentInv'
  <2>1. /\ Load(w, c, {}) /\ detections[c].status # "absent"
        /\ UNCHANGED <<registry, detections, version, faults, overlapped>>
    BY <1>2 DEF ScanUpdates, Refresh, Get, Active
  <2>2. w \in Workers /\ {} \in SUBSET Cases
    BY DEF Workers
  <2> QED BY <2>1, <2>2, LoadStep
<1>3. ASSUME NEW h \in Hosts, NEW band \in Bands, ZeroDayFound(h, band)
      PROVE  AssessmentInv'
  BY <1>3, ZeroDayStep
<1>4. ASSUME NEW w \in Requests, NEW h \in Hosts, NEW tool \in Tools \cup {NoTool}, NEW band \in Bands,
             DarkFound(w, h, tool, band)
      PROVE  AssessmentInv'
  <2>1. w \in Workers
    BY DEF Workers
  <2> QED BY <1>4, <2>1, DarkStep
<1>5. ASSUME NEW c \in Cases, PassStarts(c) \/ PassContinues(c)
      PROVE  AssessmentInv'
  BY <1>5, PassStep
<1>6. ASSUME NEW c \in Cases, Close(c)
      PROVE  AssessmentInv'
  BY <1>6, CloseStep
<1>7. ASSUME NEW w \in Workers, ScanConflicts(w) \/ ScanRolledBack(w) \/ StoreRolledBack(w)
      PROVE  AssessmentInv'
  <2>1. /\ UNCHANGED <<registry, detections, version, overlapped>> /\ (UNCHANGED faults \/ Fault)
        /\ \/ sessions' = [sessions EXCEPT ![w] = Idle]
           \/ sessions' = [sessions EXCEPT ![w] = Finish(w)]
    BY <1>7 DEF ScanConflicts, ScanRolledBack, StoreRolledBack
  <2> QED BY <2>1, GiveUpStep
<1>8. ASSUME NEW w \in Workers, ScanInserts(w)
      PROVE  AssessmentInv'
  BY <1>8, ScanInsertsStep
<1>9. ASSUME NEW w \in Workers, ReadSignature(w)
      PROVE  AssessmentInv'
  BY <1>9, ReadStep
<1>10. ASSUME NEW w \in Workers, Store(w)
       PROVE  AssessmentInv'
  BY <1>10, StoreStep
<1>11. ASSUME NEW t \in Tools, NEW profile \in Seeds, SeedSignatures(t, profile)
       PROVE  AssessmentInv'
  BY <1>11, SeedStep
<1>12. ASSUME NEW v \in Versions, Restart(v)
       PROVE  AssessmentInv'
  BY <1>12, RestartStep
<1>13. CASE UNCHANGED vars
  BY <1>13 DEF vars, AssessmentInv, TypeOK
<1>14. CASE Next
  <2>1. Tools \subseteq Cases
    BY DEF Cases
  <2> QED BY ONLY <1>1, <1>2, <1>3, <1>4, <1>5, <1>6, <1>7, <1>8, <1>9, <1>10, <1>11, <1>12, <1>14,
             <2>1 DEF Next
<1> QED BY <1>13, <1>14

\* The invariant holds in every reachable state.
THEOREM AssessmentInvariance == Spec => []AssessmentInv
BY AssessmentInitInv, AssessmentStepInv, PTL DEF Spec

-----------------------------------------------------------------------------
(* What follows from it.                                                   *)

\* Every variable has its type, and so has each row and what each session holds of one:
\* the queries and the columns of ShadowAIDetection that assess_detection reads and writes.
THEOREM AssessmentTypes == Spec => []TypeOK
<1>1. AssessmentInv => TypeOK
  BY DEF AssessmentInv
<1> QED BY <1>1, AssessmentInvariance, PTL

\* Whatever is stored on a detection, and by whom, the articles that its intent names as
\* obligations are among those that its assessment matched.
THEOREM ObligationsAlwaysMatched == Spec => []ObligationsAreMatched
<1>1. AssessmentInv => ObligationsAreMatched
  BY DEF AssessmentInv, RowHolds, Covers, ObligationsAreMatched
<1> QED BY <1>1, AssessmentInvariance, PTL

\* The columns of a detection sum up its JSON, as long as those who assess it find the
\* same of its tool.
THEOREM SummariesAgree == Spec => []SummaryAgrees
<1>1. AssessmentInv => SummaryAgrees
  BY DEF AssessmentInv, RowHolds, Agreed, SummaryAgrees
<1> QED BY <1>1, AssessmentInvariance, PTL
=============================================================================
