------------------------ MODULE VendorContamination -------------------------
(***************************************************************************)
(* The contamination index of a vendor: three signals and their weighted   *)
(* sum, assessed on request and again whenever the data processing         *)
(* agreement (DPA) of the vendor changes.                                  *)
(*                                                                         *)
(* Every request is a transaction of several statements in a thread of its *)
(* own, with a call to an outside service between two of them.  An         *)
(* assessment of several vendors is, here, one request for each.           *)
(*                                                                         *)
(* Scores are in thousandths.                                              *)
(***************************************************************************)
EXTENDS Integers

CONSTANTS
  Vendors,
  Requests,           \* requests that the server handles at a time
  Findings,           \* what the telemetry may hold on a vendor
  Mentions            \* how many keywords a scan may find

\* tools: distinct tools in the questionnaires of the vendor, 3 for more; high: one of
\* them has an active detection of high confidence.
Finding == [tools : 0 .. 3, high : BOOLEAN]

ASSUME VendorAssumption ==
  /\ Vendors # {} /\ Findings \subseteq Finding /\ Findings # {} /\ Mentions \subseteq Nat

VARIABLES
  agreements,       \* vendor_dpa_records
  index,            \* vendor_ai_contamination
  sessions,
  outdated,         \* history: a session stored an agreement that was no longer current
  mixed             \* history: a session stored over a row that it had not read

vendorVars == <<agreements, index, sessions, outdated, mixed>>

\* A record that does not cover AI processing, or one that does.
Agreements == {"none", "partial", "covers"}

Bands == {"low", "medium", "high", "critical"}
Row == [score : 0 .. 1000, band : Bands, internal : {0, 400, 600, 700, 900},
        external : {100, 500, 600, 900}, contractual : {0, 500, 1000}]
NoRow == [score |-> -1, band |-> "low", internal |-> 0, external |-> 500, contractual |-> 0]

\* dpa: the request updates the agreement; said: what the update says of it; record: the
\* agreement as the session has read it; row: as it has read it; stale: another update was
\* committed since the session read the agreement.
Session ==
  [at : {"idle", "record", "row", "agreement", "store"},
   vendor : Vendors, dpa : BOOLEAN, scan : BOOLEAN, said : Agreements, record : Agreements,
   row : Row \cup {NoRow}, internal : {0, 400, 600, 700, 900},
   external : {100, 500, 600, 900}, stale : BOOLEAN]

NoRequest ==
  [at |-> "idle", vendor |-> CHOOSE v \in Vendors : TRUE, dpa |-> FALSE, scan |-> FALSE,
   said |-> "none", record |-> "none", row |-> NoRow, internal |-> 0,
   external |-> 500, stale |-> FALSE]

VendorTypeOK ==
  /\ agreements \in [Vendors -> Agreements] /\ index \in [Vendors -> Row \cup {NoRow}]
  /\ sessions \in [Requests -> Session]
  /\ outdated \subseteq Vendors /\ mixed \subseteq Vendors

VendorInit ==
  /\ agreements = [v \in Vendors |-> "none"]
  /\ index = [v \in Vendors |-> NoRow]
  /\ sessions = [r \in Requests |-> NoRequest]
  /\ outdated = {} /\ mixed = {}

-----------------------------------------------------------------------------
(* The signals.                                                            *)

\* compute_internal_score
InternalScore(finding) ==
  CASE finding.tools >= 3 -> IF finding.high THEN 900 ELSE 700
    [] finding.tools \in 1 .. 2 -> IF finding.high THEN 600 ELSE 400
    [] OTHER -> 0

\* compute_external_score of a scan that found so many keywords; one that failed found 0.
ExternalScore(mentions) ==
  CASE mentions = 0 -> 100
    [] mentions \in 1 .. 3 -> 600
    [] OTHER -> 900

NotScanned == 500

\* compute_contractual_score, which looks at covers_ai_processing only.
ContractualScore(agreement) ==
  CASE agreement = "none" -> 1000
    [] agreement = "partial" -> 500
    [] OTHER -> 0

Weighted(internal, external, contractual) ==
  (30 * internal + 30 * external + 40 * contractual) \div 100

ClassifyBand(score) ==
  CASE score >= 800 -> "critical"
    [] score >= 600 -> "high"
    [] score >= 400 -> "medium"
    [] OTHER -> "low"

Assessed(session) ==
  LET contractual == ContractualScore(session.record)
      score == Weighted(session.internal, session.external, contractual)
  IN [score |-> score, band |-> ClassifyBand(score), internal |-> session.internal,
      external |-> session.external, contractual |-> contractual]

\* The UPDATE names the columns whose value differs from what the session read.  A float
\* is compared with the decimal of the row, and equals it only if it is a binary fraction.
Exact(score) == score % 125 = 0

MergedScore(column, read, new) == IF new = read /\ Exact(new) THEN column ELSE new

\* Mutant: the band is written only when the vendor is first assessed.
MergedKeepsBand(row, read, new) ==
  [score |-> MergedScore(row.score, read.score, new.score),
   band |-> row.band,
   internal |-> MergedScore(row.internal, read.internal, new.internal),
   external |-> MergedScore(row.external, read.external, new.external),
   contractual |-> MergedScore(row.contractual, read.contractual, new.contractual)]

Merged(row, read, new) ==
  [score |-> MergedScore(row.score, read.score, new.score),
   band |-> IF new.band = read.band THEN row.band ELSE new.band,
   internal |-> MergedScore(row.internal, read.internal, new.internal),
   external |-> MergedScore(row.external, read.external, new.external),
   contractual |-> MergedScore(row.contractual, read.contractual, new.contractual)]

-----------------------------------------------------------------------------
(* The requests.                                                           *)

\* The questionnaires, their telemetry and its detections, which change at any time, are
\* read first.
AssessVendor(r, v, scan, finding) ==
  /\ sessions[r].at = "idle"
  /\ sessions' = [sessions EXCEPT ![r] =
       [NoRequest EXCEPT !.at = "row", !.vendor = v, !.scan = scan,
                         !.internal = InternalScore(finding)]]
  /\ UNCHANGED <<agreements, index, outdated, mixed>>

\* update_vendor_dpa reads the record; the assessment that follows does not scan.
UpdateDpa(r, v, said) ==
  /\ sessions[r].at = "idle"
  /\ sessions' = [sessions EXCEPT ![r] =
       [NoRequest EXCEPT !.at = "record", !.vendor = v, !.dpa = TRUE, !.said = said,
                         !.record = agreements[v]]]
  /\ UNCHANGED <<agreements, index, outdated, mixed>>

\* The record that a session has flushed is locked until its transaction ends.
Locks(r) == sessions[r].dpa /\ sessions[r].at \notin {"idle", "record"}
AgreementLocked(v) == \E r \in Requests : sessions[r].vendor = v /\ Locks(r)

\* Another request has created the record meanwhile.
DpaConflicts(r) ==
  LET v == sessions[r].vendor
  IN /\ sessions[r].at = "record" /\ ~AgreementLocked(v)
     /\ sessions[r].record = "none" /\ agreements[v] # "none"
     /\ sessions' = [sessions EXCEPT ![r] = NoRequest]
     /\ UNCHANGED <<agreements, index, outdated, mixed>>

\* An update that says what the session has read changes nothing in the record: Written
\* is what it holds after the flush.  The assessment begins, and believes the update.
Written(r) ==
  LET s == sessions[r] IN IF s.said = s.record THEN agreements[s.vendor] ELSE s.said

FlushDpa(r, finding) ==
  LET v == sessions[r].vendor
  IN /\ sessions[r].at = "record" /\ ~AgreementLocked(v)
     /\ sessions[r].record = "none" => agreements[v] = "none"
     /\ sessions' = [sessions EXCEPT ![r].at = "row", ![r].record = Written(r),
                       ![r].internal = InternalScore(finding)]
     /\ UNCHANGED <<agreements, index, outdated, mixed>>

\* The session has the row, and its external signal; the agreement that it has itself
\* changed it need not read again.
HasRow(r, external) ==
  LET s == sessions[r]
  IN /\ sessions' = [sessions EXCEPT ![r].at = IF s.dpa THEN "store" ELSE "agreement",
                        ![r].scan = FALSE, ![r].row = index[s.vendor],
                        ![r].external = external]
     /\ UNCHANGED <<agreements, index, outdated, mixed>>

\* scan_vendor is not asked to scan, or skips it: the vendor was assessed, with or
\* without a scan, in the last 24 hours.  A day may pass at any time.
ReadRow(r) ==
  /\ sessions[r].at = "row" /\ (sessions[r].scan => index[sessions[r].vendor] # NoRow)
  /\ HasRow(r, NotScanned)

\* It asks the outside service, which may fail or take up to half a minute.
ReadRowAndScan(r, mentions) ==
  /\ sessions[r].at = "row" /\ sessions[r].scan
  /\ HasRow(r, ExternalScore(mentions))

ReadAgreement(r) ==
  /\ sessions[r].at = "agreement"
  /\ sessions' = [sessions EXCEPT ![r].at = "store",
                    ![r].record = agreements[sessions[r].vendor]]
  /\ UNCHANGED <<agreements, index, outdated, mixed>>

\* Two requests assessed the vendor for the first time: the second insert fails, and
\* takes an update of the agreement with it.
StoreConflicts(r) ==
  LET v == sessions[r].vendor
  IN /\ sessions[r].at = "store" /\ sessions[r].row = NoRow /\ index[v] # NoRow
     /\ sessions' = [sessions EXCEPT ![r] = NoRequest]
     /\ UNCHANGED <<agreements, index, outdated, mixed>>

\* The session has read the agreement, and will not read it again.
HasRead(r) == sessions[r].at = "store" \/ (sessions[r].dpa /\ sessions[r].at # "idle")

\* No other session has read the row, as this one leaves it, too early.
Undisturbed(r) ==
  LET s == sessions[r]
  IN /\ s.row = index[s.vendor]
     /\ \A q \in Requests \ {r} :
          sessions[q].vendor = s.vendor => sessions[q].at \notin {"agreement", "store"}

\* The audit entry commits the row, and the agreement if the request updates it.
Store(r) ==
  LET v == sessions[r].vendor
      s == sessions[r]
      new == Assessed([s EXCEPT !.record = IF s.dpa THEN s.said ELSE @])
      agreement == IF s.dpa THEN s.record ELSE agreements[v]
  IN /\ s.at = "store" /\ (s.row = NoRow => index[v] = NoRow)
     /\ index' = [index EXCEPT ![v] = IF s.row = NoRow THEN new ELSE Merged(@, s.row, new)]
     /\ agreements' = [agreements EXCEPT ![v] = agreement]
     /\ sessions' = [q \in Requests |->
          IF q = r THEN NoRequest
          ELSE [sessions[q] EXCEPT !.stale =
                  @ \/ (sessions[q].vendor = v /\ HasRead(q) /\ agreement # agreements[v])]]
     /\ outdated' = IF s.stale THEN outdated \cup {v}
                    ELSE IF Undisturbed(r) THEN outdated \ {v} ELSE outdated
     /\ mixed' = IF s.row = index[v] THEN mixed \ {v} ELSE mixed \cup {v}

\* Mutant: the update of the agreement is committed before the assessment.
StoreRolledBackAlone(r) ==
  LET s == sessions[r]
  IN /\ s.at = "store"
     /\ agreements' = [agreements EXCEPT ![s.vendor] = IF s.dpa THEN s.record ELSE @]
     /\ sessions' = [sessions EXCEPT ![r] = NoRequest]
     /\ UNCHANGED <<index, outdated, mixed>>

\* The entry fails, or the server restarts: all that the request did is undone.
StoreRolledBack(r) ==
  /\ sessions[r].at = "store"
  /\ sessions' = [sessions EXCEPT ![r] = NoRequest]
  /\ UNCHANGED <<agreements, index, outdated, mixed>>

Restart ==
  /\ \E r \in Requests : sessions[r].at # "idle"
  /\ sessions' = [r \in Requests |-> NoRequest]
  /\ UNCHANGED <<agreements, index, outdated, mixed>>

VendorNext ==
  \/ \E r \in Requests, v \in Vendors :
       \/ \E scan \in BOOLEAN, finding \in Findings : AssessVendor(r, v, scan, finding)
       \/ \E said \in Agreements \ {"none"} : UpdateDpa(r, v, said)
  \/ \E r \in Requests :
       \/ \E finding \in Findings : FlushDpa(r, finding)
       \/ \E mentions \in Mentions : ReadRowAndScan(r, mentions)
       \/ DpaConflicts(r) \/ ReadRow(r) \/ ReadAgreement(r)
       \/ StoreConflicts(r) \/ Store(r) \/ StoreRolledBack(r)
  \/ Restart

VendorSpec == VendorInit /\ [][VendorNext]_vendorVars

-----------------------------------------------------------------------------
(* Properties.                                                             *)

\* The index knows the agreement: whatever fails or is undone, an assessed vendor's
\* contractual signal is that of its record, unless a session that had read the record
\* before an update stored its assessment after it; and then until the vendor is assessed
\* again by a session that no other overlaps (update_vendor_dpa,
\* compute_contamination_score).
AgreementIsAssessed ==
  \A v \in Vendors \ outdated :
    index[v] = NoRow \/ index[v].contractual = ContractualScore(agreements[v])

\* The score is the weighted sum of the signals beside it and the band is the band of
\* the score, unless a session wrote its columns into a row that another one had
\* changed since; the next assessment that nothing overtakes repairs it
\* (compute_contamination_score, lines 252 to 288).
SignalsAddUp ==
  \A v \in Vendors \ mixed :
    LET row == index[v]
    IN row # NoRow =>
         /\ row.score = Weighted(row.internal, row.external, row.contractual)
         /\ row.band = ClassifyBand(row.score)
=============================================================================
