-------------------------- MODULE Evaluation_proofs --------------------------
(***************************************************************************)
(* Proofs about Evaluation: whatever allows a gate was decided by the user  *)
(* or needed no decision, for every content of the files, every verdict,   *)
(* every configuration and any number of scans.                            *)
(***************************************************************************)
EXTENDS Evaluation, WellFoundedInduction, TLAPS

----------------------------------------------------------------------------
(* The evidence.                                                           *)

Reviews == UNION {[1 .. n -> Verdicts] : n \in 0 .. MaxBatches}

LEMMA NoVerdicts == <<>> \in Reviews
<1>1. <<>> \in [1 .. 0 -> Verdicts]
  OBVIOUS
<1>2. 0 \in 0 .. MaxBatches
  BY ConstantsAssumption
<1>. QED
  BY <1>1, <1>2, Zenon DEF Reviews

\* What is read of a verdict has one of a few values (Verdict.Validate).
LEMMA VerdictIs ==
  ASSUME NEW verdicts \in Reviews, NEW i \in DOMAIN verdicts
  PROVE  /\ verdicts[i].verdict \in {"allow", "block"}
         /\ verdicts[i].confident \in BOOLEAN /\ verdicts[i].injection \in BOOLEAN
         /\ verdicts[i].notes \in BOOLEAN
         /\ verdicts[i].finding \in {"none", "minor", "severe", "escape"}
<1>1. PICK n \in 0 .. MaxBatches : verdicts \in [1 .. n -> Verdicts]
  BY DEF Reviews
<1>2. verdicts[i] \in Verdicts
  BY <1>1
<1>. QED
  BY <1>2, ConstantsAssumption

\* The scanner's findings are of files of the manifest.
LEMMA ScannerFindings ==
  ASSUME NEW manifest, NEW f \in Inventory(manifest).findings
  PROVE  f.source = "deterministic" /\ f.file \in DOMAIN manifest
BY DEF Inventory, Finding

\* The model's findings are its own and never a hard block.
LEMMA ModelFindings ==
  ASSUME NEW verdicts \in Reviews, NEW f \in modelFindings(verdicts)
  PROVE  f.source = "ai" /\ ~f.hard
<1>1. PICK i \in DOMAIN verdicts : f \in VerdictFindings(verdicts[i])
  BY DEF modelFindings
<1>2. verdicts[i].finding \in {"minor", "severe", "escape"}
  BY <1>1, VerdictIs DEF VerdictFindings
<1>3. f = Finding("ai", "", AITraits[verdicts[i].finding])
  BY <1>1, <1>2 DEF VerdictFindings
<1>4. ASSUME NEW k \in {"minor", "severe", "escape"} PROVE AITraits[k].hard = FALSE
  BY DEF AITraits
<1>. QED
  BY <1>2, <1>3, <1>4 DEF Finding

\* A set of positions has a first one.
LEMMA First ==
  ASSUME NEW S \in SUBSET Nat, S # {}
  PROVE  (CHOOSE i \in S : \A j \in S : i <= j) \in S
<1>1. \E m \in S : \A k \in S : <<k, m>> \notin OpToRel(<, Nat)
  BY WFMin, NatLessThanWellFounded
<1>2. PICK m \in S : \A k \in S : <<k, m>> \notin OpToRel(<, Nat)
  BY <1>1
<1>3. ASSUME NEW k \in S PROVE m <= k
  <2>1. k < m => <<k, m>> \in OpToRel(<, Nat)
    BY DEF OpToRel
  <2>2. ~ (k < m)
    BY <1>2, <2>1, Zenon
  <2>. QED
    BY <2>2
<1>4. \E i \in S : \A j \in S : i <= j
  BY <1>3
<1>. QED
  BY <1>4, Zenon

\* A verdict that blocks has a reason, or a severe finding (policySummary).
LEMMA ReasonsBlock ==
  ASSUME NEW c, NEW verdicts \in Reviews
  PROVE  modelBlocks(c, verdicts) <=>
           \/ \E i \in DOMAIN verdicts : VerdictReason(verdicts[i]) # "none"
           \/ \E f \in modelFindings(verdicts) : AtLeast(c, f)
<1>1. ASSUME NEW i \in DOMAIN verdicts
      PROVE  (VerdictReason(verdicts[i]) # "none") <=>
               \/ verdicts[i].verdict # "allow" \/ ~verdicts[i].confident
               \/ verdicts[i].injection \/ verdicts[i].notes
  BY VerdictIs DEF VerdictReason
<1>. QED
  BY <1>1 DEF modelBlocks, modelFindings

LEMMA NothingBlocks ==
  ASSUME NEW c PROVE ~modelBlocks(c, <<>>) /\ ~HasInjection(<<>>)
BY DEF modelBlocks, HasInjection

----------------------------------------------------------------------------
(* What evaluate makes of it.  Below, what the properties say of one report. *)

Decided(r) ==
  r.decision = "allow" =>
    /\ r.complete
    /\ \A f \in r.findings :
         /\ ~f.hard
         /\ (f.source = "deterministic" /\ AtLeast(cfg, f)) =>
              \E a \in answered :
                /\ f \in a.findings
                /\ a.fingerprint = r.fingerprint
                /\ f.file \in DOMAIN a.manifest
                /\ a.manifest[f.file] = r.manifest[f.file]

Passed(r) ==
  r.decision = "allow" /\ modelBlocks(cfg, r.verdicts) =>
    /\ ~HasInjection(r.verdicts)
    /\ \E a \in answered : a.verdicts = r.verdicts /\ a.phase = r.phase
                             /\ a.manifest = r.manifest

Told(r) ==
  \/ r.summary = "unavailable"
  \/ r.summary \in Blocking /\ r.decision = "block"
  \/ r.summary \in Allowing /\ r.decision = "allow"

\* evaluate is overridden by a token for exactly this snapshot, or goes by the
\* assessment and, in AI mode, by a review.
Overridden(r, inv, carriedNow) ==
  \E review, skipped, onDemand :
    LET det == assessDeterministicAt(cfg, inv, carriedNow) IN
    /\ r = BuildReport(inv, det, TRUE, {}, review, skipped, onDemand)
    /\ ~det.structural /\ TokenMatches(inv) /\ review.verdicts = token.verdicts

Assessed(r, inv, carriedNow) ==
  \E review, skipped, onDemand :
    /\ r = BuildReport(inv, assessDeterministicAt(cfg, inv, carriedNow), FALSE, carriedNow,
                       review, skipped, onDemand)
    /\ review.verdicts \in Reviews
    /\ cfg.mode # "ai" => review.verdicts = <<>>

LEMMA ReviewsAreReviews ==
  \A v \in UNION {[1 .. n -> Verdicts] : n \in 1 .. MaxBatches} : v \in Reviews
<1>1. ASSUME NEW n \in 1 .. MaxBatches, NEW v \in [1 .. n -> Verdicts] PROVE v \in Reviews
  <2>1. n \in 0 .. MaxBatches
    BY ConstantsAssumption
  <2>. QED
    BY <1>1, <2>1, Zenon DEF Reviews
<1>. QED
  BY <1>1, Zenon

LEMMA ResultsAreReviews == \A result \in ReviewResults : result.verdicts \in Reviews
<1>. TAKE result \in ReviewResults
<1>1. CASE result = [error |-> "review", verdicts |-> <<>>]
  BY <1>1, NoVerdicts
<1>2. CASE \E v \in UNION {[1 .. n -> Verdicts] : n \in 1 .. MaxBatches} :
             result = [error |-> "", verdicts |-> v]
  <2>1. PICK v \in UNION {[1 .. n -> Verdicts] : n \in 1 .. MaxBatches} :
               result = [error |-> "", verdicts |-> v]
    BY <1>2
  <2>2. v \in Reviews
    BY ReviewsAreReviews, Zenon
  <2>. QED
    BY <2>1, <2>2
<1>. QED
  BY <1>1, <1>2, Zenon DEF ReviewResults

LEMMA EvaluatedAs ==
  ASSUME NEW onDemand \in BOOLEAN, NEW r \in Evaluations(onDemand)
  PROVE  LET inv == Inventory(Snapshot(phase))
         IN  Overridden(r, inv, carriedDecision(inv)) \/ Assessed(r, inv, carriedDecision(inv))
<1>. DEFINE inv == Inventory(Snapshot(phase))
            carriedNow == carriedDecision(inv)
            det == assessDeterministicAt(cfg, inv, carriedNow)
            overridden == ~det.structural /\ TokenMatches(inv)
            carried == IF overridden THEN {} ELSE carriedNow
            error == IF overridden THEN token.error
                     ELSE IF service.initError \/ service.coverageError THEN "degraded" ELSE ""
            skipped == cfg.mode = "ai" /\ ~onDemand /\ phase \notin cfg.phases
            reviews == IF Reviewing(det, overridden, error, skipped) THEN ReviewResults
                       ELSE {[error |-> error,
                              verdicts |-> IF overridden THEN token.verdicts ELSE <<>>]}
<1>1. PICK review \in reviews :
        r = BuildReport(inv, det, overridden, carried, review, skipped, onDemand)
  BY Zenon DEF Evaluations
<1>2. \A result \in ReviewResults : result.verdicts \in Reviews
  BY ResultsAreReviews
<1>. HIDE DEF inv, carriedNow, det, error, skipped
<1>3. CASE overridden
  <2>1. ~Reviewing(det, overridden, error, skipped)
    BY <1>3 DEF Reviewing
  <2>2. review.verdicts = token.verdicts
    BY <1>3, <2>1
  <2>3. r = BuildReport(inv, det, TRUE, {}, review, skipped, onDemand)
    <3>1. (overridden = TRUE) /\ carried = {}
      BY <1>3, Zenon
    <3>. HIDE DEF overridden, carried
    <3>. QED
      BY <1>1, <3>1, Zenon
  <2>. QED
    BY <1>3, <2>2, <2>3, Zenon DEF Overridden, det, inv, carriedNow
<1>4. CASE ~overridden
  <2>1. review.verdicts \in Reviews
    BY <1>2, <1>4, NoVerdicts
  <2>2. cfg.mode # "ai" => review.verdicts = <<>>
    BY <1>4 DEF Reviewing
  <2>3. r = BuildReport(inv, det, FALSE, carriedNow, review, skipped, onDemand)
    <3>1. (overridden = FALSE) /\ carried = carriedNow
      BY <1>4, Zenon
    <3>. HIDE DEF overridden, carried
    <3>. QED
      BY <1>1, <3>1, Zenon
  <2>. QED
    BY <2>1, <2>2, <2>3, Zenon DEF Assessed, det, inv, carriedNow
<1>. QED
  BY <1>3, <1>4, Zenon DEF inv, carriedNow

\* A report of an approval: nothing of it was structural, and the token is why.
LEMMA OverriddenAs ==
  ASSUME NEW r, NEW manifest, NEW carriedNow, Overridden(r, Inventory(manifest), carriedNow)
  PROVE  /\ r.phase = phase /\ r.manifest = manifest /\ r.fingerprint = service.fingerprint
         /\ r.findings = Inventory(manifest).findings \cup modelFindings(r.verdicts)
         /\ r.decision = "allow" /\ r.summary = "approved"
         /\ r.complete /\ \A f \in Inventory(manifest).findings : ~f.hard
         /\ token # None /\ token.phase = phase /\ token.manifest = manifest
         /\ token.fingerprint = service.fingerprint /\ r.verdicts = token.verdicts
<1>. DEFINE inv == Inventory(manifest)
            det == assessDeterministicAt(cfg, inv, carriedNow)
<1>1. PICK review, skipped, onDemand :
        /\ r = BuildReport(inv, det, TRUE, {}, review, skipped, onDemand)
        /\ ~det.structural /\ TokenMatches(inv) /\ review.verdicts = token.verdicts
  BY Zenon DEF Overridden
<1>2. inv.manifest = manifest /\ inv.complete \in BOOLEAN
  BY DEF Inventory
<1>3. ~det.structural => inv.complete /\ \A f \in inv.findings : ~f.hard
  BY DEF assessDeterministicAt, structuralBlock
<1>. HIDE DEF inv, det
<1>4. /\ r.phase = phase /\ r.manifest = inv.manifest /\ r.fingerprint = service.fingerprint
      /\ r.findings = inv.findings \cup modelFindings(review.verdicts)
      /\ r.verdicts = review.verdicts /\ r.complete = inv.complete
  BY <1>1 DEF BuildReport
<1>5. r.decision = "allow"
  BY <1>1 DEF BuildReport
<1>6. r.summary = "approved"
  BY <1>1 DEF BuildReport, policySummary
<1>7. /\ token # None /\ token.phase = phase /\ token.manifest = manifest
      /\ token.fingerprint = service.fingerprint
  BY <1>1, <1>2, Zenon DEF TokenMatches
<1>8. r.complete
  BY <1>1, <1>3, <1>4
<1>9. \A f \in inv.findings : ~f.hard
  BY <1>1, <1>3
<1>. QED
  BY <1>1, <1>2, <1>4, <1>5, <1>6, <1>7, <1>8, <1>9 DEF inv

\* A report without one: it allows what has nothing to decide, and says so.
LEMMA AssessedAs ==
  ASSUME NEW r, NEW manifest, NEW carriedNow, Assessed(r, Inventory(manifest), carriedNow)
  PROVE  /\ r.phase = phase /\ r.manifest = manifest /\ r.fingerprint = service.fingerprint
         /\ r.findings = Inventory(manifest).findings \cup modelFindings(r.verdicts)
         /\ r.verdicts \in Reviews
         /\ r.decision = "allow" =>
              /\ r.complete /\ \A f \in Inventory(manifest).findings : ~f.hard
              /\ \A f \in Inventory(manifest).findings : AtLeast(cfg, f) => f \in carriedNow
              /\ ~modelBlocks(cfg, r.verdicts)
         /\ Told(r)
<1>. DEFINE inv == Inventory(manifest)
            det == assessDeterministicAt(cfg, inv, carriedNow)
            explained(verdicts) == {i \in DOMAIN verdicts : VerdictReason(verdicts[i]) # "none"}
            first(verdicts) == CHOOSE i \in explained(verdicts) : \A j \in explained(verdicts) : i <= j
            decide == \E f \in inv.findings : AtLeast(cfg, f) /\ f \notin carriedNow
            severe(verdicts) == \E f \in modelFindings(verdicts) : AtLeast(cfg, f)
<1>1. PICK review, skipped, onDemand :
        /\ r = BuildReport(inv, det, FALSE, carriedNow, review, skipped, onDemand)
        /\ review.verdicts \in Reviews
        /\ cfg.mode # "ai" => review.verdicts = <<>>
  BY Zenon DEF Assessed
<1>2. inv.manifest = manifest /\ inv.complete \in BOOLEAN
  BY DEF Inventory
<1>3. det.allow <=> inv.complete /\ (\A f \in inv.findings : ~f.hard) /\ ~decide
  BY <1>2 DEF assessDeterministicAt
<1>. HIDE DEF inv, det
<1>4. /\ r.phase = phase /\ r.manifest = inv.manifest /\ r.fingerprint = service.fingerprint
      /\ r.findings = inv.findings \cup modelFindings(review.verdicts)
      /\ r.verdicts = review.verdicts /\ r.complete = inv.complete
  BY <1>1 DEF BuildReport
<1>5. r.decision = IF det.allow /\ (cfg.mode = "ai" => ~modelBlocks(cfg, review.verdicts))
                     THEN "allow" ELSE "block"
  BY <1>1 DEF BuildReport
<1>6. modelBlocks(cfg, review.verdicts) <=> explained(review.verdicts) # {} \/ severe(review.verdicts)
  BY <1>1, ReasonsBlock
<1>7. cfg.mode # "ai" => ~modelBlocks(cfg, review.verdicts)
  BY <1>1, NothingBlocks
<1>8. /\ r.decision \in {"allow", "block"}
      /\ r.decision = "allow" <=> det.allow /\ ~modelBlocks(cfg, review.verdicts)
  BY <1>5, <1>7
<1>9. explained(review.verdicts) # {} =>
        VerdictReason(review.verdicts[first(review.verdicts)]) \in
          {"injection", "ai-coverage", "ai-block", "ai-confidence"}
  <2>1. SUFFICES ASSUME explained(review.verdicts) # {}
                 PROVE  VerdictReason(review.verdicts[first(review.verdicts)]) # "none"
    BY DEF VerdictReason
  <2>2. PICK n \in 0 .. MaxBatches : review.verdicts \in [1 .. n -> Verdicts]
    BY <1>1 DEF Reviews
  <2>3. explained(review.verdicts) \in SUBSET Nat
    BY <2>2
  <2>4. first(review.verdicts) \in explained(review.verdicts)
    BY <2>1, <2>3, First
  <2>. QED
    BY <2>4
<1>10. review.error # "" => r.summary = "unavailable"
  BY <1>1 DEF BuildReport, policySummary
<1>11. review.error = "" =>
         r.summary = IF \E f \in inv.findings : f.hard THEN "structural"
                     ELSE IF ~inv.complete THEN "incomplete"
                     ELSE IF explained(review.verdicts) # {}
                       THEN VerdictReason(review.verdicts[first(review.verdicts)])
                     ELSE IF decide THEN "decide"
                     ELSE IF severe(review.verdicts) THEN "ai-decide"
                     ELSE IF carriedNow # {} THEN "carried" ELSE "nothing"
  BY <1>1 DEF BuildReport, policySummary
<1>. HIDE DEF explained, first, severe
<1>12. Told(r)
  BY <1>3, <1>6, <1>8, <1>9, <1>10, <1>11 DEF Told, Blocking, Allowing
<1>. QED
  BY <1>1, <1>2, <1>3, <1>4, <1>8, <1>12 DEF inv

----------------------------------------------------------------------------
(* What a report says of the user.                                         *)

\* What the recipe gate's approval may carry was allowed there, by the same policy,
\* for the same content (carriedDecision).
LEMMA CarriedWas ==
  ASSUME NEW inv, NEW f \in carriedDecision(inv)
  PROVE  /\ reports["pre"] # None /\ reports["pre"].decision = "allow"
         /\ reports["pre"].fingerprint = service.fingerprint
         /\ f.source = "deterministic" /\ AtLeast(cfg, f)
         /\ f \in reports["pre"].findings
         /\ reports["pre"].manifest[f.file] = inv.manifest[f.file]
BY DEF carriedDecision, carryEligibleFinding, LiveMarker

\* Every report evaluate makes keeps to what the invariant says of a report.
LEMMA ReportIsSound ==
  ASSUME IInv, service # None, NEW onDemand \in BOOLEAN, NEW r \in Evaluations(onDemand)
  PROVE  Built(r) /\ r.phase = phase /\ Decided(r) /\ Passed(r) /\ Told(r)
<1>. DEFINE manifest == Snapshot(phase)
            inv == Inventory(manifest)
            carriedNow == carriedDecision(inv)
<1>0. phase \in Phases /\ service.fingerprint \in Fingerprints
  BY DEF IInv, TypeOK
<1>1. Overridden(r, inv, carriedNow) \/ Assessed(r, inv, carriedNow)
  BY EvaluatedAs, Zenon
<1>2. inv.manifest = manifest
  BY DEF Inventory
<1>. HIDE DEF manifest, carriedNow
<1>3. CASE Overridden(r, inv, carriedNow)
  <2>1. /\ r.phase = phase /\ r.manifest = manifest /\ r.fingerprint = service.fingerprint
        /\ r.findings = inv.findings \cup modelFindings(r.verdicts)
        /\ r.decision = "allow" /\ r.summary = "approved"
        /\ r.complete /\ \A f \in inv.findings : ~f.hard
        /\ token # None /\ token.phase = phase /\ token.manifest = manifest
        /\ token.fingerprint = service.fingerprint /\ r.verdicts = token.verdicts
    BY <1>3, OverriddenAs, Zenon
  <2>2. PICK a \in answered :
          /\ a.phase = phase /\ a.manifest = manifest
          /\ a.fingerprint = service.fingerprint /\ a.verdicts = r.verdicts
    BY <2>1 DEF IInv, TokenIsAnAnswer
  <2>3. Built(a) /\ Asks(a)
    BY DEF IInv, AnswersWereAsked
  <2>4. /\ a.findings = inv.findings \cup modelFindings(r.verdicts)
        /\ r.verdicts \in Reviews /\ ~HasInjection(r.verdicts)
    BY <2>2, <2>3 DEF Built, Asks, Validate, Reviews
  <2>5. Built(r)
    BY <1>0, <2>1, <2>4 DEF Built, Reviews
  <2>6. Decided(r)
    <3>1. ASSUME NEW f \in r.findings PROVE ~f.hard /\ f \in a.findings
      BY <2>1, <2>4, ModelFindings
    <3>2. ASSUME NEW f \in r.findings, f.source = "deterministic"
          PROVE  f.file \in DOMAIN a.manifest
      BY <2>1, <2>2, <2>4, <3>2, ModelFindings, ScannerFindings
    <3>. QED
      BY <2>1, <2>2, <3>1, <3>2 DEF Decided
  <2>7. Passed(r)
    BY <2>1, <2>2, <2>4 DEF Passed
  <2>8. Told(r)
    BY <2>1 DEF Told, Allowing
  <2>. QED
    BY <2>1, <2>5, <2>6, <2>7, <2>8
<1>4. CASE Assessed(r, inv, carriedNow)
  <2>1. /\ r.phase = phase /\ r.manifest = manifest /\ r.fingerprint = service.fingerprint
        /\ r.findings = inv.findings \cup modelFindings(r.verdicts)
        /\ r.verdicts \in Reviews
        /\ r.decision = "allow" =>
             /\ r.complete /\ \A f \in inv.findings : ~f.hard
             /\ \A f \in inv.findings : AtLeast(cfg, f) => f \in carriedNow
             /\ ~modelBlocks(cfg, r.verdicts)
        /\ Told(r)
    BY <1>4, AssessedAs, Zenon
  <2>2. Built(r)
    BY <1>0, <2>1 DEF Built, Reviews
  <2>3. Decided(r)
    <3>1. SUFFICES ASSUME r.decision = "allow" PROVE Decided(r)
      BY DEF Decided
    <3>2. ASSUME NEW f \in r.findings PROVE ~f.hard
      BY <2>1, <3>1, ModelFindings
    <3>3. ASSUME NEW f \in r.findings, f.source = "deterministic", AtLeast(cfg, f)
          PROVE  \E a \in answered :
                   /\ f \in a.findings /\ a.fingerprint = r.fingerprint
                   /\ f.file \in DOMAIN a.manifest
                   /\ a.manifest[f.file] = r.manifest[f.file]
      <4>1. f \in inv.findings
        BY <2>1, <3>3, ModelFindings
      <4>2. f \in carriedDecision(inv)
        BY <2>1, <3>1, <3>3, <4>1 DEF carriedNow
      <4>3. /\ reports["pre"] # None /\ reports["pre"].decision = "allow"
            /\ reports["pre"].fingerprint = service.fingerprint
            /\ f \in reports["pre"].findings
            /\ reports["pre"].manifest[f.file] = manifest[f.file]
        BY <1>2, <4>2, CarriedWas
      <4>4. \E a \in answered :
              /\ f \in a.findings /\ a.fingerprint = reports["pre"].fingerprint
              /\ f.file \in DOMAIN a.manifest
              /\ a.manifest[f.file] = reports["pre"].manifest[f.file]
        BY <3>3, <4>3 DEF IInv, AllowedMeansDecided, Phases
      <4>. QED
        BY <2>1, <4>3, <4>4
    <3>. QED
      BY <2>1, <3>1, <3>2, <3>3 DEF Decided
  <2>4. Passed(r)
    BY <2>1 DEF Passed
  <2>. QED
    BY <2>1, <2>2, <2>3, <2>4
<1>. QED
  BY <1>1, <1>3, <1>4

\* A report is not the absence of one.
LEMMA IsAReport ==
  ASSUME NEW onDemand \in BOOLEAN, NEW r \in Evaluations(onDemand)
  PROVE  r # None
<1>1. PICK inv, det, overridden, carried, review, skipped, demanded :
        r = BuildReport(inv, det, overridden, carried, review, skipped, demanded)
  <2>. DEFINE i == Inventory(Snapshot(phase))
              c == carriedDecision(i)
  <2>1. Overridden(r, i, c) \/ Assessed(r, i, c)
    BY EvaluatedAs, Zenon
  <2>. HIDE DEF i, c
  <2>. QED
    BY <2>1, Zenon DEF Overridden, Assessed
<1>2. "phase" \in DOMAIN r
  BY <1>1 DEF BuildReport
<1>3. "phase" \notin DOMAIN None
  BY DEF None
<1>. QED
  BY <1>2, <1>3

----------------------------------------------------------------------------
(* The invariant.                                                          *)

LEMMA Initially == Init => IInv
  BY ConstantsAssumption
     DEF Init, IInv, TypeOK, ShownIsAQuestion, AnswersWereAsked, TokenIsAnAnswer, RoomToScan,
         AllowedMeansDecided, BlockingVerdictsNeedTheUser, SummaryTellsTheDecision, None, Phases

\* What was decided stays decided: no step takes an answer back, and a marker is only
\* replaced by the report of an evaluation.
LEMMA ReportsKeep ==
  ASSUME IInv, cfg' = cfg, answered \subseteq answered',
         \A p \in Phases : \/ reports'[p] = reports[p]
                           \/ /\ Decided(reports'[p]) /\ Passed(reports'[p]) /\ Told(reports'[p])
                              /\ reports'[p].phase = p
  PROVE  (AllowedMeansDecided /\ BlockingVerdictsNeedTheUser /\ SummaryTellsTheDecision)'
<1>1. ASSUME NEW p \in Phases, reports'[p] # None, reports'[p].decision = "allow"
      PROVE  Decided(reports'[p])
  BY <1>1 DEF IInv, AllowedMeansDecided, Decided
<1>2. ASSUME NEW p \in Phases, reports'[p] # None
      PROVE  Passed(reports'[p]) /\ reports'[p].phase = p
  <2>1. CASE reports'[p] = reports[p]
    <3>1. reports[p].phase = p
      BY <1>2, <2>1 DEF IInv, TypeOK
    <3>2. Passed(reports[p])
      BY <1>2, <2>1, <3>1 DEF IInv, BlockingVerdictsNeedTheUser, Passed
    <3>. QED
      BY <2>1, <3>1, <3>2, Zenon
  <2>. QED
    BY <2>1
<1>3. ASSUME NEW p \in Phases, reports'[p] # None
      PROVE  Told(reports'[p])
  BY <1>3 DEF IInv, SummaryTellsTheDecision, Told
<1>4. AllowedMeansDecided'
  BY <1>1 DEF AllowedMeansDecided, Decided, AtLeast
<1>5. BlockingVerdictsNeedTheUser'
  <2>. SUFFICES ASSUME NEW p \in Phases, reports'[p] # None, reports'[p].decision = "allow",
                       modelBlocks(cfg', reports'[p].verdicts)
                PROVE  /\ ~HasInjection(reports'[p].verdicts)
                       /\ \E r \in answered' :
                            /\ r.verdicts = reports'[p].verdicts /\ r.phase = p
                            /\ r.manifest = reports'[p].manifest
    BY Zenon DEF BlockingVerdictsNeedTheUser
  <2>1. modelBlocks(cfg, reports'[p].verdicts)
    BY Zenon
  <2>. QED
    BY <1>2, <2>1 DEF Passed
<1>6. SummaryTellsTheDecision'
  BY <1>3 DEF SummaryTellsTheDecision, Told
<1>. QED
  BY <1>4, <1>5, <1>6

\* A report that is recorded is one that validates; a question is put about no other.
LEMMA Recorded ==
  ASSUME IInv, service # None, NEW onDemand \in BOOLEAN, NEW r \in Evaluations(onDemand),
         Record(r)
  PROVE  /\ \A p \in Phases :
              \/ reports'[p] = reports[p]
              \/ /\ Decided(reports'[p]) /\ Passed(reports'[p]) /\ Told(reports'[p])
                 /\ Validate(reports'[p]) /\ reports'[p].phase = p
         /\ DOMAIN reports' = Phases
         /\ Asks(r) /\ pc # "rescan" => shown' = r /\ Built(shown') /\ shown' # None
<1>1. Built(r) /\ r.phase = phase /\ Decided(r) /\ Passed(r) /\ Told(r) /\ r # None
  BY ReportIsSound, IsAReport
<1>2. DOMAIN reports = Phases /\ phase \in Phases
  BY DEF IInv, TypeOK
<1>3. UNCHANGED reports \/ (Validate(r) /\ reports' = [reports EXCEPT ![phase] = r])
  BY DEF Record
<1>4. Asks(r) /\ pc # "rescan" => shown' = r
  BY DEF Record, Asks
<1>5. \A p \in Phases : reports'[p] = reports[p] \/ (Validate(r) /\ reports'[p] = r /\ p = phase)
  BY <1>2, <1>3
<1>6. DOMAIN reports' = Phases
  BY <1>2, <1>3
<1>. QED
  BY <1>1, <1>4, <1>5, <1>6

\* The actions that evaluate: Scan, ReviewNow and Rescan.
LEMMA EvaluationStep ==
  ASSUME IInv, Scan \/ ReviewNow \/ Rescan
  PROVE  IInv'
<1>1. pc \in {"scan", "ask", "rescan"} /\ service # None /\ scans < MaxScans
  BY DEF IInv, TypeOK, RoomToScan, Scan, ReviewNow, Rescan
<1>2. PICK demanded, r :
        /\ demanded \in BOOLEAN /\ r \in Evaluations(demanded) /\ Record(r)
        /\ pc' \in {"unsaved", "idle"} \/ (pc' = "ask" /\ Asks(r) /\ pc # "rescan")
        /\ service' = IF pc' = "idle" THEN None ELSE service
  BY DEF Scan, ReviewNow, Rescan, Leave
<1>3. /\ UNCHANGED <<cfg, tree, phase, answered, edits>> /\ scans' = scans + 1
      /\ token' \in {token, None}
  BY DEF Scan, ReviewNow, Rescan
<1>4. /\ \A p \in Phases :
           \/ reports'[p] = reports[p]
           \/ /\ Decided(reports'[p]) /\ Passed(reports'[p]) /\ Told(reports'[p])
              /\ Validate(reports'[p]) /\ reports'[p].phase = p
      /\ DOMAIN reports' = Phases
      /\ Asks(r) /\ pc # "rescan" => shown' = r /\ Built(shown') /\ shown' # None
  BY <1>1, <1>2, Recorded
<1>5. (AllowedMeansDecided /\ BlockingVerdictsNeedTheUser /\ SummaryTellsTheDecision)'
  BY <1>3, <1>4, ReportsKeep
<1>6. TypeOK'
  <2>1. \A p \in Phases : reports'[p] = None \/ (Validate(reports'[p]) /\ reports'[p].phase = p)
    BY <1>4 DEF IInv, TypeOK
  <2>2. /\ pc' \in {"idle", "scan", "ask", "rescan", "unsaved"}
        /\ service' = None \/ service'.fingerprint \in Fingerprints
        /\ pc' # "idle" => service' # None
    BY <1>1, <1>2 DEF IInv, TypeOK
  <2>3. pc' = "ask" => shown' # None
    BY <1>2, <1>4
  <2>4. token' = None \/ (token'.phase \in Phases /\ token'.fingerprint \in Fingerprints)
    BY <1>3 DEF IInv, TypeOK
  <2>5. scans' \in 0 .. MaxScans
    BY <1>1, <1>3, ConstantsAssumption DEF IInv, TypeOK
  <2>6. cfg' \in Configs /\ tree' \in [Files -> Contents] /\ phase' \in Phases /\ edits' \in 0 .. MaxEdits
    BY <1>3 DEF IInv, TypeOK
  <2>7. \A a \in answered' : Validate(a)
    BY <1>3 DEF IInv, TypeOK
  <2>. QED
    BY <1>4, <2>1, <2>2, <2>3, <2>4, <2>5, <2>6, <2>7 DEF TypeOK
<1>7. ShownIsAQuestion'
  BY <1>2, <1>4, Zenon DEF ShownIsAQuestion
<1>8. AnswersWereAsked'
  BY <1>3 DEF IInv, AnswersWereAsked
<1>9. TokenIsAnAnswer'
  BY <1>3 DEF IInv, TokenIsAnAnswer
<1>10. RoomToScan'
  BY <1>2 DEF RoomToScan
<1>. QED
  BY <1>5, <1>6, <1>7, <1>8, <1>9, <1>10 DEF IInv

\* The user says yes: the report shown is answered, and the token is for it alone.
LEMMA AnswerStep == ASSUME IInv, AnswerYes PROVE IInv'
<1>1. /\ pc = "ask" /\ pc' = "rescan" /\ answered' = answered \cup {shown}
      /\ token' = [phase |-> shown.phase, manifest |-> shown.manifest,
                   fingerprint |-> shown.fingerprint, verdicts |-> shown.verdicts,
                   error |-> shown.error]
      /\ UNCHANGED <<cfg, tree, service, phase, reports, edits, scans>> /\ scans < MaxScans
  BY DEF AnswerYes
<1>2. Built(shown) /\ Asks(shown) /\ Validate(shown)
  BY <1>1 DEF IInv, ShownIsAQuestion, Asks
<1>3. (AllowedMeansDecided /\ BlockingVerdictsNeedTheUser /\ SummaryTellsTheDecision)'
  BY <1>1, ReportsKeep
<1>4. TypeOK'
  <2>1. token'.phase \in Phases /\ token'.fingerprint \in Fingerprints
    BY <1>1, <1>2 DEF Built
  <2>2. \A a \in answered' : Validate(a)
    BY <1>1, <1>2 DEF IInv, TypeOK
  <2>. QED
    BY <1>1, <2>1, <2>2 DEF IInv, TypeOK
<1>5. AnswersWereAsked'
  BY <1>1, <1>2 DEF IInv, AnswersWereAsked
<1>6. TokenIsAnAnswer'
  BY <1>1 DEF TokenIsAnAnswer
<1>7. ShownIsAQuestion' /\ RoomToScan'
  BY <1>1 DEF ShownIsAQuestion, RoomToScan
<1>. QED
  BY <1>3, <1>4, <1>5, <1>6, <1>7 DEF IInv

\* The others change neither the answers nor the reports.
LEMMA OtherStep ==
  ASSUME IInv, EditFile \/ StartScan \/ AnswerNo \/ Interrupt \/ UNCHANGED vars
  PROVE  IInv'
<1>1. /\ UNCHANGED <<cfg, reports, answered>> /\ token' \in {token, None}
      /\ pc' = "ask" => pc = "ask" /\ UNCHANGED shown
  BY DEF EditFile, StartScan, AnswerNo, Interrupt, Leave, vars
<1>2. (AllowedMeansDecided /\ BlockingVerdictsNeedTheUser /\ SummaryTellsTheDecision)'
  BY <1>1, ReportsKeep
<1>3. AnswersWereAsked' /\ TokenIsAnAnswer' /\ ShownIsAQuestion'
  <2>1. AnswersWereAsked'
    BY <1>1 DEF IInv, AnswersWereAsked
  <2>2. TokenIsAnAnswer'
    BY <1>1 DEF IInv, TokenIsAnAnswer
  <2>3. ShownIsAQuestion'
    BY <1>1 DEF IInv, ShownIsAQuestion
  <2>. QED
    BY <2>1, <2>2, <2>3
<1>4. RoomToScan'
  BY DEF IInv, RoomToScan, EditFile, StartScan, AnswerNo, Interrupt, Leave, vars
<1>5. TypeOK'
  <2>1. /\ \A p \in Phases : reports'[p] = None \/ (Validate(reports'[p]) /\ reports'[p].phase = p)
        /\ \A a \in answered' : Validate(a)
        /\ DOMAIN reports' = Phases /\ cfg' \in Configs
        /\ token' = None \/ (token'.phase \in Phases /\ token'.fingerprint \in Fingerprints)
        /\ pc' = "ask" => shown' # None
    BY <1>1 DEF IInv, TypeOK
  <2>2. tree' \in [Files -> Contents] /\ edits' \in 0 .. MaxEdits
    BY ConstantsAssumption DEF IInv, TypeOK, EditFile, StartScan, AnswerNo, Interrupt, vars
  <2>3. /\ phase' \in Phases /\ scans' \in 0 .. MaxScans
        /\ pc' \in {"idle", "scan", "ask", "rescan", "unsaved"}
    BY DEF IInv, TypeOK, EditFile, StartScan, AnswerNo, Interrupt, Leave, vars
  <2>4. /\ service' = None \/ service'.fingerprint \in Fingerprints
        /\ pc' # "idle" => service' # None
    <3>1. CASE StartScan
      <4>1. PICK probe \in {"attested", "unattested", "failed", "none"}, archive \in BOOLEAN :
              service' = NewAuditService(probe, archive)
        BY <3>1 DEF StartScan
      <4>2. service'.fingerprint \in Fingerprints
        BY <4>1 DEF NewAuditService, Fingerprints
      <4>3. "reviewer" \in DOMAIN service' /\ "reviewer" \notin DOMAIN None
        BY <4>1 DEF NewAuditService, None
      <4>. QED
        BY <4>2, <4>3
    <3>2. CASE EditFile \/ AnswerNo \/ Interrupt \/ UNCHANGED vars
      BY <3>2 DEF IInv, TypeOK, EditFile, AnswerNo, Interrupt, Leave, vars
    <3>. QED
      BY <3>1, <3>2
  <2>. QED
    BY <2>1, <2>2, <2>3, <2>4 DEF TypeOK
<1>. QED
  BY <1>2, <1>3, <1>4, <1>5 DEF IInv

LEMMA Inductively == IInv /\ [Next]_vars => IInv'
  BY EvaluationStep, AnswerStep, OtherStep DEF Next

\* Whatever is scanned, exchanged, reviewed and answered, in any order, the reports of a
\* transaction stay those evaluate built (runScan).
THEOREM Inductive == Spec => []IInv
  BY Initially, Inductively, PTL DEF Spec

\* Every report on file validates, and so does every one that was answered.
THEOREM TypeCorrect == Spec => []TypeOK
<1>1. IInv => TypeOK
  BY DEF IInv
<1>. QED
  BY <1>1, Inductive, PTL

\* A gate that is allowed has no hard finding and full coverage, and whatever needed
\* a decision was decided by the user, for the same content under the same policy:
\* by an approval of this gate or one carried over from the recipe gate (evaluate,
\* carriedDecision).
THEOREM Decisions == Spec => []AllowedMeansDecided
<1>1. IInv => AllowedMeansDecided
  BY DEF IInv
<1>. QED
  BY <1>1, Inductive, PTL

\* No verdict that blocks is passed but by an answer to a report that showed it, and
\* none that detected an injection (makeOnDemandAIReview).
THEOREM VerdictsAnswered == Spec => []BlockingVerdictsNeedTheUser
<1>1. IInv => BlockingVerdictsNeedTheUser
  BY DEF IInv
<1>. QED
  BY <1>1, Inductive, PTL

\* The summary says of every report what its decision is (policySummary).
THEOREM Summaries == Spec => []SummaryTellsTheDecision
<1>1. IInv => SummaryTellsTheDecision
  BY DEF IInv
<1>. QED
  BY <1>1, Inductive, PTL
=============================================================================
