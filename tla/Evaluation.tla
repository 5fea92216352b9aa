----------------------------- MODULE Evaluation -----------------------------
(***************************************************************************)
(* What one yay transaction decides about one package base: the service    *)
(* that freezes its decision inputs, the deterministic assessment, the     *)
(* optional AI review, the exact one-time approval, the decision carried   *)
(* from the recipe gate to the source gate, and the report the outcome is  *)
(* recorded in (internal/audit/policy.go, reports.go, approvals.go,        *)
(* recovery.go, cli.go).                                                   *)
(*                                                                         *)
(* AuditStore models how several processes share the stored files; here a  *)
(* single transaction runs its scans one after another and the subject is  *)
(* the decision itself.  A file holds a content, of which the decision     *)
(* sees the kind (what the scanner finds in it) and the version (what the  *)
(* manifest binds).  A verdict is what evaluate reads of one.              *)
(***************************************************************************)
EXTENDS Naturals, Sequences, FiniteSets

CONSTANTS
  Contents,     \* what a file may hold: records of kind and version
  Verdicts,     \* verdicts the model may return
  Configs,      \* configurations: mode, threshold and reviewed phases
  MaxBatches,   \* bound on the verdicts of one review
  MaxEdits,     \* bound on changes of the files during the transaction
  MaxScans      \* bound on evaluations during the transaction

Phases == {"pre", "post"}
Files == {"recipe", "source"}
Kinds == {"clean", "concern", "binary", "depth", "hard"}
Modes == {"ai", "deterministic-only"}
Severities == 1 .. 3        \* medium, high, critical

ASSUME ConstantsAssumption ==
  /\ Contents \subseteq [kind : Kinds, ver : Nat]
  /\ Contents # {}
  /\ Verdicts \subseteq [verdict : {"allow", "block"}, confident : BOOLEAN,
                         injection : BOOLEAN, notes : BOOLEAN,
                         finding : {"none", "minor", "severe", "escape"}]
  /\ Configs \subseteq [mode : Modes, threshold : Severities, phases : SUBSET Phases]
  /\ MaxBatches \in Nat /\ MaxEdits \in Nat /\ MaxScans \in Nat

None == [none |-> TRUE]

\* The post phase inventories the checkout and the sources together.
FilesOf(phase) == IF phase = "pre" THEN {"recipe"} ELSE Files

\* One finding of the scanner for each kind that has any: a setid member or
\* special file is a hard block, an unreadable executable header or an archive
\* nested too deep is structural without being one.
Traits ==
  [concern |-> [rule |-> "plain", sev |-> 2, cat |-> "network", hard |-> FALSE],
   binary  |-> [rule |-> "binary-header-invalid", sev |-> 2, cat |-> "coverage", hard |-> FALSE],
   depth   |-> [rule |-> "archive-depth-limit", sev |-> 2, cat |-> "coverage", hard |-> FALSE],
   hard    |-> [rule |-> "special-file", sev |-> 3, cat |-> "filesystem", hard |-> TRUE]]

Finding(source, file, t) ==
  [source |-> source, file |-> file, rule |-> t.rule, sev |-> t.sev,
   cat |-> t.cat, hard |-> t.hard]

\* The inventory of a manifest: its findings and whether coverage is complete.
Inventory(manifest) ==
  [manifest |-> manifest,
   findings |-> {Finding("deterministic", f, Traits[manifest[f].kind]) :
                   f \in {g \in DOMAIN manifest : manifest[g].kind # "clean"}},
   complete |-> \A f \in DOMAIN manifest : manifest[f].kind # "depth"]

AtLeast(c, f) == f.sev >= c.threshold

structuralBlock(findings, complete) ==
  \/ ~complete
  \/ \E f \in findings :
       \/ f.hard
       \/ f.cat = "archive_escape"
       \/ f.rule \in {"special-file", "binary-header-invalid", "archive-depth-limit"}

HasInjection(verdicts) == \E i \in DOMAIN verdicts : verdicts[i].injection

----------------------------------------------------------------------------
(* The deterministic assessment and what the model adds to it.             *)

assessDeterministicAt(c, inv, carried) ==
  LET hard == \E f \in inv.findings : f.hard
      block == \E f \in inv.findings : AtLeast(c, f) /\ f \notin carried
  IN  [hard |-> hard, structural |-> structuralBlock(inv.findings, inv.complete),
       allow |-> inv.complete /\ ~hard /\ ~block]

\* Model findings carry the rule ai-review and never a hard block.
AITraits ==
  [minor  |-> [rule |-> "ai-review", sev |-> 1, cat |-> "other", hard |-> FALSE],
   severe |-> [rule |-> "ai-review", sev |-> 3, cat |-> "other", hard |-> FALSE],
   escape |-> [rule |-> "ai-review", sev |-> 1, cat |-> "archive_escape", hard |-> FALSE]]

VerdictFindings(v) ==
  IF v.finding = "none" THEN {} ELSE {Finding("ai", "", AITraits[v.finding])}

modelFindings(verdicts) == UNION {VerdictFindings(verdicts[i]) : i \in DOMAIN verdicts}


\* Mutant of modelBlocks: the confidence of a verdict is not compared.
modelBlocksAtAnyConfidence(c, verdicts) ==
  \E i \in DOMAIN verdicts :
    LET v == verdicts[i] IN
      \/ v.verdict # "allow" \/ v.injection \/ v.notes
      \/ \E f \in VerdictFindings(v) : AtLeast(c, f)

modelBlocks(c, verdicts) ==
  \E i \in DOMAIN verdicts :
    LET v == verdicts[i] IN
      \/ v.verdict # "allow" \/ ~v.confident \/ v.injection \/ v.notes
      \/ \E f \in VerdictFindings(v) : AtLeast(c, f)

\* What the first verdict that explains a block is reported as.
VerdictReason(v) ==
  IF v.injection THEN "injection"
  ELSE IF v.notes THEN "ai-coverage"
  ELSE IF v.verdict = "block" THEN "ai-block"
  ELSE IF ~v.confident THEN "ai-confidence" ELSE "none"

policySummary(c, inv, verdicts, error, overridden, carried) ==
  LET decide == \E f \in inv.findings : AtLeast(c, f) /\ f \notin carried
      explained == {i \in DOMAIN verdicts : VerdictReason(verdicts[i]) # "none"}
      aiSevere == \E f \in modelFindings(verdicts) : AtLeast(c, f)
  IN  IF overridden THEN "approved"
      ELSE IF error # "" THEN "unavailable"
      ELSE IF \E f \in inv.findings : f.hard THEN "structural"
      ELSE IF ~inv.complete THEN "incomplete"
      ELSE IF explained # {}
        THEN VerdictReason(verdicts[CHOOSE i \in explained : \A j \in explained : i <= j])
      ELSE IF decide THEN "decide"
      ELSE IF aiSevere THEN "ai-decide"
      ELSE IF carried # {} THEN "carried" ELSE "nothing"

Blocking == {"structural", "incomplete", "injection", "ai-coverage", "ai-block",
             "ai-confidence", "decide", "ai-decide"}
Allowing == {"approved", "carried", "nothing"}

----------------------------------------------------------------------------
VARIABLES
  cfg,       \* the configuration of the transaction
  tree,      \* what every file holds now
  service,   \* the AuditService of the running command
  pc,        \* where the running command is
  phase,     \* the gate the running command scans for
  shown,     \* the report in front of the user, until it is answered
  token,     \* the pending one-time approval
  reports,   \* the report each gate's decision marker points at
  answered,  \* history: the reports the user said yes to
  edits, scans

vars == <<cfg, tree, service, pc, phase, shown, token, reports, answered, edits, scans>>

Init ==
  /\ cfg \in Configs
  /\ tree \in [Files -> Contents]
  /\ service = None /\ pc = "idle" /\ phase = "pre"
  /\ shown = None /\ token = None
  /\ reports = [p \in Phases |-> None]
  /\ answered = {}
  /\ edits = 0 /\ scans = 0

Snapshot(p) == [f \in FilesOf(p) |-> tree[f]]

\* makepkg, a pull of the checkout or the user changes a file at any moment.
EditFile ==
  /\ edits < MaxEdits
  /\ edits' = edits + 1
  /\ \E f \in Files : \E c \in Contents \ {tree[f]} : tree' = [tree EXCEPT ![f] = c]
  /\ UNCHANGED <<cfg, service, pc, phase, shown, token, reports, answered, scans>>

(***************************************************************************)
(* NewAuditService.  The policy fingerprint covers the provider metadata   *)
(* of the probe and the identity of the archive parser; a failed probe, an *)
(* unidentified provider or a missing attestation drops the reviewer.      *)
(***************************************************************************)
NewAuditService(probe, archive) ==
  [reviewer |-> probe = "attested",
   initError |-> probe \in {"failed", "unattested"},
   coverageError |-> ~archive,
   fingerprint |-> <<IF probe = "unattested" THEN "attested" ELSE probe, archive>>]

StartScan ==
  /\ pc = "idle" /\ scans < MaxScans
  /\ \E p \in Phases :
       /\ p = "post" => reports["pre"] # None /\ reports["pre"].decision = "allow"
       /\ phase' = p
  /\ \E probe \in IF cfg.mode = "ai" THEN {"attested", "unattested", "failed"} ELSE {"none"},
        archive \in BOOLEAN :
       service' = NewAuditService(probe, archive)
  /\ pc' = "scan"
  /\ shown' = None
  /\ UNCHANGED <<cfg, tree, token, reports, answered, edits, scans>>

----------------------------------------------------------------------------
(* The decision of the recipe gate that the source gate may rely on.       *)

carryEligibleFinding(c, f) ==
  f.source = "deterministic" /\ AtLeast(c, f) /\ ~f.hard /\ f.cat # "coverage"

\* loadLiveMarkerReport: an allow of this transaction under this policy.
LiveMarker(p) ==
  reports[p] # None /\ reports[p].decision = "allow"
    /\ reports[p].fingerprint = service.fingerprint


\* Mutant of carriedDecision: the manifest entries are not compared.
carriedAnyContent(inv) ==
  LET source == reports["pre"] IN
  IF /\ phase = "post" /\ LiveMarker("pre")
     /\ source.disposition = "override" /\ source.complete
     /\ ~structuralBlock(source.findings, source.complete)
     /\ ~HasInjection(source.verdicts)
  THEN {f \in inv.findings : carryEligibleFinding(cfg, f) /\ f \in source.findings}
  ELSE {}

carriedDecision(inv) ==
  LET source == reports["pre"] IN
  IF /\ phase = "post" /\ LiveMarker("pre")
     /\ source.disposition = "override" /\ source.complete
     /\ ~structuralBlock(source.findings, source.complete)
     /\ ~HasInjection(source.verdicts)
  THEN {f \in inv.findings :
          /\ carryEligibleFinding(cfg, f)
          /\ f \in source.findings
          /\ f.file \in DOMAIN source.manifest
          /\ source.manifest[f.file] = inv.manifest[f.file]}
  ELSE {}


\* Mutant of TokenMatches: an approval of the phase, whatever it was for.
TokenOfPhase(inv) == token # None /\ token.phase = phase

TokenMatches(inv) ==
  token # None /\ token.phase = phase /\ token.manifest = inv.manifest
    /\ token.fingerprint = service.fingerprint

\* A verdict per batch, an error of the provider, metadata that changed since
\* the probe, or no verdict at all.
ReviewResults == {[error |-> "review", verdicts |-> <<>>]}
  \cup {[error |-> "", verdicts |-> v] : v \in UNION {[1 .. n -> Verdicts] : n \in 1 .. MaxBatches}}

Reviewing(det, overridden, error, skipped) ==
  cfg.mode = "ai" /\ ~det.hard /\ ~overridden /\ error = "" /\ ~skipped

----------------------------------------------------------------------------
(***************************************************************************)
(* Report.Validate: the cross-field semantics a report must have before it *)
(* is written and whenever it is read back.                                *)
(***************************************************************************)
Validate(r) ==
  /\ r.mode = "deterministic-only" => r.error = "" /\ r.verdicts = <<>> /\ ~r.onDemand
  /\ r.carried # {} =>
       /\ r.phase = "post" /\ r.disposition # "override"
       /\ \A f \in r.carried : f \in r.findings /\ f.source = "deterministic"
                                 /\ ~f.hard /\ f.cat # "coverage"
  /\ r.eligible => /\ ~structuralBlock(r.findings, r.complete)
                   /\ ~HasInjection(r.verdicts)
                   /\ r.decision = "block"
  /\ r.network = (r.decision = "allow" /\ r.phase = "post")

BuildReport(inv, det, overridden, carried, review, skipped, onDemand) ==
  LET allowed == /\ overridden \/ det.allow
                 /\ (cfg.mode = "ai" /\ ~overridden) => ~modelBlocks(cfg, review.verdicts)
  IN [phase |-> phase, mode |-> cfg.mode, manifest |-> inv.manifest,
      fingerprint |-> service.fingerprint, complete |-> inv.complete,
      decision |-> IF allowed THEN "allow" ELSE "block",
      disposition |-> IF ~allowed THEN "block" ELSE IF overridden THEN "override" ELSE "allow",
      findings |-> inv.findings \cup modelFindings(review.verdicts),
      verdicts |-> review.verdicts, error |-> review.error,
      skipped |-> skipped, onDemand |-> onDemand,
      eligible |-> /\ ~allowed /\ ~det.structural
                   /\ ~service.coverageError /\ ~HasInjection(review.verdicts),
      network |-> allowed /\ phase = "post",
      carried |-> carried,
      summary |-> policySummary(cfg, inv, review.verdicts, review.error, overridden, carried)]

\* evaluate: every report it may build of the files as they are now.  A token
\* for exactly this snapshot supersedes what the recipe gate carried.
Evaluations(onDemand) ==
  LET inv == Inventory(Snapshot(phase))
      carriedNow == carriedDecision(inv)
      det == assessDeterministicAt(cfg, inv, carriedNow)
      overridden == ~det.structural /\ TokenMatches(inv)
      carried == IF overridden THEN {} ELSE carriedNow
      error == IF overridden THEN token.error
               ELSE IF service.initError \/ service.coverageError THEN "degraded" ELSE ""
      skipped == cfg.mode = "ai" /\ ~onDemand /\ phase \notin cfg.phases
      reviews == IF Reviewing(det, overridden, error, skipped) THEN ReviewResults
                 ELSE {[error |-> error,
                        verdicts |-> IF overridden THEN token.verdicts ELSE <<>>]}
  IN  {BuildReport(inv, det, overridden, carried, review, skipped, onDemand) :
         review \in reviews}

\* classifyInlineDecision: only an eligible block has a question.
Asks(r) == Validate(r) /\ r.decision = "block" /\ r.eligible


\* Mutant of Record: the report is written before it is validated.
RecordUnchecked(r) ==
  /\ shown' = (IF Asks(r) /\ pc # "rescan" THEN r ELSE None)
  /\ reports' = [reports EXCEPT ![phase] = r]

\* Save refuses a report that does not validate; the marker is written after it.
Record(r) ==
  IF Validate(r)
  THEN shown' = (IF Asks(r) /\ pc # "rescan" THEN r ELSE None)
       /\ reports' = [reports EXCEPT ![phase] = r]
  ELSE shown' = None /\ UNCHANGED reports

\* The service lives as long as its command.
Leave(next) == pc' = next /\ service' = (IF next = "idle" THEN None ELSE service)

Scan ==
  /\ pc = "scan" /\ scans' = scans + 1
  /\ \E r \in Evaluations(FALSE) :
       /\ Record(r)
       /\ Leave(IF ~Validate(r) THEN "unsaved" ELSE IF Asks(r) THEN "ask" ELSE "idle")
  /\ UNCHANGED <<cfg, tree, phase, token, answered, edits>>

onDemandAIReviewAvailable ==
  /\ service.reviewer /\ shown.eligible /\ shown.mode = "ai"
  /\ shown.error = "" /\ shown.skipped /\ shown.verdicts = <<>>

\* [r] at the question: rescan and review the current snapshot, and ask again
\* about the report that comes of it.
ReviewNow ==
  /\ pc = "ask" /\ scans < MaxScans /\ onDemandAIReviewAvailable
  /\ scans' = scans + 1
  /\ \E r \in Evaluations(TRUE) :
       /\ Record(r)
       /\ Leave(IF ~Validate(r) THEN "unsaved" ELSE IF Asks(r) THEN "ask" ELSE "idle")
  /\ UNCHANGED <<cfg, tree, phase, token, answered, edits>>

\* Yes: a token for exactly the report shown, then the whole gate once more.
AnswerYes ==
  /\ pc = "ask" /\ scans < MaxScans
  /\ token' = [phase |-> shown.phase, manifest |-> shown.manifest,
               fingerprint |-> shown.fingerprint, verdicts |-> shown.verdicts,
               error |-> shown.error]
  /\ answered' = answered \cup {shown}
  /\ pc' = "rescan" /\ shown' = None
  /\ UNCHANGED <<cfg, tree, service, phase, reports, edits, scans>>

AnswerNo ==
  /\ pc = "ask" /\ Leave("idle") /\ shown' = None
  /\ UNCHANGED <<cfg, tree, phase, token, reports, answered, edits, scans>>

\* The token is consumed when it matches and cancelled when it does not.
Rescan ==
  /\ pc = "rescan" /\ scans' = scans + 1
  /\ \E r \in Evaluations(FALSE) :
       Record(r) /\ Leave(IF Validate(r) THEN "idle" ELSE "unsaved")
  /\ token' = None
  /\ UNCHANGED <<cfg, tree, phase, answered, edits>>

\* A cancelled context ends a command between its steps.
Interrupt ==
  /\ pc \in {"scan", "rescan", "unsaved"}
  /\ Leave("idle") /\ token' = None /\ shown' = None
  /\ UNCHANGED <<cfg, tree, phase, reports, answered, edits, scans>>

Next ==
  \/ EditFile \/ StartScan \/ Scan \/ ReviewNow \/ AnswerYes \/ AnswerNo
  \/ Rescan \/ Interrupt

Spec == Init /\ [][Next]_vars

----------------------------------------------------------------------------
Fingerprints == ({"attested", "failed", "none"} \X BOOLEAN)

TypeOK ==
  /\ cfg \in Configs /\ tree \in [Files -> Contents]
  /\ pc \in {"idle", "scan", "ask", "rescan", "unsaved"}
  /\ phase \in Phases
  /\ service = None \/ service.fingerprint \in Fingerprints
  /\ (pc # "idle") => service # None
  /\ pc = "ask" => shown # None
  /\ token = None \/ (token.phase \in Phases /\ token.fingerprint \in Fingerprints)
  /\ DOMAIN reports = Phases
  /\ \A p \in Phases : reports[p] = None \/ (Validate(reports[p]) /\ reports[p].phase = p)
  /\ \A r \in answered : Validate(r)
  /\ edits \in 0 .. MaxEdits /\ scans \in 0 .. MaxScans

\* Every finding that needs a decision in a report that allows a gate was put
\* to the user, who said yes, in this transaction, under this policy, in a
\* report about a file that holds the same content; hard findings and
\* incomplete coverage are never allowed at all, by an approval or by a
\* decision carried from the recipe gate (evaluate, carriedDecision).
AllowedMeansDecided ==
  \A p \in Phases :
    (reports[p] # None /\ reports[p].decision = "allow") =>
      /\ reports[p].complete
      /\ \A f \in reports[p].findings :
           /\ ~f.hard
           /\ (f.source = "deterministic" /\ AtLeast(cfg, f)) =>
                \E r \in answered :
                  /\ f \in r.findings
                  /\ r.fingerprint = reports[p].fingerprint
                  /\ f.file \in DOMAIN r.manifest
                  /\ r.manifest[f.file] = reports[p].manifest[f.file]

\* A verdict that blocks is only passed by the user's answer to a report that
\* showed that verdict, and a verdict that detected prompt injection is passed
\* by nothing (evaluate, authorizationSource, onDemandAIReview).
BlockingVerdictsNeedTheUser ==
  \A p \in Phases :
    (reports[p] # None /\ reports[p].decision = "allow"
       /\ modelBlocks(cfg, reports[p].verdicts)) =>
      /\ ~HasInjection(reports[p].verdicts)
      /\ \E r \in answered : r.verdicts = reports[p].verdicts /\ r.phase = p
                               /\ r.manifest = reports[p].manifest

\* The sentence a briefing opens with says what the gate did: policySummary
\* walks the evidence on its own, in another order than evaluate decides, and a
\* block must never be described as having no blocking findings, or the reverse.
SummaryTellsTheDecision ==
  \A p \in Phases :
    reports[p] # None =>
      \/ reports[p].summary = "unavailable"
      \/ reports[p].summary \in Blocking /\ reports[p].decision = "block"
      \/ reports[p].summary \in Allowing /\ reports[p].decision = "allow"

\* What a briefing does not need never stops it: a scan that ran to its end is
\* recorded, whatever the archive probe or the model said (NewAuditService).
EveryScanIsDescribed == pc # "unsaved"

----------------------------------------------------------------------------
(* The inductive invariant behind the first three properties.              *)

\* What every report is built of, whatever is written of it later: the inventory of
\* its manifest, and the findings of its verdicts.
Built(r) ==
  /\ r.findings = Inventory(r.manifest).findings \cup modelFindings(r.verdicts)
  /\ r.verdicts \in UNION {[1 .. n -> Verdicts] : n \in 0 .. MaxBatches}
  /\ r.fingerprint \in Fingerprints /\ r.phase \in Phases

\* The report in front of the user is a block that an answer may cross.
ShownIsAQuestion == pc = "ask" => Built(shown) /\ Asks(shown)
AnswersWereAsked == \A r \in answered : Built(r) /\ Asks(r)

\* A token stands for a report the user said yes to.
TokenIsAnAnswer ==
  token # None =>
    \E r \in answered :
      /\ token.phase = r.phase /\ token.manifest = r.manifest
      /\ token.fingerprint = r.fingerprint /\ token.verdicts = r.verdicts

\* A command that is about to evaluate may still do so.
RoomToScan == pc \in {"scan", "rescan"} => scans < MaxScans

IInv ==
  /\ TypeOK /\ ShownIsAQuestion /\ AnswersWereAsked /\ TokenIsAnAnswer /\ RoomToScan
  /\ AllowedMeansDecided /\ BlockingVerdictsNeedTheUser /\ SummaryTellsTheDecision
=============================================================================
