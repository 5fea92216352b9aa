------------------------- MODULE Transaction_proofs -------------------------
(***************************************************************************)
(* Proofs about the transactions of one checkout, for any packages,        *)
(* archive contents, recipe versions and number of transactions.  The      *)
(* inductive invariant IInv is stated in Transaction; each of its parts is *)
(* preserved by a lemma with one case per action, or per few actions that  *)
(* leave the part alone for the same reason.                               *)
(***************************************************************************)
EXTENDS Transaction, TLAPS

USE TransactionAssumption DEF vars, diskVars, yayVars, auditVars, keepVars, ghostVars

-----------------------------------------------------------------------------
(* Types.                                                                  *)

\* What a marker is bound to is a content (scanner.go, BindDirectoryWithSources).
LEMMA ContentType ==
  ASSUME DiskOK, NEW ph
  PROVE  Content(ph) \in Contents
BY DEF DiskOK, Content, Contents

\* scanDirectory writes a marker of the right type.
LEMMA ScanType ==
  ASSUME TypeOK, NEW ph \in MarkPhases, NEW allow \in BOOLEAN, scanDirectory(ph, allow)
  PROVE  MarkerOK'
<1>1. [of |-> Content(ph), allow |-> allow] \in [of : Contents, allow : BOOLEAN]
  BY ContentType DEF TypeOK
<1>. QED
  BY <1>1 DEF scanDirectory, MarkerOK, TypeOK

\* Only contained commands, strips, moves and a new recipe write the disk.
LEMMA DiskType ==
  ASSUME TypeOK, [Next]_vars
  PROVE  DiskOK'
<1>1. CASE runPrintsrcinfoBootstrap \/ acquireDeclaredSources
  BY <1>1 DEF runPrintsrcinfoBootstrap, Contained, acquireDeclaredSources, TypeOK,
     DiskOK
<1>2. CASE \E profile \in Profiles : runMakepkgSandbox(profile)
  BY <1>2 DEF runMakepkgSandbox, Contained, TypeOK, DiskOK
<1>3. CASE \E profile \in Profiles : Begin(profile)
  BY <1>3 DEF Begin, TypeOK, DiskOK
<1>4. CASE Hook("pre", "verify") \/ Hook("post", "prepare") \/ PostDownloadRescan
  BY <1>4 DEF Hook, scanDirectory, PostDownloadRescan, TypeOK, DiskOK
<1>5. CASE handlePackageList \/ BuiltPackages
  BY <1>5 DEF handlePackageList, Review, BuiltPackages, TypeOK, DiskOK
<1>6. CASE ScanArtifacts
  BY <1>6 DEF ScanArtifacts, Quarantine, TypeOK, DiskOK
<1>7. CASE \E p \in Pkgs : Gate(p)
  BY <1>7 DEF Gate, GatePasses, GateFails, GateKeep, GateStrip, GateUnanswered,
     GateCancel, GateDone, Quarantine, TypeOK, DiskOK, Paths
<1>8. CASE Bind \/ QuarantineEnds
  BY <1>8 DEF Bind, Quarantine, QuarantineEnds, TypeOK, DiskOK
<1>9. CASE \E p \in Pkgs : Move(p)
  BY <1>9 DEF Move, MoveRename, MoveCopy, MoveCopied, Moved, TypeOK, DiskOK, Paths
<1>10. CASE Choose \/ Install("install", "installed") \/ Install("reuse", "reused") \/ Kill
  BY <1>10 DEF Choose, Install, Kill, TypeOK, DiskOK
<1>11. CASE NextTransaction
  BY <1>11 DEF NextTransaction, TypeOK, DiskOK
<1>12. CASE UNCHANGED vars
  BY <1>12 DEF TypeOK, DiskOK
<1>. QED
  BY <1>1, <1>2, <1>3, <1>4, <1>5, <1>6, <1>7, <1>8, <1>9, <1>10, <1>11, <1>12 DEF Next

\* yay and the wrapper go to known places only.
LEMMA YayType ==
  ASSUME TypeOK, [Next]_vars
  PROVE  YayOK'
<1>1. CASE runPrintsrcinfoBootstrap \/ acquireDeclaredSources
  BY <1>1 DEF runPrintsrcinfoBootstrap, At, Go, End, acquireDeclaredSources, TypeOK,
     YayOK, Phases, Steps, Exits
<1>2. CASE \E profile \in Profiles : runMakepkgSandbox(profile)
  BY <1>2 DEF runMakepkgSandbox, After, At, Go, End, Profiles, TypeOK, YayOK, Phases,
     Steps, Exits
<1>3. CASE \E profile \in Profiles : Begin(profile)
  BY <1>3 DEF Begin, At, Go, End, Profiles, TypeOK, YayOK, Phases, Steps, Exits
<1>4. CASE Hook("pre", "verify") \/ Hook("post", "prepare") \/ PostDownloadRescan
  BY <1>4 DEF Hook, At, Go, End, PostDownloadRescan, TypeOK, YayOK, Phases, Steps,
     Exits, Profiles
<1>5. CASE handlePackageList \/ BuiltPackages
  BY <1>5 DEF handlePackageList, At, Go, End, BuiltPackages, TypeOK, YayOK, Phases,
     Steps, Exits
<1>6. CASE ScanArtifacts
  BY <1>6 DEF ScanArtifacts, Quarantine, Go, End, TypeOK, YayOK, Phases, Steps, Exits
<1>7. CASE \E p \in Pkgs : Gate(p)
  BY <1>7 DEF Gate, GatePasses, GateFails, GateKeep, GateStrip, GateUnanswered,
     GateCancel, GateDone, Quarantine, Go, End, TypeOK, YayOK, Phases, Steps, Exits
<1>8. CASE Bind \/ QuarantineEnds
  BY <1>8 DEF Bind, Quarantine, Go, QuarantineEnds, End, TypeOK, YayOK, Phases, Steps,
     Exits
<1>9. CASE \E p \in Pkgs : Move(p)
  BY <1>9 DEF Move, MoveRename, MoveCopy, MoveCopied, Moved, Go, TypeOK, YayOK, Steps
<1>10. CASE Choose \/ Install("install", "installed") \/ Install("reuse", "reused") \/ Kill
  BY <1>10 DEF Choose, At, Go, Install, End, Kill, TypeOK, YayOK, Phases, Steps, Exits,
     Profiles
<1>11. CASE NextTransaction
  BY <1>11 DEF NextTransaction, TypeOK, YayOK, Phases, Steps, Exits
<1>12. CASE UNCHANGED vars
  BY <1>12 DEF TypeOK, YayOK
<1>. QED
  BY <1>1, <1>2, <1>3, <1>4, <1>5, <1>6, <1>7, <1>8, <1>9, <1>10, <1>11, <1>12 DEF Next

\* A marker holds a content and what the scan of it decided.
LEMMA MarkerType ==
  ASSUME TypeOK, [Next]_vars
  PROVE  MarkerOK'
<1>1. CASE runPrintsrcinfoBootstrap \/ acquireDeclaredSources
  BY <1>1 DEF runPrintsrcinfoBootstrap, acquireDeclaredSources, TypeOK, MarkerOK
<1>2. CASE \E profile \in Profiles : runMakepkgSandbox(profile)
  BY <1>2 DEF runMakepkgSandbox, TypeOK, MarkerOK
<1>3. CASE \E profile \in Profiles : Begin(profile)
  BY <1>3 DEF Begin, TypeOK, MarkerOK
<1>4. CASE Hook("pre", "verify") \/ Hook("post", "prepare") \/ PostDownloadRescan
  BY <1>4, ScanType DEF Hook, PostDownloadRescan, MarkPhases
<1>5. CASE handlePackageList \/ BuiltPackages
  BY <1>5 DEF handlePackageList, Review, BuiltPackages, TypeOK, MarkerOK
<1>6. CASE ScanArtifacts
  BY <1>6 DEF ScanArtifacts, Quarantine, TypeOK, MarkerOK
<1>7. CASE \E p \in Pkgs : Gate(p)
  BY <1>7 DEF Gate, GatePasses, GateFails, GateKeep, GateStrip, GateUnanswered,
     GateCancel, GateDone, Quarantine, TypeOK, MarkerOK
<1>8. CASE Bind \/ QuarantineEnds
  BY <1>8 DEF Bind, Quarantine, QuarantineEnds, TypeOK, MarkerOK
<1>9. CASE \E p \in Pkgs : Move(p)
  BY <1>9 DEF Move, MoveRename, MoveCopy, MoveCopied, TypeOK, MarkerOK
<1>10. CASE Choose \/ Install("install", "installed") \/ Install("reuse", "reused") \/ Kill
  BY <1>10 DEF Choose, Install, Kill, TypeOK, MarkerOK
<1>11. CASE NextTransaction
  BY <1>11 DEF NextTransaction, MarkerOK
<1>12. CASE UNCHANGED vars
  BY <1>12 DEF TypeOK, MarkerOK
<1>. QED
  BY <1>1, <1>2, <1>3, <1>4, <1>5, <1>6, <1>7, <1>8, <1>9, <1>10, <1>11, <1>12 DEF Next

\* The audit hashes archives it found to be regular files, so that a binding is
\* always the content of an archive.
LEMMA AuditType ==
  ASSUME TypeOK, ReviewIsOfTheDisk, [Next]_vars
  PROVE  AuditOK'
<1>1. CASE runPrintsrcinfoBootstrap \/ acquireDeclaredSources
  BY <1>1 DEF runPrintsrcinfoBootstrap, acquireDeclaredSources, TypeOK, AuditOK
<1>2. CASE \E profile \in Profiles : runMakepkgSandbox(profile)
  BY <1>2 DEF runMakepkgSandbox, TypeOK, AuditOK
<1>3. CASE \E profile \in Profiles : Begin(profile)
  BY <1>3 DEF Begin, TypeOK, AuditOK
<1>4. CASE Hook("pre", "verify") \/ Hook("post", "prepare") \/ PostDownloadRescan
  BY <1>4 DEF Hook, scanDirectory, Go, PostDownloadRescan, TypeOK, AuditOK
<1>5. CASE handlePackageList \/ BuiltPackages
  BY <1>5 DEF handlePackageList, Review, BuiltPackages, TypeOK, AuditOK, Nothing
<1>6. CASE ScanArtifacts
  BY <1>6 DEF ScanArtifacts, Quarantine, Auditing, Go, End, TypeOK, AuditOK, Regular,
     ReviewIsOfTheDisk
<1>7. CASE \E p \in Pkgs : Gate(p)
  BY <1>7 DEF Gate, GatePasses, GateFails, GateKeep, GateStrip, GateUnanswered,
     GateCancel, GateDone, Quarantine, TypeOK, AuditOK, DiskOK
<1>8. CASE Bind \/ QuarantineEnds
  BY <1>8 DEF Bind, Quarantine, QuarantineEnds, TypeOK, AuditOK
<1>9. CASE \E p \in Pkgs : Move(p)
  BY <1>9 DEF Move, MoveRename, MoveCopy, MoveCopied, Moved, TypeOK, AuditOK
<1>10. CASE Choose \/ Install("install", "installed") \/ Install("reuse", "reused") \/ Kill
  BY <1>10 DEF Choose, Install, Kill, TypeOK, AuditOK
<1>11. CASE NextTransaction
  BY <1>11 DEF NextTransaction, Review, TypeOK, AuditOK, Nothing
<1>12. CASE UNCHANGED vars
  BY <1>12 DEF TypeOK, AuditOK
<1>. QED
  BY <1>1, <1>2, <1>3, <1>4, <1>5, <1>6, <1>7, <1>8, <1>9, <1>10, <1>11, <1>12 DEF Next

\* What arrives in the quarantine is an archive, for a copy is only taken of one.
LEMMA KeepType ==
  ASSUME TypeOK, QuarantineIsOrderly, [Next]_vars
  PROVE  KeepOK'
<1>1. CASE runPrintsrcinfoBootstrap \/ acquireDeclaredSources
  BY <1>1 DEF runPrintsrcinfoBootstrap, acquireDeclaredSources, TypeOK, KeepOK
<1>2. CASE \E profile \in Profiles : runMakepkgSandbox(profile)
  BY <1>2 DEF runMakepkgSandbox, TypeOK, KeepOK
<1>3. CASE \E profile \in Profiles : Begin(profile)
  BY <1>3 DEF Begin, TypeOK, KeepOK
<1>4. CASE Hook("pre", "verify") \/ Hook("post", "prepare") \/ PostDownloadRescan
  BY <1>4 DEF Hook, scanDirectory, Go, End, PostDownloadRescan, TypeOK, KeepOK
<1>5. CASE handlePackageList \/ BuiltPackages
  BY <1>5 DEF handlePackageList, Review, BuiltPackages, TypeOK, KeepOK, Nothing
<1>6. CASE ScanArtifacts
  BY <1>6 DEF ScanArtifacts, Quarantine, TypeOK, KeepOK, DiskOK
<1>7. CASE \E p \in Pkgs : Gate(p)
  BY <1>7 DEF Gate, GatePasses, GateFails, GateKeep, GateStrip, GateUnanswered,
     GateCancel, GateDone, Quarantine, TypeOK, KeepOK, DiskOK
<1>8. CASE Bind \/ QuarantineEnds
  BY <1>8 DEF Bind, Quarantine, QuarantineEnds, TypeOK, KeepOK, DiskOK
<1>9. CASE \E p \in Pkgs : Move(p)
  <2>. SUFFICES ASSUME NEW p \in Pkgs, Move(p) PROVE KeepOK'
    BY <1>9
  <2>1. CASE MoveRename(p)
    BY <2>1 DEF MoveRename, Moved, TypeOK, KeepOK, DiskOK, Regular
  <2>2. CASE MoveCopy(p)
    BY <2>2 DEF MoveCopy, Moved, TypeOK, KeepOK
  <2>3. CASE MoveCopied(p)
    BY <2>3 DEF MoveCopied, Moved, Auditing, Go, TypeOK, KeepOK, DiskOK, Regular,
       QuarantineIsOrderly
  <2>. QED
    BY <2>1, <2>2, <2>3 DEF Move
<1>10. CASE Choose \/ Install("install", "installed") \/ Install("reuse", "reused") \/ Kill
  BY <1>10 DEF Choose, Install, Kill, TypeOK, KeepOK, DiskOK, Paths
<1>11. CASE NextTransaction
  BY <1>11 DEF NextTransaction, Review, TypeOK, KeepOK, DiskOK, Nothing, Paths
<1>12. CASE UNCHANGED vars
  BY <1>12 DEF TypeOK, KeepOK
<1>. QED
  BY <1>1, <1>2, <1>3, <1>4, <1>5, <1>6, <1>7, <1>8, <1>9, <1>10, <1>11, <1>12 DEF Next

\* Scans and answers are about archives under review.
LEMMA GhostType ==
  ASSUME TypeOK, ReviewIsOfTheDisk, [Next]_vars
  PROVE  GhostOK'
<1>1. CASE runPrintsrcinfoBootstrap \/ acquireDeclaredSources
  BY <1>1 DEF runPrintsrcinfoBootstrap, Contained, acquireDeclaredSources, TypeOK,
     GhostOK, DiskOK, Contents
<1>2. CASE \E profile \in Profiles : runMakepkgSandbox(profile)
  BY <1>2 DEF runMakepkgSandbox, Contained, TypeOK, GhostOK, DiskOK, Contents
<1>3. CASE \E profile \in Profiles : Begin(profile)
  BY <1>3 DEF Begin, TypeOK, GhostOK
<1>4. CASE Hook("pre", "verify") \/ Hook("post", "prepare") \/ PostDownloadRescan
  BY <1>4, ContentType DEF Hook, PostDownloadRescan, scanDirectory, TypeOK, GhostOK
<1>5. CASE handlePackageList \/ BuiltPackages
  BY <1>5 DEF handlePackageList, BuiltPackages, TypeOK, GhostOK
<1>6. CASE ScanArtifacts
  BY <1>6 DEF ScanArtifacts, Auditing, TypeOK, AuditOK, GhostOK, ReviewIsOfTheDisk,
     Regular
<1>7. CASE \E p \in Pkgs : Gate(p)
  BY <1>7 DEF Gate, GatePasses, GateFails, GateKeep, GateStrip, GateUnanswered,
     GateCancel, GateDone, Quarantine, TypeOK, GhostOK, DiskOK
<1>8. CASE Bind \/ QuarantineEnds
  BY <1>8 DEF Bind, Quarantine, QuarantineEnds, TypeOK, GhostOK
<1>9. CASE \E p \in Pkgs : Move(p)
  BY <1>9 DEF Move, MoveRename, MoveCopy, MoveCopied, Moved, TypeOK, GhostOK
<1>10. CASE Choose \/ Install("install", "installed") \/ Install("reuse", "reused") \/ Kill
  BY <1>10 DEF Choose, Install, Kill, TypeOK, GhostOK
<1>11. CASE NextTransaction
  BY <1>11 DEF NextTransaction, Review, TypeOK, GhostOK, DiskOK, Contents
<1>12. CASE UNCHANGED vars
  BY <1>12 DEF TypeOK, GhostOK
<1>. QED
  BY <1>1, <1>2, <1>3, <1>4, <1>5, <1>6, <1>7, <1>8, <1>9, <1>10, <1>11, <1>12 DEF Next

-----------------------------------------------------------------------------
(* What a step preserves.                                                  *)

\* Every way to end a transaction names its reason, and nothing else does.
LEMMA EndedStep ==
  ASSUME EndedForAReason, [Next]_vars
  PROVE  EndedForAReason'
<1>1. CASE runPrintsrcinfoBootstrap \/ acquireDeclaredSources
  BY <1>1 DEF runPrintsrcinfoBootstrap, At, Go, End, acquireDeclaredSources,
     EndedForAReason
<1>2. CASE \E profile \in Profiles : runMakepkgSandbox(profile)
  BY <1>2 DEF runMakepkgSandbox, After, At, Go, End, EndedForAReason
<1>3. CASE \E profile \in Profiles : Begin(profile)
  BY <1>3 DEF Begin, At, Go, End, EndedForAReason
<1>4. CASE Hook("pre", "verify") \/ Hook("post", "prepare") \/ PostDownloadRescan
  BY <1>4 DEF Hook, At, Go, End, PostDownloadRescan, EndedForAReason
<1>5. CASE handlePackageList \/ BuiltPackages
  BY <1>5 DEF handlePackageList, At, Go, End, BuiltPackages, EndedForAReason
<1>6. CASE ScanArtifacts
  BY <1>6 DEF ScanArtifacts, Quarantine, Go, End, EndedForAReason
<1>7. CASE \E p \in Pkgs : Gate(p)
  BY <1>7 DEF Gate, GatePasses, GateFails, GateKeep, GateStrip, GateUnanswered,
     GateCancel, GateDone, Quarantine, Go, End, EndedForAReason
<1>8. CASE Bind \/ QuarantineEnds
  BY <1>8 DEF Bind, Quarantine, Auditing, Go, QuarantineEnds, End, EndedForAReason
<1>9. CASE \E p \in Pkgs : Move(p)
  BY <1>9 DEF Move, MoveRename, MoveCopy, MoveCopied, Moved, Go, EndedForAReason
<1>10. CASE Choose \/ Install("install", "installed") \/ Install("reuse", "reused") \/ Kill
  BY <1>10 DEF Choose, At, Go, Install, End, Kill, EndedForAReason
<1>11. CASE NextTransaction
  BY <1>11 DEF NextTransaction, EndedForAReason
<1>12. CASE UNCHANGED vars
  BY <1>12 DEF EndedForAReason
<1>. QED
  BY <1>1, <1>2, <1>3, <1>4, <1>5, <1>6, <1>7, <1>8, <1>9, <1>10, <1>11, <1>12 DEF Next

\* Begin believes a post marker only for the content of the disk, and such a marker
\* is of the last scan; a contained command leaves the step that runs it.
LEMMA ScanStep ==
  ASSUME TypeOK, MarkersAreOfTheLastScan, PackageCodeWasScanned, [Next]_vars
  PROVE  MarkersAreOfTheLastScan' /\ PackageCodeWasScanned'
<1>1. CASE runPrintsrcinfoBootstrap \/ acquireDeclaredSources
  BY <1>1 DEF runPrintsrcinfoBootstrap, At, Go, End, Contained, acquireDeclaredSources,
     MarkersAreOfTheLastScan, PackageCodeWasScanned, Content
<1>2. CASE \E profile \in Profiles : runMakepkgSandbox(profile)
  BY <1>2 DEF runMakepkgSandbox, After, At, Go, End, Profiles, Contained,
     MarkersAreOfTheLastScan, PackageCodeWasScanned, Content
<1>3. CASE \E profile \in Profiles : Begin(profile)
  BY <1>3 DEF Begin, At, Go, End, Profiles, MarkersAreOfTheLastScan,
     PackageCodeWasScanned, Content, VerifyMarker, MarkerPhase
<1>4. CASE Hook("pre", "verify") \/ Hook("post", "prepare") \/ PostDownloadRescan
  BY <1>4 DEF Hook, scanDirectory, At, Go, End, PostDownloadRescan,
     MarkersAreOfTheLastScan, PackageCodeWasScanned, Content, TypeOK, MarkerOK,
     MarkPhases
<1>5. CASE handlePackageList \/ BuiltPackages
  BY <1>5 DEF handlePackageList, Review, At, Go, End, BuiltPackages,
     MarkersAreOfTheLastScan, PackageCodeWasScanned
<1>6. CASE ScanArtifacts
  BY <1>6 DEF ScanArtifacts, Quarantine, Auditing, Go, End, MarkersAreOfTheLastScan,
     PackageCodeWasScanned
<1>7. CASE \E p \in Pkgs : Gate(p)
  BY <1>7 DEF Gate, GatePasses, GateFails, GateKeep, GateStrip, GateUnanswered,
     GateCancel, GateDone, Quarantine, Auditing, Go, End, MarkersAreOfTheLastScan,
     PackageCodeWasScanned
<1>8. CASE Bind \/ QuarantineEnds
  BY <1>8 DEF Bind, Quarantine, Auditing, Go, QuarantineEnds, End,
     MarkersAreOfTheLastScan, PackageCodeWasScanned
<1>9. CASE \E p \in Pkgs : Move(p)
  BY <1>9 DEF Move, MoveRename, MoveCopy, MoveCopied, Moved, Auditing, Go,
     MarkersAreOfTheLastScan, PackageCodeWasScanned
<1>10. CASE Choose \/ Install("install", "installed") \/ Install("reuse", "reused") \/ Kill
  BY <1>10 DEF Choose, At, Go, Install, End, Kill, MarkersAreOfTheLastScan,
     PackageCodeWasScanned
<1>11. CASE NextTransaction
  BY <1>11 DEF NextTransaction, Review, MarkersAreOfTheLastScan, PackageCodeWasScanned,
     MarkPhases
<1>12. CASE UNCHANGED vars
  BY <1>12 DEF MarkersAreOfTheLastScan, PackageCodeWasScanned, Content
<1>. QED
  BY <1>1, <1>2, <1>3, <1>4, <1>5, <1>6, <1>7, <1>8, <1>9, <1>10, <1>11, <1>12 DEF Next

\* No package code runs between the review of an archive and the bindings, and no
\* archive leaves the gate's list without what it was on the list for.
LEMMA ReviewStep ==
  ASSUME TypeOK, ReviewIsOfTheDisk, [Next]_vars
  PROVE  ReviewIsOfTheDisk'
<1>1. CASE runPrintsrcinfoBootstrap \/ acquireDeclaredSources
  BY <1>1 DEF runPrintsrcinfoBootstrap, At, Go, End, acquireDeclaredSources,
     ReviewIsOfTheDisk, Auditing
<1>2. CASE \E profile \in Profiles : runMakepkgSandbox(profile)
  BY <1>2 DEF runMakepkgSandbox, After, At, Go, End, ReviewIsOfTheDisk, Auditing
<1>3. CASE \E profile \in Profiles : Begin(profile)
  BY <1>3 DEF Begin, At, Go, End, Profiles, ReviewIsOfTheDisk, Decided, Auditing
<1>4. CASE Hook("pre", "verify") \/ Hook("post", "prepare") \/ PostDownloadRescan
  BY <1>4 DEF Hook, At, Go, End, PostDownloadRescan, ReviewIsOfTheDisk, Auditing
<1>5. CASE handlePackageList \/ BuiltPackages
  BY <1>5 DEF handlePackageList, Review, At, Go, End, BuiltPackages, ReviewIsOfTheDisk,
     Allowed, Decided, Auditing, Regular
<1>6. CASE ScanArtifacts
  BY <1>6 DEF ScanArtifacts, Quarantine, Auditing, Go, End, ReviewIsOfTheDisk, Allowed,
     Regular, TypeOK, AuditOK
<1>7. CASE \E p \in Pkgs : Gate(p)
  <2>. SUFFICES ASSUME NEW p \in Pkgs, Gate(p) PROVE ReviewIsOfTheDisk'
    BY <1>7
  <2>1. CASE GatePasses(p)
    BY <2>1 DEF GatePasses, GateDone, Auditing, Go, ReviewIsOfTheDisk, Allowed, Decided,
       Regular
  <2>2. CASE GateFails(p)
    BY <2>2 DEF GateFails, Quarantine, Auditing, Go, End, ReviewIsOfTheDisk
  <2>3. CASE GateKeep(p)
    BY <2>3 DEF GateKeep, GateDone, Auditing, Go, ReviewIsOfTheDisk, Allowed, Decided,
       Regular
  <2>4. CASE GateStrip(p)
    BY <2>4 DEF GateStrip, GateDone, Quarantine, Auditing, Go, End, ReviewIsOfTheDisk,
       Allowed, Decided, Regular, TypeOK, DiskOK, AuditOK
  <2>5. CASE GateUnanswered(p)
    BY <2>5 DEF GateUnanswered, Quarantine, Auditing, Go, End, ReviewIsOfTheDisk
  <2>6. CASE GateCancel(p)
    BY <2>6 DEF GateCancel, Quarantine, Auditing, Go, End, ReviewIsOfTheDisk
  <2>. QED
    BY <2>1, <2>2, <2>3, <2>4, <2>5, <2>6 DEF Gate
<1>8. CASE Bind \/ QuarantineEnds
  BY <1>8 DEF Bind, Quarantine, Auditing, Go, QuarantineEnds, End, ReviewIsOfTheDisk,
     Allowed, Decided, Regular
<1>9. CASE \E p \in Pkgs : Move(p)
  BY <1>9 DEF Move, MoveRename, MoveCopy, MoveCopied, Moved, Auditing, Go,
     ReviewIsOfTheDisk
<1>10. CASE Choose \/ Install("install", "installed") \/ Install("reuse", "reused") \/ Kill
  BY <1>10 DEF Choose, At, Go, Install, End, Kill, ReviewIsOfTheDisk, Auditing
<1>11. CASE NextTransaction
  BY <1>11 DEF NextTransaction, ReviewIsOfTheDisk, Auditing
<1>12. CASE UNCHANGED vars
  BY <1>12 DEF ReviewIsOfTheDisk, Allowed, Decided, Auditing, Regular
<1>. QED
  BY <1>1, <1>2, <1>3, <1>4, <1>5, <1>6, <1>7, <1>8, <1>9, <1>10, <1>11, <1>12 DEF Next

\* A move touches one archive that is still in place, and leaves it whole at one of
\* its two ends.
LEMMA QuarantineStep ==
  ASSUME TypeOK, EndedForAReason, QuarantineIsOrderly, QuarantineKeepsEvidence, [Next]_vars
  PROVE  QuarantineIsOrderly' /\ QuarantineKeepsEvidence'
<1>1. CASE runPrintsrcinfoBootstrap \/ acquireDeclaredSources
  BY <1>1 DEF runPrintsrcinfoBootstrap, At, Go, End, Contained, acquireDeclaredSources,
     QuarantineIsOrderly, QuarantineKeepsEvidence, Quarantining
<1>2. CASE \E profile \in Profiles : runMakepkgSandbox(profile)
  BY <1>2 DEF runMakepkgSandbox, After, At, Go, End, Profiles, Contained,
     QuarantineIsOrderly, QuarantineKeepsEvidence, Quarantining, Regular
<1>3. CASE \E profile \in Profiles : Begin(profile)
  BY <1>3 DEF Begin, At, Go, End, Profiles, QuarantineIsOrderly,
     QuarantineKeepsEvidence, Quarantining, Regular
<1>4. CASE Hook("pre", "verify") \/ Hook("post", "prepare") \/ PostDownloadRescan
  BY <1>4 DEF Hook, scanDirectory, At, Go, End, PostDownloadRescan, QuarantineIsOrderly,
     QuarantineKeepsEvidence, Quarantining
<1>5. CASE handlePackageList \/ BuiltPackages
  BY <1>5 DEF handlePackageList, Review, At, Go, End, BuiltPackages,
     QuarantineIsOrderly, QuarantineKeepsEvidence, Quarantining, Auditing, Regular,
     Nothing
<1>6. CASE ScanArtifacts
  BY <1>6 DEF ScanArtifacts, Quarantine, Auditing, Go, End, QuarantineIsOrderly,
     QuarantineKeepsEvidence, Quarantining, Regular, TypeOK, AuditOK
<1>7. CASE \E p \in Pkgs : Gate(p)
  BY <1>7 DEF Gate, GatePasses, GateFails, GateKeep, GateStrip, GateUnanswered,
     GateCancel, GateDone, Quarantine, Auditing, Go, End, QuarantineIsOrderly,
     QuarantineKeepsEvidence, Quarantining, Regular, TypeOK, AuditOK
<1>8. CASE Bind \/ QuarantineEnds
  BY <1>8 DEF Bind, Quarantine, Auditing, Go, QuarantineEnds, End, QuarantineIsOrderly,
     QuarantineKeepsEvidence, Quarantining, Regular, EndedForAReason, TypeOK, AuditOK
<1>9. CASE \E p \in Pkgs : Move(p)
  <2>. SUFFICES ASSUME NEW p \in Pkgs, Move(p) PROVE QuarantineIsOrderly' /\ QuarantineKeepsEvidence'
    BY <1>9
  <2>1. CASE MoveRename(p)
    BY <2>1 DEF MoveRename, Moved, Auditing, Go, QuarantineIsOrderly,
       QuarantineKeepsEvidence, Quarantining, Regular, TypeOK, DiskOK, AuditOK, KeepOK
  <2>2. CASE MoveCopy(p)
    BY <2>2 DEF MoveCopy, Moved, Auditing, Go, QuarantineIsOrderly,
       QuarantineKeepsEvidence, Quarantining, Regular, EndedForAReason
  <2>3. CASE MoveCopied(p)
    BY <2>3 DEF MoveCopied, Moved, Auditing, Go, QuarantineIsOrderly,
       QuarantineKeepsEvidence, Quarantining, Regular, TypeOK, DiskOK, AuditOK, KeepOK
  <2>. QED
    BY <2>1, <2>2, <2>3 DEF Move
<1>10. CASE Choose \/ Install("install", "installed") \/ Install("reuse", "reused") \/ Kill
  BY <1>10 DEF Choose, At, Go, Install, End, Kill, QuarantineIsOrderly,
     QuarantineKeepsEvidence, Quarantining
<1>11. CASE NextTransaction
  BY <1>11 DEF NextTransaction, Review, QuarantineIsOrderly, QuarantineKeepsEvidence,
     Quarantining, Nothing
<1>12. CASE UNCHANGED vars
  BY <1>12 DEF QuarantineIsOrderly, QuarantineKeepsEvidence, Quarantining, Regular
<1>. QED
  BY <1>1, <1>2, <1>3, <1>4, <1>5, <1>6, <1>7, <1>8, <1>9, <1>10, <1>11, <1>12 DEF Next

\* The install that follows a build finds on disk what the build bound.
LEMMA HandoffStep ==
  ASSUME TypeOK, EndedForAReason, ReviewIsOfTheDisk, HandoffIsReviewed, [Next]_vars
  PROVE  HandoffIsReviewed'
<1>1. CASE runPrintsrcinfoBootstrap \/ acquireDeclaredSources
  BY <1>1 DEF runPrintsrcinfoBootstrap, At, Go, End, acquireDeclaredSources,
     HandoffIsReviewed, EndedForAReason
<1>2. CASE \E profile \in Profiles : runMakepkgSandbox(profile)
  BY <1>2 DEF runMakepkgSandbox, After, At, Go, End, Profiles, HandoffIsReviewed,
     EndedForAReason
<1>3. CASE \E profile \in Profiles : Begin(profile)
  BY <1>3 DEF Begin, At, Go, End, Profiles, HandoffIsReviewed, EndedForAReason
<1>4. CASE Hook("pre", "verify") \/ Hook("post", "prepare") \/ PostDownloadRescan
  BY <1>4 DEF Hook, At, Go, End, PostDownloadRescan, HandoffIsReviewed, EndedForAReason
<1>5. CASE handlePackageList \/ BuiltPackages
  BY <1>5 DEF handlePackageList, At, Go, End, BuiltPackages, HandoffIsReviewed,
     EndedForAReason
<1>6. CASE ScanArtifacts
  BY <1>6 DEF ScanArtifacts, Quarantine, Auditing, Go, End, HandoffIsReviewed,
     EndedForAReason
<1>7. CASE \E p \in Pkgs : Gate(p)
  BY <1>7 DEF Gate, GatePasses, GateFails, GateKeep, GateStrip, GateUnanswered,
     GateCancel, GateDone, Quarantine, Auditing, Go, End, HandoffIsReviewed,
     EndedForAReason
<1>8. CASE Bind \/ QuarantineEnds
  BY <1>8 DEF Bind, Quarantine, Auditing, Go, QuarantineEnds, End, HandoffIsReviewed,
     EndedForAReason
<1>9. CASE \E p \in Pkgs : Move(p)
  BY <1>9 DEF Move, MoveRename, MoveCopy, MoveCopied, Moved, Auditing, Go,
     HandoffIsReviewed, EndedForAReason
<1>10. CASE Choose \/ Install("install", "installed") \/ Install("reuse", "reused") \/ Kill
  <2>1. CASE Install("install", "installed")
    BY <2>1 DEF Install, At, End, HandoffIsReviewed, ReviewIsOfTheDisk, Allowed,
       Decided, Regular
  <2>2. CASE Choose \/ Install("reuse", "reused") \/ Kill
    BY <2>2 DEF Choose, Install, Kill, At, Go, End, HandoffIsReviewed, EndedForAReason
  <2>. QED
    BY <1>10, <2>1, <2>2
<1>11. CASE NextTransaction
  BY <1>11 DEF NextTransaction, HandoffIsReviewed
<1>12. CASE UNCHANGED vars
  BY <1>12 DEF HandoffIsReviewed, ReviewIsOfTheDisk, Allowed, Decided
<1>. QED
  BY <1>1, <1>2, <1>3, <1>4, <1>5, <1>6, <1>7, <1>8, <1>9, <1>10, <1>11, <1>12 DEF Next

-----------------------------------------------------------------------------
(* The theorems.                                                           *)

\* A transaction begins with nothing scanned, planned, bound or quarantined.
LEMMA Initially == Init => IInv
<1>. SUFFICES ASSUME Init PROVE IInv
  OBVIOUS
<1>. USE DEF Init
<1>1. DiskOK
  BY DEF DiskOK, Paths
<1>2. TypeOK
  BY <1>1, ContentType DEF TypeOK, YayOK, MarkerOK, AuditOK, KeepOK, GhostOK, Phases,
     Steps, Exits, Paths, Nothing
<1>3. EndedForAReason /\ MarkersAreOfTheLastScan /\ ReviewIsOfTheDisk
  BY DEF EndedForAReason, MarkersAreOfTheLastScan, MarkPhases, ReviewIsOfTheDisk,
     Auditing
<1>4. QuarantineIsOrderly /\ QuarantineKeepsEvidence
  BY DEF QuarantineIsOrderly, QuarantineKeepsEvidence, Quarantining, Nothing
<1>5. HandoffIsReviewed /\ PackageCodeWasScanned
  BY DEF HandoffIsReviewed, PackageCodeWasScanned
<1>. QED
  BY <1>2, <1>3, <1>4, <1>5 DEF IInv

\* Every step of yay, the wrapper and package code preserves the invariant.
LEMMA Inductively == IInv /\ [Next]_vars => IInv'
<1>. SUFFICES ASSUME IInv, [Next]_vars PROVE IInv'
  OBVIOUS
<1>. USE DEF IInv
<1>1. TypeOK'
  BY DiskType, YayType, MarkerType, AuditType, KeepType, GhostType DEF TypeOK
<1>. QED
  BY <1>1, EndedStep, ScanStep, ReviewStep, QuarantineStep, HandoffStep

\* The inductive invariant of RunMakepkg, its hooks, the gate and the quarantine.
THEOREM Inductive == Spec => []IInv
BY Initially, Inductively, PTL DEF Spec

\* Disk, markers, plan, bindings and quarantine have their types; in particular a
\* binding is always the content of an archive (auditAndBind).
THEOREM TypeCorrect == Spec => []TypeOK
<1>1. IInv => TypeOK
  BY DEF IInv
<1>. QED
  BY <1>1, Inductive, PTL

\* What a build hands to pacman is bound, was allowed by a scan of this transaction
\* and answered for at its gate (auditAndBind, then yay's install).
THEOREM Handoff == Spec => []HandoffIsReviewed
<1>1. IInv => HandoffIsReviewed
  BY DEF IInv
<1>. QED
  BY <1>1, Inductive, PTL

\* From prepare on, package code runs on content the last scan allowed (VerifyMarker
\* at the start of RunMakepkg, and the rescan after prepare).
THEOREM ScannedBeforeRun == Spec => []PackageCodeWasScanned
<1>1. IInv => PackageCodeWasScanned
  BY DEF IInv
<1>. QED
  BY <1>1, Inductive, PTL

\* Whatever fails while archives are quarantined, none is lost (moveVerified).
THEOREM EvidenceKept == Spec => []QuarantineKeepsEvidence
<1>1. IInv => QuarantineKeepsEvidence
  BY DEF IInv
<1>. QED
  BY <1>1, Inductive, PTL

-----------------------------------------------------------------------------
(* The refinement of InstallGate.                                          *)

\* A step that InstallGate does not see: nothing reviewed, sent on or given.
Silent == UNCHANGED <<allowed, answered, installed, exit>>

\* A step that gives the transaction up.
GivesUp ==
  /\ exit = "none" /\ exit' \notin {"none", "installed", "reused"}
  /\ UNCHANGED <<allowed, answered, installed>>

\* What InstallGate makes of the two.
LEMMA QuietSteps ==
  ASSUME Silent \/ GivesUp
  PROVE  [Promise!Next]_(Promise!gate)
BY DEF Silent, GivesUp, Promise!Next, Promise!gate, Promise!Stop, Outcome

\* Hooks, contained commands, the package list, bindings and the quarantine are not
\* seen by InstallGate except when they end the transaction.
LEMMA QuietActions ==
  ASSUME EndedForAReason, [Next]_vars,
         ~ ScanArtifacts, ~ (\E p \in Pkgs : Gate(p)), ~ NextTransaction,
         ~ Install("install", "installed"), ~ Install("reuse", "reused")
  PROVE  Silent \/ GivesUp
<1>. USE DEF Silent, GivesUp, EndedForAReason
<1>1. CASE runPrintsrcinfoBootstrap \/ acquireDeclaredSources
  BY <1>1 DEF runPrintsrcinfoBootstrap, acquireDeclaredSources, Contained, At, Go, End
<1>2. CASE \E profile \in Profiles : Begin(profile) \/ runMakepkgSandbox(profile)
  BY <1>2 DEF Begin, runMakepkgSandbox, Contained, After, At, Go, End, Profiles
<1>3. CASE Hook("pre", "verify") \/ Hook("post", "prepare") \/ PostDownloadRescan
  BY <1>3 DEF Hook, PostDownloadRescan, scanDirectory, At, Go, End
<1>4. CASE handlePackageList \/ BuiltPackages
  BY <1>4 DEF handlePackageList, BuiltPackages, At, Go, End
<1>5. CASE Bind \/ QuarantineEnds
  BY <1>5 DEF Bind, QuarantineEnds, Quarantine, Auditing, Go, End
<1>6. CASE \E p \in Pkgs : Move(p)
  BY <1>6 DEF Move, MoveRename, MoveCopy, MoveCopied, Moved, Go
<1>7. CASE Choose \/ Kill
  BY <1>7 DEF Choose, Kill, At, Go, End
<1>8. CASE UNCHANGED vars
  BY <1>8
<1>. QED
  BY <1>1, <1>2, <1>3, <1>4, <1>5, <1>6, <1>7, <1>8 DEF Next

\* A scan that passes reviews the archives it hashed (ScanArtifacts, auditAndBind).
LEMMA ScanReviews ==
  ASSUME IInv, ScanArtifacts
  PROVE  [Promise!Next]_(Promise!gate)
<1>1. CASE Silent \/ GivesUp
  BY <1>1, QuietSteps
<1>2. CASE /\ allowed' = allowed \cup {<<p, arch[p]>> : p \in packages}
           /\ Go(phase, "gate")
  <2>1. {<<p, arch[p]>> : p \in packages} \in SUBSET (Pkgs \X Bytes)
    BY DEF IInv, ScanArtifacts, ReviewIsOfTheDisk, Regular, TypeOK, AuditOK
  <2>2. exit = "none" /\ UNCHANGED <<exit, answered, installed>>
    BY <1>2 DEF IInv, EndedForAReason, ScanArtifacts, Auditing, Go
  <2>. QED
    BY <1>2, <2>1, <2>2 DEF Promise!Next, Promise!Review, Outcome
<1>. QED
  BY <1>1, <1>2 DEF IInv, EndedForAReason, ScanArtifacts, Quarantine, Auditing, Go, End,
     Silent, GivesUp

\* The gate puts nothing to the user that no scan allowed, and strips only that
\* (auditAndBind, FilterArchive).
LEMMA GateConsents ==
  ASSUME IInv, NEW p \in Pkgs, Gate(p)
  PROVE  [Promise!Next]_(Promise!gate)
<1>. DEFINE Sends(b) == /\ answered' = answered \cup {<<p, b>>}
                        /\ UNCHANGED <<allowed, installed, exit>>
<1>1. exit = "none"
  BY DEF IInv, EndedForAReason, Gate, GatePasses, GateFails, GateKeep, GateStrip,
     GateUnanswered, GateCancel, Auditing
<1>2. CASE GatePasses(p) \/ GateFails(p) \/ GateUnanswered(p) \/ GateCancel(p)
  <2>1. Silent \/ GivesUp
    BY <1>1, <1>2 DEF GatePasses, GateFails, GateUnanswered, GateCancel, GateDone,
       Quarantine, Go, End, Silent, GivesUp
  <2>. QED
    BY <2>1, QuietSteps
<1>3. ASSUME NEW b \in Bytes, Promise!Reviewed(p, b), Sends(b)
      PROVE  Promise!Next
  BY <1>1, <1>3 DEF Promise!Next, Promise!Consent, Outcome
<1>4. CASE GateKeep(p)
  <2>1. arch[p] \in Bytes /\ <<p, arch[p]>> \in allowed /\ Sends(arch[p])
    BY <1>4 DEF IInv, ReviewIsOfTheDisk, GateKeep, GateDone, Go
  <2>. QED
    BY <1>3, <2>1 DEF Promise!Reviewed
<1>5. CASE GateStrip(p)
  <2>1. /\ arch[p] \in Bytes /\ arch[p] \in Surfaced /\ <<p, arch[p]>> \in allowed
        /\ Stripped[arch[p]] \in Bytes
    BY <1>5 DEF IInv, ReviewIsOfTheDisk, GateStrip
  <2>2. Sends(Stripped[arch[p]])
    BY <1>5 DEF IInv, TypeOK, DiskOK, GateStrip, GateDone, Quarantine, Go
  <2>. QED
    BY <1>3, <2>1, <2>2 DEF Promise!Reviewed
<1>. QED
  BY <1>2, <1>4, <1>5 DEF Gate

\* pacman is given bound archives after a build, or what lies there without one.
LEMMA InstallGives ==
  ASSUME IInv,
         Install("install", "installed") \/ Install("reuse", "reused")
  PROVE  Promise!Next
<1>1. exit = "none"
  BY DEF IInv, EndedForAReason, Install, At
<1>2. installed' \in [Pkgs -> Promise!Paths]
  BY DEF IInv, TypeOK, DiskOK, Install, Paths, Promise!Paths
<1>3. CASE Install("reuse", "reused")
  BY <1>1, <1>2, <1>3 DEF Install, End, Outcome, Promise!Next, Promise!Reuse
<1>4. CASE Install("install", "installed")
  <2>1. ASSUME NEW p \in Pkgs, installed'[p] \in Bytes
        PROVE  Promise!Acceptable(p, installed'[p])
    <3>1. p \in plan /\ Regular(p) /\ installed'[p] = arch[p]
      BY <1>4, <2>1 DEF Install, Regular
    <3>2. Allowed(p, arch[p]) /\ Decided(p, arch[p])
      BY <1>4, <3>1 DEF IInv, ReviewIsOfTheDisk, Install, At
    <3>. QED
      BY <3>1, <3>2 DEF Allowed, Decided, Promise!Acceptable, Promise!Reviewed
  <2>. QED
    BY <1>1, <1>2, <1>4, <2>1 DEF Install, End, Outcome, Promise!Next, Promise!Install
<1>. QED
  BY <1>3, <1>4

\* Transactions follow one another with nothing carried over, for reports and
\* markers are keyed by its ProcessIdentity: the next one opens with nothing reviewed.
LEMMA BeginsAnew ==
  ASSUME IInv, NextTransaction
  PROVE  Promise!Next
BY DEF IInv, EndedForAReason, NextTransaction, Outcome, Nothing, Promise!Next,
   Promise!Begin, Promise!Nothing

\* All of it, hooks, package code, audit, gate, quarantine and kills, implements the
\* promise of InstallGate.
THEOREM Refines == Spec => ImplementsInstallGate
<1>1. Init => Promise!Init
  BY DEF Init, Promise!Init, Outcome, Nothing, Promise!Nothing
<1>2. IInv /\ [Next]_vars => [Promise!Next]_(Promise!gate)
  <2>. SUFFICES ASSUME IInv, [Next]_vars PROVE [Promise!Next]_(Promise!gate)
    OBVIOUS
  <2>. QED
    BY ScanReviews, GateConsents, InstallGives, BeginsAnew, QuietActions, QuietSteps
       DEF IInv
<1>. QED
  BY <1>1, <1>2, Inductive, PTL DEF Spec, ImplementsInstallGate, Promise!Spec
=============================================================================
