----------------------------- MODULE Transaction -----------------------------
(***************************************************************************)
(* One checkout and the yay transactions that build it, one after another: *)
(* the hooks of share/prolewatch.lua, the makepkg wrapper's invocations    *)
(* (RunMakepkg in internal/audit/build.go), decision markers (policy.go),  *)
(* the package plan, and the review, privileged-integration gate, binding  *)
(* and quarantine of package archives (handlePackageList, auditAndBind,    *)
(* quarantinePackages).                                                    *)
(*                                                                         *)
(* Every contained command sources the PKGBUILD with the checkout          *)
(* writable, so package code may leave any content behind.  The contents   *)
(* persist from one transaction to the next, and so do the archives: the   *)
(* checkout is yay's cache.  Markers, plan, bindings and source store are  *)
(* keyed by the transaction.  A Version stands for all bytes of a tree     *)
(* that are not package archives; what a scan decides is left open here,   *)
(* and how a user's answer reaches it is the module AuditStore.            *)
(***************************************************************************)
EXTENDS Integers, FiniteSets

CONSTANTS
  Pkgs,       \* paths of package archives makepkg may plan
  Bytes,      \* contents of a package archive
  Surfaced,   \* those with a surface that requires a decision at the gate
  Stripped,   \* what FilterArchive makes of each of these
  Others,     \* what a path may hold that is no regular file, such as a link
  Versions,   \* contents of the rest of the checkout, and of the source store
  MaxTxs      \* bound on the transactions of a behaviour

ASSUME TransactionAssumption ==
  /\ Surfaced \subseteq Bytes
  /\ Stripped \in [Surfaced -> Bytes]
  /\ Bytes \cap Others = {}
  /\ {"absent", "partial"} \cap (Bytes \cup Others) = {}
  /\ "absent" \notin Versions
  /\ MaxTxs \in Nat \ {0}

VARIABLES
  tree,        \* the checkout, without the archives of Pkgs
  src,         \* the transaction's source store
  arch,        \* what each path of Pkgs holds
  txs,         \* transactions begun
  phase,       \* where yay is
  step,        \* where the wrapper process of that phase is
  marker,      \* the decision marker of each phase: a set of at most one
  plan,        \* the saved package plan
  packages,    \* the archives under review
  todo,        \* archives the gate has still to look at
  verified,    \* the hash of each archive the gate is done with
  bindings,    \* ArtifactBindings of the post report
  quarantine,  \* the quarantine directory of the artifact report
  exit,        \* why the transaction ended
  installed,   \* what pacman was given at each path
  left,        \* the content as the last contained command left it
  scanned,     \* the content the last scan allowed, in a set
  allowed,     \* archives an artifact scan of this transaction allowed
  answered,    \* archives the user sent on at the gate in this transaction
  evidence     \* the archives when their quarantine began

diskVars == <<tree, src, arch>>
yayVars == <<txs, phase, step, exit>>
auditVars == <<packages, todo, verified>>
keepVars == <<quarantine, evidence>>
ghostVars == <<left, scanned, allowed, answered>>
vars == <<diskVars, yayVars, marker, plan, auditVars, bindings, keepVars,
          installed, ghostVars>>

Profiles == {"verify", "prepare", "packagelist", "build", "skip"}
Phases == {"printsrcinfo", "pre", "post", "chosen", "install", "reuse", "ended"} \cup Profiles
Steps == {"begin", "freeze", "run", "rescan", "list", "artifacts", "gate",
          "quarantine", "copied"}
Exits == {"none", "installed", "reused", "blocked", "failed", "changed", "artifact",
          "unanswered", "cancelled", "killed"}

MarkPhases == {"pre", "post"}

Regular(p) == arch[p] \in Bytes
Paths == Bytes \cup Others \cup {"absent"}
Nothing == [p \in Pkgs |-> "absent"]

\* What a marker of a phase is bound to: a post marker covers the source store
\* as well, and both cover the archives beside the PKGBUILD.
Content(ph) == [tree |-> tree, arch |-> arch,
                src |-> IF ph = "post" THEN src ELSE "absent"]

Contents == [tree : Versions, arch : [Pkgs -> Paths], src : Versions \cup {"absent"}]

DiskOK == tree \in Versions /\ src \in Versions \cup {"absent"} /\ arch \in [Pkgs -> Paths]

YayOK == txs \in 1 .. MaxTxs /\ phase \in Phases /\ step \in Steps /\ exit \in Exits

MarkerOK == marker \in [MarkPhases -> SUBSET [of : Contents, allow : BOOLEAN]]

AuditOK ==
  /\ plan \subseteq Pkgs /\ packages \subseteq Pkgs /\ todo \subseteq packages
  /\ verified \in [Pkgs -> Bytes \cup {"absent"}] /\ bindings \in [Pkgs -> Bytes \cup {"absent"}]

KeepOK ==
  /\ quarantine \in [Pkgs -> Bytes \cup {"absent", "partial"}]
  /\ evidence \in [Pkgs -> Bytes \cup {"absent"}]
  /\ installed \in [Pkgs -> Paths]

GhostOK ==
  /\ scanned \subseteq Contents /\ left \in Contents
  /\ allowed \subseteq Pkgs \X Bytes /\ answered \subseteq Pkgs \X Bytes

TypeOK == DiskOK /\ YayOK /\ MarkerOK /\ AuditOK /\ KeepOK /\ GhostOK

Init ==
  /\ tree \in Versions /\ src = "absent" /\ arch \in [Pkgs -> Bytes \cup {"absent"}]
  /\ txs = 1 /\ phase = "printsrcinfo" /\ step = "begin" /\ exit = "none"
  /\ marker = [ph \in MarkPhases |-> {}]
  /\ plan = {} /\ packages = {} /\ todo = {}
  /\ verified = Nothing /\ bindings = Nothing
  /\ quarantine = Nothing /\ evidence = Nothing /\ installed = Nothing
  /\ left = Content("post") /\ scanned = {} /\ allowed = {} /\ answered = {}

-----------------------------------------------------------------------------
(* yay's control flow.                                                     *)

At(ph, s) == phase = ph /\ step = s
Go(ph, s) == phase' = ph /\ step' = s /\ UNCHANGED <<txs, exit>>

\* yay is done with the package: installed, or aborted by a failed hook or
\* invocation.
End(why) == phase' = "ended" /\ step' = "begin" /\ exit' = why /\ UNCHANGED txs

\* Package code runs in the sandbox, where only the checkout and, once it is
\* bound, the source store can be written.
Contained(withSrc) ==
  /\ tree' \in Versions
  /\ arch' \in [Pkgs -> Paths]
  /\ src' \in (IF withSrc THEN Versions ELSE {src})
  /\ left' = [tree |-> tree', arch |-> arch', src |-> src']
  /\ UNCHANGED <<scanned, allowed, answered>>

\* The markerless bootstrap, which yay runs before it can name the package.
runPrintsrcinfoBootstrap ==
  /\ At("printsrcinfo", "begin")
  /\ Contained(FALSE)
  /\ Go("pre", "begin") \/ End("failed")
  /\ UNCHANGED <<marker, plan, auditVars, bindings, keepVars, installed>>

\* A directory scan writes its marker whatever it decides.
scanDirectory(ph, allow) ==
  /\ marker' = [marker EXCEPT ![ph] = {[of |-> Content(ph), allow |-> allow]}]
  /\ scanned' = IF allow THEN {Content(ph)} ELSE {}
  /\ UNCHANGED <<diskVars, left, allowed, answered, plan, auditVars, bindings,
                 keepVars, installed>>

\* The AURPreInstall and AURPostDownload hooks.
Hook(ph, next) ==
  /\ At(ph, "begin")
  /\ \/ scanDirectory(ph, TRUE) /\ Go(next, "begin")
     \/ scanDirectory(ph, FALSE) /\ End("blocked")

-----------------------------------------------------------------------------
(* RunMakepkg up to the end of the contained command.                      *)

MarkerPhase(profile) == IF profile = "verify" THEN "pre" ELSE "post"

\* Fault: the archives beside the PKGBUILD are left out of the binding.
VerifyMarker_treeOnly(ph) == \E m \in marker[ph] : m.allow /\ m.of.tree = tree

VerifyMarker(ph) == \E m \in marker[ph] : m.allow /\ m.of = Content(ph)

Begin(profile) ==
  /\ At(profile, "begin")
  /\ IF VerifyMarker(MarkerPhase(profile))
       THEN Go(profile, IF profile = "verify" THEN "freeze" ELSE "run")
       ELSE End("changed")
  /\ UNCHANGED <<diskVars, marker, plan, auditVars, bindings, keepVars, installed, ghostVars>>

\* acquireDeclaredSources: the PKGBUILD is evaluated to freeze the source set,
\* and the set is fetched into the transaction's store.
acquireDeclaredSources ==
  /\ At("verify", "freeze")
  /\ \/ Contained(TRUE) /\ Go("verify", "run")
     \/ Contained(FALSE) /\ End("failed")
  /\ UNCHANGED <<marker, plan, auditVars, bindings, keepVars, installed>>

\* What follows a successful command.
After(profile) ==
  \/ profile = "verify" /\ (Go("post", "begin") \/ Go("verify", "begin"))
  \/ profile = "prepare" /\ Go("prepare", "rescan")
  \/ profile \in {"packagelist", "build"} /\ Go(profile, "list")
  \/ profile = "skip" /\ Go("reuse", "begin")

runMakepkgSandbox(profile) ==
  /\ At(profile, "run")
  /\ Contained(profile # "packagelist")
  /\ After(profile) \/ End("failed")
  /\ UNCHANGED <<marker, plan, auditVars, bindings, keepVars, installed>>

\* Fault: the decision taken before prepare is carried over to what it unpacked.
PostDownloadRescan_trusts ==
  /\ At("prepare", "rescan")
  /\ marker' = [marker EXCEPT !["post"] = {[of |-> Content("post"), allow |-> TRUE]}]
  /\ Go("packagelist", "begin")
  /\ UNCHANGED <<diskVars, plan, auditVars, bindings, keepVars, installed, ghostVars>>

\* prepare unpacked new content; it is scanned again before anything else.
PostDownloadRescan ==
  /\ At("prepare", "rescan")
  /\ \/ scanDirectory("post", TRUE) /\ Go("packagelist", "begin")
     \/ scanDirectory("post", FALSE) /\ End("blocked")

-----------------------------------------------------------------------------
(* handlePackageList and the end of the build profile.                     *)

\* The review of a set of archives begins.
Review(ps) ==
  /\ packages' = ps /\ todo' = {}
  /\ verified' = Nothing
  /\ quarantine' = Nothing /\ evidence' = Nothing

\* The package's own output is the plan.  Archives that exist already are
\* reviewed before yay learns their paths; the others are content-free.
handlePackageList ==
  /\ At("packagelist", "list")
  /\ \E ps \in SUBSET Pkgs :
       IF \E p \in ps : arch[p] \in Others
         THEN End("failed") /\ UNCHANGED <<plan, auditVars, keepVars>>
         ELSE /\ plan' = ps
              /\ Review({p \in ps : Regular(p)})
              /\ IF packages' = {} THEN Go("chosen", "begin") ELSE Go("packagelist", "artifacts")
  /\ UNCHANGED <<diskVars, marker, bindings, installed, ghostVars>>

\* Fault: every planned path is reviewed, produced or not.
BuiltPackages_planned ==
  /\ At("build", "list")
  /\ Review(plan)
  /\ IF plan = {} THEN End("artifact") ELSE Go("build", "artifacts")
  /\ UNCHANGED <<diskVars, marker, plan, bindings, installed, ghostVars>>

\* Fault: the archives that were bound at the package list are not reviewed again.
BuiltPackages_unbound ==
  /\ At("build", "list")
  /\ LET ps == {p \in plan : Regular(p) /\ bindings[p] = "absent"} IN
       /\ Review(ps)
       /\ IF ps = {} THEN Go("install", "begin") ELSE Go("build", "artifacts")
  /\ UNCHANGED <<diskVars, marker, plan, bindings, installed, ghostVars>>

\* The build reviews the planned paths that are regular files now.
BuiltPackages ==
  /\ At("build", "list")
  /\ LET ps == {p \in plan : Regular(p)} IN
       /\ Review(ps)
       /\ IF ps = {} THEN End("artifact") ELSE Go("build", "artifacts")
  /\ UNCHANGED <<diskVars, marker, plan, bindings, installed, ghostVars>>

-----------------------------------------------------------------------------
(* auditAndBind.                                                           *)

Auditing(s) == phase \in {"packagelist", "build"} /\ step = s

\* The archives the quarantine is about to move.
Quarantine(files) ==
  /\ Go(phase, "quarantine")
  /\ evidence' = [p \in Pkgs |-> IF p \in packages /\ files[p] \in Bytes THEN files[p] ELSE "absent"]
  /\ todo' = packages
  /\ UNCHANGED <<packages, verified, quarantine>>

\* ScanArtifacts, with the user's inline decision on it, and the hash of every
\* archive against the manifest of the report.
ScanArtifacts ==
  /\ Auditing("artifacts")
  /\ \/ End("artifact") /\ UNCHANGED <<auditVars, keepVars, allowed>>
     \/ Quarantine(arch) /\ UNCHANGED allowed
     \/ /\ verified' = [p \in Pkgs |-> IF p \in packages THEN arch[p] ELSE "absent"]
        /\ allowed' = allowed \cup {<<p, arch[p]>> : p \in packages}
        /\ todo' = packages
        /\ Go(phase, "gate")
        /\ UNCHANGED <<packages, keepVars>>
  /\ UNCHANGED <<diskVars, marker, plan, bindings, installed, left, scanned, answered>>

GateDone(p) == Go(phase, "gate") /\ todo' = todo \ {p} /\ UNCHANGED <<packages, keepVars>>

\* An archive without a surface to decide on passes.
GatePasses(p) ==
  /\ Auditing("gate") /\ p \in todo
  /\ arch[p] \notin Surfaced
  /\ GateDone(p)
  /\ UNCHANGED <<diskVars, marker, plan, verified, bindings, installed, ghostVars>>

\* The archive cannot be enumerated, or not be rewritten.
GateFails(p) ==
  /\ Auditing("gate") /\ p \in todo
  /\ Quarantine(arch)
  /\ UNCHANGED <<diskVars, marker, plan, bindings, installed, ghostVars>>

GateKeep(p) ==
  /\ Auditing("gate") /\ p \in todo /\ arch[p] \in Surfaced
  /\ answered' = answered \cup {<<p, arch[p]>>}
  /\ GateDone(p)
  /\ UNCHANGED <<diskVars, marker, plan, verified, bindings, installed, left, scanned, allowed>>

\* Fault: the binding stays with the archive that was reviewed.
GateStrip_keepsBinding(p) ==
  /\ Auditing("gate") /\ p \in todo /\ arch[p] \in Surfaced
  /\ arch' = [arch EXCEPT ![p] = Stripped[@]]
  /\ answered' = answered \cup {<<p, arch'[p]>>}
  /\ GateDone(p)
  /\ UNCHANGED <<tree, src, marker, plan, verified, bindings, installed, left, scanned, allowed>>

\* The rewritten archive replaces the original, and is hashed again.
GateStrip(p) ==
  /\ Auditing("gate") /\ p \in todo /\ arch[p] \in Surfaced
  /\ arch' = [arch EXCEPT ![p] = Stripped[@]]
  /\ answered' = answered \cup {<<p, arch'[p]>>}
  /\ \/ GateDone(p) /\ verified' = [verified EXCEPT ![p] = arch'[p]]
     \/ Quarantine(arch')
  /\ UNCHANGED <<tree, src, marker, plan, bindings, installed, left, scanned, allowed>>

\* Fault: a prompt that gets no answer keeps every surface.
GateUnanswered_keeps(p) ==
  /\ Auditing("gate") /\ p \in todo /\ arch[p] \in Surfaced
  /\ GateDone(p)
  /\ UNCHANGED <<diskVars, marker, plan, verified, bindings, installed, ghostVars>>

\* No terminal, or no key in time: the install stops, nothing is moved.
GateUnanswered(p) ==
  /\ Auditing("gate") /\ p \in todo /\ arch[p] \in Surfaced
  /\ End("unanswered")
  /\ UNCHANGED <<diskVars, marker, plan, auditVars, bindings, keepVars, installed, ghostVars>>

GateCancel(p) ==
  /\ Auditing("gate") /\ p \in todo /\ arch[p] \in Surfaced
  /\ End("cancelled")
  /\ UNCHANGED <<diskVars, marker, plan, auditVars, bindings, keepVars, installed, ghostVars>>

\* The bindings are saved with the artifact report and then the post report.
Bind ==
  /\ Auditing("gate") /\ todo = {}
  /\ \/ /\ bindings' = verified
        /\ Go(IF phase = "build" THEN "install" ELSE "chosen", "begin")
        /\ UNCHANGED <<auditVars, keepVars>>
     \/ Quarantine(arch) /\ UNCHANGED bindings
  /\ UNCHANGED <<diskVars, marker, plan, installed, ghostVars>>

-----------------------------------------------------------------------------
(* quarantinePackages and moveVerified.                                    *)

Moved(p) == todo' = todo \ {p} /\ Go(phase, "quarantine")

\* rename(2), undone when the moved file does not hash as before.
MoveRename(p) ==
  /\ Auditing("quarantine") /\ p \in todo
  /\ \/ /\ Regular(p)
        /\ quarantine' = [quarantine EXCEPT ![p] = arch[p]]
        /\ arch' = [arch EXCEPT ![p] = "absent"]
     \/ UNCHANGED <<arch, quarantine>>
  /\ Moved(p)
  /\ UNCHANGED <<tree, src, marker, plan, packages, verified, bindings,
                 evidence, installed, ghostVars>>

\* On another file system the archive is copied, and removed only once the copy
\* hashes the same.
MoveCopy(p) ==
  /\ Auditing("quarantine") /\ p \in todo /\ Regular(p)
  /\ quarantine' = [quarantine EXCEPT ![p] = "partial"]
  /\ Go(phase, "copied")
  /\ UNCHANGED <<diskVars, marker, plan, auditVars, bindings, evidence, installed, ghostVars>>

\* Fault: the source goes before the copy is verified.
MoveCopied_removesFirst(p) ==
  /\ Auditing("copied") /\ p \in todo /\ quarantine[p] = "partial"
  /\ quarantine' \in {[quarantine EXCEPT ![p] = b] : b \in {"absent", arch[p]}}
  /\ arch' = [arch EXCEPT ![p] = "absent"]
  /\ Moved(p)
  /\ UNCHANGED <<tree, src, marker, plan, packages, verified, bindings,
                 evidence, installed, ghostVars>>

\* Any failed copy is removed again.
MoveCopied(p) ==
  /\ Auditing("copied") /\ p \in todo /\ quarantine[p] = "partial"
  /\ \/ quarantine' = [quarantine EXCEPT ![p] = "absent"] /\ UNCHANGED arch
     \/ /\ quarantine' = [quarantine EXCEPT ![p] = arch[p]]
        /\ arch' \in {arch, [arch EXCEPT ![p] = "absent"]}
  /\ Moved(p)
  /\ UNCHANGED <<tree, src, marker, plan, packages, verified, bindings,
                 evidence, installed, ghostVars>>

QuarantineEnds ==
  /\ Auditing("quarantine") /\ todo = {}
  /\ End("artifact")
  /\ UNCHANGED <<diskVars, marker, plan, auditVars, bindings, keepVars, installed, ghostVars>>

-----------------------------------------------------------------------------
(* The rest of yay's part.                                                 *)

\* yay builds, or reuses archives that all exist.
Choose ==
  /\ At("chosen", "begin")
  /\ \/ Go("build", "begin")
     \/ plan # {} /\ (\A p \in plan : arch[p] # "absent") /\ Go("skip", "begin")
  /\ UNCHANGED <<diskVars, marker, plan, auditVars, bindings, keepVars, installed, ghostVars>>

\* pacman -U of the paths of the package list, after a build or without one.
Install(ph, result) ==
  /\ At(ph, "begin")
  /\ installed' = [p \in Pkgs |-> IF p \in plan THEN arch[p] ELSE "absent"]
  /\ End(result)
  /\ UNCHANGED <<diskVars, marker, plan, auditVars, bindings, keepVars, ghostVars>>

\* yay, or the wrapper it waits for, is killed.
Kill ==
  /\ phase # "ended"
  /\ End("killed")
  /\ UNCHANGED <<diskVars, marker, plan, auditVars, bindings, keepVars, installed, ghostVars>>

\* The next yay has another identity and finds none of the old one's state; it
\* may bring a new version of the recipe.
NextTransaction ==
  /\ phase = "ended" /\ txs < MaxTxs
  /\ txs' = txs + 1 /\ phase' = "printsrcinfo" /\ step' = "begin" /\ exit' = "none"
  /\ tree' \in Versions /\ src' = "absent" /\ UNCHANGED arch
  /\ marker' = [ph \in MarkPhases |-> {}]
  /\ plan' = {} /\ bindings' = Nothing /\ installed' = Nothing
  /\ Review({})
  /\ left' = [tree |-> tree', arch |-> arch, src |-> src']
  /\ scanned' = {} /\ allowed' = {} /\ answered' = {}

Gate(p) ==
  \/ GatePasses(p) \/ GateFails(p) \/ GateKeep(p) \/ GateStrip(p)
  \/ GateUnanswered(p) \/ GateCancel(p)

Move(p) == MoveRename(p) \/ MoveCopy(p) \/ MoveCopied(p)

Next ==
  \/ runPrintsrcinfoBootstrap \/ Hook("pre", "verify") \/ Hook("post", "prepare")
  \/ acquireDeclaredSources \/ PostDownloadRescan \/ handlePackageList
  \/ BuiltPackages \/ ScanArtifacts \/ Bind \/ QuarantineEnds
  \/ \E profile \in Profiles : Begin(profile) \/ runMakepkgSandbox(profile)
  \/ \E p \in Pkgs : Gate(p) \/ Move(p)
  \/ Choose \/ Install("install", "installed") \/ Install("reuse", "reused")
  \/ Kill \/ NextTransaction

Spec == Init /\ [][Next]_vars

-----------------------------------------------------------------------------
(* Properties.                                                             *)

\* A scan of this transaction allowed the archive, or the one it was stripped from.
Allowed(p, b) ==
  \E r \in Bytes : <<p, r>> \in allowed /\ (b = r \/ (r \in Surfaced /\ b = Stripped[r]))

\* A surface left in the archive was sent on by the user.
Decided(p, b) == b \in Surfaced => <<p, b>> \in answered

\* After a build every archive pacman is given has the very bytes the transaction
\* is bound to; a scan of this transaction allowed them, or the archive they
\* were stripped from; and a surface left in them was sent on by the user at
\* the gate of this transaction, whatever earlier transactions left in the
\* cache and whatever ran between the package list and the build.
HandoffIsReviewed ==
  exit = "installed" => \A p \in Pkgs : installed[p] \in Bytes =>
    installed[p] = bindings[p] /\ Allowed(p, installed[p]) /\ Decided(p, installed[p])

\* From prepare on, package code runs only in a content that is, byte for byte,
\* the one the last scan of this transaction allowed.
PackageCodeWasScanned ==
  step = "run" /\ phase # "verify" => Content("post") \in scanned

\* A quarantine loses no archive: however moves fail and wherever the process is
\* killed, each is whole in the build directory or in the quarantine; and a
\* quarantine that ran to its end leaves no truncated copy.
QuarantineKeepsEvidence ==
  \A p \in Pkgs :
    /\ evidence[p] # "absent" => evidence[p] \in {arch[p], quarantine[p]}
    /\ quarantine[p] = "partial" => step = "copied" \/ exit = "killed"

Quarantining == phase \in {"packagelist", "build"} /\ step \in {"quarantine", "copied"}

\* A transaction has a reason to have ended exactly when it ended.
EndedForAReason == exit # "none" <=> phase = "ended"

\* An allowing post marker of this transaction is for what the last scan allowed.
MarkersAreOfTheLastScan ==
  /\ phase \in {"printsrcinfo", "pre"} => marker["post"] = {}
  /\ \A m \in marker["post"] : m.allow => m.of \in scanned

\* What the review, and later the install, know of the archives they hold.
ReviewIsOfTheDisk ==
  /\ Auditing("artifacts") \/ Auditing("gate") =>
       /\ \A p \in packages : Regular(p)
       /\ phase = "build" => {p \in plan : Regular(p)} \subseteq packages
  /\ Auditing("gate") =>
       /\ \A p \in packages : verified[p] = arch[p]
       /\ \A p \in todo : <<p, arch[p]>> \in allowed
       /\ \A p \in packages \ todo : Allowed(p, arch[p]) /\ Decided(p, arch[p])
  /\ phase = "install" => \A p \in plan : Regular(p) =>
       bindings[p] = arch[p] /\ Allowed(p, arch[p]) /\ Decided(p, arch[p])

\* Only a quarantine has evidence and partial copies, of which one at a time; what
\* it has not yet moved is still where it was.
QuarantineIsOrderly ==
  /\ Quarantining \/ phase = "ended" \/
       \A p \in Pkgs : evidence[p] = "absent" /\ quarantine[p] # "partial"
  /\ Quarantining =>
       /\ \A p \in todo : evidence[p] \in {"absent", arch[p]}
       /\ \A p \in Pkgs : quarantine[p] = "partial" => Regular(p)
  /\ \A p, q \in Pkgs : quarantine[p] = "partial" /\ quarantine[q] = "partial" => p = q

\* The inductive invariant behind the three properties above.
IInv ==
  /\ TypeOK /\ EndedForAReason /\ MarkersAreOfTheLastScan /\ ReviewIsOfTheDisk
  /\ QuarantineIsOrderly
  /\ HandoffIsReviewed /\ PackageCodeWasScanned /\ QuarantineKeepsEvidence

\* A phase is refused for changed content only if package code changed it; what
\* Prolewatch itself rewrote is what the transaction is bound to.
OnlyPackageCodeChangesContent ==
  exit = "changed" => \A m \in marker["post"] : m.of # left

\* Nothing swaps the bytes of an archive between its review and the install.
ReusedArchivesAreBound ==
  exit = "reused" => \A p \in Pkgs : installed[p] \in {bindings[p], "absent"}

\* How a transaction looks to who only knows what was reviewed, sent on and given.
Outcome ==
  IF exit = "none" THEN "open" ELSE IF exit \in {"installed", "reused"} THEN exit ELSE "stopped"

Promise == INSTANCE InstallGate WITH
  reviewed <- allowed, consented <- answered, given <- installed, outcome <- Outcome

\* All of yay's phases, every failed or killed step, the gate, the quarantine and the
\* transactions before this one amount to what InstallGate promises: consent only
\* for what was reviewed, and one handover of archives all of which are acceptable
\* (auditAndBind, handlePackageList).
ImplementsInstallGate == Promise!Spec
=============================================================================
