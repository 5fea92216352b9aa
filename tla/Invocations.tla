---------------------------- MODULE Invocations ----------------------------
(***************************************************************************)
(* What the makepkg wrapper takes a command line of yay for, and what that *)
(* allows it (ClassifyInvocation, invocationNetworkEnabled and             *)
(* sourceVerificationAfterInvocation in internal/audit/build.go).          *)
(***************************************************************************)
EXTENDS Integers, Sequences, SequencesExt

CONSTANT SystemConfigs   \* paths of makepkg configuration owned by root

prohibitedMakepkg == {"--skipchecksums", "--skipinteg"}
safeGlobal == {"--nocheck", "--check", "--ignorearch", "--noconfirm", "--noprogressbar"}
profileAllowed == [
  printsrcinfo |-> {"--printsrcinfo"},
  verify |-> {"--verifysource", "--skippgpcheck", "-f", "-C", "-c", "-Cc"},
  prepare |-> {"--nobuild", "-f", "-C"},
  packagelist |-> {"--packagelist"},
  build |-> {"-f", "-c", "--noextract", "--noprepare", "--holdver"},
  skip |-> {"-c", "--nobuild", "--noextract"}]

\* The indexes at which --config is an option and not the operand of another.
ConfigOptions(args) ==
  LET option[i \in 0 .. Len(args)] == i > 0 /\ args[i] = "--config" /\ ~option[i - 1]
  IN {i \in DOMAIN args : option[i]}
RemainingArgs(args) ==
  {args[i] : i \in {j \in DOMAIN args : j \notin ConfigOptions(args) /\ j - 1 \notin ConfigOptions(args)}}

ProfileOf(tokens) ==
  IF "--printsrcinfo" \in tokens THEN "printsrcinfo"
  ELSE IF "--verifysource" \in tokens THEN "verify"
  ELSE IF "--packagelist" \in tokens THEN "packagelist"
  ELSE IF {"--nobuild", "--noextract"} \subseteq tokens THEN "skip"
  ELSE IF "--nobuild" \in tokens THEN "prepare"
  ELSE IF {"--noextract", "--noprepare", "--holdver"} \subseteq tokens THEN "build" ELSE "none"

\* Mutant of Supported: one list for every profile.
Supported_anywhere(profile, tokens) ==
  tokens \subseteq safeGlobal \cup UNION {profileAllowed[p] : p \in DOMAIN profileAllowed}

Supported(profile, tokens) == tokens \subseteq safeGlobal \cup profileAllowed[profile]

InfoOptions == {"--help", "-h", "--version", "-V"}

\* The profile, or "refused".
ClassifyInvocation(args) ==
  LET tokens == RemainingArgs(args)
      profile == ProfileOf(tokens) IN
  IF Len(args) = 1 /\ args[1] \in InfoOptions THEN "info"
  ELSE IF /\ args # <<>> /\ ToSet(args) \cap prohibitedMakepkg = {}
          /\ \A i \in ConfigOptions(args) : i < Len(args) /\ args[i + 1] \in SystemConfigs
          /\ "--skippgpcheck" \in tokens => "--verifysource" \in tokens
          /\ profile # "none" /\ Supported(profile, tokens)
       THEN profile ELSE "refused"

ConfigPath(args) ==
  IF ConfigOptions(args) = {} THEN ""
  ELSE LET last == CHOOSE i \in ConfigOptions(args) : \A j \in ConfigOptions(args) : j <= i
       IN args[last + 1]

----------------------------------------------------------------------------
\* The report whose marker was verified: "pre" for a verification, else "post".
MarkerPhase(profile) == IF profile = "verify" THEN "pre" ELSE "post"

\* Mutant of invocationNetworkEnabled: an overridden block may use the network too.
invocationNetworkEnabled_bypassed(profile, report) ==
  \/ profile = "verify" /\ report.phase = "pre"
  \/ profile \in {"prepare", "build"} /\ report.phase = "post" /\ report.networkEligible

invocationNetworkEnabled(profile, report) ==
  /\ report.decision = "allow"
  /\ \/ profile = "verify" /\ report.phase = "pre"
     \/ profile \in {"prepare", "build"} /\ report.phase = "post" /\ report.networkEligible

\* A verification meets a network for version control hosts alone.
NetworkOf(profile, report) ==
  /\ invocationNetworkEnabled(profile, report)
  /\ profile = "verify" => report.vcs

sourceVerificationAfterInvocation(args, profile, report) ==
  IF profile \notin {"verify", "prepare"} THEN "none"
  ELSE IF ~report.signed THEN "not-applicable"
  ELSE IF profile = "verify" /\ Contains(args, "--skippgpcheck") THEN "pending" ELSE "verified"

----------------------------------------------------------------------------
(* How makepkg reads its command line.                                     *)

MakepkgOperands == {"--config"}
MakepkgReads(args) == [
  flags |-> {args[i] : i \in {j \in DOMAIN args : j = 1 \/ args[j - 1] \notin MakepkgOperands}},
  sourcesChecked |-> ~Contains(args, "--noextract") \/ Contains(args, "--verifysource"),
  signaturesChecked |-> ~Contains(args, "--skippgpcheck"),
  checksumsChecked |-> ~Contains(args, "--skipchecksums") /\ ~Contains(args, "--skipinteg")]

Stages == {"--printsrcinfo", "--packagelist", "--verifysource", "--nobuild", "--holdver"}

\* A path is not an option of makepkg, whatever its name.
OptionTokens ==
  {"--config", ""} \cup prohibitedMakepkg \cup safeGlobal \cup Stages \cup InfoOptions
    \cup UNION {profileAllowed[p] : p \in DOMAIN profileAllowed}

ASSUME InvocationConstants == SystemConfigs \cap OptionTokens = {}

\* A command line that is let through asks for one stage, never for less checking
\* than the receipt will say, and with no configuration but root's; only one that
\* runs no recipe is uncontained; and a network is met only on a report that was
\* allowed, by a stage that retrieves or builds (RunMakepkg).
InvocationIsWhatItIsTakenFor(args, report) ==
  LET profile == ClassifyInvocation(args)
      makepkg == MakepkgReads(args)
      receipt == sourceVerificationAfterInvocation(args, profile, report) IN
  profile # "refused" =>
    /\ profile = "info" => makepkg.flags \cap Stages = {} /\ makepkg.flags # {}
    /\ profile # "info" => \E s \in Stages : makepkg.flags \cap Stages = {s}
    /\ makepkg.checksumsChecked
    /\ receipt # "none" => makepkg.sourcesChecked
    /\ receipt = "verified" => makepkg.signaturesChecked
    /\ ConfigPath(args) \in SystemConfigs \cup {""}
    /\ (report.phase = MarkerPhase(profile) /\ NetworkOf(profile, report)) =>
         /\ report.decision = "allow"
         /\ makepkg.flags \cap {"--printsrcinfo", "--packagelist"} = {}
         /\ Contains(args, "--verifysource") => report.vcs
         /\ ~Contains(args, "--verifysource") => report.networkEligible
=============================================================================
