# A TLA+ verification project for Prolewatch

Prolewatch stands between `yay` and `makepkg`: it scans AUR recipes and sources,
asks its user about what it finds, runs every `makepkg` phase contained, brokers
the network those phases may use, reviews the archives they produce, and only
then lets `yay` install them. Everything it promises is a promise about *order*:
which bytes were looked at, by whom, before what ran. This project models that
order, from the system calls of the state files up to the hand-over to pacman,
and checks it.

Paths below are relative to the repository root (`internal/...`, `docs/...`), or
to `internal/` where a package name is enough.

## 1. Inventory

| Component | State it keeps | Operations | Interacts with |
|---|---|---|---|
| Report, approval and marker store (`audit/reports.go`, `approvals.go`, `util.go`) | report files, pending and used approval tokens, decision markers | Save, Replace, Prune, Create, Consume, CancelPending, writeMarker, liveMarkerReports | every Prolewatch process of the user, through the file system, with no lock |
| Scan and policy service (`audit/policy.go`, `cli.go`, `recovery.go`) | none of its own | scan, evaluate, on-demand review, inline decision, rescan, VerifyMarker | store, scanner, AI provider, terminal |
| makepkg wrapper and yay transaction (`audit/build.go`, `share/prolewatch.lua`) | source store, source plan, package plan, bindings | one invocation per profile: printsrcinfo, verify, prepare, packagelist, build, skip | yay (order of calls), package code (the checkout), store |
| Install-time effect gate (`audit/gate.go`, `ui/gate_prompt.go`, `brief/surfaces.go`, `brief/filter.go`) | the archive being rewritten | enumerate, ask, strip, re-bind | wrapper, terminal |
| Network broker and prompt agent (`egress/broker.go`, `ui/egress_prompt.go`) | grants, destinations asked about, request and byte counters, open connections | accept, authorize, dial, tunnel; ask, answer; Stop | package code (as client), wrapper (supervision), terminal |
| Source acquisition (`egress/acquire.go`, `allowance.go`, `address.go`) | source store, byte budget, disk reserve | freeze, fetch, follow a redirect, pin | wrapper, servers and resolvers |
| Resource limits and constrained runner (`audit/resource.go`) | inotify watches and totals, output buffers | monitor, reconcile, supervise, kill | wrapper, freeze, package code |
| Containment (`contain/*.go`) | namespace anchor, id mapping, transient unit | NewNamespace, RunLimited, AwaitScopeExit, Close | wrapper, gate, freeze, the user manager |
| AI review and providers (`audit/review.go`, `providers.go`, `ollama.go`) | provider process, daemon lock, attested model | batch, dispatch to the worker, describe, call, validate, unload | evaluate, Ollama daemon, CLI providers |
| Deterministic scanner (`brief/scanner.go`, `archives.go`, `sources.go`) | inventory, coverage, aggregate limits | walk twice, hash, inspect nested archives, compare checksums | evaluate, VerifyMarker |
| Bounded file primitives (`audit/util.go`, `safe/safe.go`) | none | AtomicWrite, ReadJSONFile, ContentValidator, terminal input | everything above |
| Configuration, diagnostics and canaries; terminal presentation; commands and scenarios | none that a decision depends on | | |

What is hard here, and what makes each part correct:

* **Store.** Several processes list, read, rename, write and remove the same
  files one system call at a time. Correct means: an answer of the user counts
  once, for exactly the content it was about; a blocked content is never allowed
  without one; a marker is believed only by the transaction it was written for;
  pruning never removes what is still needed; a file survives a crash whole.
* **Policy.** Findings, coverage, verdicts, an approval and a decision carried
  from an earlier phase are combined in sequence. Correct means: a later outcome
  only narrows an earlier one, and the briefing says what was decided.
* **Wrapper and gate.** The checkout is writable by package code in *every*
  contained command, archives persist from one transaction to the next, the gate
  rewrites archives, several packages are handled one after another, and any
  step may fail or be killed. Correct means: package code runs on scanned
  content; what a build hands over is bound, reviewed and answered for in this
  transaction; a quarantine loses no archive.
* **Broker.** Concurrent handlers, one lock held while a human is asked, two
  timers on the same question, shared budgets, a process that may die under the
  build that needs it. Correct means: nothing leaves without a yes to that very
  destination; limits hold across handlers; nobody waits forever.
* **Acquisition.** A name resolves anew for every hop, sources share a budget and
  a store, transfers break off. Correct means: public addresses only, limits
  across transfers, whole bodies only, and an end.
* **Runner, monitor and containment.** Four goroutines, a client that is not the
  unit it started, package code that moves what is being counted. Correct means:
  a call returns, leaves nothing running, and accepts only what was whole.
* **Review.** A daemon shared with every process of the machine, programs that
  may be replaced, batches that may fail one by one. Correct means: a review that
  counts is whole and by the provider that was configured, and it ends.
* **Scanner.** Archives in archives, limits counted at three levels, files that
  change under the reader. Correct means: what is called complete was read, and
  what is called unchanged is unchanged.

`PROJECT.json` lists each hazard at its line with the properties that would
catch it going wrong; section 5 has the ones no property can cover.

## 2. Modules

| Module | Models | Extended by |
|---|---|---|
| `AuditStore` | the store and the control flow of scans and `prolewatch approve` | `MCAuditStore`, `AuditStore_proofs` |
| `Evaluation` | the decision of one transaction: assessment, verdicts, approval, carried decision, report | `MCEvaluation`, `Evaluation_proofs` |
| `Transaction` | one checkout, its yay transactions, markers, plan, review, gate, quarantine | `MCTransaction`, `Transaction_proofs` |
| `InstallGate` | what `Transaction` promises, without how; instantiated by it | |
| `NetworkPhase` | broker, prompt agent, terminal, supervising wrapper, gate question | `MCNetworkPhase`, `Confinement_proofs` |
| `Acquisition` | freeze, fetch, redirects, budget, store, plan, pins | `MCAcquisition`, `Workspace_proofs` |
| `Containment` | one contained call: namespace, unit, client, monitor channel, kill | `MCContainment`, `Confinement_proofs` |
| `WorkspaceMonitor` | the walk and the watches beside package code | `MCWorkspaceMonitor`, `Workspace_proofs` |
| `ReviewBatches` | how the selected text is cut into requests | `ProviderReview`, `Foundations`, `Texts_proofs` |
| `ProviderReview` | reviews of several scans beside one daemon, its lock, CLI process groups | `MCProviderReview`, `ProviderReview_proofs` |
| `Dispatch` | one request to the provider worker and its answer | `Foundations` |
| `ArchiveScan` | one archive and the archives in it | `TreeScan` |
| `TreeScan` | the inventory in its two passes and the later binding | `Foundations` |
| `RecipeChecksums` | the static reading of a checksum array, beside Bash | `Foundations`, `Texts_proofs` |
| `SubordinateIds` | subordinate ids and the mapping of a namespace | `Foundations` |
| `ResourceLimits` | limits, their floors, the transcript | `Foundations` |
| `StableFiles` | AtomicWrite and ReadJSONFile beside editors and power losses | `Foundations` |
| `ContentStream` | the judgement of chunked content as text | `Foundations`, `Texts_proofs` |
| `Invocations` | what a makepkg command line is taken for | `Foundations`, `Texts_proofs` |
| `Foundations` | the nine machines above, one per behaviour | `MCFoundations`, `Foundations_proofs` |
| `AuditStore_proofs`, `Evaluation_proofs`, `Transaction_proofs`, `ProviderReview_proofs` | theorems about the module in their name, section 4 | |
| `Confinement_proofs`, `Workspace_proofs` | about `Containment` and `NetworkPhase`; about `Acquisition` and `WorkspaceMonitor` | |
| `Texts_proofs` | folds and recursions over sequences, and what batches, streams, recipes and command lines make of them | `ProviderReview_proofs`, `Foundations_proofs` |
| `Foundations_proofs` | about the machines of `Foundations` | |

How they fit together. `Transaction` is the spine: a scan is one step of it with
an open outcome, a contained command is one step that leaves any content behind,
an acquisition is one step that fills the source store or fails. The other modules
open these steps up: `AuditStore` what a scan does to the store, `Evaluation` what
it decides, `TreeScan` what it reads, `ProviderReview` and `Dispatch` how it asks a
model; `Containment` and `WorkspaceMonitor` how a command is run and watched,
`NetworkPhase` what it may reach; `Acquisition` how sources arrive. They share no
state with it: each takes from its neighbours an open choice at least as wide as
what they do. `ProviderReview` is composed with `ReviewBatches`, `TreeScan` with
`ArchiveScan`, `Transaction` with `InstallGate`.

### AuditStore

Actors are yay transactions, each running one scan process at a time, and shells
in which `prolewatch approve` runs. A step is one system call, or a run of them
that no other process can tell apart. A `Binding` abstracts package base, phase,
content hash and policy fingerprint - what an approval is bound to - and each
scan meets an arbitrary one, so a rescan may meet other content than the user
was asked about. `Outcomes` is the lattice of `evaluate`: a verdict can only
turn an allow into a block. A scan of the sources may also take over what the user
decided about the recipe: `carriedDecision` follows the marker of the recipe to its
report, which must be an override of the same transaction that was not itself taken
over, and `Covers` says of which bindings all findings were decided there. A scan,
the write of a token and its removal may each fail; `AtomicWrite` may also report an
error with the token in place. `report[i].auth`, `report[i].carried`, `asked`,
`auth`, `held` and `stranded` (the answers a failed call left behind) trace each
answer of the user through processes and files; they are history, and no guard of
the code depends on them except through the files they describe.
Report names are numbers that order by age, as the UTC time stamps they begin
with do.

### Evaluation

Here a single transaction scans its recipe and then its sources, and the subject is
the decision. A file holds a content: what the scanner finds in it (`kind`) and
what the manifest binds (`ver`). `service` is one `AuditService`: it freezes the
manifest and the findings, and files may change before, between and after.
`assessDeterministicAt`, `structuralBlock`, `modelBlocks`, `policySummary`,
`carriedDecision` and `Report.Validate` are operators translated one by one; the
actions are the calls of `runScan` in order - scan, review, evaluate, save, ask,
rescan - each of which may fail where the code returns an error. A report carries
the manifest and findings it was made of, so that a carried or approved decision
can be compared with what the user saw.

### Transaction and InstallGate

`phase` is where yay is and `step` where the wrapper process of that phase is.
The disk is `tree`, `src` (the source store) and `arch` (what each planned path
holds: archive bytes, something that is no regular file, or nothing). A contained
command replaces all it can write by arbitrary content. A marker holds the
content it is bound to; a post marker covers the source store as well. What a
scan decides is an open choice. Two or more transactions follow each other with
the checkout persisting and everything keyed by the transaction starting empty.
yay's order of calls is the one `docs/architecture.md:606` records as measured;
yay's choice to build or to reuse, and the install, are external.

`InstallGate` states the promise with five actions: review, consent, install,
reuse, stop - and begin, for the next transaction. Its state is what was reviewed,
what the user sent on, what pacman was given and how it ended. `Transaction!Promise`
maps the archives a scan allowed, the answers of the gate, what yay installs and
`exit` to these, and the run `handoff` checks that every step of the detailed
specification is a step of the abstract one or none of its business. A reused
archive is promised nothing: see `ReusedArchivesAreBound` in section 5.

### NetworkPhase

Each connection has a handler whose position is `conn`: `read` (request not yet
parsed), `lock` (waiting for `grantMu`), `ask` (holding it while the agent asks),
`resolve`, `check` (the first message of a tunnel), `tunnel`, and an end. The
agent takes prompt requests one at a time; `queue` and `onScreen` are its state.
The terminal is `key`, at most one unread key tagged with the question the user
meant it for, so that it can be told when another question reads it. The wrapper
is `runner`: the `select` between the command's result and the broker's end.
Time is not measured; a timeout may fire at any moment of the wait it bounds.

### Acquisition

`pc` is where a verify phase is: the freeze has declared its sources, the fetch is
between two of them, dialling, waiting for a response, copying. Resolution returns
any set of addresses each time it is asked; `checkedDialer` refuses unless all are
public, and dials one of that very answer. A redirect goes back to dialling with
one hop used. A body is named by its URL and the bytes of it that arrived, so that
a truncated or exchanged file can be told from the whole one; a byte is the unit of
budget, reserve and disk. Other processes take and give back disk in every state, also
between the check of the reserve and the measurement the transfer is bounded by;
either look at the free space may fail, and `measured` remembers whether the second
did. After the fetch, package code writes everything in the store that is not pinned.

### Containment and WorkspaceMonitor

`Containment` is one call with four things that may fail or hang without each
other: the anchor process that holds the namespace, the transient unit, the
`systemd-run` client and the user manager. `kind` tells the build supervisor
(`runConstrainedCommand`) from the freeze (`RunLimited` with a forwarder of its
own). Starting the client is not starting the unit: the client sends a request, which
the manager takes up later or never, also after the call has killed what it found
(`late`). The Go `select` between the command's end, an output overflow, a monitor
error and the context is a disjunction: any ready branch may be taken.

`WorkspaceMonitor` is the monitor goroutine beside package code. A walk reads one
directory per step, so that files move before and behind it; `stable` is history and
says that nothing has moved since it began. The inotify queue is one bit, "a
creation is pending"; an overflow of the queue, or one that cannot be read, ends the
monitor with an error (resource.go:361-363), while a directory that vanished asks for a
rebuild, for which `reconcile` allows itself a limited time. `locked` is makepkg's
execute-only `pkg`, which the walk skips; a denied directory that is found unlocked at
the second look ends the walk with the error of the first.

### ReviewBatches, ProviderReview and Dispatch

`ReviewBatches` cuts texts into pieces and pieces into requests, as pure operators
over sequences of byte classes (a line feed, an ordinary byte, the two bytes of a
longer character). `ProviderReview` runs the batches: per scan a position in
`Reviewer.Review` and in the adapter, beside a daemon whose tag moves and which
unloads on its own, the lock file every Prolewatch takes around a batch, `doctor`
which resets the daemon, and for a CLI provider the process group with its grace
period. The version and feature probes run outside that group: a helper of theirs may
hold the output (`pipe`) and ends when it likes. `Dispatch` opens one request: audit and
worker each load the configuration, a Codex review enumerates the features of its
program a second time and disables what either list names, the program and the tag may
be exchanged between any two looks at them, a probe may fail, and the answer is
compared with the request.

### The foundations

Nine small machines that share no state while they run; `Foundations` puts them into
one specification whose `part` says which of them a behaviour is about.

* `TreeScan` with `ArchiveScan`: five items in two roots, walked twice. A reader does
  not get an archive; every step chooses the next member, so that the run meets all
  archives of its size. `met` and `unread` are history: what a reader came
  across and what it left unread, against which completeness is judged. `unread` tells
  a gap from what the readers leave out on purpose (`ByDesign`): tar members of other
  types, what follows the head of a binary, vendored archives below the depth of the
  policy. The deadline and errors of the file system end a pass as `broken`, which is
  neither a refusal nor a change.
* `RecipeChecksums`: a statement is read by the analysis and run by Bash in one
  step, and the two results are compared at the end. A word may be quoted, unquoted, a
  pattern or computed; an assignment may be one in the background, a `readonly` or another
  declaration; and a statement may assign besides, as `${v:=x}` does. `stray` is history:
  the names whose last assignments Bash made something else of.
* `SubordinateIds`: any file of two lines, the lookup, the arguments, what `unshare`
  makes of them, and the verification - of that mapping or of any other.
* `ResourceLimits`: any configuration, machine and split of a command's output.
* `StableFiles`: inodes and a directory entry in memory and on disk. What is in
  memory may reach the disk at any time and in any order; fsync is the only promise.
* `ContentStream`: any stream of byte classes, cut anywhere, judged as a whole by a
  definition of UTF-8 and piecewise by the validator.
* `Invocations`: any command line of up to three options, and some longer ones, beside
  makepkg's own reading of it (`MakepkgReads`, external).

## 3. Runs

| Run | cfg | Expect | Shows |
|---|---|---|---|
| `approvals` | `AuditStore_approvals` | pass | two racing transactions: an answer counts once, content with findings is allowed on an answer about it or about the recipe of the same transaction, markers stay with their transaction, prunes overlap and keep the newest |
| `content` | `AuditStore_content` | pass | answers stay with the content they were about; one given inside a scan dies with it unless a call that had to write or withdraw it failed; the inductive invariant |
| `decisions` | `Evaluation_decisions` | pass | what is allowed was decided by the user or needed no decision; injection is passed by nothing; the briefing says what was decided |
| `described` | `Evaluation_described` | violation | without an archive parser, a deterministic-only scan ends with an error instead of a briefing |
| `handoff` | `Transaction_handoff` | pass | what a build hands to pacman; from prepare on, package code runs on scanned content; quarantine keeps every archive; all of it implements `InstallGate` |
| `consent` | `NetworkPhase_consent` | pass | consent, destination limit and byte budget under racing handlers |
| `progress` | `NetworkPhase_progress` | pass | every handler ends; a dead broker ends its phase |
| `acquire` | `Acquisition_acquire` | pass | only public addresses, shared budget and reserve, whole sources, an end |
| `calls` | `Containment_calls` | pass | while the user manager answers, no unit it knows at the clean-up outlives the call, and none at all one that succeeded; what is accepted is whole; every call returns |
| `accounting` | `WorkspaceMonitor_accounting` | pass | an undisturbed walk is exact, no directory is forgotten, a stopped monitor ends |
| `reviews` | `ProviderReview_reviews` | pass | a review that counts is whole, no model is unloaded under another process, no provider is left behind, every review returns unless a helper of a probe keeps it |
| `foundations` | `Foundations_foundations` | pass | completeness and binding of scans, limits of nested archives, checksums as Bash has them, sound namespaces, whole files, sound requests, command lines kept to their terms |

`described` is the one disagreement kept as a run, because the comment it quotes
states the purpose of the line; section 5 has the others and how to see each. Where
such a disagreement touches a property of a passing run, the property is stated up to
exactly that exception: up to `stranded` tokens in `content`, `late` units in `calls`, a
held `pipe` in `reviews`, members `ByDesign` and `stray` assignments in `foundations`.

Every property of a passing run has a mutant: a named fault (`X_fault`, defined
before `X` in the same module) of the kind a change of the code could introduce,
with which TLC finds the property violated. A property that joins several machines
(`FilesAreReadAndWrittenWhole`, `ReviewsAreSoundlyExchanged`,
`CommandsKeepToTheirTerms`, `NamespaceIdsAreSound`) has one for each conjunct.

Type invariants: each of the eight component modules has a `TypeOK`. It is proved in
seven of them; `Acquisition!TypeOK` and the others hold under the configuration of
their run (replace its INVARIANT line to see it).

### Bounds

* `approvals`: two transactions, three reports, one answer; a recipe, and sources whose
  findings it covers. Two processes suffice to race for one token; three reports give
  one of them a scan and a rescan beside a scan of the other, or an override, what takes
  it over, and a scan in between; with a retention of one every save prunes and two
  prunes overlap.
* `content`: one transaction, one shell, two packages that may be approved and one that
  is structurally blocked, two answers and three reports, so that every read of a token,
  report or rescan may meet other content than the one before, one token may overwrite
  another, and an answer may outlive its report. Packages leave no marker; the other
  run has those.
* `decisions`: contents with and without a concern, in two versions, and an archive
  that is too deep; the five verdicts `evaluate` tells apart from agreement or
  not; three configurations (no AI, AI at one phase, AI at both with a higher
  threshold); one edit at any moment; four evaluations, enough for a scan and a
  rescan of both phases. A second batch adds no verdict the quantifiers over
  batches do not already treat alike.
* `handoff`: two packages, two archive contents (with and without a root
  surface), a link as the path that is no regular file, two transactions: a cached
  archive of the first transaction reaches the second. The rest of the checkout
  has one version: archives and source store are enough content to change.
* `consent`: three connections, two semaphore slots and two requests, so that one
  connection is turned away and a request exceeds its limit; three destinations of
  which one is not permitted and one is an address literal; a destination limit of
  one, so that a second destination meets it; a byte budget of two with writes of
  up to two. `progress` uses two connections.
* `acquire`: five declarations - nothing to fetch, two files, names that collide and
  repeat, one entry too many, one unusable; bodies of up to three bytes against a
  budget of three and a reserve that three bytes reach; one redirect, the
  second of two hops being refused; a public, a private and an own address; two
  verify phases in one transaction.
* `calls` has no bound: its state is finite. `accounting`: `pkg` and one directory
  beside it, a limit of one and up to two in a directory, so that a directory exceeds
  the limit alone, together, and by a move.
* `reviews`: two scans, one of which unloads at its end; two batches, one that cannot
  be cut small enough, a CLI review that is run again; two model digests and
  one move of the tag, which is what an attested model needs to be another one; a helper
  that may stay behind every probe.
* `foundations`: archives of two members nested two deep with sizes around the limit
  and below zero; two edits of a tree without archives; recipes of three statements
  over one variable and one array, with literals of at most one element; limits for
  memory, processors and output, from the one that is refused to more than there is;
  id files of two lines over seven ids, with the caller before, at either end of,
  inside and behind each range; documents of two blocks between two writers and a
  power loss, or one writer and two edits; streams of four bytes; one exchange of
  program or configuration and two moves of a tag; texts of five bytes beside one of
  four; command lines of three options. One tree has more findings than are reported
  and a source that is missing, so that verification gives up. Every mutant of its
  properties is found within them.
* Deadlock is not checked: a transaction or call that ended, or a bound that is
  reached, stops the model. Where the system must not stop, a liveness property
  says so (`progress`, `acquire`, `calls`, `accounting`, `reviews`).

Symmetry is used over transactions, connections and packages, which no constant
tells apart, and never in a run with liveness properties. `handoff` uses it with the
refinement, which is a safety property.

### Fairness

* `NetworkPhase!FairSpec`: weak for the process wait, the wrapper's `select`, the
  kill of a cancelled command (`contain` kills the unit and the namespace), and the
  read, dial, prompt and idle timers, which Go's runtime fires. Strong for
  `authorize`, because a starving waiter of a Go mutex is handed the lock.
* `Containment!FairSpec`: weak for the supervisor as a whole, for the `Wait` of a
  client that is gone, for the forwarder and for the monitor's end. Nothing of package
  code, the anchor or the user manager: every call to the manager has a budget
  (`AwaitScopeExit`) and the anchor is killed if it does not leave.
* `WorkspaceMonitor!FairSpec`: weak for the goroutine; strong for its two choices that
  compete with others - the `done` branch of a `select`, which Go takes at random among
  the ready ones, and the deadline of `reconcile`, which stays passed once it has.
* `Acquisition!Spec`: weak for what the client computes and for its timers (stall
  guard, deadline of the phase). Servers, resolvers and the disk owe nothing.
* `ProviderReview!Spec`: weak, per scan, for the deadline of a batch with the kill that
  follows it, and for the steps that only compute, among them the end of a probe whose
  output nobody holds. Nothing of the daemon, the lock's holder, the program that
  reviews, or the helpers of a probe: `EveryReviewReturns` has the last as its exception,
  and `ProbesAreBounded` (section 5) shows that it is needed.

Nothing is assumed anywhere of the user, of package code, or of a command that was
not cancelled.

## 4. Proofs

Eight modules hold theorems; two components that meet in the code may share one
(`Confinement_proofs`, `Workspace_proofs`), and what several need about sequences is
in `Texts_proofs`. Everything below is for every value of the constants that meets the
named assumption of the module, and TLC evaluates those assumptions in the runs. Every
safety property that a run expects to hold, the refinement and the one action property
among them, is the subject of a theorem. The proofs have the same three steps:
`Init => IInv`, `IInv /\ [Next]_vars => IInv'` with one lemma per action or per part
of the invariant, and `IInv => P`. `IInv` is defined in the component's module,
each part with a comment, and TLC found it to hold under the configuration of the
run before it was proved.

**AuditStore** (`ConstantsAssumption`), for any number of transactions, shells,
bindings, reports and answers:

* `TypeCorrect`, `Inductive`: `Spec => []TypeOK`, `Spec => []IInv`;
* `OneTime`: `Spec => []ApprovalsAreExactAndOneTime`;
* `StoreInductive`: `Spec => []StoreInv`, and from it `LocalMarkers`
  (`MarkersAreTransactionLocal`), `DecisionsFromTheUser` (`DecisionsComeFromTheUser`),
  `InlineTokensEnd` (`InlineAnswersDieWithTheirScan`) and the action property
  `NewestKept` (`PruneKeepsTheNewest`).

The one-time property is not inductive: it speaks of reports already written, while
the danger is in transit. `IInv` follows each answer on its way - held by the process
that asked, written to a pending token, read by the scan that renamed the token, saved
in a report - and says that it is in at most one of these places (`OnePlace`), that
wherever it is, the binding it is about to authorize is the one the user was asked
about (`Exact`), and that a process holds it only at the steps where the code does
(`Located`). The rename of the token file is what makes `OnePlace` survive a race;
`CreateWrite` may overwrite another answer, which loses it but never doubles it.
`StoreInv` stands on `IInv` and says what processes still owe: a scan works with its
own report, no scan of a structural block looks for a token, the token of an inline
answer is one its process has yet to cancel or one that a failed call has left
(`stranded`), the decision a scan is taking over is an override of its own transaction
about a recipe that covers its content, and rests on an answer itself
(`CarriedIsBacked`), and what a `Prune` is about to remove has `Retention` newer
reports in the store, which other prunes cannot take away because they too spare the
newest.

**Transaction** (`TransactionAssumption`), for any packages, archive contents, recipe
versions and number of transactions, whatever the package code in each contained
command leaves behind:

* `Inductive` and `TypeCorrect`: `Spec => []IInv`, `Spec => []TypeOK`;
* `Handoff`: `Spec => []HandoffIsReviewed`;
* `ScannedBeforeRun`: `Spec => []PackageCodeWasScanned`;
* `EvidenceKept`: `Spec => []QuarantineKeepsEvidence`;
* `Refines`: `Spec => ImplementsInstallGate`: every step is a step of `InstallGate`
  or a stutter under the refinement mapping of the module.

`HandoffIsReviewed` speaks of the install, three phases after the review, and
package code has run in between. `ReviewIsOfTheDisk` is what carries it: from the
start of the artifact audit to the install no contained command runs, an archive
on the gate's list is one the scan allowed, one off the list was allowed and
decided on as it now is, and the set under review holds every planned archive that
exists. `MarkersAreOfTheLastScan` does the same for `PackageCodeWasScanned`: an
allowing post marker is of the content the last scan allowed, so a phase that
believes a marker for the content of the disk runs on scanned content.
`QuarantineIsOrderly` says that an archive the quarantine has still to move is where
it was, and that at most one copy is unfinished. The step simulation needs the
invariant in one place, the install, where `ReviewIsOfTheDisk` gives `Acceptable`.

**NetworkPhase** (`NetworkAssumption`), for any connections, destinations and limits:
`NetworkInductive`, `NetworkTypeCorrect`, `ConsentBeforeEgress` (`EgressNeedsConsent`),
`BoundedDestinations` (`DestinationsAreBounded`) and `SharedBudget` (`BudgetIsShared`).
A yes is a key in the terminal long before it is a grant, and a question may expire
under it. `KeysAnswerTheScreen` says a key that is a yes was typed at the question on
the screen, `GrantsWereGiven` that a grant is the yes of a question that is over,
`QuestionsAreRaisedOnce` that no question is at once waiting and shown.
`DestinationsAreBounded` counts what was asked, so `AskedIsBounded` keeps the set finite.

**Acquisition** (`AcquisitionConstants`), for any declarations, bodies, redirects,
addresses, budget and disk: `Inductive`, `PublicOnly` (`OnlyPublicAddresses`),
`BudgetAndReserve` (`BudgetAndReserveHold`), `AsFetched` (`SourcesAreAsFetched`). The
last needs the loop as a whole: the last source under each name before the index is
in the store (`FetchedSoFar`), only the target of a running copy is not whole
(`StoreIsWhole`), and while the sandbox runs what is not pinned was not fetched
(`PlanIsKept`). That the allowance is all that was declared rests on
`ParsedIsWhole`, for every declaration: what the loop of `ParseSrcinfoSources` returns.
`TypeOK` bounds `free` by the size of the disk, which needs the sum of all files;
`IInv` has its `free \in Nat` and leaves the upper bound to TLC.

**Containment** (no assumption): `Inductive`, `TypeCorrect`, `NothingLeft`
(`NothingOutlivesTheCall`), `Whole` (`AcceptedCallsAreWhole`). The invariant says at
which steps of the supervisor a unit may exist and its anchor still holds the pid, and
that a unit alive after the clean-up was requested too late for it or belongs to a
manager that does not answer (`UnitIsKilled`, `PidIsHeld`); and where an error of the
monitor is while nobody has read it yet (`MonitorErrorsArrive`).

**WorkspaceMonitor** (`WorkspaceAssumption`), for any finite set of directories and
any limit: `MonitorInductive`, `MonitorTypeCorrect`, `ExactAccounting`
(`AccountingIsExact`), `NothingForgotten` (`NoDirectoryIsForgotten`). A walk in a tree
that keeps still has counted what it is done with, in whatever order (`WalkCounts`);
that a sum over a finite set may be split and does not depend on the order is proved
first (`TotalSplits`, `TotalGrows`).

**ProviderReview** (`ReviewConstants`, `NamesDiffer`, and `BatchConstants` of
`ReviewBatches`), for any scans, providers, files and limits: `Inductive`,
`TypeCorrect`, `Whole` (`AcceptedReviewsAreWhole`), `OnlyTheDaemonUnloads`
(`NobodyElseUnloads`), `NoProgramIsLeft` (`NoProviderOutlivesItsReview`). Two theorems
of `Texts_proofs` are about the two loops of `batchesWithProviderOptions`. By
`BatchesOfAnySelection` they return, for every selection, an error or at least one
batch, and each batch then has a piece, fits the context of the model (`BatchesFit`),
and exceeds the batch size only when it is one piece. By `AnySelectionIsSent` the
pieces of a file, put together, are its text, but for the replacement of a character
that a cut goes through (`Covers`), and no piece of an unchanged file comes before one
of a changed file (`ChangedFirst`). The others follow the batches: verdicts and
batches to do add up to the plan as long as the review works (`BatchesAddUp`), a scan
at a step inside the lock is its holder (`LockIsHeld`), a living child is being waited
for (`ChildIsWaitedFor`).

**Evaluation** (`ConstantsAssumption`), for any contents, findings, verdicts and
exchanges of files: `Inductive`, `TypeCorrect` (every report validates), `Decisions`
(`AllowedMeansDecided`), `VerdictsAnswered` (`BlockingVerdictsNeedTheUser`), `Summaries`
(`SummaryTellsTheDecision`). The three properties speak of reports on file; in between
an answer is a token, and `TokenIsAnAnswer` says which report, shown as a question, it
stands for. `policySummary` picks the least applicable clause from a set; the first
match of a sequence, `SelectSeq`, is opaque to the prover.

**Foundations** (the assumptions of its nine machines). They share no step: one moves
and the others keep their first values, so `FoundationsInv` is the invariant of the one
machine beside the idle values of the rest (`OneMachineMoves`), and one theorem per
property speaks of the whole specification.

* `NothingIsLeftUnread` (`CompleteMeansNothingWasMissed`), `LimitsAreShared`
  (`ArchivesShareTheLimits`), `BindingDecides` (`BindingDecidesChange`), for any tree of
  the five items, archives of any number of members nested to any `MaxArchiveDepth`, any
  limits and any edits. `ArchiveInv` is about the stack of readers: it is no deeper
  than the depth, a reader that waits for a nested archive is within its limits
  (`Waiting`), the innermost has exceeded them by one member at most (`Innermost`, `Room`),
  and what any of them reports as complete and without a gap tells all it met (`Told`).
  A nested reader starts over with the whole allowance, so together the readers at work
  are bounded by an allowance and a member per level; what a complete result counts is
  within one allowance (`InAllowance`). `TreeInv` adds
  that a pass has recorded and counted exactly the items before the one at hand
  (`AtHand`, `Counts`), and that the second pass records only what the first did and
  counts only what the first had room for (`SecondPass`); so "same" is of equal digests
  (`Outcome`), and a tree that was not edited is never found changed or refused, unless
  the deadline or the file system broke the pass off.
* `ChecksumsAreBashs`: `Spec => []StaticChecksumsAreBashs`, for recipes of any length.
  The property speaks of arrays that are not `stray`, which is decided by what Bash did
  and not by the form of the statement: an unquoted word that Bash takes for its text is
  covered. `RecipeInv` holds the analysis against Bash statement by statement: a
  scalar it knows is Bash's, an array it has is Bash's, and one it takes for never
  assigned is not set, each as far as it is not `stray`.
* `FilesAreWhole` (`FilesAreReadAndWrittenWhole`) joins three. `FilesInv`: a temporary
  document belongs to its writer until it is renamed and is whole from then on, on
  disk as in memory unless somebody else writes into it, and a reader has the beginning
  of a file whose change time was the one it looked at. `StreamInv`: what the validator
  has decoded is well-formed text, or there is a place in it from which no text goes
  on (`BrokenAt`); it is the decoding of the whole, wherever the chunks were cut.
  `LimitsInv`: the buffer is a tail of the output, shorter than twice the limit.
* `ReviewsAreExchanged` (`ReviewsAreSoundlyExchanged`): the batches as above, and
  `DispatchInv`, in which the place of the worker says which configuration, program and
  model it has described, and so what the answer can have been compared with.
* `CommandsAreHeld` (`CommandsKeepToTheirTerms`): the folds over the options are equal
  to the sets of options the definition of makepkg's reading speaks of, for command lines
  of any length; and the freeze is no wider than the build, for any configuration.
* `NamespaceIds` (`IdsSpec => []NamespaceIdsAreSound`), for any size of the id spaces,
  any file and any caller. From the file that was not refused (`RangeIsDelegated`) it
  follows that the mapping is the caller's id, what is below it and what is above it
  (`UnsharedIs`), in the three positions the caller can have, and that the walk that
  reads the mapping back covers everything.

### Induction over data

The induction theorems of the library take an operator as a parameter, which no
backend instantiates. Where a proof needs what a loop over data computes - the sources
of a declaration, the sum of a walk, the batches of a selection, the statements of a
recipe - it takes the least counterexample instead: a set of numbers has a least element
(`LeastNat`, from `WFMin`), a fold is a function that exists (`FoldExists`, itself by
least counterexample), and the smallest length at which it goes wrong is one more than a
length at which it did not. `Workspace_proofs` does the same with a set of directories
that is minimal, and states `LeastNat` and `FoldExists` again: it needs nothing else
of `Texts_proofs`, whose modules its components do not use.

### Only model-checked

* Liveness: `EveryHandlerEnds`, `BrokerDeathEndsThePhase`, `EveryAcquisitionEnds`,
  `EveryCallReturns`, `StopEndsTheMonitor`, `EveryReviewReturns`. They need `ENABLED`
  and fairness.
* `Acquisition!TypeOK`: the upper bound of `free`, see above.
* `described` is a run that finds a violation; nothing is proved about it.

## 5. What does not hold, and what no property covers

Each of these is a formula of a module, with a comment that quotes what it is
taken from. Put it in place of the INVARIANT or PROPERTY lines of the named
cfg and TLC shows the violation within two minutes. None is an invariant that the
rest of the project relies on.

| Formula | cfg | What the code says, and does |
|---|---|---|
| `EveryScanIsDescribed` | `Evaluation_described` | the finding in `PROJECT.json` |
| `LeftoverTokensAreRemoved` | `AuditStore_content` | cli.go:320-322 "then remove any leftover token on success or failure": `AtomicWrite` reports a failed sync of the directory with the token in place (util.go:97-103), and the caller returns without `CancelPending` (cli.go:341-343, build.go:771-776) |
| `SweepKeepsLiveMarkers` (PROPERTY) | `AuditStore_approvals` | reports.go:429 "removing it costs nothing": a marker replaced while another process reads it looks unreadable, and the new one is removed |
| `QuestionsAreBounded` | `NetworkPhase_consent` | broker.go:323 "the destination limit bounds questions": a destination already asked about is asked about again on every retry |
| `OnlyIdleTunnelsTimeOut` | `NetworkPhase_progress` | a tunnel busy in one direction is cut by the idle timer of the other (broker.go:755-773) |
| `GateAnswersAreForTheGate` | `NetworkPhase_consent` | safe.go:335 "The next application must not inherit an answer": an abandoned network question still reads the terminal while the gate asks |
| `OnlyPackageCodeChangesContent` | `Transaction_handoff` | a strip of a cached archive at the package list is refused by the next phase as a change of the package (build.go:2143) |
| `ReusedArchivesAreBound` | `Transaction_handoff` | docs/architecture.md:1078 "no attacker process exists": the skip invocation runs the recipe with the bound archives writable |
| `TruncatedOutputIsNoSuccess` | `Containment_calls` | safe.go:71-73: output rejected at the instant a command exits with success is accepted by the freeze |
| `CleanupIsConfirmed` | `Containment_calls` | scope.go:92-94 "a cleanup that could not be confirmed means something may still be running": `AwaitScopeExit` is content with the end of the client (scope.go:139-144), also of a client it killed itself before the manager took its request up |
| `MakepkgLockIsNoFailure` (PROPERTY) | `WorkspaceMonitor_accounting` | resource.go:232-234: `pkg` may be opened again between the failed read and the look at its mode |
| `ProbesAreBounded` (PROPERTY) | `ProviderReview_reviews` | providers.go:205-210 "a hung --version must fail fast", "so a hung provider CLI can be killed as a tree": `CommandContext` kills the leader only, and `Run` waits for a helper that keeps the pipe (also providers.go:261-270) |
| `VerdictsComeFromTheAttestedModel` | `ProviderReview_reviews` | review.go:399-401: metadata are compared, but the daemon may answer a batch with a model the tag named in between |
| `MembersAreScannedWhole` | `Foundations_foundations` | archives.go:493-494 "the combined reader still scans the whole member": what follows the head of a binary member is discarded (archives.go:632-637), and the inventory stays complete |
| `NothingIsForgotten` | `Foundations_foundations` | findings of an unsigned compressed tar are dropped when it is read again as a stream |
| `NoNameInBothRoots` | `Foundations_foundations` | scanner.go:291-296 compares files only: a directory and a file pass under one name |
| `InspectedIsBound` | `Foundations_foundations`, with `edits` 2 in an archive world of `MCWorlds` | scanner.go:407-409 "No later stage reopens": an archive is inspected after its metadata were compared |
| `ResolvedWithoutBash` | `Foundations_foundations` | scanner.go:946-951 "can be determined without executing Bash": not with an assignment in the background, one that `readonly` refuses or an attribute changes (scanner.go:961-970), an unquoted variable, brace, glob or tilde word (1149-1183), or `${v:=x}` |

`AnswersAreAsConfigured` exempts a tag that moves away and back within one
description (`twice < 2`): the comparison of digests in `ollama.go` cannot see it.

### Hazards that no property covers

The code accepts these windows; a property would only restate that it does.

* reports.go:367 - names order by a second-resolution time stamp and a random suffix.
* build.go:623 - the freeze evaluates the PKGBUILD with the checkout writable after
  the pre marker was verified.
* policy.go:225-237, build.go:357-384 - the source verification carried over is that
  of the latest report of the package base, though sources may have changed since.
* build.go:1744 - the command ends between the exit of the broker and the close of
  `done`: the phase then succeeds (`SelectResult`).
* resource.go:545 - the same for a limit violation that is pending as a build ends;
  the freeze looks again, the build does not.
* build.go:1313-1340 - source stores are pruned by age, also one of a live transaction.
* A build leaves out a planned path that is no regular file, although yay holds it
  and build.go:798 says every archive is bound (`BuiltPackages`).
* When the gate about a later package gets no answer, an earlier one may be
  rewritten although build.go:2115 prints "nothing was changed" (`GateStrip`).

### Observations from the translation

They are visible in a definition or its comment, and are here for the maintainers:

* The monitor reads its inotify descriptor after `Stop` may have closed it; a file moved
  during a walk is counted twice or not at all (hence `stable`). The transcript
  reports a loss when the first write fills it exactly (resource.go:455-460).
* `structuralRecovery` counts an AI finding of category `archive_escape`, and a
  report with such a finding that is eligible for approval fails `Report.Validate`.
* The metadata `codexAdapter.Review` asks for again are discarded, so that a CLI exchanged
  under the worker reviews under the version of the one before (`exchanged` in `Dispatch`).
* The escaping factor 6 of a batch is below the 7 that JSON in JSON may take; a failed
  unload discards a completed review; a character cut by a batch is replaced.
* Each nested archive starts over with the whole allowance (archives.go:527); what it
  used is added to the outer one, and compared with the limits, only when it is done. An
  encrypted zip member is caught by the coverage of the inventory only, not by `Complete`
  of its archive. Tar members of other types, contiguous or sparse files among them, are
  passed over without a finding (archives.go:378-379).
* An empty `sums=()` beside an absent .SRCINFO field counts as a mismatch.
* `AtomicWrite` does not sync the parent of a directory it created (`linked` in
  `StableFiles`). When `CancelPending` fails (cli.go:351-357, build.go:784-788) the token
  stays too; after a rescan that failed as well, without a word.
* A proxied plain HTTP request is sent on with a head of the broker's making that no
  counter sees (broker.go:556-563); `passed` in `NetworkPhase` is what was counted.
* A unit that the manager starts after `KillScope` outlives its call even while the
  manager answers: `AwaitScopeExit` kills the client and looks no further
  (scope.go:139-144). No call that returned success has one.

## 6. Plan

The modules were written from the spine outwards - `AuditStore`, `Evaluation` and
`Transaction` with `InstallGate`, then what their steps open up into, then the
foundations - each with its run, and proved in the same order. That is done, and every
safety property of the runs has a theorem. What would come next:

1. `Acquisition!TypeOK`: the disk is the free space and the sum of the store, the lemma
   for which (`TotalSplits`) is there for `WorkspaceMonitor`.
2. A composition of `Containment` with `WorkspaceMonitor`, in which the monitor's
   error and the end of the command race (resource.go:545); today each has the other
   as an open choice.
3. `doctor` and the canaries, which start the same units and providers as a review does:
   what they leave behind is a question of the kind `Containment` asks.

## 7. Not modelled

* Pattern rules on file text, the parsing of URLs, TLS, HTTP and archive headers: pure
  string functions, far from what a model checker adds; they appear as the sets of
  outcomes their callers tell apart.
* Report layout, terminal rendering, progress lines, sanitisation of text, prompts
  and schemas, configuration parsing, diagnostics and canaries, the test corpus
  runner: no decision depends on state they keep.
* Bubblewrap and systemd argument lists: text; what they let a command write is
  the action `Contained` of `Transaction` and what enters a namespace is `joined`
  of `Containment`.
* The surface registry and the tar filter of the gate: in `Transaction` an archive
  has root surfaces or not, and stripping it yields another without.
* Build logs, configuration snapshots, the keyring copy.
* Another program of the same user editing the checkout while an archive is under
  review: `docs/architecture.md` places this outside its single-administrator
  model. (`TreeScan` and `StableFiles` do have such a program, where the code
  undertakes to notice it.)
* Clock steps between report names; file systems whose change time does not tell two
  changes apart (`StableFiles` gives every change its own).

External, modelled from how the code uses it: yay's order of calls and its choice to
build or reuse, makepkg's reading of its options, Bash, `unshare`, the user manager,
the kernel's page cache, UTF-8, the Ollama daemon and the provider programs.

## 8. Running it

```
tlc -workers 2 -config Transaction_handoff.cfg MCTransaction
tlc -workers 2 -config Foundations_foundations.cfg MCFoundations
tlc -workers 2 -config NetworkPhase_consent.cfg MCNetworkPhase
for m in *_proofs.tla; do tlapm $m; done
```

Each cfg `M_run.cfg` goes with the module `MCM`. The largest runs, `approvals`
and `decisions`, have some two million distinct states and take two to three minutes;
the others take seconds to two minutes.
