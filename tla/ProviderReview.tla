--------------------------- MODULE ProviderReview ---------------------------
(***************************************************************************)
(* One AI review per running scan, batch by batch, through the provider    *)
(* worker (internal/audit/review.go, providers.go, ollama.go).             *)
(*                                                                         *)
(* The Ollama daemon is shared by every process of the machine: its tag    *)
(* names one model digest at a time and can be moved by anybody, and it    *)
(* unloads an idle model on its own.  Prolewatch processes take an advisory*)
(* lock around a batch.  A CLI provider is a process group of its own that *)
(* the review must not leave behind.  Deadlines are modelled as a Timeout  *)
(* that may happen at any step of the work it bounds.                      *)
(***************************************************************************)
EXTENDS ReviewBatches, FiniteSets

CONSTANTS
  Scans,        \* the scans that run a review
  LastGate,     \* scans after whose last batch the model is unloaded
  Assignments,  \* per scan, the provider, files, options and reviews it may have
  Targets,      \* findings that guidance is expected for
  Digests,      \* model digests the tag may name
  MaxMoves      \* bound on moves of the tag

ASSUME ReviewConstants ==
  /\ LastGate \subseteq Scans /\ Digests # {} /\ MaxMoves \in Nat
  /\ \A s \in Scans : \A a \in Assignments[s] :
       /\ a.provider \in {"ollama", "cli"} /\ (a.provider = "cli" => a.ceiling = 0)
       /\ a.ceiling \in Nat /\ IsSelection(a.files)
       /\ a.reviews \in Nat \ {0}    \* bound: its own review and those on demand

None == "none"
Doctor == "doctor"
ASSUME NamesDiffer ==
  Doctor \notin Scans /\ None \notin Scans /\ None \notin Digests

VARIABLES
  tag,       \* the digest the configured model name resolves to
  loaded,    \* digests resident in the daemon
  moves,
  lock,      \* holder of the ollama-loopback lock
  pc,        \* where each scan, and the doctor, is
  todo,      \* the batches of a scan that are not reviewed yet
  inv,       \* the assignment of a scan
  attested,  \* the metadata NewAuditService attested
  expected,  \* the metadata the batches must agree on
  meta,      \* the metadata the worker answers with
  desc,      \* the description taken under the lock
  verdicts,  \* verdicts so far: the digest that wrote each and its guidance
  answer,    \* the verdict of the current batch
  err,       \* whether the current review failed
  child,     \* the process group of a CLI provider
  evicted,   \* history: the daemon dropped the model this scan was using
  pipe,      \* whether a helper of the CLI holds the output of the probe under way
  reviews

daemon == <<tag, loaded, moves>>
work == <<todo, inv, attested, expected, meta, desc, verdicts, answer, err, reviews>>
vars == <<daemon, lock, pc, work, child, evicted, pipe>>

NoAnswer == [by |-> None, guidance |-> {}]

AllAssignments == UNION {Assignments[s] : s \in Scans}
Plans == [a \in AllAssignments |-> batchesWithProviderOptions(a.files, a)]

BatchesFor(s) == Plans[inv[s]]
IsCLI(s) == inv[s].provider = "cli"
FirstDigest == CHOOSE d \in Digests : TRUE

Probing == {"idle", "worker", "launch"}

\* What would review for this scan now; a program keeps its version meanwhile.
Reviewing(s) == IF IsCLI(s) THEN FirstDigest ELSE tag

Init ==
  /\ tag = FirstDigest   \* digests are interchangeable
  /\ loaded = {} /\ moves = 0 /\ lock = None
  /\ pc = [s \in Scans \cup {Doctor} |-> "idle"]
  /\ todo = [s \in Scans |-> <<>>]
  /\ inv \in {i \in [Scans -> AllAssignments] : \A s \in Scans : i[s] \in Assignments[s]}
  /\ attested = [s \in Scans |-> None] /\ expected = [s \in Scans |-> None]
  /\ meta = [s \in Scans |-> None] /\ desc = [s \in Scans |-> None]
  /\ verdicts = [s \in Scans |-> <<>>]
  /\ answer = [s \in Scans |-> NoAnswer]
  /\ err = [s \in Scans |-> FALSE]
  /\ child = [s \in Scans |-> "none"]
  /\ evicted = [s \in Scans |-> FALSE]
  /\ reviews = [s \in Scans |-> 0]
  /\ pipe \in {p \in [Scans -> BOOLEAN] : \A s \in Scans : p[s] => IsCLI(s)}

Move(s, next) == pc' = [pc EXCEPT ![s] = next]

\* Where the CLI is asked for its version or its features, a program it started may
\* keep the pipe of its output.
MoveOn(s, next) ==
  /\ Move(s, next)
  /\ \E held \in BOOLEAN :
       /\ held => IsCLI(s) /\ next \in Probing
       /\ pipe' = [pipe EXCEPT ![s] = held]

----------------------------------------------------------------------------
(* The daemon and whoever else uses it.                                    *)

MoveTag ==
  /\ moves < MaxMoves /\ moves' = moves + 1
  /\ \E d \in Digests \ {tag} : tag' = d
  /\ UNCHANGED <<loaded, lock, pc, work, child, evicted, pipe>>

\* keep_alive runs out, or another client needs the memory.
Expire ==
  /\ \E d \in loaded :
       /\ loaded' = loaded \ {d}
       /\ evicted' = [s \in Scans |-> evicted[s] \/ (pc[s] = "resident" /\ answer[s].by = d)]
  /\ UNCHANGED <<tag, moves, lock, pc, work, child, pipe>>

\* doctor --probe-llm-quality unloads the model between its cases.
DoctorLocks ==
  /\ pc[Doctor] = "idle" /\ lock = None
  /\ lock' = Doctor /\ Move(Doctor, "unload")
  /\ UNCHANGED <<daemon, work, child, evicted, pipe>>

DoctorResets ==
  /\ pc[Doctor] = "unload"
  /\ loaded' = loaded \ {tag} /\ lock' = None /\ Move(Doctor, "idle")
  /\ UNCHANGED <<tag, moves, work, child, evicted, pipe>>

----------------------------------------------------------------------------
(* Reviewer.Review.                                                        *)

\* The helper of a probe ends: its pipe is closed, and Run returns.  Killing the
\* program at the ceiling of 15 seconds does not close it.
HelperExits(s) ==
  /\ pipe[s] /\ pipe' = [pipe EXCEPT ![s] = FALSE]
  /\ UNCHANGED <<daemon, lock, pc, work, child, evicted>>

\* NewAuditService probes once; the attestation on file is for what it saw.  Where the
\* probe fails, the run has no AI review.
Probe(s) ==
  /\ pc[s] = "idle" /\ attested[s] = None /\ ~pipe[s]
  /\ \/ attested' = [attested EXCEPT ![s] = Reviewing(s)] /\ UNCHANGED pc
     \/ Move(s, "refused") /\ UNCHANGED attested
  /\ UNCHANGED <<daemon, lock, todo, inv, expected, meta, desc, verdicts, answer,
                 err, reviews, child, evicted, pipe>>

\* The daemon is probed once more before the batches are cut, and may not answer.
BeginReview(s) ==
  /\ pc[s] = "idle" /\ attested[s] # None /\ reviews[s] < inv[s].reviews
  /\ reviews' = [reviews EXCEPT ![s] = @ + 1]
  /\ expected' = [expected EXCEPT ![s] = IF IsCLI(s) THEN None ELSE tag]
  /\ todo' = [todo EXCEPT ![s] = BatchesFor(s).batches]
  /\ verdicts' = [verdicts EXCEPT ![s] = <<>>]
  /\ \/ /\ BatchesFor(s).error = ""
        /\ err' = [err EXCEPT ![s] = FALSE] /\ MoveOn(s, "worker")
     \/ /\ ~IsCLI(s) \/ BatchesFor(s).error # ""
        /\ err' = [err EXCEPT ![s] = TRUE] /\ MoveOn(s, "done")
  /\ UNCHANGED <<daemon, lock, inv, attested, meta, desc, answer, child, evicted>>

\* runProviderWorker asks the adapter for its metadata before the review, or fails.
WorkerMetadata(s) ==
  /\ pc[s] = "worker" /\ ~pipe[s]
  /\ \/ /\ meta' = [meta EXCEPT ![s] = Reviewing(s)]
        /\ MoveOn(s, IF IsCLI(s) THEN "launch" ELSE "lock")
        /\ UNCHANGED err
     \/ /\ err' = [err EXCEPT ![s] = TRUE] /\ MoveOn(s, "done")
        /\ UNCHANGED meta
  /\ UNCHANGED <<daemon, lock, todo, inv, attested, expected, desc, verdicts, answer,
                 reviews, child, evicted>>

\* Mutant of AcquireLock: the batch goes on without the lock.
AcquireNothing(s) ==
  /\ pc[s] = "lock" /\ Move(s, "describe")
  /\ UNCHANGED <<daemon, lock, work, child, evicted, pipe>>

AcquireLock(s) ==
  /\ pc[s] = "lock" /\ lock = None
  /\ lock' = s /\ Move(s, "describe")
  /\ UNCHANGED <<daemon, work, child, evicted, pipe>>

\* The request is built again under the lock and held against the ceiling.
Describe(s) ==
  /\ pc[s] = "describe"
  /\ desc' = [desc EXCEPT ![s] = tag]
  /\ evicted' = [evicted EXCEPT ![s] = FALSE]
  /\ IF Fits(Head(todo[s]), inv[s])
     THEN Move(s, "chat") /\ UNCHANGED err
     ELSE Move(s, "unlock") /\ err' = [err EXCEPT ![s] = TRUE]
  /\ UNCHANGED <<daemon, lock, todo, inv, attested, expected, meta, verdicts, answer,
                 reviews, child, pipe>>

\* The daemon answers with the model its tag names now.
Chat(s) ==
  /\ pc[s] = "chat"
  /\ loaded' = loaded \cup {tag}
  /\ \E g \in SUBSET Targets :
       answer' = [answer EXCEPT ![s] = [by |-> Reviewing(s), guidance |-> g]]
  /\ Move(s, "resident")
  /\ UNCHANGED <<tag, moves, lock, todo, inv, attested, expected, meta, desc, verdicts,
                 err, reviews, child, evicted, pipe>>

verifyLoadedModel(s) ==
  /\ pc[s] = "resident"
  /\ Move(s, IF desc[s] \in loaded THEN "confirm" ELSE "unload")
  /\ err' = [err EXCEPT ![s] = desc[s] \notin loaded]
  /\ UNCHANGED <<daemon, lock, todo, inv, attested, expected, meta, desc, verdicts,
                 answer, reviews, child, evicted, pipe>>

DescribeAgain(s) ==
  /\ pc[s] = "confirm" /\ Move(s, "unload")
  /\ err' = [err EXCEPT ![s] = desc[s] # tag]
  /\ UNCHANGED <<daemon, lock, todo, inv, attested, expected, meta, desc, verdicts,
                 answer, reviews, child, evicted, pipe>>

\* The deferred unload of the last batch of the last gate; it may fail, and a
\* failed unload fails the review.
Unload(s) ==
  /\ pc[s] = "unload" /\ Move(s, "unlock")
  /\ IF s \in LastGate /\ Len(todo[s]) = 1
     THEN \E done \in BOOLEAN :
            /\ loaded' = IF done THEN loaded \ {tag} ELSE loaded
            /\ err' = [err EXCEPT ![s] = @ \/ ~done]
     ELSE UNCHANGED <<loaded, err>>
  /\ UNCHANGED <<tag, moves, lock, todo, inv, attested, expected, meta, desc, verdicts,
                 answer, reviews, child, evicted, pipe>>

Unlock(s) ==
  /\ pc[s] = "unlock" /\ lock' = (IF lock = s THEN None ELSE lock)
  /\ Move(s, IF err[s] THEN "done" ELSE "judge")
  /\ UNCHANGED <<daemon, work, child, evicted, pipe>>

\* Mutant of Judge: the guidance of a batch is not held against its targets.
JudgeUnguided(s) ==
  /\ pc[s] = "judge"
  /\ expected' = [expected EXCEPT ![s] = IF @ = None THEN meta[s] ELSE @]
  /\ IF expected[s] \in {None, meta[s]}
     THEN /\ verdicts' = [verdicts EXCEPT ![s] = Append(@, answer[s])]
          /\ todo' = [todo EXCEPT ![s] = Tail(@)]
          /\ MoveOn(s, IF Len(todo[s]) = 1 THEN "done" ELSE "worker")
          /\ UNCHANGED err
     ELSE /\ err' = [err EXCEPT ![s] = TRUE] /\ MoveOn(s, "done")
          /\ UNCHANGED <<verdicts, todo>>
  /\ UNCHANGED <<daemon, lock, inv, attested, meta, desc, answer, reviews, child, evicted>>

\* What the reviewer requires of every batch: the metadata of the others, and
\* guidance for every target.
Judge(s) ==
  /\ pc[s] = "judge"
  /\ expected' = [expected EXCEPT ![s] = IF @ = None THEN meta[s] ELSE @]
  /\ IF expected[s] \in {None, meta[s]} /\ answer[s].guidance = Targets
     THEN /\ verdicts' = [verdicts EXCEPT ![s] = Append(@, answer[s])]
          /\ todo' = [todo EXCEPT ![s] = Tail(@)]
          /\ MoveOn(s, IF Len(todo[s]) = 1 THEN "done" ELSE "worker")
          /\ UNCHANGED err
     ELSE /\ err' = [err EXCEPT ![s] = TRUE] /\ MoveOn(s, "done")
          /\ UNCHANGED <<verdicts, todo>>
  /\ UNCHANGED <<daemon, lock, inv, attested, meta, desc, answer, reviews, child, evicted>>

\* evaluate: the verdicts count only under the metadata that was attested.  What
\* the review kept while it ran is gone when it returns.
Finish(s) ==
  /\ pc[s] = "done"
  /\ Move(s, IF ~err[s] /\ expected[s] = attested[s] THEN "accepted" ELSE "refused")
  /\ todo' = [todo EXCEPT ![s] = <<>>]
  /\ expected' = [expected EXCEPT ![s] = None]
  /\ meta' = [meta EXCEPT ![s] = None]
  /\ desc' = [desc EXCEPT ![s] = None]
  /\ answer' = [answer EXCEPT ![s] = NoAnswer]
  /\ evicted' = [evicted EXCEPT ![s] = FALSE]
  /\ UNCHANGED <<daemon, lock, inv, attested, verdicts, err, reviews, child, pipe>>

\* [r] at the question runs the review once more in the same process.
Again(s) ==
  /\ pc[s] \in {"accepted", "refused"} /\ attested[s] # None
  /\ reviews[s] < inv[s].reviews
  /\ Move(s, "idle")
  /\ UNCHANGED <<daemon, lock, work, child, evicted, pipe>>

\* Mutant of Timeout: the lock is waited for in one blocking call.
TimeoutNotForTheLock(s) ==
  /\ pc[s] \in {"describe", "chat", "resident", "confirm"}
  /\ err' = [err EXCEPT ![s] = TRUE]
  /\ \/ Move(s, "unlock")
     \/ pc[s] # "describe" /\ Move(s, "unload")
  /\ UNCHANGED <<daemon, lock, todo, inv, attested, expected, meta, desc, verdicts,
                 answer, reviews, child, evicted, pipe>>

\* providers.ollama.timeout_seconds, an answer the checks of the adapter refuse, or
\* the user's interrupt, which also skips the unload.
Timeout(s) ==
  /\ pc[s] \in {"lock", "describe", "chat", "resident", "confirm"}
  /\ err' = [err EXCEPT ![s] = TRUE]
  /\ \/ Move(s, IF pc[s] = "lock" THEN "done" ELSE "unlock")
     \/ pc[s] \notin {"lock", "describe"} /\ Move(s, "unload")
  /\ UNCHANGED <<daemon, lock, todo, inv, attested, expected, meta, desc, verdicts,
                 answer, reviews, child, evicted, pipe>>

----------------------------------------------------------------------------
(* runProcessGroup: a CLI provider in its own process group.               *)

\* The adapter probes version and features again and needs its credentials, its
\* prompt and its schema before the program is started; each may fail.
Launch(s) ==
  /\ pc[s] = "launch" /\ ~pipe[s]
  /\ \/ /\ child' = [child EXCEPT ![s] = "running"] /\ Move(s, "wait")
        /\ UNCHANGED err
     \/ /\ err' = [err EXCEPT ![s] = TRUE] /\ Move(s, "done")
        /\ UNCHANGED child
  /\ UNCHANGED <<daemon, lock, todo, inv, attested, expected, meta, desc, verdicts,
                 answer, reviews, evicted, pipe>>

\* The program ends by itself, with a verdict or without; after SIGTERM it may
\* also hold on until it is killed.
ChildExits(s) ==
  /\ child[s] \in {"running", "terminating"}
  /\ child' = [child EXCEPT ![s] = "dead"]
  /\ \E g \in SUBSET Targets :
       answer' = [answer EXCEPT ![s] = [by |-> Reviewing(s), guidance |-> g]]
  /\ UNCHANGED <<daemon, lock, pc, todo, inv, attested, expected, meta, desc, verdicts,
                 err, reviews, evicted, pipe>>

Terminate(s) ==
  /\ pc[s] = "wait" /\ child[s] # "none"
  /\ child' = [child EXCEPT ![s] = IF @ = "running" THEN "terminating" ELSE @]
  /\ err' = [err EXCEPT ![s] = TRUE]
  /\ Move(s, "grace")
  /\ UNCHANGED <<daemon, lock, todo, inv, attested, expected, meta, desc, verdicts,
                 answer, reviews, evicted, pipe>>

\* Mutant of KillGroup: the grace period ends without SIGKILL.
KillNothing(s) ==
  /\ pc[s] = "grace" /\ child[s] # "dead"
  /\ Move(s, "done")
  /\ UNCHANGED <<daemon, lock, work, child, evicted, pipe>>

KillGroup(s) ==
  /\ pc[s] = "grace" /\ child[s] # "dead"
  /\ child' = [child EXCEPT ![s] = "dead"]
  /\ UNCHANGED <<daemon, lock, pc, work, evicted, pipe>>

Reap(s) ==
  /\ pc[s] \in {"wait", "grace"} /\ child[s] = "dead"
  /\ Move(s, IF pc[s] = "grace" THEN "done" ELSE "judge")
  /\ UNCHANGED <<daemon, lock, work, child, evicted, pipe>>

----------------------------------------------------------------------------
Step(s) ==
  \/ Probe(s) \/ BeginReview(s) \/ WorkerMetadata(s) \/ AcquireLock(s) \/ Describe(s)
  \/ Chat(s) \/ verifyLoadedModel(s) \/ DescribeAgain(s) \/ Unload(s) \/ Unlock(s)
  \/ Judge(s) \/ Finish(s) \/ Again(s) \/ Launch(s) \/ KillGroup(s) \/ Reap(s)

Next ==
  \/ MoveTag \/ Expire \/ DoctorLocks \/ DoctorResets
  \/ \E s \in Scans : Step(s) \/ Timeout(s) \/ ChildExits(s) \/ Terminate(s) \/ HelperExits(s)

\* The deadline of a batch fires although the daemon never answers and the lock
\* is never free; steps that only compute happen, and a probe whose output no helper
\* holds ends at its ceiling.  Nothing is assumed of the daemon, of the program that
\* reviews, of the helpers of a probe, or of whoever holds the lock.
Deadlines(s) == Timeout(s) \/ Terminate(s) \/ KillGroup(s)
Internal(s) ==
  \/ Probe(s) \/ BeginReview(s) \/ WorkerMetadata(s) \/ Unload(s) \/ Unlock(s)
  \/ Judge(s) \/ Finish(s) \/ Again(s) \/ Launch(s) \/ Reap(s)

Spec == Init /\ [][Next]_vars
          /\ \A s \in Scans : WF_vars(Deadlines(s)) /\ WF_vars(Internal(s))

----------------------------------------------------------------------------
PCs == {"idle", "worker", "lock", "describe", "chat", "resident", "confirm", "unload",
        "unlock", "judge", "done", "accepted", "refused", "launch", "wait", "grace"}

TypeOK ==
  /\ tag \in Digests /\ loaded \subseteq Digests /\ moves \in 0 .. MaxMoves
  /\ lock \in Scans \cup {Doctor, None}
  /\ pc \in [Scans \cup {Doctor} -> PCs]
  /\ \A s \in Scans :
       /\ {attested[s], expected[s], meta[s], desc[s], answer[s].by} \subseteq Digests \cup {None}
       /\ Len(verdicts[s]) + Len(todo[s]) <= Len(BatchesFor(s).batches)
       /\ child[s] \in {"none", "running", "terminating", "dead"}
       /\ reviews[s] \in 0 .. inv[s].reviews
  /\ pipe \in [Scans -> BOOLEAN]

\* A review that counts is whole: every batch of the inventory has exactly one
\* verdict, each with guidance for every target, however often the review was
\* interrupted, timed out or run again on demand (Reviewer.Review, evaluate).
AcceptedReviewsAreWhole ==
  \A s \in Scans :
    pc[s] = "accepted" =>
      /\ Len(verdicts[s]) = Len(BatchesFor(s).batches) /\ verdicts[s] # <<>>
      /\ \A i \in DOMAIN verdicts[s] : verdicts[s][i].guidance = Targets

\* Between the answer of the daemon and the look at what it has loaded, only the
\* daemon itself can drop the model: no other Prolewatch process unloads it
\* (acquireOllamaLock, resetModel).
NobodyElseUnloads ==
  \A s \in Scans :
    pc[s] = "resident" => answer[s].by \in loaded \/ evicted[s] \/ answer[s].by # tag

\* No provider program survives the review that started it (runProcessGroup).
NoProviderOutlivesItsReview ==
  \A s \in Scans : pc[s] \in {"judge", "done", "accepted", "refused"} =>
                   child[s] \in {"none", "dead"}

\* A daemon that never answers, a program that ignores SIGTERM, or a lock that is never
\* free costs the AI section and no more: every review returns.  One thing alone keeps
\* it for ever, a helper that holds the output of a version or feature probe (review,
\* acquireOllamaLock, runProcessGroup; commandVersion, codexFeatures).
EveryReviewReturns ==
  \A s \in Scans : <>[](pc[s] \in {"accepted", "refused"}) \/ <>[](pipe[s] /\ pc[s] \in Probing)

\* "Metadata probes get a fixed 15-second ceiling independent of the longer AI review
\* timeout; a hung --version must fail fast before consuming a worker"
\* (commandVersion).
ProbesAreBounded == \A s \in Scans : pc[s] = "worker" ~> pc[s] # "worker"

\* The verdicts that count were written by the model that was attested and that
\* the report names; "Batch boundaries cannot change which provider
\* implementation or file namespace made the decision" (review.go).
VerdictsComeFromTheAttestedModel ==
  \A s \in Scans :
    pc[s] = "accepted" => \A i \in DOMAIN verdicts[s] : verdicts[s][i].by = attested[s]

----------------------------------------------------------------------------
(* The inductive invariant behind the safety properties.                   *)

Locked == {"describe", "chat", "resident", "confirm", "unload", "unlock"}
Loopback == Locked \cup {"lock"}
Program == {"launch", "wait", "grace"}
Working == Loopback \cup Program \cup {"worker", "judge"}

Batches(s) == BatchesFor(s).batches
Verdicts == [by : Digests \cup {None}, guidance : SUBSET Targets]

Shapes ==
  /\ {DOMAIN attested, DOMAIN expected, DOMAIN meta, DOMAIN desc, DOMAIN answer, DOMAIN todo,
      DOMAIN verdicts, DOMAIN err, DOMAIN child, DOMAIN evicted, DOMAIN reviews} = {Scans}
  /\ \A s \in Scans : inv[s] \in Assignments[s] /\ answer[s] \in Verdicts

\* The lock has one holder, and a scan works with the daemon while it is that one.
LockIsHeld ==
  /\ \A s \in Scans : pc[s] \in Locked => lock = s
  /\ pc[Doctor] = "unload" => lock = Doctor

\* A scan either talks to the daemon or waits for a program.
ProvidersDiffer ==
  \A s \in Scans : (pc[s] \in Loopback => ~IsCLI(s)) /\ (pc[s] \in Program => IsCLI(s))

ModelIsResident ==
  \A s \in Scans : pc[s] = "resident" => answer[s].by \in loaded \/ evicted[s]

ChildIsWaitedFor ==
  \A s \in Scans : child[s] \in {"running", "terminating"} => pc[s] \in {"wait", "grace"}

\* While a review works, every batch has its verdict or is still to do.
AddUp(s) ==
  /\ verdicts[s] \in Seq(Verdicts) /\ todo[s] \in Seq(ToSet(Batches(s)))
  /\ \A i \in DOMAIN verdicts[s] : verdicts[s][i].guidance = Targets
  /\ pc[s] \in Working =>
       /\ BatchesFor(s).error = "" /\ todo[s] # <<>>
       /\ Len(verdicts[s]) + Len(todo[s]) = Len(Batches(s))
  /\ pc[s] = "grace" => err[s]
  /\ (pc[s] = "done" /\ ~err[s]) \/ pc[s] = "accepted" =>
       verdicts[s] # <<>> /\ Len(verdicts[s]) = Len(Batches(s))

BatchesAddUp == \A s \in Scans : AddUp(s)

IInv ==
  /\ TypeOK /\ Shapes /\ LockIsHeld /\ ProvidersDiffer /\ ModelIsResident
  /\ ChildIsWaitedFor /\ BatchesAddUp
=============================================================================
