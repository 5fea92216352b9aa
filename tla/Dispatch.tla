------------------------------ MODULE Dispatch ------------------------------
(***************************************************************************)
(* One request of the audit to the provider worker and its answer          *)
(* (Reviewer.dispatch, runProviderWorker, the Metadata and Review of the   *)
(* adapters in internal/audit).  The audit holds the configuration it      *)
(* started with; the worker loads the installed one for every request, asks*)
(* the installed program or the daemon what it is, asks again before it    *)
(* reviews, and only then runs it.  Configuration, program and the model   *)
(* behind an Ollama tag may be exchanged between any two of these.         *)
(***************************************************************************)
EXTENDS Integers, Sequences, FiniteSets

CONSTANTS
  Configs,     \* configurations: [mode, provider, model, reasoning]; for a CLI, a
               \* model stands for the model and the effort
  Programs,    \* what may be installed as the CLI: [version, features], the version
               \* below, within or above the checked ones, the features named by their
               \* lifecycle
  Models,      \* what a tag may name: [id, thinking, context, remote]
  MaxChanges,  \* bound on exchanges of the program and of the configuration
  MaxTagMoves

ASSUME DispatchConstants ==
  /\ MaxChanges \in Nat /\ MaxTagMoves \in Nat
  /\ \A c \in Configs : c.mode \in {"ai", "off"} /\ c.provider \in {"codex", "anthropic", "ollama"}
  /\ Programs \subseteq [version : {"below", "within", "above"}, features : SUBSET STRING]
  \* An id is the digest of the model.
  /\ \A m, n \in Models : m.id = n.id => m = n

VARIABLES
  installed, program, tag,  \* the configuration, the CLI and the model there are
  changes, tagMoves,
  mine,      \* the configuration of the audit
  private,   \* the credential is a file nobody else can read
  request,   \* [operation, snapshot], the last "none", "good" or "bad"
  worker,    \* the configuration the worker loaded
  place,     \* where the request is, or how it ended
  again,     \* the adapter describes itself again, before a review
  listed, shown,   \* the model of the first list, and the one that was shown
  metadata, disabled, verdict,
  ran,       \* history: the program that reviewed
  exchanged, \* history: a program was exchanged since the worker began
  twice      \* history: the tag moved more than once during a description

dispatchVars == <<installed, program, tag, changes, tagMoves, mine, private, request, worker,
                  place, again, listed, shown, metadata, disabled, verdict, ran, exchanged, twice>>

NoRequest == [operation |-> "none", snapshot |-> "none"]
NoMetadata == [provider |-> "", model |-> "", effort |-> "", digest |-> "", version |-> "",
               thinking |-> FALSE, features |-> 0]
NoModel == [id |-> "", thinking |-> FALSE, context |-> FALSE, remote |-> FALSE]
NoProgram == [version |-> "", features |-> {}]
CLI(c) == c.provider # "ollama"

\* What dispatch leaves when it returns.
Ended(how) ==
  /\ place' = how /\ worker' = mine /\ again' = FALSE /\ listed' = NoModel /\ shown' = NoModel
  /\ disabled' = {}

DispatchInit ==
  /\ installed \in {c \in Configs : c.mode = "ai"} /\ mine = installed /\ worker = mine
  /\ program \in Programs /\ tag \in Models
  /\ changes = 0 /\ tagMoves = 0 /\ private \in BOOLEAN
  /\ request = NoRequest /\ place = "start" /\ again = FALSE
  /\ listed = NoModel /\ shown = NoModel /\ metadata = NoMetadata /\ disabled = {}
  /\ verdict = "none" /\ ran = NoProgram /\ exchanged = FALSE /\ twice = 0

----------------------------------------------------------------------------
(* What others do meanwhile.                                               *)

Reconfigure ==
  /\ changes < MaxChanges /\ changes' = changes + 1 /\ installed' \in Configs \ {installed}
  /\ UNCHANGED <<program, tag, tagMoves, mine, private, request, worker, place, again, listed,
                 shown, metadata, disabled, verdict, ran, exchanged, twice>>

Exchange ==
  /\ changes < MaxChanges /\ changes' = changes + 1 /\ program' \in Programs \ {program}
  /\ exchanged' = (exchanged \/ place \notin {"start", "accepted", "refused"})
  /\ UNCHANGED <<installed, tag, tagMoves, mine, private, request, worker, place, again, listed,
                 shown, metadata, disabled, verdict, ran, twice>>

PullTag ==
  /\ tagMoves < MaxTagMoves /\ tagMoves' = tagMoves + 1 /\ tag' \in Models \ {tag}
  /\ twice' = IF place \in {"show", "confirm"} THEN twice + 1 ELSE twice
  /\ UNCHANGED <<installed, program, changes, mine, private, request, worker, place, again,
                 listed, shown, metadata, disabled, verdict, ran, exchanged>>

others == <<installed, program, tag, changes, tagMoves, mine, private, exchanged>>

----------------------------------------------------------------------------
(* DispatchRequest.Validate, and what the worker does with a request.      *)

ValidRequest(r) ==
  \/ r.operation \in {"probe", "canary"} /\ r.snapshot = "none"
  \/ r.operation \in {"review", "diagnose-review"} /\ r.snapshot = "good"

\* The payload may also be larger than the limit.
SendRequest(r) ==
  /\ place = "start" /\ request' = r
  /\ \/ ValidRequest(r) /\ place' = "worker"
     \/ place' = "refused"
  /\ UNCHANGED <<others, worker, again, listed, shown, metadata, disabled, verdict, ran, twice>>

\* The configuration is loaded, its mode and its own limit are checked, and then
\* the credential of its provider.
StartWorker ==
  /\ place = "worker"
  /\ \/ /\ installed.mode = "ai" /\ (CLI(installed) => private)
        /\ worker' = installed /\ place' = (IF CLI(installed) THEN "version" ELSE "list")
        /\ UNCHANGED <<again, listed, shown, disabled>>
     \/ Ended("refused")
  /\ UNCHANGED <<others, request, metadata, verdict, ran, twice>>

\* The second description is made to be refused if need be; its outcome is not kept.
Described(m) ==
  /\ metadata' = IF again THEN metadata ELSE m
  /\ place' = IF again THEN "launch" ELSE "operate"

Accepts(provider, version) ==
  version = "within" \/ (version = "above" /\ provider = "codex")

CheckVersion ==
  /\ place = "version" /\ Accepts(worker.provider, program.version)
  /\ LET m == [NoMetadata EXCEPT !.provider = worker.provider, !.model = worker.model,
                                 !.effort = worker.model, !.version = program.version] IN
     IF worker.provider = "codex"
     THEN /\ place' = "features" /\ metadata' = IF again THEN metadata ELSE m
     ELSE Described(m)
  /\ UNCHANGED <<others, request, worker, again, listed, shown, disabled, verdict, ran, twice>>

\* Every feature the program lists is to be disabled, except one on its way out.
Disableable == program.features \ {"deprecated", "removed"}

EnumerateFeatures ==
  /\ place = "features" /\ Disableable # {}
  /\ metadata' = IF again THEN metadata ELSE [metadata EXCEPT !.features = Cardinality(Disableable)]
  /\ place' = IF again THEN "disable" ELSE "operate"
  /\ UNCHANGED <<others, request, worker, again, listed, shown, disabled, verdict, ran, twice>>

\* A review asks for them once more, to disable them.
DisableFeatures ==
  /\ place = "disable" /\ Disableable # {}
  /\ disabled' = Disableable /\ place' = "launch"
  /\ UNCHANGED <<others, request, worker, again, listed, shown, metadata, verdict, ran, twice>>

----------------------------------------------------------------------------
(* ollamaAdapter.describe.                                                 *)

ListModel ==
  /\ place = "list" /\ ~tag.remote
  /\ listed' = tag /\ twice' = 0 /\ place' = "show"
  /\ UNCHANGED <<others, request, worker, again, shown, metadata, disabled, verdict, ran>>

ShowModel ==
  /\ place = "show" /\ ~tag.remote /\ tag.context
  /\ shown' = tag /\ place' = "confirm"
  /\ UNCHANGED <<others, request, worker, again, listed, metadata, disabled, verdict, ran, twice>>

ollamaReasoningLevel(configured, thinking) ==
  IF configured = "auto" THEN IF thinking THEN "on" ELSE "off" ELSE configured
Reasons(configured, thinking) == configured \in {"auto", "off"} \/ thinking

\* Mutant of ConfirmModel: the list is not read again.
ConfirmModel_trusting ==
  /\ place = "confirm" /\ Reasons(worker.reasoning, shown.thinking)
  /\ Described([NoMetadata EXCEPT
       !.provider = "ollama", !.model = worker.model, !.digest = listed.id,
       !.thinking = shown.thinking,
       !.effort = ollamaReasoningLevel(worker.reasoning, shown.thinking)])
  /\ UNCHANGED <<others, request, worker, again, listed, shown, disabled, verdict, ran, twice>>

ConfirmModel ==
  /\ place = "confirm" /\ tag.id = listed.id /\ Reasons(worker.reasoning, shown.thinking)
  /\ Described([NoMetadata EXCEPT
       !.provider = "ollama", !.model = worker.model, !.digest = listed.id,
       !.thinking = shown.thinking,
       !.effort = ollamaReasoningLevel(worker.reasoning, shown.thinking)])
  /\ UNCHANGED <<others, request, worker, again, listed, shown, disabled, verdict, ran, twice>>

----------------------------------------------------------------------------
(* The operation, and the answer.                                          *)

\* A canary is for a sandbox, a diagnosis for Ollama.
Operate ==
  /\ place = "operate"
  /\ request.operation = "canary" => CLI(worker)
  /\ request.operation = "diagnose-review" => ~CLI(worker)
  /\ IF request.operation = "review"
     THEN again' = TRUE /\ place' = (IF CLI(worker) THEN "version" ELSE "launch")
     ELSE again' = again /\ place' = "answer"
  /\ verdict' \in IF request.operation = "diagnose-review" THEN {"none", "valid"} ELSE {verdict}
  /\ UNCHANGED <<others, request, worker, listed, shown, metadata, disabled, ran, twice>>

\* Mutant of RunProgram: the features are left as the program has them.
RunProgram_featured ==
  /\ place = "launch" /\ place' = "answer"
  /\ ran' = IF CLI(worker) THEN program ELSE NoProgram
  /\ verdict' = "valid"
  /\ UNCHANGED <<others, request, worker, again, listed, shown, metadata, disabled, twice>>

\* The program reviews with what is disabled, and what it prints is a verdict.  What
\* Ollama does is in ProviderReview.
RunProgram ==
  /\ place = "launch" /\ place' = "answer"
  /\ ran' = IF CLI(worker) THEN [program EXCEPT !.features = @ \ disabled] ELSE NoProgram
  /\ verdict' = "valid"
  /\ UNCHANGED <<others, request, worker, again, listed, shown, metadata, disabled, twice>>

\* A check refuses, a probe or a program fails, prints what is no verdict or is out
\* of time, or the deadline of the request is over.
WorkerFails ==
  /\ place \in {"version", "features", "disable", "list", "show", "confirm", "operate",
               "launch", "answer"}
  /\ Ended("refused")
  /\ UNCHANGED <<others, request, metadata, verdict, ran, twice>>

\* DispatchResponse.Validate.
ValidResponse ==
  /\ request.operation = "review" => verdict = "valid"
  /\ request.operation = "diagnose-review" => metadata.provider = "ollama"
  /\ request.operation \in {"probe", "canary"} => verdict = "none"

\* Mutant of ReceiveAnswer: the answer is not held against the configuration.
ReceiveAnswer_unmatched ==
  /\ place = "answer"
  /\ Ended(IF ValidResponse THEN "accepted" ELSE "refused")
  /\ UNCHANGED <<others, request, metadata, verdict, ran, twice>>

ReceiveAnswer ==
  /\ place = "answer"
  /\ Ended(IF /\ ValidResponse
              /\ metadata.provider = mine.provider /\ metadata.model = mine.model
              /\ metadata.effort = IF CLI(mine) THEN mine.model
                                   ELSE ollamaReasoningLevel(mine.reasoning, metadata.thinking)
           THEN "accepted" ELSE "refused")
  /\ UNCHANGED <<others, request, metadata, verdict, ran, twice>>

DispatchNext ==
  \/ Reconfigure \/ Exchange \/ PullTag
  \/ \E o \in {"probe", "canary", "review", "diagnose-review", "other"},
        s \in {"none", "good", "bad"} : SendRequest([operation |-> o, snapshot |-> s])
  \/ StartWorker \/ CheckVersion \/ EnumerateFeatures \/ DisableFeatures
  \/ ListModel \/ ShowModel \/ ConfirmModel
  \/ Operate \/ RunProgram \/ WorkerFails \/ ReceiveAnswer

----------------------------------------------------------------------------
\* An answer that is used was given under the configuration the audit holds,
\* whatever is installed by then; a review was by a program no older than the
\* metadata say, with nothing enabled that could be disabled, unless the program was
\* exchanged under the worker; and what the metadata say of an Ollama model is true
\* of the model they name, unless its tag went away and came back in one description
\* (dispatch, codexAdapter.Review, ollamaAdapter.describe).
AnswersAreAsConfigured ==
  place = "accepted" =>
    /\ metadata.provider = mine.provider /\ metadata.model = mine.model
    /\ ~CLI(mine) => metadata.effort = ollamaReasoningLevel(mine.reasoning, metadata.thinking)
    /\ (request.operation = "review" /\ CLI(mine) /\ ~exchanged) =>
         /\ ran.version = metadata.version /\ Accepts(mine.provider, ran.version)
         /\ mine.provider = "codex" => ran.features \subseteq {"deprecated", "removed"}
    /\ (~CLI(mine) /\ twice < 2) =>
         \A m \in Models : m.id = metadata.digest => m.thinking = metadata.thinking /\ ~m.remote

----------------------------------------------------------------------------
(* What is inductive: how far the worker is says which description it has  *)
(* made, and while no program was exchanged the description is of the      *)
(* program there is.                                                       *)

\* The places after the first description; a codex description ends after the features.
Describes == place \in {"features", "operate", "launch", "answer"} \/ again

WorkerRoutes ==
  /\ place = "version" => CLI(worker)
  /\ place \in {"features", "disable"} => worker.provider = "codex"
  /\ place = "disable" => again
  /\ place \in {"list", "show", "confirm"} => ~CLI(worker) /\ again = FALSE
  /\ place \in {"start", "worker"} => again = FALSE
  /\ place = "launch" \/ again => request.operation = "review"

ProgramIsDescribed ==
  /\ Describes /\ place \notin {"accepted", "refused"} =>
       /\ metadata.provider = worker.provider
       /\ CLI(worker) /\ ~exchanged =>
            metadata.version = program.version /\ Accepts(worker.provider, program.version)
  /\ place = "launch" /\ worker.provider = "codex" /\ ~exchanged => disabled = Disableable
  /\ place = "answer" /\ request.operation = "review" /\ CLI(worker) /\ ~exchanged =>
       /\ ran.version = metadata.version /\ Accepts(worker.provider, ran.version)
       /\ worker.provider = "codex" => ran.features \subseteq {"deprecated", "removed"}

\* The tag is the model that was listed until it moves, and another after one move.
ModelIsDescribed ==
  /\ place \in {"show", "confirm"} =>
       /\ listed \in Models /\ ~listed.remote
       /\ twice = 0 => tag = listed /\ (place = "confirm" => shown = listed)
       /\ twice = 1 => tag # listed
  /\ place \in {"operate", "launch", "answer"} /\ ~CLI(worker) /\ twice < 2 =>
       \A m \in Models : m.id = metadata.digest => m.thinking = metadata.thinking /\ ~m.remote

DispatchInv ==
  /\ mine \in Configs /\ worker \in Configs /\ installed \in Configs
  /\ program \in Programs /\ tag \in Models /\ twice \in Nat /\ again \in BOOLEAN
  /\ DOMAIN metadata = DOMAIN NoMetadata
  /\ WorkerRoutes /\ ProgramIsDescribed /\ ModelIsDescribed /\ AnswersAreAsConfigured
=============================================================================
