---------------------------- MODULE Foundations ----------------------------
(***************************************************************************)
(* The machines below the audit that share no state while they run: the    *)
(* inventory of a tree (TreeScan), the static reading of a recipe          *)
(* (RecipeChecksums), the ids of a namespace (SubordinateIds), the limits  *)
(* and the transcript of a command (ResourceLimits), the files of the      *)
(* audit state (StableFiles), the judgement of a stream as text            *)
(* (ContentStream), a request to the provider (Dispatch), the batches of a *)
(* review (ReviewBatches) and a command line of yay (Invocations).  A      *)
(* behaviour is one run of one of them; the variables of the others keep   *)
(* their first value.                                                      *)
(***************************************************************************)
EXTENDS TreeScan, RecipeChecksums, SubordinateIds, ResourceLimits, StableFiles,
        ContentStream, Dispatch, ReviewBatches, Invocations

CONSTANTS
  Inventories,   \* the selected texts batches are made of
  Options,       \* the ceilings and expansions of a provider
  CommandLines,  \* what yay may call makepkg with
  Reports        \* what the report of the marker may say, see Invocations

ASSUME FoundationConstants ==
  /\ CommandLines \subseteq Seq(STRING)
  /\ \A files \in Inventories : IsSelection(files)
  /\ \A o \in Options : o.ceiling \in Nat

VARIABLES
  part,     \* the machine that runs
  selected, \* the texts a review is to send
  options,
  command   \* a command line, and the report it finds

vars == <<part, selected, options, command, scanVars, recipeVars, idsVars, limitVars,
          fileVars, streamVars, dispatchVars>>

ScanIdle ==
  /\ world = [phase |-> "none"] /\ content = [i \in ItemIndexes |-> 1] /\ edits = 0
  /\ pass = "none" /\ at = 1 /\ reading = NotOpen /\ records = NoRecords
  /\ inv = EmptyInventory /\ reviewed = Nothing
  /\ stack = <<>> /\ allowed = {} /\ report = NoReport
RecipeIdle ==
  /\ parsed = TRUE /\ script = 0 /\ variables = {} /\ values = {} /\ unresolved = FALSE
  /\ unknownAll = FALSE /\ bashScalar = <<>> /\ bashArray = {} /\ srcinfo = {}
  /\ odd = {} /\ stray = {}
  /\ binding = "unbound"
IdsIdle == step = "none" /\ entries = <<>> /\ id = 0 /\ range = NoRange /\ spans = {}
LimitsIdle == configured = FreezeMax /\ written = 0 /\ buffer = <<>> /\ dropped = FALSE
FilesIdle ==
  /\ inodes = <<>> /\ entry = 0 /\ durable = [blocks |-> <<>>, entry |-> 0, linked |-> TRUE]
  /\ writer = [w \in Writers |-> Idle] /\ reader = [r \in Readers |-> Closed]
  /\ returned = {} /\ renamed = <<>> /\ seen = [r \in Readers |-> {}]
  /\ tampered = 0 /\ crashes = 0 /\ bounds = [writes |-> 0, edits |-> 0, crashes |-> 0]
StreamIdle ==
  /\ streamed = <<>> /\ pending = <<>> /\ carry = <<>>
  /\ nul = FALSE /\ invalid = FALSE /\ stream = "none"
DispatchIdle ==
  /\ installed = {} /\ program = NoProgram /\ tag = NoModel /\ changes = 0 /\ tagMoves = 0
  /\ mine = {} /\ worker = {} /\ private = FALSE /\ request = NoRequest /\ place = "none"
  /\ again = FALSE /\ listed = NoModel /\ shown = NoModel /\ metadata = NoMetadata
  /\ disabled = {} /\ verdict = "none" /\ ran = NoProgram /\ exchanged = FALSE /\ twice = 0
BatchesIdle == selected = <<>> /\ options = [ceiling |-> 0, expansion |-> 1]
CommandIdle == command = "none"

Init ==
  /\ part \in {"scan", "recipe", "ids", "limits", "files", "stream", "dispatch", "batches", "command"}
  /\ IF part = "scan" THEN ScanInit ELSE ScanIdle
  /\ IF part = "recipe" THEN RecipeInit ELSE RecipeIdle
  /\ IF part = "ids" THEN IdsInit ELSE IdsIdle
  /\ IF part = "limits" THEN LimitsInit ELSE LimitsIdle
  /\ IF part = "files" THEN FilesInit ELSE FilesIdle
  /\ IF part = "stream" THEN StreamInit ELSE StreamIdle
  /\ IF part = "dispatch" THEN DispatchInit ELSE DispatchIdle
  /\ IF part = "batches" THEN selected \in Inventories /\ options \in Options ELSE BatchesIdle
  /\ IF part = "command" THEN command \in CommandLines \X Reports ELSE CommandIdle

Next ==
  /\ UNCHANGED <<part, selected, options, command>>
  /\ \/ /\ part = "scan" /\ ScanNext
        /\ UNCHANGED <<recipeVars, idsVars, limitVars, fileVars, streamVars, dispatchVars>>
     \/ /\ part = "recipe" /\ RecipeNext
        /\ UNCHANGED <<scanVars, idsVars, limitVars, fileVars, streamVars, dispatchVars>>
     \/ /\ part = "ids" /\ IdsNext
        /\ UNCHANGED <<scanVars, recipeVars, limitVars, fileVars, streamVars, dispatchVars>>
     \/ /\ part = "limits" /\ Observe
        /\ UNCHANGED <<scanVars, recipeVars, idsVars, fileVars, streamVars, dispatchVars>>
     \/ /\ part = "files" /\ FilesNext
        /\ UNCHANGED <<scanVars, recipeVars, idsVars, limitVars, streamVars, dispatchVars>>
     \/ /\ part = "stream" /\ StreamNext
        /\ UNCHANGED <<scanVars, recipeVars, idsVars, limitVars, fileVars, dispatchVars>>
     \/ /\ part = "dispatch" /\ DispatchNext
        /\ UNCHANGED <<scanVars, recipeVars, idsVars, limitVars, fileVars, streamVars>>

Spec == Init /\ [][Next]_vars

----------------------------------------------------------------------------
\* Whatever the texts and wherever they are cut, the batches of a review together
\* hold every selected byte once and in order, what changed since the last report
\* before the rest, and no batch is larger than the provider takes; and an answer
\* that is used was given under the configuration the audit holds
\* (batchesWithProviderOptions, ReviewSnapshot.Validate, dispatch).
ReviewsAreSoundlyExchanged == BatchesAreSound(selected, options) /\ AnswersAreAsConfigured

\* A command line is let through only for what makepkg takes it for, an evaluation of
\* a recipe is held to less than the build, and the transcript of either is the tail
\* of what was written (ClassifyInvocation, freezeLimits, outputTranscript).
CommandsKeepToTheirTerms ==
  /\ part = "command" => InvocationIsWhatItIsTakenFor(command[1], command[2])
  /\ FreezeIsNarrowerThanTheBuild /\ TranscriptIsTheTail

\* What is read from a file is what it held at one instant, and is judged as text the
\* same however it arrives; what AtomicWrite returned as written survives
\* (ReadJSONFile, ContentValidator, AtomicWrite).
FilesAreReadAndWrittenWhole == ReadsAreOfOneInstant /\ WritesSurvive /\ ChunkingChangesNothing
=============================================================================
