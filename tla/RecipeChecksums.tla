--------------------------- MODULE RecipeChecksums ---------------------------
(***************************************************************************)
(* The static evaluation of a PKGBUILD's checksum array, against what Bash *)
(* makes of the same recipe, and the comparison with .SRCINFO that follows *)
(* from it (internal/brief/scanner.go: compareSRCINFO,                     *)
(* analyzeStaticPKGBUILDChecksumArrays).  One scalar and one array; a      *)
(* string is a sequence of letters; a value that may be unknown or unset   *)
(* is a set of at most one.  A statement is read by both: the analysis     *)
(* sees its form, Bash runs it, and may make something else of it; `stray` *)
(* remembers the names it did so for.                                      *)
(***************************************************************************)
EXTENDS Naturals, Sequences, SequencesExt

CONSTANTS
  Letters,     \* what strings are made of
  MaxScript,   \* bound on the statements of a recipe
  MaxElements  \* bound on the elements of an array literal

ASSUME RecipeConstants == MaxScript \in Nat /\ MaxElements \in Nat

VARIABLES
  parsed,      \* the recipe is syntax the parser accepts
  script,      \* statements read so far
  variables,   \* what the analysis knows of the scalar
  values,      \* and of the array
  unresolved,  \* the array was last assigned something that is not static
  unknownAll,  \* some command may have changed anything
  bashScalar,  \* what Bash has
  bashArray,
  odd,         \* names Bash no longer assigns as they read: readonly, or with an
               \* attribute, or past the end of the recipe
  stray,       \* names whose last assignments Bash made something else of
  srcinfo,     \* the field of .SRCINFO
  binding      \* what the provenance of the source says, or "undecided"

recipeVars == <<parsed, script, variables, values, unresolved, unknownAll,
                bashScalar, bashArray, odd, stray, srcinfo, binding>>

Strings == {<<>>} \cup {<<l>> : l \in Letters}
Maybe(S) == {{}} \cup {{x} : x \in S}
Names == {"scalar", "array"}
Several(S) == UNION {[1 .. n -> S] : n \in 0 .. MaxElements}
Arrays == Several(Strings)

\* A "pattern" is an unquoted brace, glob or tilde.
Word == [form : {"literal", "pattern", "dynamic"}, text : Strings]
          \cup [form : {"quoted", "unquoted"}, text : {<<>>}]
Literals == Several(Word)

\* An assignment may run in the background, or belong to readonly or to another
\* declaration that gives an attribute.
Manners == {"plain", "background", "readonly", "attribute"}

\* What the analysis takes a word for, where it can tell.
evaluateStaticShellScalar(word) ==
  CASE word.form \in {"literal", "pattern"} -> {word.text}
    [] word.form \in {"quoted", "unquoted"} -> variables
    [] word.form = "dynamic"                -> {}

\* What Bash has before it splits the word and expands its pattern, and what it may
\* be then: in an array, any words; in a scalar, after a tilde, another text.
Variable(word) == word.form \in {"quoted", "unquoted"}
Text(word) == IF Variable(word) THEN bashScalar ELSE word.text
Expansions(word) ==
  IF word.form \notin {"unquoted", "pattern"} THEN {<<Text(word)>>}
  ELSE IF Text(word) = <<>> THEN {<<>>}
  ELSE {<<Text(word)>>} \cup Several(Strings \ {<<>>})
Expanded(literal) ==
  {made \in [DOMAIN literal -> UNION {Expansions(literal[i]) : i \in DOMAIN literal}] :
     \A i \in DOMAIN literal : made[i] \in Expansions(literal[i])}
Unexpanded(literal, made) == \A i \in DOMAIN literal : made[i] = <<Text(literal[i])>>
ScalarTexts(word) == {Text(word)} \cup IF word.form = "pattern" THEN Strings ELSE {}

RecipeInit ==
  /\ parsed \in BOOLEAN /\ script = 0
  /\ variables = {} /\ values = {} /\ unresolved = FALSE /\ unknownAll = ~parsed
  /\ bashScalar = <<>> /\ bashArray = {} /\ odd = {} /\ stray = {}
  /\ srcinfo \in Maybe(Arrays \ {<<>>})
  /\ binding = "undecided"

Statement ==
  /\ binding = "undecided" /\ script < MaxScript /\ script' = script + 1
  /\ UNCHANGED <<parsed, srcinfo, binding>>

----------------------------------------------------------------------------
\* What is appended to an unknown value, or is itself unknown, leaves it unknown.
Joined(olds, news) == {x[1] \o x[2] : x \in olds \X news}

\* What Bash has after an assignment of `value` to a name that has `old`.
Assigns(name, manner, old, value, any) ==
  CASE manner = "background"                     -> {old}
    [] manner = "attribute" \/ (manner # "background" /\ name \in odd) -> {old, value} \cup any
    [] manner \in {"plain", "readonly"} /\ name \notin odd -> {value}
Odd(name, manner) == odd' = odd \cup IF manner \in {"readonly", "attribute"} THEN {name} ELSE {}
Stray(name, otherwise) == stray' = IF otherwise THEN stray \cup {name} ELSE stray \ {name}

\* v=word and v+=word; an unknown value appended to leaves it unknown.
applyStaticScalarAssignment ==
  /\ Statement
  /\ \E word \in Word, append \in BOOLEAN, manner \in Manners :
       LET known == evaluateStaticShellScalar(word) IN
       /\ variables' = IF ~parsed THEN {}
                       ELSE IF append THEN Joined(variables, known) ELSE known
       /\ \E text \in ScalarTexts(word) :
            LET value == IF append THEN bashScalar \o text ELSE text IN
            /\ bashScalar' \in Assigns("scalar", manner, bashScalar, value, Strings)
            /\ Stray("scalar", \/ text # Text(word) \/ bashScalar' # value
                               \/ "scalar" \in stray /\ (append \/ Variable(word)))
       /\ Odd("scalar", manner)
  /\ UNCHANGED <<values, unresolved, unknownAll, bashArray>>

\* A naked, indexed or array assignment of the scalar.
ForgetScalar ==
  /\ Statement
  /\ variables' = {} /\ bashScalar' \in {bashScalar} \cup Strings
  /\ Stray("scalar", FALSE) /\ odd' \in {odd, odd \cup {"scalar"}}
  /\ UNCHANGED <<values, unresolved, unknownAll, bashArray>>

\* Every element has to be static.
evaluateStaticChecksumArray(literal) ==
  IF \A i \in DOMAIN literal : evaluateStaticShellScalar(literal[i]) # {}
  THEN {[i \in DOMAIN literal |-> CHOOSE t \in evaluateStaticShellScalar(literal[i]) : TRUE]}
  ELSE {}

\* Mutant of Assigned: what an unknown array is appended to is the whole array.
Assigned_fresh(resolved, append) ==
  IF append /\ values # {} THEN Joined(values, resolved) ELSE resolved

\* What is known of the array afterwards.
Assigned(resolved, append) ==
  IF append THEN Joined(values, resolved) ELSE resolved

\* sums=(...) and sums+=(...).
AssignArray ==
  /\ Statement
  /\ \E literal \in Literals, append \in BOOLEAN, manner \in Manners :
       LET resolved == evaluateStaticChecksumArray(literal)
           old == IF bashArray = {} THEN <<>> ELSE CHOOSE a \in bashArray : TRUE IN
       /\ \E made \in Expanded(literal) :
            LET words == FlattenSeq(made)
                value == {IF append THEN old \o words ELSE words} IN
            /\ bashArray' \in Assigns("array", manner, bashArray, value, Maybe(Arrays))
            /\ Stray("array", \/ ~Unexpanded(literal, made) \/ bashArray' # value
                              \/ append /\ "array" \in stray
                              \/ /\ "scalar" \in stray
                                 /\ \E i \in DOMAIN literal : Variable(literal[i]))
       /\ Odd("array", manner)
       /\ IF parsed THEN /\ values' = Assigned(resolved, append)
                         /\ unresolved' = (Assigned(resolved, append) = {})
          ELSE UNCHANGED <<values, unresolved>>
  /\ UNCHANGED <<variables, unknownAll, bashScalar>>

\* The array is assigned an element, a scalar, or declared without a value.
AssignOtherwise ==
  /\ Statement
  /\ values' = {} /\ unresolved' = parsed
  /\ bashArray' \in {bashArray} \cup Maybe(Arrays)
  /\ Stray("array", FALSE) /\ odd' \in {odd, odd \cup {"array"}}
  /\ UNCHANGED <<variables, unknownAll, bashScalar>>

\* A declaration of a name only Bash computes, as in declare "$x", or an expansion
\* that assigns, as ${v:=x} and $((v = 1)): the analysis passes over what it changes.
AssignBesides ==
  /\ Statement
  /\ bashScalar' \in {bashScalar} \cup Strings /\ bashArray' \in {bashArray} \cup Maybe(Arrays)
  /\ odd' \in {o \in SUBSET Names : odd \subseteq o}
  /\ stray' = stray \cup (IF bashScalar' # bashScalar THEN {"scalar"} ELSE {})
                   \cup (IF bashArray' # bashArray THEN {"array"} ELSE {})
  /\ UNCHANGED <<variables, values, unresolved, unknownAll>>

DeclareFunction ==
  /\ Statement
  /\ UNCHANGED <<variables, values, unresolved, unknownAll, bashScalar, bashArray, odd, stray>>

\* Any other command may change everything, and end the recipe.
OtherCommand ==
  /\ Statement
  /\ variables' = {} /\ values' = {} /\ unknownAll' = TRUE
  /\ bashScalar' \in {bashScalar} \cup Strings /\ bashArray' \in {bashArray} \cup Maybe(Arrays)
  /\ odd' \in SUBSET Names /\ stray' = {}
  /\ UNCHANGED unresolved

Unresolved == values = {} /\ (unknownAll \/ unresolved)

\* compareSRCINFO: a field that differs from the resolved array, or that only one
\* side has, takes the checksum binding from the sources.
compareSRCINFO ==
  /\ binding = "undecided"
  /\ LET differs == IF srcinfo # {} /\ Unresolved THEN FALSE
                    ELSE IF values = {} /\ srcinfo = {} THEN FALSE
                    ELSE values # srcinfo
     IN  binding' = IF differs \/ srcinfo = {} THEN "unbound" ELSE "fixed-digest"
  /\ UNCHANGED <<parsed, script, variables, values, unresolved, unknownAll,
                 bashScalar, bashArray, odd, stray, srcinfo>>

RecipeNext ==
  \/ applyStaticScalarAssignment \/ ForgetScalar \/ AssignArray \/ AssignOtherwise
  \/ AssignBesides \/ DeclareFunction \/ OtherCommand \/ compareSRCINFO

----------------------------------------------------------------------------
\* Bash makes something else of the array than the analysis only where it expands an
\* unquoted word, leaves an assignment alone or changes it, or is told of one the
\* analysis does not see.  Short of these, whatever the order of the statements, an
\* array the analysis has a value for has that value in Bash, and one it holds for
\* never assigned is not set: so a checksum binding that survives the comparison with
\* .SRCINFO is the one makepkg enforces unless the array is unresolved, and none is
\* taken away because of a stale value (analyzeStaticPKGBUILDChecksumArrays,
\* compareSRCINFO).
StaticChecksumsAreBashs ==
  /\ "array" \notin stray =>
       /\ values # {} => values = bashArray
       /\ binding # "undecided" /\ ~Unresolved /\ srcinfo # {} =>
            (binding = "fixed-digest" <=> bashArray = srcinfo)
  /\ binding # "undecided" /\ Unresolved /\ srcinfo # {} => binding = "fixed-digest"

\* The same of every array the analysis has a value for, as its comment says.  It
\* does not hold: Bash may make something else of the statement.
ResolvedWithoutBash == values # {} => values = bashArray

----------------------------------------------------------------------------
(* What is inductive: the scalar, where it is known, is the one of Bash; an *)
(* array held for never assigned is not set; and the binding is what the    *)
(* comparison made of the last values.                                      *)

RecipeInv ==
  /\ parsed \in BOOLEAN /\ unresolved \in BOOLEAN /\ unknownAll \in BOOLEAN
  /\ \A a, b \in bashArray : a = b
  /\ "scalar" \notin stray => variables \subseteq {bashScalar}
  /\ "array" \notin stray =>
       /\ values # {} => values = bashArray
       /\ values = {} /\ ~unknownAll /\ ~unresolved => bashArray = {}
  /\ ~parsed => unknownAll /\ variables = {} /\ values = {}
  /\ binding # "undecided" /\ srcinfo # {} =>
       (binding = "fixed-digest" <=> (Unresolved \/ values = srcinfo))
=============================================================================
