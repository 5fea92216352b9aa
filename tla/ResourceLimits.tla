--------------------------- MODULE ResourceLimits ---------------------------
(***************************************************************************)
(* The limits a build and the evaluation of a PKGBUILD run under and the   *)
(* transcript kept of their output (internal/audit/resource.go:            *)
(* effectiveBuildLimits, freezeLimits, outputTranscript).  The writes of   *)
(* stdout and stderr are serialised by a lock; the k-th byte observed is   *)
(* the number k.                                                           *)
(***************************************************************************)
EXTENDS Integers, Sequences

CONSTANTS
  Kinds,          \* the limits: memory, cpu, tasks, time, file size, output
  Values,         \* values a configuration may give a limit
  Physical,       \* per kind, what the machine has; absent where nothing is known
  FreezeMax,      \* per kind, the ceiling of an evaluation
  FreezeFloor,    \* per kind, what an evaluation gets where nothing usable is set
  Limit,          \* bytes the transcript keeps
  MaxOutput       \* bound on the bytes a command writes

ASSUME LimitConstants ==
  /\ Values \subseteq Int /\ MaxOutput \in Nat
  /\ \A k \in DOMAIN Physical : Physical[k] \in Int
  /\ Limit \in Nat \ {0}    \* with none, there is no transcript (newOutputTranscript)
  /\ FreezeMax \in [Kinds -> Nat \ {0}]
  /\ \A k \in Kinds : FreezeFloor[k] \in 1 .. FreezeMax[k]

VARIABLES configured, written, buffer, dropped
limitVars == <<configured, written, buffer, dropped>>

Smaller(a, b) == IF a < b THEN a ELSE b

\* A limit is never above what the machine can spare, and there is a processor.
effectiveBuildLimits(cfg) ==
  [k \in Kinds |->
     LET spared == IF k \in DOMAIN Physical THEN Smaller(cfg[k], Physical[k]) ELSE cfg[k]
     IN  IF k = "cpu" /\ spared < 1 THEN 1 ELSE spared]

\* Mutant of freezeLimits: the floor of an unusable limit is applied as a minimum.
freezeLimits_floored(cfg) ==
  [k \in Kinds |-> LET narrowed == Smaller(effectiveBuildLimits(cfg)[k], FreezeMax[k])
                   IN  IF narrowed < FreezeFloor[k] THEN FreezeFloor[k] ELSE narrowed]

freezeLimits(cfg) ==
  [k \in Kinds |-> LET narrowed == Smaller(effectiveBuildLimits(cfg)[k], FreezeMax[k])
                   IN  IF narrowed <= 0 THEN FreezeFloor[k] ELSE narrowed]

LimitsInit ==
  /\ configured \in [Kinds -> Values]
  /\ written = 0 /\ buffer = <<>> /\ dropped = FALSE

Tail_(s, n) == SubSeq(s, Len(s) - n + 1, Len(s))

\* Mutant of Observe: the trim keeps the head of the window.
Observe_head ==
  /\ \E n \in 1 .. MaxOutput - written :
       LET value == [i \in 1 .. n |-> written + i]
           longer == buffer \o value IN
       /\ written' = written + n
       /\ buffer' = IF Len(longer) >= 2 * Limit THEN SubSeq(longer, 1, Limit) ELSE longer
       /\ dropped' = (dropped \/ Len(longer) > Limit)
  /\ UNCHANGED configured

Observe ==
  /\ \E n \in 1 .. MaxOutput - written :
       LET value == [i \in 1 .. n |-> written + i]
           longer == buffer \o value IN
       /\ written' = written + n
       /\ IF n >= Limit
          THEN buffer' = Tail_(value, Limit) /\ dropped' = TRUE
          ELSE /\ buffer' = IF Len(longer) >= 2 * Limit THEN Tail_(longer, Limit) ELSE longer
               /\ dropped' = (dropped \/ Len(longer) > Limit)
  /\ UNCHANGED configured

Bytes == IF Len(buffer) > Limit THEN Tail_(buffer, Limit) ELSE buffer

----------------------------------------------------------------------------
\* An evaluation never gets more of anything than the build of the same
\* configuration, nor more than its own ceiling, and what it gets is usable
\* (freezeLimits).
FreezeIsNarrowerThanTheBuild ==
  \A k \in Kinds :
    /\ freezeLimits(configured)[k] \in 1 .. FreezeMax[k]
    /\ effectiveBuildLimits(configured)[k] > 0 =>
         freezeLimits(configured)[k] <= effectiveBuildLimits(configured)[k]

\* However the output is split into writes, the transcript is its tail, says so
\* when something is missing, and holds less than two windows (Observe, Bytes).
TranscriptIsTheTail ==
  /\ Bytes = [i \in 1 .. Smaller(Limit, written) |->
                written - Smaller(Limit, written) + i]
  /\ written > Limit => dropped
  /\ Len(buffer) < 2 * Limit

----------------------------------------------------------------------------
(* What is inductive: between two writes the buffer is a tail of the       *)
(* output, and a shorter one than a window only while it is all of it.     *)

IsTailOf(bytes, n) ==
  /\ Len(bytes) <= n
  /\ \A i \in 1 .. Len(bytes) : bytes[i] = n - Len(bytes) + i

LimitsInv ==
  /\ configured \in [Kinds -> Int]
  /\ written \in Nat /\ buffer \in Seq(Nat)
  /\ IsTailOf(buffer, written) /\ Len(buffer) < 2 * Limit
  /\ Len(buffer) < Limit => Len(buffer) = written
  /\ written > Limit => dropped
=============================================================================
