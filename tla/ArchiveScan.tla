----------------------------- MODULE ArchiveScan -----------------------------
(***************************************************************************)
(* The inspection of one archive and of the archives nested in it          *)
(* (internal/brief/archives.go).  The archive is not given beforehand:     *)
(* each step of a reader chooses the next member.  `stack` holds one frame *)
(* per nested reader, the innermost last; a frame has the ArchiveScan the  *)
(* reader accumulates.  `met` and `unread` are history: the hazards a      *)
(* reader came across, and why it left bytes of a member unread: a "gap" it *)
(* has to report, or what it leaves out by design, see ByDesign.            *)
(***************************************************************************)
EXTENDS Integers, Sequences, SequencesExt

CONSTANTS
  MaxArchiveDepth,  \* nesting after which an archive is not opened
  MaxFindings,      \* findings after which a reader gives up
  Sizes             \* sizes of a member; a negative one is an overflow

ASSUME ArchiveConstants ==
  /\ MaxArchiveDepth \in Nat \ {0} /\ MaxFindings \in Nat /\ Sizes \subseteq Int

VARIABLES
  stack,
  allowed,  \* [entries, bytes, archives, policy]: what this archive may use
  report    \* what the outermost reader returned, or NoReport

archiveVars == <<stack, allowed, report>>

\* "old" is a compressed tar of a format without a signature, "stream" a
\* compressed file that holds no tar.
Formats == {"tar", "zip", "cpio", "compressed tar", "old", "stream"}
Compressed == {"compressed tar", "old", "stream"}

\* What a reader leaves out without a word: tar members that are neither file, link
\* nor special file, what follows the head of a binary, archives beyond the depth
\* to which vendored sources are inspected.
ByDesign == {"type", "binary", "policy"}

Fresh == [entries |-> 0, bytes |-> 0, archives |-> 1, hard |-> 0, coverage |-> 0,
          complete |-> TRUE, supported |-> TRUE, met |-> 0, unread |-> {}, redone |-> FALSE]
NoReport == [Fresh EXCEPT !.archives = 0]
NewFrame(format, depth) ==
  [format |-> format, depth |-> depth, mode |-> "reading", any |-> FALSE, scan |-> Fresh]

Top == Last(stack)
SetTop(f) == stack' = ReplaceAt(stack, Len(stack), f)

Hard(s) == [s EXCEPT !.hard = @ + 1, !.met = @ + 1]
Gap(s) == [s EXCEPT !.coverage = @ + 1]
Leaves(s, why) == [s EXCEPT !.unread = @ \cup {why}]
Unread(s) == Leaves(s, "gap")
Incomplete(s) == [s EXCEPT !.complete = FALSE]

unsupportedArchive(s) == Gap([s EXCEPT !.supported = FALSE, !.complete = FALSE])

\* CheckArchiveBudget: the reader returns an error.
OverBudget(s) == s.hard + s.coverage > MaxFindings \/ s.archives > allowed.archives

\* A member's content turns the scan `before` it into `after`: zip looks at the
\* budget before the content, tar after it.
Content(f, before, after) ==
  LET refused == OverBudget(IF f.format = "zip" THEN before ELSE after)
  IN  [f EXCEPT !.any = TRUE,
                !.mode = IF refused THEN "failed" ELSE "reading",
                !.scan = IF refused /\ f.format = "zip" THEN before ELSE after]

----------------------------------------------------------------------------
\* scanArchiveWithPolicyDepth up to the choice of the reader.
scanArchive(format, depth) ==
  LET f == NewFrame(format, depth)
  IN  IF format = "cpio" THEN [f EXCEPT !.mode = "done", !.scan = unsupportedArchive(Unread(@))]
      ELSE f

StartArchive(limits) ==
  /\ \E format \in Formats, depth \in {IF limits.policy < 0 THEN 0 ELSE limits.base} :
       stack' = <<scanArchive(format, depth)>>
  /\ allowed' = limits /\ report' = NoReport

\* A member is counted before anything is known of it; one over a limit, or of an
\* impossible size, ends the reading with what there is.
Counted(s, size) ==
  [s EXCEPT !.entries = @ + 1, !.bytes = @ + (IF size > 0 THEN size ELSE 0)]
WithinLimits(s, size) == size >= 0 /\ s.entries <= allowed.entries /\ s.bytes <= allowed.bytes

\* What a member may be: a name, link or special file that escapes; a directory or
\* good link; a file that is text, binary, privileged, too long to be reviewed, or
\* control content that is no text; encrypted, in a zip; of another type, in a tar.
Bodies(format) == {"escape", "entry", "plain", "binary", "privileged", "long", "badControl"}
                    \cup IF format = "zip" THEN {"encrypted"} ELSE {"type"}

\* What the content of a member adds to the scan.
Found(body, s) ==
  CASE body = "badControl" -> Incomplete(Hard(s))
    [] body = "long"       -> Incomplete(Gap(Unread(s)))
    [] body = "binary"     -> Leaves(s, "binary")
    [] OTHER               -> s

\* checkArchiveLimits and scanArchiveMember for a member that is no archive.
ReadMember ==
  /\ stack # <<>> /\ Top.mode = "reading" /\ Top.format # "stream"
  /\ \E size \in Sizes, body \in Bodies(Top.format) :
       LET s == Counted(Top.scan, size)
           before == IF body = "privileged" THEN Hard(s) ELSE s IN
       /\ size < 0 => Top.format = "zip"
       /\ \/ /\ ~WithinLimits(s, size)
             /\ SetTop([Top EXCEPT !.scan = Incomplete(Gap(Unread(s))), !.mode = "done"])
          \/ /\ WithinLimits(s, size) /\ body \in {"escape", "entry", "type"}
             /\ SetTop([Top EXCEPT !.scan = CASE body = "escape" -> Hard(s)
                                             [] body = "type"   -> Leaves(s, "type")
                                             [] body = "entry"  -> s,
                                   !.any = TRUE])
          \/ /\ WithinLimits(s, size) /\ body = "encrypted"
             /\ SetTop([Top EXCEPT !.scan = Gap(Unread(s)), !.any = TRUE])
          \/ /\ WithinLimits(s, size) /\ body \notin {"escape", "entry", "type", "encrypted"}
             /\ SetTop(Content(Top, before, Found(body, before)))
  /\ UNCHANGED <<allowed, report>>

\* A member that is an archive: left out by the policy for vendored sources, too
\* deep, or spooled and given to a reader of its own, which has the whole
\* allowance again.
OpenNested ==
  /\ stack # <<>> /\ Top.mode = "reading" /\ Top.format # "stream"
  /\ \E size \in Sizes :
       LET s == Counted(Top.scan, size)
           below == Top.depth + 1
           omitted == allowed.policy >= 0 /\ below >= allowed.policy
           tooDeep == ~omitted /\ below >= MaxArchiveDepth
           refused == Top.format = "zip" /\ OverBudget(s) IN
       /\ size >= 0 /\ WithinLimits(s, size)
       /\ \/ /\ omitted \/ refused
             /\ SetTop(Content(Top, s, Leaves(s, "policy")))
          \/ /\ tooDeep /\ ~refused
             /\ SetTop(Content(Top, s, Incomplete(Gap(Unread(s)))))
          \/ /\ ~omitted /\ ~tooDeep /\ ~refused
             /\ \E format \in Formats :
                  stack' = Append(ReplaceAt(stack, Len(stack), [Top EXCEPT !.scan = s, !.any = TRUE]),
                                  scanArchive(format, below))
  /\ UNCHANGED <<allowed, report>>

\* The list of members ends, or cannot be read on: a bad header, a short member,
\* a decoder's error, a temporary file that cannot be written.
EndOfMembers ==
  /\ stack # <<>> /\ Top.mode = "reading"
  /\ Top.format # "stream"
  /\ SetTop([Top EXCEPT !.mode = IF Top.format = "zip" \/ Top.any THEN "done" ELSE "failed"])
  /\ UNCHANGED <<allowed, report>>

BreaksOff ==
  /\ stack # <<>> /\ Top.mode = "reading"
  /\ SetTop([Top EXCEPT !.mode = "failed"])
  /\ UNCHANGED <<allowed, report>>

\* A reader that failed: what is compressed is read again as one stream, with
\* everything found so far forgotten; the rest is unsupported.
Fallback ==
  /\ stack # <<>> /\ Top.mode = "failed"
  /\ \/ /\ Top.format \in Compressed
        /\ SetTop([Top EXCEPT !.mode = "stream",
             !.scan = [Fresh EXCEPT !.entries = 1, !.met = Top.scan.met,
                                    !.unread = Top.scan.unread, !.redone = Top.any]])
     \/ /\ Top.format \notin Compressed
        /\ SetTop([Top EXCEPT !.mode = "done", !.scan = unsupportedArchive(Unread(@))])
  /\ UNCHANGED <<allowed, report>>

\* scanCompressedStream: a recognised archive inside is refused; a tar without a
\* signature is data; anything else may be text or not.
scanCompressedStream ==
  /\ stack # <<>> /\ Top.mode = "stream"
  /\ LET s == Top.scan
         refused == unsupportedArchive(Unread(s))
         Read(t, n) == IF n > allowed.bytes THEN unsupportedArchive(Unread([t EXCEPT !.bytes = n]))
                       ELSE [t EXCEPT !.bytes = n]
         Sized(t) == {Read(t, n) : n \in 0 .. allowed.bytes + 1} IN
     \E t \in IF Top.format = "compressed tar" THEN {refused}
              ELSE {refused, Read(Hard(s), 1)} \cup Sized(s) \cup Sized(Leaves(s, "binary")) \cup
                   IF Top.format = "old" THEN {}
                   ELSE {Incomplete(Hard(s)), Read(Incomplete(Hard(s)), 1),
                         Incomplete(Gap(Unread(Read(s, 1))))} :
       SetTop([Top EXCEPT !.mode = "done", !.scan = t])
  /\ UNCHANGED <<allowed, report>>

\* Mutant of Merged: a nested archive that is not complete leaves the outer one so.
Merged_forgetful(s, n) ==
  [s EXCEPT !.entries = @ + n.entries, !.bytes = @ + n.bytes, !.archives = @ + n.archives,
            !.hard = @ + n.hard, !.supported = @ /\ n.supported,
            !.met = @ + n.met, !.unread = @ \cup n.unread, !.redone = @ \/ n.redone]

\* The accumulation of a nested result into the one it belongs to.
Merged(s, n) ==
  [s EXCEPT !.entries = @ + n.entries, !.bytes = @ + n.bytes, !.archives = @ + n.archives,
            !.hard = @ + n.hard, !.coverage = @ + n.coverage,
            !.complete = @ /\ n.complete, !.supported = @ /\ n.supported,
            !.met = @ + n.met, !.unread = @ \cup n.unread, !.redone = @ \/ n.redone]

\* Mutant of Aggregate: the bytes of a nested archive are not looked at again.
Aggregate_entriesOnly(s) ==
  IF s.entries > allowed.entries \/ s.archives > allowed.archives THEN Incomplete(Gap(s)) ELSE s

\* The aggregate limits after a nested archive.
Aggregate(s) ==
  LET a == IF s.entries > allowed.entries \/ s.bytes > allowed.bytes
           THEN Incomplete(Gap(s)) ELSE s
  IN  IF s.archives > allowed.archives THEN Incomplete(Gap(a)) ELSE a

ReturnNested ==
  /\ Len(stack) > 1 /\ Top.mode = "done"
  /\ LET outer == stack[Len(stack) - 1]
         s == Aggregate(Merged(outer.scan, Top.scan))
     IN  stack' = Append(SubSeq(stack, 1, Len(stack) - 2),
                         [outer EXCEPT !.scan = s, !.mode = IF OverBudget(s) THEN "failed"
                                                            ELSE "reading"])
  /\ UNCHANGED <<allowed, report>>

ReturnArchive ==
  /\ Len(stack) = 1 /\ Top.mode = "done"
  /\ report' = Top.scan /\ stack' = <<>>
  /\ UNCHANGED allowed

ArchiveStep ==
  \/ ReadMember \/ OpenNested \/ EndOfMembers \/ BreaksOff \/ Fallback
  \/ scanCompressedStream \/ ReturnNested \/ ReturnArchive

----------------------------------------------------------------------------
(* What is inductive: no reader nests deeper than MaxArchiveDepth, one that *)
(* waits for a nested reader is within the limits itself, the innermost is   *)
(* past them by an allowance and a member for each that may still be nested, *)
(* and what claims to be complete is within them.                            *)

Scans == [entries : Nat, bytes : Nat, archives : Nat, hard : Nat, coverage : Nat,
          complete : BOOLEAN, supported : BOOLEAN, met : Nat,
          unread : SUBSET (ByDesign \cup {"gap"}), redone : BOOLEAN]
Frames == [format : Formats, depth : Nat, mode : {"reading", "failed", "stream", "done"},
           any : BOOLEAN, scan : Scans]

\* A complete scan without a gap, not begun again, has told of all it met and read
\* all it had to.
Told(s) == s.complete /\ s.coverage = 0 /\ ~s.redone => s.hard = s.met /\ "gap" \notin s.unread

\* A complete scan without a gap is within what is allowed; a compressed stream is
\* one member, whatever is.
InAllowance(s) ==
  s.complete /\ s.coverage = 0 =>
    /\ s.entries <= allowed.entries \/ s.entries = 1
    /\ s.bytes <= allowed.bytes /\ s.archives <= allowed.archives

\* The n-th reader.
Standing(f, n) ==
  /\ f \in Frames /\ f.scan.archives > 0 /\ Told(f.scan) /\ InAllowance(f.scan)
  /\ f.depth >= n - 1 /\ (n > 1 => f.depth < MaxArchiveDepth)
  /\ f.mode \in {"reading", "failed"} /\ ~f.any => f.scan.met = 0 /\ f.scan.unread = {}
  /\ f.mode = "reading" => f.scan.archives <= allowed.archives
Waiting(f) ==
  /\ f.mode = "reading" /\ f.any
  /\ f.scan.entries <= allowed.entries /\ f.scan.bytes <= allowed.bytes
Room(n) == (MaxArchiveDepth - n + 1) * (allowed.entries + 1)
Innermost(f, n) ==
  /\ f.scan.entries <= Room(n)
  /\ f.mode \in {"reading", "failed"} => f.scan.entries < Room(n)

ArchiveInv ==
  /\ stack \in Seq(Frames)
  /\ \A n \in DOMAIN stack : /\ Standing(stack[n], n)
                             /\ IF n < Len(stack) THEN Waiting(stack[n])
                                ELSE Innermost(stack[n], n)
  /\ stack # <<>> => /\ allowed.entries \in Nat /\ allowed.bytes \in Nat
                     /\ allowed.archives \in Nat \ {0} /\ report = NoReport
  /\ report \in Scans /\ Told(report) /\ (report # NoReport => InAllowance(report))
=============================================================================
