---------------------------- MODULE ContentStream ----------------------------
(***************************************************************************)
(* ContentValidator (internal/safe/safe.go): a file is judged text or not  *)
(* while it is read in chunks that may end inside a character.  A byte is  *)
(* one of the classes decoding tells apart:                                *)
(*   a  ASCII          0  NUL         2  starts a character of two bytes   *)
(*   3  starts one of three bytes     E  the same, second byte must be h   *)
(*   l, h  continuation bytes, low and high                                *)
(***************************************************************************)
EXTENDS Integers, Sequences, SequencesExt

CONSTANT MaxStream   \* bound on the bytes of a stream
ASSUME StreamConstant == MaxStream \in Nat

VARIABLES
  streamed,  \* the bytes written so far
  pending,   \* bytes of the last chunk, and what was carried, still to decode
  carry, nul, invalid,
  stream     \* "open", "decode", "finished", or "none"

streamVars == <<streamed, pending, carry, nul, invalid, stream>>

ByteClasses == {"a", "0", "2", "3", "E", "l", "h"}
Continuation == {"l", "h"}
Size(b) == IF b = "2" THEN 2 ELSE IF b \in {"3", "E"} THEN 3 ELSE 1

\* Whether the bytes after the first may belong to its character.
Continues(d) ==
  \A k \in 2 .. Len(d) : d[k] \in Continuation /\ (k = 2 /\ d[1] = "E" => d[k] = "h")

FullRune(d) == Len(d) >= Size(d[1]) \/ ~Continues(d)

\* The bytes DecodeRune takes; one that starts no character is taken alone.
RuneSize(d) ==
  IF Len(d) >= Size(d[1]) /\ Continues(SubSeq(d, 1, Size(d[1]))) THEN Size(d[1]) ELSE 1
RuneError(d) == d[1] \in Continuation \/ RuneSize(d) < Size(d[1])

StreamInit ==
  /\ streamed = <<>> /\ pending = <<>> /\ carry = <<>>
  /\ nul = FALSE /\ invalid = FALSE /\ stream = "open"

\* Mutant of WriteChunk: what the last chunk left over is forgotten.
WriteChunk_afresh(chunk) ==
  /\ stream = "open" /\ Len(streamed) + Len(chunk) <= MaxStream
  /\ streamed' = streamed \o chunk
  /\ nul' = (nul \/ Contains(chunk, "0"))
  /\ pending' = chunk /\ carry' = <<>> /\ stream' = "decode"
  /\ UNCHANGED invalid

WriteChunk(chunk) ==
  /\ stream = "open" /\ Len(streamed) + Len(chunk) <= MaxStream
  /\ streamed' = streamed \o chunk
  /\ nul' = (nul \/ Contains(chunk, "0"))
  /\ pending' = carry \o chunk /\ carry' = <<>> /\ stream' = "decode"
  /\ UNCHANGED invalid

DecodeRune ==
  /\ stream = "decode" /\ pending # <<>> /\ FullRune(pending)
  /\ invalid' = (invalid \/ RuneError(pending))
  /\ pending' = SubSeq(pending, RuneSize(pending) + 1, Len(pending))
  /\ UNCHANGED <<streamed, carry, nul, stream>>

EndOfChunk ==
  /\ stream = "decode" /\ (pending # <<>> => ~FullRune(pending))
  /\ carry' = pending /\ pending' = <<>> /\ stream' = "open"
  /\ UNCHANGED <<streamed, nul, invalid>>

FinishStream ==
  /\ stream = "open" /\ stream' = "finished"
  /\ invalid' = (invalid \/ carry # <<>>)
  /\ UNCHANGED <<streamed, pending, carry, nul>>

StreamNext ==
  \/ \E n \in 1 .. 3 : \E chunk \in [1 .. n -> ByteClasses] : WriteChunk(chunk)
  \/ DecodeRune \/ EndOfChunk \/ FinishStream

----------------------------------------------------------------------------
Characters ==
  {<<"a">>, <<"0">>} \cup {<<"2", c>> : c \in Continuation}
  \cup {<<"3", c, d>> : c, d \in Continuation} \cup {<<"E", "h", d>> : d \in Continuation}

\* The text is a sequence of characters.
WellFormed(text) ==
  LET ends[n \in 0 .. Len(text)] ==
        n = 0 \/ \E k \in 1 .. 3 : k <= n /\ ends[n - k] /\ SubSeq(text, n - k + 1, n) \in Characters
  IN ends[Len(text)]

\* "Chunking must not change the verdict" (safe.go): however a stream is cut, it is
\* found invalid exactly when its bytes together are no text.
ChunkingChangesNothing ==
  stream = "finished" =>
    /\ invalid = ~WellFormed(streamed)
    /\ nul = Contains(streamed, "0")

----------------------------------------------------------------------------
(* What is inductive: what has been decoded is a text, or there is a place *)
(* from which no text can go on, however the stream continues.             *)

\* Whether the j-th byte of the character after the first q may be where it is.
FitsAt(text, q, j) ==
  text[q + j] \in Continuation /\ (j = 2 /\ text[q + 1] = "E" => text[q + j] = "h")

CharacterAt(text, q, k) ==
  /\ q + k <= Len(text) /\ text[q + 1] \notin Continuation /\ k = Size(text[q + 1])
  /\ \A j \in 2 .. k : FitsAt(text, q, j)

BrokenAt(text, q) ==
  /\ q < Len(text)
  /\ \/ text[q + 1] \in Continuation
     \/ \E j \in 2 .. Size(text[q + 1]) : q + j <= Len(text) /\ ~FitsAt(text, q, j)

Undecoded == carry \o pending
Decoded == Len(streamed) - Len(Undecoded)

StreamInv ==
  /\ streamed \in Seq(ByteClasses) /\ pending \in Seq(ByteClasses) /\ carry \in Seq(ByteClasses)
  /\ invalid \in BOOLEAN /\ nul = Contains(streamed, "0")
  /\ stream = "open" => pending = <<>> /\ (carry # <<>> => ~FullRune(carry))
  /\ stream = "decode" => carry = <<>>
  /\ stream \in {"open", "decode"} =>
       /\ Decoded >= 0 /\ \A i \in DOMAIN Undecoded : Undecoded[i] = streamed[Decoded + i]
       /\ ~invalid => WellFormed(SubSeq(streamed, 1, Decoded))
       /\ invalid => \E q \in 0 .. Len(streamed) :
                       WellFormed(SubSeq(streamed, 1, q)) /\ BrokenAt(streamed, q)
  /\ ChunkingChangesNothing
=============================================================================
