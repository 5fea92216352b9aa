---------------------------- MODULE ReviewBatches ----------------------------
(***************************************************************************)
(* How the selected text of an inventory is cut into the batches one AI    *)
(* review sends (internal/audit/review.go: batchesWithProviderOptions,     *)
(* selectedFilePiece, ReviewSnapshot.Validate).  A text is a sequence of   *)
(* bytes, of which are told apart the line feed "n" and the two bytes "l", *)
(* "t" of a longer character; "r" is the replacement character, which the  *)
(* code puts where a cut divides one.  A piece in JSON is its bytes, each  *)
(* expanded by the escaping, and a frame; a request is the fixed part      *)
(* (prompt, schema, manifest, findings) and its pieces.                    *)
(***************************************************************************)
EXTENDS Integers, Sequences, FiniteSets, SequencesExt

CONSTANTS
  BatchBytes,    \* review.batch_bytes
  MinChunk,      \* the least size of a piece, 1024 in the code
  Fixed,         \* bytes of a request without pieces
  Slack,         \* room kept for paths and framing, 4096 in the code
  Frame,         \* bytes of a piece besides its content
  MaxText        \* limits.max_selected_text_bytes

ASSUME BatchConstants ==
  /\ {BatchBytes, Fixed, Slack, Frame, MaxText} \subseteq Nat
  /\ MinChunk \in Nat \ {0}

Escape == 6      \* what the code takes one source byte to become at most

Least(a, b) == IF a < b THEN a ELSE b
Most(a, b) == IF a < b THEN b ELSE a

\* `ceiling` is how many bytes the context of the model takes; 0 for a CLI provider.
chunkSize(ceiling) ==
  LET cli == Most(MinChunk, BatchBytes \div 2)
  IN  IF ceiling = 0 THEN cli
      ELSE Least(cli, Most(1, (ceiling - Fixed - Slack) \div Escape))

Newlines(text) == Cardinality({k \in DOMAIN text : text[k] = "n"})

ValidUTF8OrReplacement(bytes) ==
  [k \in DOMAIN bytes |->
     IF (k = 1 /\ bytes[k] = "t") \/ (k = Len(bytes) /\ bytes[k] = "l")
     THEN "r" ELSE bytes[k]]

selectedFilePiece(f, offset, end) ==
  LET content == ValidUTF8OrReplacement(SubSeq(f.text, offset + 1, end))
      start == 1 + Newlines(SubSeq(f.text, 1, offset))
  IN  [path |-> f.path, changed |-> f.changed, offset |-> offset, content |-> content,
       lineStart |-> start,
       lineEnd |-> start + Newlines(SubSeq(f.text, offset + 1, end - 1))]

PiecesOf(f, ceiling) ==
  LET size == chunkSize(ceiling) IN
  [k \in 1 .. ((Len(f.text) + size - 1) \div size) |->
     selectedFilePiece(f, (k - 1) * size, Least(Len(f.text), k * size))]

NoText == <<[path |-> "<none>", changed |-> FALSE, offset |-> 0, content |-> <<"c">>,
             lineStart |-> 1, lineEnd |-> 1]>>

\* The pieces of a file join those of the delta or those of the rest.
AddFile(ceiling, acc, f) ==
  IF f.changed THEN [acc EXCEPT !.delta = @ \o PiecesOf(f, ceiling)]
  ELSE [acc EXCEPT !.rest = @ \o PiecesOf(f, ceiling)]

CutUp(files, ceiling) ==
  FoldLeft(LAMBDA acc, f : AddFile(ceiling, acc, f), [delta |-> <<>>, rest |-> <<>>], files)

\* Files are in path order; those that changed since the last report go first.
Pieces(files, ceiling) ==
  LET cut == CutUp(files, ceiling)
      all == cut.delta \o cut.rest
  IN  IF all = <<>> THEN NoText ELSE all

RawSize(pieces, expansion) ==
  FoldLeft(LAMBDA n, p : n + expansion * Len(p.content) + Frame, 0, pieces)

Fits(pieces, o) == o.ceiling = 0 \/ Fixed + RawSize(pieces, o.expansion) <= o.ceiling

\* Mutant of AddPiece: a batch is closed after the piece that overfills it.
AddPieceThenFlush(o, acc, p) ==
  IF RawSize(Append(acc.current, p), o.expansion) > BatchBytes
  THEN [acc EXCEPT !.done = Append(acc.done, Append(acc.current, p)), !.current = <<>>]
  ELSE [acc EXCEPT !.current = Append(acc.current, p)]

\* One piece joins the current batch, or closes it and begins the next.
AddPiece(o, acc, p) ==
  LET full == /\ acc.current # <<>>
              /\ \/ RawSize(Append(acc.current, p), o.expansion) > BatchBytes
                 \/ ~Fits(Append(acc.current, p), o)
      done == IF full THEN Append(acc.done, acc.current) ELSE acc.done
      current == IF full THEN <<p>> ELSE Append(acc.current, p)
  IN  [done |-> done, current |-> current,
       error |-> IF acc.error = "" /\ ~Fits(current, o) THEN "chunk" ELSE acc.error]

Packed(pieces, o) ==
  FoldLeft(LAMBDA acc, p : AddPiece(o, acc, p),
           [done |-> <<>>, current |-> <<>>, error |-> ""], pieces)

SelectedBytes(files) == FoldLeft(LAMBDA n, f : n + Len(f.text), 0, files)

\* The batches of an inventory under the options `o` (the ceiling of the provider
\* and what a byte escapes to), or the reason there are none.
batchesWithProviderOptions(files, o) ==
  LET filled == Packed(Pieces(files, o.ceiling), o)
      error == IF o.ceiling # 0 /\ Fixed >= o.ceiling - Slack THEN "fixed"
               ELSE IF SelectedBytes(files) > MaxText THEN "aggregate" ELSE filled.error
  IN  [error |-> error,
       batches |-> IF error = "" THEN Append(filled.done, filled.current) ELSE <<>>]

----------------------------------------------------------------------------
\* What the inventory hands over: files in their order, each with its path and its
\* text.  The path "<none>" is that of the piece which says that nothing is selected;
\* an empty file of that name would be taken for it.
IsSelection(files) ==
  /\ files \in Seq(ToSet(files))
  /\ \A f \in ToSet(files) : /\ f.text \in Seq(ToSet(f.text)) /\ f.changed \in BOOLEAN
                             /\ f.path = "<none>" => f.text # <<>>
  /\ \A i, j \in DOMAIN files : files[i].path = files[j].path => i = j

\* What the batches of one inventory must be, whatever its texts.

TextOf(batches, path) ==
  FoldLeft(LAMBDA text, p : IF p.path = path THEN text \o p.content ELSE text,
           <<>>, FlattenSeq(batches))

\* Nothing selected is lost, repeated or reordered at a cut; a character that a
\* cut divides is seen as replaced.
Covers(files, batches) ==
  \A i \in DOMAIN files :
    LET sent == TextOf(batches, files[i].path)
        text == files[i].text
    IN  /\ Len(sent) = Len(text)
        /\ \A k \in DOMAIN sent :
             sent[k] = text[k] \/ (sent[k] = "r" /\ text[k] \in {"l", "t"})

\* The delta comes before everything else.
ChangedFirst(batches) ==
  LET all == FlattenSeq(batches) IN
  \A i, j \in DOMAIN all : (i < j /\ all[j].changed) => all[i].changed

\* The line range every receiver recomputes from the content.
LinesMatch(p) ==
  p.lineEnd = p.lineStart + Newlines(p.content)
                - (IF p.content[Len(p.content)] = "n" THEN 1 ELSE 0)

\* What the receiver takes: no batch is empty or larger than the context of the
\* model, and only a piece that is alone may exceed the batch size.
BatchesFit(batches, o) ==
  \A i \in DOMAIN batches :
    /\ batches[i] # <<>> /\ Fits(batches[i], o)
    /\ Len(batches[i]) > 1 => ~(RawSize(batches[i], o.expansion) > BatchBytes)

BatchesAreSound(files, o) ==
  LET r == batchesWithProviderOptions(files, o) IN
  r.error = "" =>
    /\ Covers(files, r.batches) /\ ChangedFirst(r.batches) /\ BatchesFit(r.batches, o)
    /\ \A i \in DOMAIN r.batches : \A j \in DOMAIN r.batches[i] : LinesMatch(r.batches[i][j])
=============================================================================
