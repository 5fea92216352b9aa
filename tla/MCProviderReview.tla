-------------------------- MODULE MCProviderReview --------------------------
EXTENDS ProviderReview, TLC

CONSTANTS s1, s2

File(path, text, changed) == [path |-> path, text |-> text, changed |-> changed]

OnePiece == <<File("a", <<"c">>, FALSE)>>
TwoFiles == <<File("a", <<"c", "n", "c">>, FALSE), File("b", <<"n">>, TRUE)>>

Assignment(provider, files, expansion, n) ==
  [provider |-> provider, files |-> files, expansion |-> expansion, reviews |-> n,
   ceiling |-> IF provider = "cli" THEN 0 ELSE 27]

\* Two batches, and a piece that cannot be sent; beside it another
\* Ollama scan, or a CLI scan that is run again on demand.
MCAssignments ==
  s1 :> {Assignment("ollama", TwoFiles, e, 1) : e \in {7, 9}}
  @@ s2 :> {Assignment("ollama", OnePiece, 6, 1), Assignment("cli", OnePiece, 6, 2)}
=============================================================================
