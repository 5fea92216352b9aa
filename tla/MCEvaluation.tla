---------------------------- MODULE MCEvaluation ----------------------------
EXTENDS Evaluation

MCContents ==
  {[kind |-> "concern", ver |-> v] : v \in 1 .. 2}
    \cup {[kind |-> k, ver |-> 1] : k \in {"clean", "depth"}}

Agree == [verdict |-> "allow", confident |-> TRUE, injection |-> FALSE,
          notes |-> FALSE, finding |-> "none"]

\* One verdict for each thing that evaluate reads of it.
MCVerdicts ==
  {Agree, [Agree EXCEPT !.confident = FALSE], [Agree EXCEPT !.injection = TRUE],
   [Agree EXCEPT !.finding = "severe"], [Agree EXCEPT !.finding = "escape"]}

MCConfigs ==
  {[mode |-> "deterministic-only", threshold |-> 2, phases |-> {}],
   [mode |-> "ai", threshold |-> 2, phases |-> {"post"}],
   [mode |-> "ai", threshold |-> 3, phases |-> Phases]}
=============================================================================
