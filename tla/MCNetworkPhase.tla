--------------------------- MODULE MCNetworkPhase ---------------------------
(* Instances of NetworkPhase for TLC.  Connections are interchangeable; in   *)
(* the runs without liveness properties they form a symmetry set.            *)
EXTENDS NetworkPhase, TLC

Symmetry == Permutations(Conns)
=============================================================================
