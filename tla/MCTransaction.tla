---------------------------- MODULE MCTransaction ----------------------------
(* Small instances of Transaction for TLC. *)
EXTENDS Transaction, TLC

CONSTANTS root, cut

\* Stripping the archive with root surfaces leaves the one without.
MCStripped == (root :> cut)

PkgSymmetry == Permutations(Pkgs)
=============================================================================
