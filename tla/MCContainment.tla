---------------------------- MODULE MCContainment ----------------------------
(* Containment has no constants: TLC checks it as it is.                      *)
EXTENDS Containment
=============================================================================
