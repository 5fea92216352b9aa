----------------------------- MODULE InstallGate -----------------------------
(***************************************************************************)
(* What Prolewatch promises of one transaction after the other, with       *)
(* nothing of how: archives are reviewed, the user sends some of them on,  *)
(* and pacman is given archives at most once.  After a build each of them  *)
(* is one that was reviewed, or what is left of it without its surfaces,   *)
(* and no surface is left that the user did not send on.  An install of    *)
(* archives that were found built promises nothing of their bytes.         *)
(***************************************************************************)
CONSTANTS
  Pkgs, Bytes, Surfaced, Stripped,   \* as in Transaction
  Others

VARIABLES
  reviewed,   \* <<path, archive>> a review of the transaction allowed
  consented,  \* <<path, archive>> the user sent on
  given,      \* what pacman was given at each path
  outcome     \* "open", "installed", "reused", "stopped"

gate == <<reviewed, consented, given, outcome>>

Paths == Bytes \cup Others \cup {"absent"}
Nothing == [p \in Pkgs |-> "absent"]

Init == reviewed = {} /\ consented = {} /\ given = Nothing /\ outcome = "open"

\* The archive was reviewed, as it is or before it was stripped.
Reviewed(p, b) ==
  \E r \in Bytes : <<p, r>> \in reviewed /\ (b = r \/ (r \in Surfaced /\ b = Stripped[r]))

Review ==
  /\ outcome = "open"
  /\ \E archives \in SUBSET (Pkgs \X Bytes) : reviewed' = reviewed \cup archives
  /\ UNCHANGED <<consented, given, outcome>>

\* Nothing is put to the user that was not reviewed before.
Consent ==
  /\ outcome = "open"
  /\ \E p \in Pkgs, b \in Bytes : Reviewed(p, b) /\ consented' = consented \cup {<<p, b>>}
  /\ UNCHANGED <<reviewed, given, outcome>>

Acceptable(p, b) == Reviewed(p, b) /\ (b \in Surfaced => <<p, b>> \in consented)

Install ==
  /\ outcome = "open" /\ outcome' = "installed"
  /\ given' \in [Pkgs -> Paths]
  /\ \A p \in Pkgs : given'[p] \in Bytes => Acceptable(p, given'[p])
  /\ UNCHANGED <<reviewed, consented>>

Reuse ==
  /\ outcome = "open" /\ outcome' = "reused"
  /\ given' \in [Pkgs -> Paths]
  /\ UNCHANGED <<reviewed, consented>>

Stop ==
  /\ outcome = "open" /\ outcome' = "stopped"
  /\ UNCHANGED <<reviewed, consented, given>>

Begin == outcome # "open" /\ reviewed' = {} /\ consented' = {} /\ given' = Nothing /\ outcome' = "open"

Next == Review \/ Consent \/ Install \/ Reuse \/ Stop \/ Begin

Spec == Init /\ [][Next]_gate
=============================================================================
