---------------------------- MODULE MCAuditStore ----------------------------
(* AuditStore on small instances.  The transactions are interchangeable.   *)
EXTENDS AuditStore, TLC

CONSTANTS t1, t2, sh, recipe, sources, package, rebuilt, escaping

AllPhases == (recipe :> "pre") @@ (sources :> "post") @@ (package :> "artifact")
             @@ (rebuilt :> "artifact") @@ (escaping :> "artifact")
MCPhaseOf == [b \in Bindings |-> AllPhases[b]]

\* The override of the recipe decides what is found in the sources.
MCCovers == {<<recipe, sources>>} \cap (Bindings \X Bindings)

TxSymmetry == Permutations(Txs)
=============================================================================
