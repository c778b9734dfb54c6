-------------------------- MODULE DocumentedClaims --------------------------
(***************************************************************************)
(* What the repository's documents say of the controller and its code does *)
(* not keep.  The README explains the counterexample.                      *)
(***************************************************************************)
EXTENDS ReplicaSetController

(* docs/architecture.md:44: "Exactly one primary holds serving authority    *)
(* per replica set at a time; the gate prevents double-serving".            *)
(* promote_replica never looks at the other replicas of the set.            *)
SinglePrimary ==
    \A p, q \in ReplicaId :
        Servable(p) /\ Servable(q) /\ replicas[p].set_id = replicas[q].set_id => p = q
=============================================================================
