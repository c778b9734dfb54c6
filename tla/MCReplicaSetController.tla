----------------------- MODULE MCReplicaSetController -----------------------
(***************************************************************************)
(* Constant values for model checking ReplicaSetController.                *)
(***************************************************************************)
EXTENDS DocumentedClaims

(* The default policies of core/policies.hpp. *)
DefaultConfig == [NoConfig EXCEPT !.generation = 1, !.desired_count = 2, !.max_replicas = 2]

DefaultConfigs == {DefaultConfig}
=============================================================================
