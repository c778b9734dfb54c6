---------------------------- MODULE Persistence ----------------------------
(***************************************************************************)
(* Snapshots of the controller (src/snapshot.cpp): what make_snapshot      *)
(* writes, what decode_snapshot and validate_recovered_state accept, and   *)
(* what install_recovered_state puts into a controller.                    *)
(*                                                                         *)
(* The byte encoding is left out: every field of the model is written and  *)
(* read back as it is.  A file that was not written to its end fails the   *)
(* length check or the checksum, whatever it holds, and is the value Torn. *)
(***************************************************************************)
EXTENDS ReplicaSetController

CONSTANTS
    NoFile,     \* there is no snapshot file
    Torn        \* the file was truncated and not written to its end

ASSUME FileAssumption == NoFile # Torn

(* Mutant: the drain records are not written. *)
MakeSnapshot_NoDrains ==
    [ replicas |-> replicas, sets |-> sets, workers |-> workers, promotions |-> promotions,
      drains |-> <<>>, failover |-> failover, epoch |-> epoch ]

MakeSnapshot ==
    [ replicas |-> replicas, sets |-> sets, workers |-> workers, promotions |-> promotions,
      drains |-> drains, failover |-> failover, epoch |-> epoch ]

(* decode_snapshot succeeds *)
Decodes(bytes) == bytes \notin {NoFile, Torn}

(* validate_recovered_state *)
ValidRecoveredState(state) ==
    /\ \A r \in ReplicaId : state.replicas[r].generation # 0 =>
          /\ state.replicas[r].set_id # NullId
          /\ state.sets[state.replicas[r].set_id].lifecycle # "ABSENT"
    /\ \A s \in SetId : state.sets[s].lifecycle # "ABSENT" =>
          LET c == state.sets[s].cfg
          IN /\ c.max_replicas # 0 /\ c.desired_count # 0 /\ c.min_healthy # 0
             /\ c.min_healthy <= c.max_replicas
             /\ c.desired_count <= c.max_replicas

(* Mutant: the promotion state is restored with the rest. *)
Recovered_KeepsPromotion(rec) ==
    [rec EXCEPT !.serving_eligible = FALSE, !.boot_id = NullId, !.health = "STARTING",
                !.readiness = "UNKNOWN", !.warmth = "COLD", !.role = "NONE"]

(* Mutant: the replica is taken to be as warm as it was. *)
Recovered_KeepsWarmth(rec) ==
    [rec EXCEPT !.serving_eligible = FALSE, !.boot_id = NullId, !.health = "STARTING",
                !.readiness = "UNKNOWN", !.promotion = "NOT_PROMOTED", !.role = "NONE"]

(* Mutant: the replica starts over. *)
Recovered_Rearmed(rec) ==
    [rec EXCEPT !.serving_eligible = FALSE, !.boot_id = NullId, !.health = "STARTING",
                !.readiness = "UNKNOWN", !.warmth = "COLD", !.promotion = "NOT_PROMOTED",
                !.role = "NONE", !.lifecycle = "STARTING"]

(* A replica as it is installed: everything but the authority, the boot and *)
(* the evidence.  The lifecycle stays.                                      *)
Recovered(rec) ==
    [rec EXCEPT !.serving_eligible = FALSE, !.boot_id = NullId, !.health = "STARTING",
                !.readiness = "UNKNOWN", !.warmth = "COLD", !.promotion = "NOT_PROMOTED",
                !.role = "NONE"]

(* The replicas install_recovered_state installs.  Sets, workers and the    *)
(* three kinds of records are installed as they are; the epoch in the file  *)
(* is read and dropped.                                                     *)
RecoveredReplicas(state) ==
    [r \in ReplicaId |-> IF state.replicas[r].generation = 0
                         THEN NoReplica ELSE Recovered(state.replicas[r])]
=============================================================================
