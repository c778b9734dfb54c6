-------------------------- MODULE MCFailoverChoice --------------------------
(***************************************************************************)
(* The choice of a failover replacement, from every standing a set of four *)
(* started replicas can have on two workers, under every combination of    *)
(* the two failover policy flags.  The initial states are states the       *)
(* controller reaches (each replica was placed, warmed, reported ready and *)
(* healthy and promoted to some target, a grant starting a new round);     *)
(* only failovers happen from there.                                       *)
(***************************************************************************)
EXTENDS ReplicaSetController, TLC

ChoiceConfigs ==
    {[NoConfig EXCEPT !.generation = 1, !.desired_count = 4, !.max_replicas = 4,
                      !.require_diversity = diversity, !.prefer_standby_first = standby] :
        diversity, standby \in BOOLEAN}

StartedReplica(s, w, b, e, standing) ==
    [NoReplica EXCEPT
        !.set_id = s, !.generation = 1, !.worker_id = w, !.boot_id = b,
        !.lifecycle = IF standing = "PRIMARY" THEN "SERVING" ELSE "READY",
        !.health = "HEALTHY", !.readiness = "READY", !.warmth = "WARM",
        !.placement = "ASSIGNED", !.promotion = standing,
        !.role = CASE standing = "PRIMARY" -> "PRIMARY" [] standing = "NOT_PROMOTED" -> "NONE"
                   [] standing = "RECOVERED" -> "SECONDARY" [] OTHER -> "STANDBY",
        !.serving_eligible = (standing = "PRIMARY"), !.capacity_total = 1,
        !.coordinator_epoch = e, !.set_generation = 1,
        !.health_generation = IF standing = "PRIMARY" THEN 2 ELSE 1,
        !.compatible = TRUE]

ChoiceInit ==
    \E s \in SetId, b \in BootId, e \in Epoch, c \in SetConfigs :
    \E host \in [ReplicaId -> WorkerId], standing \in [ReplicaId -> Targets] :
        /\ replicas = [r \in ReplicaId |-> StartedReplica(s, host[r], b, e, standing[r])]
        /\ sets = [q \in SetId |-> [lifecycle |-> "AVAILABLE", cfg |-> c]]
        /\ workers = [w \in WorkerId |-> b]
        /\ epoch = e
        /\ promotions = [r \in ReplicaId |->
                IF standing[r] = "NOT_PROMOTED" THEN NoPromotion
                ELSE [replica_generation |-> 1, to |-> standing[r]]]
        /\ drains = <<>>
        /\ failover = NullId

ChoiceNext ==
    \E s \in SetId, f \in ReplicaId :
        \/ \E c \in ReplicaId : TriggerFailover(s, f, c)
        \/ TriggerFailoverRejected(s, f)

ChoiceSpec == ChoiceInit /\ [][ChoiceNext]_vars

(* Workers are interchangeable: nothing orders worker ids. *)
WorkerSymmetry == Permutations(WorkerId)
=============================================================================
