------------------------ MODULE ReplicaSetController ------------------------
(***************************************************************************)
(* The authoritative controller of src/replica_set_controller.cpp.  Every  *)
(* public operation runs under one mutex (mu_), so every operation is one  *)
(* atomic action; concurrency shows as the order in which callers' calls   *)
(* take effect.  A call that returns REJECTED or INVALID without touching  *)
(* the state is a stuttering step and is not written down; a call that     *)
(* changes state and still returns REJECTED is an action of its own.       *)
(*                                                                         *)
(* Data abstraction.  128-bit random identities become counters that are   *)
(* fresh whenever random_id is called; 0 or NullId is the null identity.   *)
(* set_generation stands for the set, policy and artifact generations and  *)
(* the policy fingerprint: they are copied from the set together, compared *)
(* together and never changed by any operation.  `compatible' is the       *)
(* result of check_compatibility on the replica's and its set's fixed      *)
(* data.  Timestamps, texts, memory_residency, active_requests and         *)
(* reserved_capacity (which no operation ever makes non-zero) are left out.*)
(***************************************************************************)
EXTENDS Lifecycle, Naturals, FiniteSets, Sequences

CONSTANTS
    ReplicaId,      \* replica ids; numbers, because failover breaks ties by id
    SetId,          \* replica-set ids
    WorkerId,       \* worker ids
    BootId,         \* boot ids a worker may register with
    Epoch,          \* coordinator epochs
    NullId,         \* the null identity
    Unregistered,   \* workers_ has no entry for the worker
    SetConfigs,     \* the configurations create_replica_set is called with
    Compat,         \* results of check_compatibility provisioning may meet
    Capacities,     \* values of capacity_total
    HealthReports,  \* health states workers report
    Targets,        \* promotion states promote_replica is called with
    Placed,         \* whether set_allocating is given a placement id
    PartialWarm,    \* whether warm_replica is told of a partial warm-up
    AllFactorsSet,  \* whether report_readiness carries all factors
    SetTargets,     \* lifecycles transition_replica_set is called with
    MaxGeneration,  \* bound: incarnations per replica id
    MaxRounds       \* bound: health generations per incarnation

SetConfig ==
    [ generation : Nat, desired_count : Nat, min_healthy : Nat, max_replicas : Nat,
      require_ready : BOOLEAN, require_healthy : BOOLEAN, require_compatible : BOOLEAN,
      require_placement_valid : BOOLEAN, require_resources : BOOLEAN,
      require_diversity : BOOLEAN, prefer_standby_first : BOOLEAN ]

ASSUME IdAssumption ==
    /\ ReplicaId \subseteq Nat
    /\ NullId \notin SetId \cup WorkerId \cup Epoch \cup ReplicaId
    /\ Unregistered \notin BootId \cup {NullId}

ASSUME InputAssumption ==
    /\ SetConfigs \subseteq SetConfig
    /\ Compat \subseteq BOOLEAN
    /\ Capacities \subseteq Nat
    /\ HealthReports \subseteq HealthState
    /\ Targets \subseteq PromotionState
    /\ Placed \subseteq BOOLEAN
    /\ PartialWarm \subseteq BOOLEAN
    /\ AllFactorsSet \subseteq BOOLEAN
    /\ SetTargets \subseteq SetLifecycle

ASSUME BoundAssumption == MaxGeneration \in Nat /\ MaxRounds \in Nat

VARIABLES
    replicas,     \* replicas_: generation 0 means that the map has no entry
    sets,         \* sets_: lifecycle "ABSENT" means that the map has no entry
    workers,      \* workers_: the boot id each worker is registered with
    epoch,        \* epoch_
    promotions,   \* promotions_: the last promotion record of each replica id
    drains,       \* drains_: the drain records in order of creation
    failover      \* failovers_: the contents of the last failover record

vars == <<replicas, sets, workers, epoch, promotions, drains, failover>>

-----------------------------------------------------------------------------
(* A default-constructed ReplicaState, and the entries maps do not have. *)

NoReplica ==
    [ set_id |-> NullId, generation |-> 0, worker_id |-> NullId, boot_id |-> NullId,
      lifecycle |-> "DECLARED", health |-> "UNKNOWN", readiness |-> "UNKNOWN",
      warmth |-> "COLD", placement |-> "PENDING", promotion |-> "NOT_PROMOTED",
      role |-> "NONE", serving_eligible |-> FALSE, capacity_total |-> 0,
      coordinator_epoch |-> NullId, set_generation |-> 0, health_generation |-> 0,
      compatible |-> FALSE ]

NoPromotion == [replica_generation |-> 0, to |-> "NOT_PROMOTED"]

NoConfig ==
    [ generation |-> 0, desired_count |-> 1, min_healthy |-> 1, max_replicas |-> 1,
      require_ready |-> TRUE, require_healthy |-> TRUE, require_compatible |-> TRUE,
      require_placement_valid |-> TRUE, require_resources |-> TRUE,
      require_diversity |-> TRUE, prefer_standby_first |-> TRUE ]

NoSet == [lifecycle |-> "ABSENT", cfg |-> NoConfig]

Init ==
    /\ replicas = [r \in ReplicaId |-> NoReplica]
    /\ sets = [s \in SetId |-> NoSet]
    /\ workers = [w \in WorkerId |-> Unregistered]
    /\ epoch = NullId
    /\ promotions = [r \in ReplicaId |-> NoPromotion]
    /\ drains = <<>>
    /\ failover = NullId

Known(r) == replicas[r].generation # 0
KnownSet(s) == sets[s].lifecycle # "ABSENT"
Cfg(r) == sets[replicas[r].set_id].cfg
MembersOf(s) == {r \in ReplicaId : replicas[r].set_id = s}

(* worker_boot_matches: the caller names the worker and boot of the replica *)
WorkerBootMatches(r, w, b) == replicas[r].worker_id = w /\ replicas[r].boot_id = b

EpochCurrent(r) == replicas[r].coordinator_epoch = epoch

-----------------------------------------------------------------------------
(* Workers *)

(* Authority made obsolete: the assignments shared by register_worker,      *)
(* unregister_worker, fail_replica and trigger_failover.                    *)
Obsolete(rec) ==
    [rec EXCEPT !.serving_eligible = FALSE, !.health = "FAILED",
                !.promotion = "NOT_PROMOTED", !.role = "NONE"]

Failed(rec) == [Obsolete(rec) EXCEPT !.lifecycle = "FAILED"]

(* Mutant: only the replicas of the boot being replaced are failed. *)
LostByRestart_SameBoot(r, w, b) ==
    /\ workers[w] \notin {Unregistered, b}
    /\ replicas[r].worker_id = w
    /\ replicas[r].boot_id = workers[w]
    /\ replicas[r].lifecycle = "SERVING"

(* A known worker with another boot id has restarted: what it was serving fails. *)
LostByRestart(r, w, b) ==
    /\ workers[w] \notin {Unregistered, b}
    /\ replicas[r].worker_id = w
    /\ replicas[r].lifecycle = "SERVING"

RegisterWorker(w, b) ==
    /\ replicas' = [r \in ReplicaId |->
            IF LostByRestart(r, w, b) THEN Failed(replicas[r]) ELSE replicas[r]]
    /\ workers' = [workers EXCEPT ![w] = b]
    /\ UNCHANGED <<sets, epoch, promotions, drains, failover>>

(* Mutant: a disconnect fails whatever the worker hosted. *)
HadAuthority_Any(rec) == rec.generation # 0

HadAuthority(rec) ==
    rec.serving_eligible \/ rec.lifecycle \in {"SERVING", "READY", "DRAINING"}

UnregisterWorker(w) ==
    /\ workers[w] # Unregistered
    /\ replicas' = [r \in ReplicaId |->
            IF replicas[r].worker_id = w /\ HadAuthority(replicas[r])
            THEN Failed(replicas[r]) ELSE replicas[r]]
    /\ workers' = [workers EXCEPT ![w] = Unregistered]
    /\ UNCHANGED <<sets, epoch, promotions, drains, failover>>

-----------------------------------------------------------------------------
(* Replica sets *)

(* Mutant: a set of size zero is accepted. *)
CountsValid_EmptySet(c) ==
    c.min_healthy # 0 /\ c.desired_count <= c.max_replicas

CountsValid(c) ==
    /\ c.max_replicas # 0 /\ c.desired_count # 0 /\ c.min_healthy # 0
    /\ c.min_healthy <= c.max_replicas
    /\ c.desired_count <= c.max_replicas

(* The epoch of the call becomes the epoch of the whole controller. *)
CreateReplicaSet(s, c, e) ==
    /\ ~KnownSet(s)
    /\ CountsValid(c)
    /\ sets' = [sets EXCEPT ![s] = [lifecycle |-> "CREATED", cfg |-> c]]
    /\ epoch' = e
    /\ UNCHANGED <<replicas, workers, promotions, drains, failover>>

TransitionReplicaSet(s, to) ==
    /\ KnownSet(s)
    /\ CanTransitionSet(sets[s].lifecycle, to)
    /\ sets' = [sets EXCEPT ![s].lifecycle = to]
    /\ UNCHANGED <<replicas, workers, epoch, promotions, drains, failover>>

-----------------------------------------------------------------------------
(* Provisioning, start-up and evidence *)

(* Mutant: members that have failed leave room. *)
Provisionable_FailedLeaveRoom(s) ==
    /\ sets[s].lifecycle \notin {"ABSENT", "RETIRED", "FAILED"}
    /\ Cardinality({r \in MembersOf(s) : replicas[r].lifecycle # "FAILED"}) < sets[s].cfg.max_replicas

Provisionable(s) ==
    /\ sets[s].lifecycle \notin {"ABSENT", "RETIRED", "FAILED"}
    /\ Cardinality(MembersOf(s)) < sets[s].cfg.max_replicas

(* A new incarnation.  The map entry is assigned whether or not the id      *)
(* already has one, so an id that is in use starts over.                    *)
ProvisionReplica(r, s, w, compatible, capacity) ==
    /\ Provisionable(s)
    /\ workers[w] # Unregistered
    /\ replicas[r].generation < MaxGeneration
    /\ replicas' = [replicas EXCEPT ![r] =
            [NoReplica EXCEPT !.set_id = s, !.generation = replicas[r].generation + 1,
                              !.worker_id = w, !.boot_id = workers[w],
                              !.capacity_total = capacity, !.compatible = compatible,
                              !.coordinator_epoch = epoch, !.health_generation = 1,
                              !.set_generation = sets[s].cfg.generation]]
    /\ sets' = [sets EXCEPT ![s].lifecycle = IF @ = "CREATED" THEN "PROVISIONING" ELSE @]
    /\ UNCHANGED <<workers, epoch, promotions, drains, failover>>

(* The conditions under which a call is not refused. *)
MayEnter(r, lifecycle) == Known(r) /\ CanTransition(replicas[r].lifecycle, lifecycle)

SetAllocating(r, placed) ==
    /\ MayEnter(r, "ALLOCATING")
    /\ replicas' = [replicas EXCEPT ![r] =
            [@ EXCEPT !.lifecycle = "ALLOCATING",
                      !.placement = IF placed THEN "ASSIGNED" ELSE "PENDING"]]
    /\ UNCHANGED <<sets, workers, epoch, promotions, drains, failover>>

SetStarting(r) ==
    /\ MayEnter(r, "STARTING")
    /\ replicas' = [replicas EXCEPT ![r] =
            [@ EXCEPT !.lifecycle = "STARTING", !.health = "STARTING"]]
    /\ UNCHANGED <<sets, workers, epoch, promotions, drains, failover>>

MayWarm(r, w, b) ==
    /\ Known(r)
    /\ WorkerBootMatches(r, w, b)
    /\ \/ CanTransition(replicas[r].lifecycle, "WARMING")
       \/ replicas[r].lifecycle = "WARMING"

(* partial: some but not all warm-up steps are done *)
WarmReplica(r, w, b, partial) ==
    /\ MayWarm(r, w, b)
    /\ replicas' = [replicas EXCEPT ![r] =
            [@ EXCEPT !.lifecycle = "WARMING", !.warmth = IF partial THEN "WARMING" ELSE "WARM"]]
    /\ UNCHANGED <<sets, workers, epoch, promotions, drains, failover>>

(* Mutant: the promotion state survives the demotion. *)
Demoted_KeepsPromotion(rec) ==
    [rec EXCEPT !.serving_eligible = FALSE, !.role = "SECONDARY"]

(* The demotion report_health and drain_replica share. *)
Demoted(rec) ==
    [rec EXCEPT !.serving_eligible = FALSE, !.role = "SECONDARY", !.promotion = "STANDBY"]

(* Mutant: only FAILED counts as bad news. *)
StripsAuthority_FailedOnly(state) == state = "FAILED"

StripsAuthority(state) == state \in {"FAILED", "UNHEALTHY"}

(* report_health and report_readiness refuse evidence of another worker,    *)
(* boot or epoch, and for a replica that has ended.                         *)
EvidenceAccepted(r, w, b) ==
    /\ Known(r)
    /\ WorkerBootMatches(r, w, b)
    /\ EpochCurrent(r)
    /\ replicas[r].lifecycle \notin Terminated

(* Evidence of the current health generation; bad news for an eligible      *)
(* replica strips its authority but leaves it SERVING.                      *)
ReportHealth(r, w, b, generation, state) ==
    /\ EvidenceAccepted(r, w, b)
    /\ generation = replicas[r].health_generation
    /\ LET rec == [replicas[r] EXCEPT !.health = state]
           strip == rec.serving_eligible /\ StripsAuthority(state)
       IN replicas' = [replicas EXCEPT ![r] = IF strip THEN Demoted(rec) ELSE rec]
    /\ UNCHANGED <<sets, workers, epoch, promotions, drains, failover>>

ReportReadiness(r, w, b, all_set) ==
    /\ EvidenceAccepted(r, w, b)
    /\ LET was == replicas[r].lifecycle
       IN replicas' = [replicas EXCEPT ![r] =
            [@ EXCEPT !.readiness = IF all_set THEN "READY" ELSE "NOT_READY",
                      !.lifecycle = IF all_set /\ was \in {"WARMING", "STARTING"}
                                    THEN "READY" ELSE was]]
    /\ UNCHANGED <<sets, workers, epoch, promotions, drains, failover>>

-----------------------------------------------------------------------------
(* Promotion *)

(* Authority granted: the assignments shared by promote_replica and         *)
(* trigger_failover; the health generation starts a new authority round.    *)
Granted(rec) ==
    [rec EXCEPT !.lifecycle = "SERVING", !.promotion = "PRIMARY", !.role = "PRIMARY",
                !.serving_eligible = TRUE, !.health_generation = @ + 1]

PromotionRecord(r, to) == [replica_generation |-> replicas[r].generation, to |-> to]

(* Mutant: a promotion the trail already shows for this id is not repeated. *)
Recorded_Once(r, to) ==
    IF promotions[r].to = to THEN promotions
    ELSE [promotions EXCEPT ![r] = PromotionRecord(r, to)]

Recorded(r, to) == [promotions EXCEPT ![r] = PromotionRecord(r, to)]

(* The set lifecycle a promotion derives from the number of HEALTHY members *)
(* reps has.                                                                *)
DerivedLifecycle(s, reps) ==
    LET healthy == Cardinality({r \in ReplicaId : reps[r].set_id = s /\ reps[r].health = "HEALTHY"})
        enough == healthy >= sets[s].cfg.min_healthy
        now == sets[s].lifecycle
    IN IF ~enough /\ CanTransitionSet(now, "DEGRADED") THEN "DEGRADED"
       ELSE IF enough /\ CanTransitionSet(now, "AVAILABLE") THEN "AVAILABLE" ELSE now

(* The checks promote_replica makes for every target. *)
MayPromote(r, w, b) ==
    LET rec == replicas[r]
        set == sets[rec.set_id]
    IN /\ Known(r)
       /\ WorkerBootMatches(r, w, b)
       /\ EpochCurrent(r)
       /\ rec.set_generation = set.cfg.generation
       /\ set.cfg.require_ready => rec.lifecycle \in ReadyOrServing
       /\ rec.readiness = "READY"
       /\ set.cfg.require_healthy => rec.health \notin {"UNKNOWN", "STARTING", "UNHEALTHY"}
       /\ set.cfg.require_compatible => rec.compatible
       /\ set.cfg.require_placement_valid => rec.placement = "ASSIGNED"
       /\ set.cfg.require_resources => rec.capacity_total # 0

PromotePrimary(r, w, b) ==
    /\ MayPromote(r, w, b)
    /\ replicas[r].lifecycle \in ReadyOrServing
    /\ replicas[r].health_generation < MaxRounds
    /\ LET known == IF replicas[r].health = "UNKNOWN" THEN "HEALTHY" ELSE replicas[r].health
       IN replicas' = [replicas EXCEPT ![r] = [Granted(@) EXCEPT !.health = known]]
    /\ promotions' = Recorded(r, "PRIMARY")
    /\ sets' = [sets EXCEPT ![replicas[r].set_id].lifecycle =
                                DerivedLifecycle(replicas[r].set_id, replicas')]
    /\ UNCHANGED <<workers, epoch, drains, failover>>

(* Standby, canary, replacement and recovered replicas do not serve. *)
Assigned(rec, target) ==
    [rec EXCEPT !.promotion = target,
                !.role = IF target = "RECOVERED" THEN "SECONDARY" ELSE "STANDBY",
                !.serving_eligible = FALSE]

PromoteOther(r, w, b, target) ==
    /\ MayPromote(r, w, b)
    /\ target # "PRIMARY"
    /\ replicas' = [replicas EXCEPT ![r] = Assigned(@, target)]
    /\ promotions' = Recorded(r, target)
    /\ sets' = [sets EXCEPT ![replicas[r].set_id].lifecycle =
                                DerivedLifecycle(replicas[r].set_id, replicas')]
    /\ UNCHANGED <<workers, epoch, drains, failover>>

-----------------------------------------------------------------------------
(* Draining, failure, retirement *)

OpenDrain(r) == [replica_id |-> r, state |-> "DRAINING"]

(* Mutant: a replica id that was drained before gets no new record. *)
DrainRecorded_Once(r) ==
    IF \E i \in DOMAIN drains : drains[i].replica_id = r THEN drains
    ELSE Append(drains, OpenDrain(r))

DrainRecorded(r) == Append(drains, OpenDrain(r))

MayDrain(r, w, b) ==
    /\ Known(r)
    /\ WorkerBootMatches(r, w, b)
    /\ EpochCurrent(r)
    /\ replicas[r].lifecycle \in ReadyOrServing

DrainReplica(r, w, b) ==
    /\ MayDrain(r, w, b)
    /\ replicas' = [replicas EXCEPT ![r] = [Demoted(@) EXCEPT !.lifecycle = "DRAINING"]]
    /\ drains' = DrainRecorded(r)
    /\ UNCHANGED <<sets, workers, epoch, promotions, failover>>

(* Mutant: records are matched by their state alone. *)
ToClose_AnyReplica(r) == {i \in DOMAIN drains : drains[i].state = "DRAINING"}

ToClose(r) == {i \in DOMAIN drains : drains[i] = OpenDrain(r)}

(* Mutant: the record skips to another final state. *)
Closed_Complete(rec) == [rec EXCEPT !.state = "COMPLETE"]

Closed(rec) == [rec EXCEPT !.state = "QUIESCED"]

(* The first open record of the replica id is closed: an older one, if an   *)
(* earlier incarnation left it open.                                        *)
CompleteDrain(r) ==
    /\ Known(r)
    /\ replicas[r].lifecycle = "DRAINING"
    /\ replicas' = [replicas EXCEPT ![r] =
            [@ EXCEPT !.lifecycle = "QUIESCED", !.serving_eligible = FALSE]]
    /\ drains' = [i \in DOMAIN drains |->
            IF i \in ToClose(r) /\ \A j \in ToClose(r) : i <= j
            THEN Closed(drains[i]) ELSE drains[i]]
    /\ UNCHANGED <<sets, workers, epoch, promotions, failover>>

FailReplica(r, w, b) ==
    /\ Known(r)
    /\ WorkerBootMatches(r, w, b)
    /\ CanTransition(replicas[r].lifecycle, "FAILED")
    /\ replicas' = [replicas EXCEPT ![r] = Failed(@)]
    /\ UNCHANGED <<sets, workers, epoch, promotions, drains, failover>>

(* fail_replica returning REJECTED: authority is wiped before the           *)
(* transition is checked.                                                   *)
FailReplicaRejected(r, w, b) ==
    /\ Known(r)
    /\ WorkerBootMatches(r, w, b)
    /\ ~CanTransition(replicas[r].lifecycle, "FAILED")
    /\ replicas' = [replicas EXCEPT ![r] = Obsolete(@)]
    /\ UNCHANGED <<sets, workers, epoch, promotions, drains, failover>>

RetireReplica(r) ==
    /\ Known(r)
    /\ CanTransition(replicas[r].lifecycle, "RETIRED")
    /\ replicas' = [replicas EXCEPT ![r] =
            [@ EXCEPT !.lifecycle = "RETIRED", !.serving_eligible = FALSE,
                      !.promotion = "NOT_PROMOTED", !.role = "NONE", !.warmth = "INVALIDATED"]]
    /\ UNCHANGED <<sets, workers, epoch, promotions, drains, failover>>

-----------------------------------------------------------------------------
(* Failover *)

(* The failed replica's authority is obsolete; it fails if its lifecycle    *)
(* allows it.                                                               *)
MarkedFailed(rec) ==
    [Obsolete(rec) EXCEPT !.lifecycle = IF CanTransition(@, "FAILED") THEN "FAILED" ELSE @]

(* Mutant: the lifecycle of a candidate is not looked at. *)
Candidates_AnyLifecycle(s, failed) ==
    {r \in MembersOf(s) \ {failed} :
        /\ replicas[r].readiness = "READY"
        /\ replicas[r].health \in {"HEALTHY", "DEGRADED"}
        /\ replicas[r].compatible
        /\ replicas[r].placement = "ASSIGNED"
        /\ replicas[r].set_generation = sets[s].cfg.generation}

Candidates(s, failed) ==
    {r \in MembersOf(s) \ {failed} :
        /\ replicas[r].lifecycle \in ReadyOrServing
        /\ replicas[r].readiness = "READY"
        /\ replicas[r].health \in {"HEALTHY", "DEGRADED"}
        /\ replicas[r].compatible
        /\ replicas[r].placement = "ASSIGNED"
        /\ replicas[r].set_generation = sets[s].cfg.generation}

RoleRank(p) ==
    CASE p = "STANDBY" -> 0 [] p = "CANARY" -> 1 [] p = "REPLACEMENT" -> 2
      [] p = "RECOVERED" -> 3 [] OTHER -> 4

Elsewhere(r, failed) == replicas[r].worker_id # replicas[failed].worker_id

(* Mutant: the workers are not compared with each other, so of two          *)
(* candidates elsewhere each sorts before the other.                        *)
SortsBefore_NotStrict(a, b, failed, c) ==
    IF c.prefer_standby_first /\ RoleRank(replicas[a].promotion) # RoleRank(replicas[b].promotion)
    THEN RoleRank(replicas[a].promotion) < RoleRank(replicas[b].promotion)
    ELSE IF c.require_diversity THEN Elsewhere(a, failed) ELSE a < b

(* Mutant: the id decides before the worker does. *)
SortsBefore_IdFirst(a, b, failed, c) ==
    IF c.prefer_standby_first /\ RoleRank(replicas[a].promotion) # RoleRank(replicas[b].promotion)
    THEN RoleRank(replicas[a].promotion) < RoleRank(replicas[b].promotion)
    ELSE a < b

(* The comparator of the stable_sort over the candidates. *)
SortsBefore(a, b, failed, c) ==
    IF c.prefer_standby_first /\ RoleRank(replicas[a].promotion) # RoleRank(replicas[b].promotion)
    THEN RoleRank(replicas[a].promotion) < RoleRank(replicas[b].promotion)
    ELSE IF c.require_diversity /\ Elsewhere(a, failed) # Elsewhere(b, failed)
         THEN Elsewhere(a, failed)
         ELSE a < b

(* candidates.front() after the sort *)
IsFront(r, s, failed) ==
    \A q \in Candidates(s, failed) \ {r} : SortsBefore(r, q, failed, sets[s].cfg)

FailoverRecord(s, failed, replacement, state) ==
    [set_id |-> s, failed_replica |-> failed, replacement |-> replacement, state |-> state]

TriggerFailover(s, failed, chosen) ==
    /\ KnownSet(s)
    /\ Known(failed) /\ replicas[failed].set_id = s
    /\ chosen \in Candidates(s, failed)
    /\ IsFront(chosen, s, failed)
    /\ replicas[chosen].health_generation < MaxRounds
    /\ replicas' = [replicas EXCEPT ![failed] = MarkedFailed(@), ![chosen] = Granted(@)]
    /\ failover' = FailoverRecord(s, failed, chosen, "COMPLETE")
    /\ promotions' = Recorded(chosen, "PRIMARY")
    /\ sets' = [sets EXCEPT ![s].lifecycle = DerivedLifecycle(s, replicas')]
    /\ UNCHANGED <<workers, epoch, drains>>

(* No candidate: the failed replica is marked and the call returns          *)
(* REJECTED before the set lifecycle is derived.                            *)
TriggerFailoverRejected(s, failed) ==
    /\ KnownSet(s)
    /\ Known(failed) /\ replicas[failed].set_id = s
    /\ Candidates(s, failed) = {}
    /\ replicas' = [replicas EXCEPT ![failed] = MarkedFailed(@)]
    /\ failover' = FailoverRecord(s, failed, NullId, "FAILED")
    /\ UNCHANGED <<sets, workers, epoch, promotions, drains>>

-----------------------------------------------------------------------------
(* The serving-authority gate: servable and evaluate_serving_authority.     *)
(* The health generation is compared with itself, so it never rejects.      *)

CurrentBootFor(r) ==
    LET w == replicas[r].worker_id
    IN IF w \in WorkerId /\ workers[w] # Unregistered THEN workers[w] ELSE NullId

Servable(r) ==
    LET rec == replicas[r]
        set == sets[rec.set_id]
    IN /\ Known(r)
       /\ set.lifecycle \in {"AVAILABLE", "DEGRADED"}
       /\ EpochCurrent(r)
       /\ rec.set_generation = set.cfg.generation
       /\ rec.boot_id = CurrentBootFor(r)
       /\ rec.lifecycle = "SERVING"
       /\ rec.health \in {"HEALTHY", "DEGRADED"}
       /\ rec.readiness = "READY"
       /\ rec.warmth = "WARM"
       /\ rec.promotion # "NOT_PROMOTED"
       /\ rec.serving_eligible
       /\ rec.placement = "ASSIGNED"

-----------------------------------------------------------------------------
WorkerStep(r, w, b) ==
    \/ \E partial \in PartialWarm : WarmReplica(r, w, b, partial)
    \/ \E g \in 1..MaxRounds, h \in HealthReports : ReportHealth(r, w, b, g, h)
    \/ \E all_set \in AllFactorsSet : ReportReadiness(r, w, b, all_set)
    \/ "PRIMARY" \in Targets /\ PromotePrimary(r, w, b)
    \/ \E target \in Targets : PromoteOther(r, w, b, target)
    \/ DrainReplica(r, w, b)
    \/ FailReplica(r, w, b)
    \/ FailReplicaRejected(r, w, b)

Next ==
    \/ \E w \in WorkerId, b \in BootId : RegisterWorker(w, b)
    \/ \E w \in WorkerId : UnregisterWorker(w)
    \/ \E s \in SetId, c \in SetConfigs, e \in Epoch : CreateReplicaSet(s, c, e)
    \/ \E s \in SetId, to \in SetTargets : TransitionReplicaSet(s, to)
    \/ \E r \in ReplicaId, s \in SetId, w \in WorkerId, compatible \in Compat, capacity \in Capacities :
          ProvisionReplica(r, s, w, compatible, capacity)
    \/ \E r \in ReplicaId, placed \in Placed : SetAllocating(r, placed)
    \/ \E r \in ReplicaId : SetStarting(r) \/ CompleteDrain(r) \/ RetireReplica(r)
    \/ \E r \in ReplicaId, w \in WorkerId, b \in BootId : WorkerStep(r, w, b)
    \/ \E s \in SetId, f \in ReplicaId, c \in ReplicaId : TriggerFailover(s, f, c)
    \/ \E s \in SetId, f \in ReplicaId : TriggerFailoverRejected(s, f)

Spec == Init /\ [][Next]_vars

-----------------------------------------------------------------------------
(* Properties: type correctness *)

Replica ==
    [ set_id : SetId \cup {NullId}, generation : 0..MaxGeneration,
      worker_id : WorkerId \cup {NullId}, boot_id : BootId \cup {NullId},
      lifecycle : ReplicaLifecycle, health : HealthState, readiness : ReadinessState,
      warmth : {"COLD", "WARMING", "WARM", "INVALIDATED"}, placement : {"PENDING", "ASSIGNED"},
      promotion : PromotionState, role : ReplicaRole \ {"CANARY"}, serving_eligible : BOOLEAN,
      capacity_total : Nat, coordinator_epoch : Epoch \cup {NullId},
      set_generation : Nat, health_generation : Nat, compatible : BOOLEAN ]

PromotionRecords == [replica_generation : Nat, to : PromotionState]

FailoverRecords ==
    [ set_id : SetId, failed_replica : ReplicaId, replacement : ReplicaId \cup {NullId},
      state : {"COMPLETE", "FAILED"} ]

(* Every variable has its type.  Narrower than the C++ types where the      *)
(* controller never produces a value: drain records are only ever DRAINING  *)
(* or QUIESCED, STALE_WARMTH and the CANARY role are never assigned, and a  *)
(* known replica always names a known set, a worker and an incarnation.     *)
TypeOK ==
    /\ replicas \in [ReplicaId -> Replica]
    /\ sets \in [SetId -> [lifecycle : SetLifecycle \cup {"ABSENT"}, cfg : SetConfigs \cup {NoConfig}]]
    /\ workers \in [WorkerId -> BootId \cup {Unregistered}]
    /\ epoch \in Epoch \cup {NullId}
    /\ promotions \in [ReplicaId -> PromotionRecords]
    /\ drains \in Seq([replica_id : ReplicaId, state : {"DRAINING", "QUIESCED"}])
    /\ failover \in FailoverRecords \cup {NullId}
    /\ \A r \in ReplicaId : Known(r) => /\ replicas[r].set_id \in SetId
                                        /\ KnownSet(replicas[r].set_id)
                                        /\ replicas[r].worker_id \in WorkerId

-----------------------------------------------------------------------------
(* Properties: authority *)

Coherent(rec) ==
    /\ rec.serving_eligible <=> rec.promotion = "PRIMARY"
    /\ rec.serving_eligible <=> rec.role = "PRIMARY"
    /\ rec.serving_eligible => rec.lifecycle = "SERVING"

(* The serving flag, the PRIMARY promotion and the PRIMARY role are gained  *)
(* and lost together by every operation, and only a SERVING replica has     *)
(* them: each of the ten operations that touch authority assigns the three  *)
(* fields separately.                                                       *)
AuthorityCoherent == \A r \in ReplicaId : Coherent(replicas[r])

(* Whatever the gate lets serve is PRIMARY (the gate itself would accept    *)
(* STANDBY), and the last entry of the promotion trail for its id records   *)
(* just that: a promotion to PRIMARY of the current incarnation (README:    *)
(* "Every promotion gets a stable PromotionId and auditability").           *)
ServableAudited ==
    \A r \in ReplicaId : Servable(r) =>
        /\ replicas[r].promotion = "PRIMARY"
        /\ promotions[r] = PromotionRecord(r, "PRIMARY")

(* Where policy requires health, no replica holds authority while its last  *)
(* health evidence says UNHEALTHY: report_health strips what it holds and   *)
(* promotion refuses to give it back.                                       *)
UnhealthyHoldsNothing ==
    \A r \in ReplicaId :
        replicas[r].serving_eligible /\ Cfg(r).require_healthy => replicas[r].health # "UNHEALTHY"

SameIncarnation(r) == replicas'[r].generation = replicas[r].generation

(* Within one incarnation every lifecycle change is an edge of              *)
(* can_transition, also where the code assigns the lifecycle without asking *)
(* the table (register_worker, unregister_worker, warm_replica,             *)
(* trigger_failover).                                                       *)
LifecycleLegal ==
    [][\A r \in ReplicaId :
        SameIncarnation(r) /\ replicas'[r].lifecycle # replicas[r].lifecycle
            => CanTransition(replicas[r].lifecycle, replicas'[r].lifecycle)]_vars

(* Losing a worker - it disconnects, or it comes back under another boot    *)
(* id - leaves no replica on it with serving authority, whichever order the *)
(* boots and registrations come in (architecture.md: "A restarted worker    *)
(* ... cannot inherit prior serving authority").                            *)
WorkerLossRevokes ==
    [][\A w \in WorkerId :
        workers[w] # Unregistered /\ workers'[w] # workers[w]
            => \A r \in ReplicaId :
                  replicas'[r].worker_id = w => ~replicas'[r].serving_eligible]_vars

-----------------------------------------------------------------------------
(* Properties: draining, capacity, failover *)

(* A DRAINING replica has an open drain record for complete_drain to close, *)
(* although records are matched by replica id alone and an earlier          *)
(* incarnation may have left one open.                                      *)
DrainAudited ==
    \A r \in ReplicaId : replicas[r].lifecycle = "DRAINING" => \E i \in DOMAIN drains : drains[i] = OpenDrain(r)

(* No set has more members than max_replicas, although members that failed  *)
(* or drained still count, and an id that is in use may be provisioned      *)
(* again, into this set or another, while there is room.                    *)
CapacityRespected ==
    \A s \in SetId : Cardinality(MembersOf(s)) <= sets[s].cfg.max_replicas

(* The comparator given to stable_sort orders the candidates of every       *)
(* possible failover totally: exactly one of them is first, so the choice   *)
(* is deterministic (README: "selects an eligible replacement               *)
(* deterministically").                                                     *)
FailoverDeterministic ==
    \A s \in SetId, f \in ReplicaId :
        KnownSet(s) /\ Known(f) /\ replicas[f].set_id = s /\ Candidates(s, f) # {}
            => Cardinality({c \in Candidates(s, f) : IsFront(c, s, f)}) = 1

(* Anti-affinity: a failover gives authority to a replica on the failed     *)
(* replica's own worker only if every candidate elsewhere has a lower       *)
(* standing and policy puts standing first.                                 *)
FailoverDiverse ==
    [][\A s \in SetId, f, c \in ReplicaId :
        sets[s].cfg.require_diversity /\ TriggerFailover(s, f, c) /\ ~Elsewhere(c, f)
            => \A q \in Candidates(s, f) : Elsewhere(q, f) =>
                  /\ sets[s].cfg.prefer_standby_first
                  /\ RoleRank(replicas[c].promotion) < RoleRank(replicas[q].promotion)]_vars

-----------------------------------------------------------------------------
(* The controller implements the abstract lease. *)

LeasePhase ==
    [r \in ReplicaId |->
        IF ~Known(r) THEN "ABSENT"
        ELSE IF replicas[r].lifecycle \in Terminated \cup {"DRAINING"} THEN "ENDED"
        ELSE IF replicas[r].serving_eligible THEN "LEASED" ELSE "IDLE"]

Lease == INSTANCE ServingLease WITH
    phase <- LeasePhase,
    incarnation <- [r \in ReplicaId |-> replicas[r].generation]

(* Serving authority behaves as ServingLease says: an incarnation that      *)
(* started draining, failed or was retired never gets authority again       *)
(* (README: "A drained replica does not silently become serving again"),    *)
(* and one step grants authority to at most one replica.                    *)
ImplementsLease == Lease!Spec
=============================================================================
