--------------------- MODULE ReplicaSetControllerProofs ---------------------
(***************************************************************************)
(* Machine-checked proofs about ReplicaSetController, for every value of   *)
(* its constants that satisfies IdAssumption, InputAssumption and          *)
(* BoundAssumption.                                                        *)
(***************************************************************************)
EXTENDS ReplicaSetController, SequenceTheorems, TLAPS

SetState == [lifecycle : SetLifecycle \cup {"ABSENT"}, cfg : SetConfigs \cup {NoConfig}]

(* q is the same incarnation as p, of the same set and on the same worker. *)
SameIdentity(p, q) ==
    /\ q.generation = p.generation
    /\ q.set_id = p.set_id
    /\ q.worker_id = p.worker_id

(* q.lifecycle is reached from p.lifecycle by an edge of the table, unless  *)
(* q is a new incarnation.                                                  *)
LegalMove(p, q) ==
    q.generation = p.generation /\ q.lifecycle # p.lifecycle
        => CanTransition(p.lifecycle, q.lifecycle)

(* Who holds authority was promoted to PRIMARY in its current incarnation,  *)
(* and nothing was recorded for its id since.                               *)
Audited == \A r \in ReplicaId :
    replicas[r].serving_eligible => promotions[r] = PromotionRecord(r, "PRIMARY")

(* The inductive invariant: the authority fields agree in every replica and *)
(* with the promotion trail.                                                *)
IInv == TypeOK /\ AuthorityCoherent /\ Audited

-----------------------------------------------------------------------------
(* Members of the enumerations the operations assign. *)
LEMMA Names ==
    /\ {"FAILED", "STARTING", "HEALTHY", "UNKNOWN"} \subseteq HealthState
    /\ {"NOT_PROMOTED", "STANDBY", "PRIMARY"} \subseteq PromotionState
    /\ {"NONE", "PRIMARY", "SECONDARY", "STANDBY"} \subseteq ReplicaRole \ {"CANARY"}
    /\ {"UNKNOWN", "READY", "NOT_READY"} \subseteq ReadinessState
    /\ {"DECLARED", "ALLOCATING", "STARTING", "WARMING", "READY", "SERVING", "DRAINING",
        "QUIESCED", "FAILED", "RETIRED"} \subseteq ReplicaLifecycle
    /\ {"CREATED", "PROVISIONING", "AVAILABLE", "DEGRADED"} \subseteq SetLifecycle
    /\ "ABSENT" \notin SetLifecycle
BY DEF HealthState, PromotionState, ReplicaRole, ReadinessState, ReplicaLifecycle, SetLifecycle

-----------------------------------------------------------------------------
(* What the record operators do *)

(* Obsolete strips a record of all authority and touches nothing else but   *)
(* its health.                                                              *)
LEMMA ObsoleteFacts ==
    ASSUME NEW rec \in Replica
    PROVE  /\ Obsolete(rec) \in Replica
           /\ SameIdentity(rec, Obsolete(rec))
           /\ Obsolete(rec).lifecycle = rec.lifecycle
           /\ Coherent(Obsolete(rec))
           /\ ~Obsolete(rec).serving_eligible
<1>1. Obsolete(rec) \in Replica
  BY Names DEF Obsolete, Replica
<1>2. QED
  BY <1>1 DEF Obsolete, Replica, SameIdentity, Coherent

(* So do Failed, which also moves it to FAILED, and MarkedFailed, which     *)
(* does so where the table allows it.                                       *)
LEMMA FailedFacts ==
    ASSUME NEW rec \in Replica
    PROVE  /\ Failed(rec) \in Replica
           /\ SameIdentity(rec, Failed(rec))
           /\ Failed(rec).lifecycle = "FAILED"
           /\ Coherent(Failed(rec))
           /\ ~Failed(rec).serving_eligible
<1> DEFINE o == Obsolete(rec)
<1>1. /\ o \in Replica /\ SameIdentity(rec, o) /\ Coherent(o) /\ ~o.serving_eligible
  BY ObsoleteFacts
<1>2. Failed(rec) = [o EXCEPT !.lifecycle = "FAILED"]
  BY DEF Failed
<1> HIDE DEF o
<1>3. QED
  BY <1>1, <1>2, Names DEF Replica, SameIdentity, Coherent

LEMMA MarkedFailedFacts ==
    ASSUME NEW rec \in Replica
    PROVE  /\ MarkedFailed(rec) \in Replica
           /\ SameIdentity(rec, MarkedFailed(rec))
           /\ MarkedFailed(rec).lifecycle =
                 IF CanTransition(rec.lifecycle, "FAILED") THEN "FAILED" ELSE rec.lifecycle
           /\ Coherent(MarkedFailed(rec))
           /\ ~MarkedFailed(rec).serving_eligible
<1> DEFINE o == Obsolete(rec)
           l == IF CanTransition(rec.lifecycle, "FAILED") THEN "FAILED" ELSE rec.lifecycle
<1>1. /\ o \in Replica /\ SameIdentity(rec, o) /\ Coherent(o) /\ ~o.serving_eligible
      /\ o.lifecycle = rec.lifecycle
  BY ObsoleteFacts
<1>2. MarkedFailed(rec) = [o EXCEPT !.lifecycle = l]
  BY <1>1 DEF MarkedFailed
<1>3. l \in ReplicaLifecycle
  BY Names DEF Replica
<1> HIDE DEF o, l
<1>4. /\ [o EXCEPT !.lifecycle = l] \in Replica
      /\ SameIdentity(rec, [o EXCEPT !.lifecycle = l])
      /\ [o EXCEPT !.lifecycle = l].lifecycle = l
      /\ Coherent([o EXCEPT !.lifecycle = l])
      /\ ~[o EXCEPT !.lifecycle = l].serving_eligible
  BY <1>1, <1>3 DEF Replica, SameIdentity, Coherent
<1>5. QED
  BY <1>2, <1>4 DEF l

(* Granted gives a record all of the authority at once. *)
LEMMA GrantedFacts ==
    ASSUME NEW rec \in Replica
    PROVE  /\ Granted(rec) \in Replica
           /\ SameIdentity(rec, Granted(rec))
           /\ Granted(rec).lifecycle = "SERVING"
           /\ Coherent(Granted(rec))
           /\ Granted(rec).serving_eligible
<1>1. Granted(rec) \in Replica
  <2> DEFINE n == rec.health_generation + 1
  <2>1. n \in Nat
    BY DEF Replica
  <2>2. Granted(rec) = [rec EXCEPT !.lifecycle = "SERVING", !.promotion = "PRIMARY",
                                   !.role = "PRIMARY", !.serving_eligible = TRUE,
                                   !.health_generation = n]
    BY DEF Granted
  <2> HIDE DEF n
  <2>3. QED
    BY <2>1, <2>2, Names DEF Replica
<1>2. /\ Granted(rec).serving_eligible = TRUE
      /\ Granted(rec).promotion = "PRIMARY"
      /\ Granted(rec).role = "PRIMARY"
      /\ Granted(rec).lifecycle = "SERVING"
  BY DEF Granted, Replica
<1>3. SameIdentity(rec, Granted(rec))
  BY DEF Granted, Replica, SameIdentity
<1>4. QED
  BY <1>1, <1>2, <1>3, Zenon DEF Coherent

(* Demoted and Assigned take it away. *)
LEMMA DemotedFacts ==
    ASSUME NEW rec \in Replica
    PROVE  /\ Demoted(rec) \in Replica
           /\ SameIdentity(rec, Demoted(rec))
           /\ Demoted(rec).lifecycle = rec.lifecycle
           /\ Coherent(Demoted(rec))
           /\ ~Demoted(rec).serving_eligible
<1>1. Demoted(rec) \in Replica
  BY Names DEF Demoted, Replica
<1>2. QED
  BY <1>1 DEF Demoted, Replica, SameIdentity, Coherent

LEMMA AssignedFacts ==
    ASSUME NEW rec \in Replica, NEW target \in PromotionState, target # "PRIMARY"
    PROVE  /\ Assigned(rec, target) \in Replica
           /\ SameIdentity(rec, Assigned(rec, target))
           /\ Assigned(rec, target).lifecycle = rec.lifecycle
           /\ Coherent(Assigned(rec, target))
           /\ ~Assigned(rec, target).serving_eligible
<1>1. Assigned(rec, target) \in Replica
  BY Names DEF Assigned, Replica
<1>2. QED
  BY <1>1 DEF Assigned, Replica, SameIdentity, Coherent

-----------------------------------------------------------------------------
(* Steps *)

(* sets changes at most in the lifecycles of sets that stay known. *)
SetsKept ==
    /\ sets' \in [SetId -> SetState]
    /\ \A s \in SetId : KnownSet(s) => KnownSet(s)'

(* What every step must show. *)
StepOK == IInv' /\ \A q \in ReplicaId : LegalMove(replicas[q], replicas'[q])

(* A step that rewrites the records of replicas in place keeps the          *)
(* invariant if the new records have their type and identity, are coherent, *)
(* move legally and are audited.                                            *)
LEMMA InPlace ==
    ASSUME IInv,
           replicas' \in [ReplicaId -> Replica],
           \A q \in ReplicaId : /\ SameIdentity(replicas[q], replicas'[q])
                                /\ Coherent(replicas'[q])
                                /\ LegalMove(replicas[q], replicas'[q])
                                /\ replicas'[q].serving_eligible
                                      => promotions'[q] = PromotionRecord(q, "PRIMARY"),
           SetsKept,
           workers' \in [WorkerId -> BootId \cup {Unregistered}],
           epoch' \in Epoch \cup {NullId},
           promotions' \in [ReplicaId -> PromotionRecords],
           drains' \in Seq([replica_id : ReplicaId, state : {"DRAINING", "QUIESCED"}]),
           failover' \in FailoverRecords \cup {NullId}
    PROVE  StepOK
<1>1. TypeOK'
  BY DEF IInv, TypeOK, SetsKept, SetState, SameIdentity, Known, KnownSet
<1>2. AuthorityCoherent'
  BY DEF AuthorityCoherent
<1>3. Audited'
  BY DEF Audited, PromotionRecord, SameIdentity
<1>4. QED
  BY <1>1, <1>2, <1>3 DEF IInv, StepOK

(* The same for a step that rewrites the record of one replica only. *)
LEMMA Update ==
    ASSUME IInv, NEW r \in ReplicaId, NEW rec \in Replica,
           replicas' = [replicas EXCEPT ![r] = rec],
           SameIdentity(replicas[r], rec), Coherent(rec), LegalMove(replicas[r], rec),
           promotions' \in [ReplicaId -> PromotionRecords],
           rec.serving_eligible => promotions'[r] = PromotionRecord(r, "PRIMARY"),
           \A q \in ReplicaId \ {r} : promotions'[q] = promotions[q],
           SetsKept, UNCHANGED <<workers, epoch>>,
           drains' \in Seq([replica_id : ReplicaId, state : {"DRAINING", "QUIESCED"}]),
           failover' \in FailoverRecords \cup {NullId}
    PROVE  StepOK
<1>1. replicas \in [ReplicaId -> Replica]
  BY DEF IInv, TypeOK
<1>2. replicas' \in [ReplicaId -> Replica]
  BY <1>1
<1>3. ASSUME NEW q \in ReplicaId
      PROVE  /\ SameIdentity(replicas[q], replicas'[q])
             /\ Coherent(replicas'[q])
             /\ LegalMove(replicas[q], replicas'[q])
             /\ replicas'[q].serving_eligible => promotions'[q] = PromotionRecord(q, "PRIMARY")
  <2>1. CASE q = r
    BY <1>1, <2>1
  <2>2. CASE q # r
    <3>1. replicas'[q] = replicas[q] /\ promotions'[q] = promotions[q]
      BY <1>1, <2>2
    <3>2. Coherent(replicas[q]) /\ (replicas[q].serving_eligible => promotions[q] = PromotionRecord(q, "PRIMARY"))
      BY DEF IInv, AuthorityCoherent, Audited
    <3>3. QED
      BY <3>1, <3>2 DEF SameIdentity, LegalMove
  <2>3. QED
    BY <2>1, <2>2
<1>4. workers' \in [WorkerId -> BootId \cup {Unregistered}] /\ epoch' \in Epoch \cup {NullId}
  BY DEF IInv, TypeOK
<1>5. QED
  BY <1>2, <1>3, <1>4, InPlace

(* The same for a step that gives no authority and changes nothing else. *)
LEMMA QuietUpdate ==
    ASSUME IInv, NEW r \in ReplicaId, NEW rec \in Replica,
           replicas' = [replicas EXCEPT ![r] = rec],
           SameIdentity(replicas[r], rec), Coherent(rec), LegalMove(replicas[r], rec),
           rec.serving_eligible => replicas[r].serving_eligible,
           UNCHANGED <<sets, workers, epoch, promotions, drains, failover>>
    PROVE  StepOK
<1>1. SetsKept
  BY DEF IInv, TypeOK, SetsKept, SetState, KnownSet
<1>2. rec.serving_eligible => promotions'[r] = PromotionRecord(r, "PRIMARY")
  BY DEF IInv, Audited
<1>3. /\ promotions' \in [ReplicaId -> PromotionRecords]
      /\ drains' \in Seq([replica_id : ReplicaId, state : {"DRAINING", "QUIESCED"}])
      /\ failover' \in FailoverRecords \cup {NullId}
  BY DEF IInv, TypeOK
<1>4. QED
  BY <1>1, <1>2, <1>3, Update

(* The edges of the table that operations take without asking it. *)
LEMMA Edges ==
    /\ \A l \in ReplicaLifecycle \ Terminated : CanTransition(l, "FAILED")
    /\ \A l \in {"READY", "SERVING"} : CanTransition(l, "DRAINING")
    /\ \A l \in {"WARMING", "STARTING"} : CanTransition(l, "READY")
    /\ CanTransition("READY", "SERVING")
    /\ CanTransition("DRAINING", "QUIESCED")
    /\ \A l \in {"ALLOCATING", "STARTING", "WARMING"} : ~CanTransition("SERVING", l)
BY DEF CanTransition, ReplicaEdges, ReplicaLifecycle, Terminated

(* A registration, also one that reveals a restart, is a legal step. *)
LEMMA RegisterStep ==
    ASSUME IInv, NEW w \in WorkerId, NEW b \in BootId, RegisterWorker(w, b)
    PROVE  StepOK
<1>1. replicas \in [ReplicaId -> Replica]
  BY DEF IInv, TypeOK
<1>2. replicas' \in [ReplicaId -> Replica]
  BY <1>1, FailedFacts DEF RegisterWorker
<1>3. ASSUME NEW q \in ReplicaId
      PROVE  /\ SameIdentity(replicas[q], replicas'[q])
             /\ Coherent(replicas'[q])
             /\ LegalMove(replicas[q], replicas'[q])
             /\ replicas'[q].serving_eligible => promotions'[q] = PromotionRecord(q, "PRIMARY")
  <2>1. CASE LostByRestart(q, w, b)
    <3>1. replicas'[q] = Failed(replicas[q])
      BY <2>1 DEF RegisterWorker
    <3>2. CanTransition(replicas[q].lifecycle, "FAILED")
      BY <2>1, Edges, Names DEF LostByRestart, Terminated
    <3>3. QED
      BY <1>1, <3>1, <3>2, FailedFacts DEF LegalMove
  <2>2. CASE ~LostByRestart(q, w, b)
    <3>1. replicas'[q] = replicas[q] /\ promotions' = promotions
      BY <2>2 DEF RegisterWorker
    <3>2. QED
      BY <3>1 DEF IInv, AuthorityCoherent, Audited, SameIdentity, LegalMove
  <2>3. QED
    BY <2>1, <2>2
<1>4. /\ SetsKept
      /\ workers' \in [WorkerId -> BootId \cup {Unregistered}]
      /\ epoch' \in Epoch \cup {NullId}
      /\ promotions' \in [ReplicaId -> PromotionRecords]
      /\ drains' \in Seq([replica_id : ReplicaId, state : {"DRAINING", "QUIESCED"}])
      /\ failover' \in FailoverRecords \cup {NullId}
  BY DEF IInv, TypeOK, RegisterWorker, SetsKept, SetState, KnownSet
<1>5. QED
  BY <1>2, <1>3, <1>4, InPlace

(* So is the loss of a worker; coherence shows that every replica it fails  *)
(* is in a lifecycle that may fail.                                         *)
LEMMA UnregisterStep ==
    ASSUME IInv, NEW w \in WorkerId, UnregisterWorker(w)
    PROVE  StepOK
<1>1. replicas \in [ReplicaId -> Replica]
  BY DEF IInv, TypeOK
<1>2. replicas' \in [ReplicaId -> Replica]
  BY <1>1, FailedFacts DEF UnregisterWorker
<1>3. ASSUME NEW q \in ReplicaId
      PROVE  /\ SameIdentity(replicas[q], replicas'[q])
             /\ Coherent(replicas'[q])
             /\ LegalMove(replicas[q], replicas'[q])
             /\ replicas'[q].serving_eligible => promotions'[q] = PromotionRecord(q, "PRIMARY")
  <2>1. CASE replicas[q].worker_id = w /\ HadAuthority(replicas[q])
    <3>1. replicas'[q] = Failed(replicas[q])
      BY <2>1 DEF UnregisterWorker
    <3>2. replicas[q].lifecycle \in {"SERVING", "READY", "DRAINING"}
      BY <2>1 DEF IInv, AuthorityCoherent, Coherent, HadAuthority
    <3>3. CanTransition(replicas[q].lifecycle, "FAILED")
      BY <3>2, Edges, Names DEF Terminated
    <3>4. QED
      BY <1>1, <3>1, <3>3, FailedFacts DEF LegalMove
  <2>2. CASE ~(replicas[q].worker_id = w /\ HadAuthority(replicas[q]))
    <3>1. replicas'[q] = replicas[q] /\ promotions' = promotions
      BY <2>2 DEF UnregisterWorker
    <3>2. QED
      BY <3>1 DEF IInv, AuthorityCoherent, Audited, SameIdentity, LegalMove
  <2>3. QED
    BY <2>1, <2>2
<1>4. /\ SetsKept
      /\ workers' \in [WorkerId -> BootId \cup {Unregistered}]
      /\ epoch' \in Epoch \cup {NullId}
      /\ promotions' \in [ReplicaId -> PromotionRecords]
      /\ drains' \in Seq([replica_id : ReplicaId, state : {"DRAINING", "QUIESCED"}])
      /\ failover' \in FailoverRecords \cup {NullId}
  BY DEF IInv, TypeOK, UnregisterWorker, SetsKept, SetState, KnownSet
<1>5. QED
  BY <1>2, <1>3, <1>4, InPlace

(* Changing the lifecycle of one set keeps the known sets known. *)
LEMMA SetMove ==
    ASSUME IInv, NEW s \in SetId,
           \E l \in SetLifecycle : sets' = [sets EXCEPT ![s].lifecycle = l]
    PROVE  SetsKept
<1>1. PICK l \in SetLifecycle : sets' = [sets EXCEPT ![s].lifecycle = l]
  OBVIOUS
<1>2. sets \in [SetId -> SetState]
  BY DEF IInv, TypeOK, SetState
<1>3. [sets[s] EXCEPT !.lifecycle = l] \in SetState
  BY <1>2 DEF SetState
<1>4. sets' = [sets EXCEPT ![s] = [sets[s] EXCEPT !.lifecycle = l]]
  BY <1>1
<1>5. sets' \in [SetId -> SetState]
  BY <1>2, <1>3, <1>4
<1>6. l # "ABSENT" /\ [sets[s] EXCEPT !.lifecycle = l].lifecycle = l
  BY <1>2, Names DEF SetState
<1>7. \A q \in SetId : KnownSet(q) => KnownSet(q)'
  BY <1>2, <1>4, <1>6 DEF KnownSet
<1>8. QED
  BY <1>5, <1>7 DEF SetsKept

(* A step that leaves the replicas and their audit trail alone. *)
LEMMA SetsOnly ==
    ASSUME IInv, SetsKept, epoch' \in Epoch \cup {NullId},
           UNCHANGED <<replicas, workers, promotions, drains, failover>>
    PROVE  StepOK
<1>1. /\ replicas' \in [ReplicaId -> Replica]
      /\ workers' \in [WorkerId -> BootId \cup {Unregistered}]
      /\ promotions' \in [ReplicaId -> PromotionRecords]
      /\ drains' \in Seq([replica_id : ReplicaId, state : {"DRAINING", "QUIESCED"}])
      /\ failover' \in FailoverRecords \cup {NullId}
  BY DEF IInv, TypeOK
<1>2. \A q \in ReplicaId : /\ SameIdentity(replicas[q], replicas'[q])
                           /\ Coherent(replicas'[q])
                           /\ LegalMove(replicas[q], replicas'[q])
                           /\ replicas'[q].serving_eligible
                                 => promotions'[q] = PromotionRecord(q, "PRIMARY")
  BY DEF IInv, AuthorityCoherent, Audited, SameIdentity, LegalMove
<1>3. QED
  BY <1>1, <1>2, InPlace

(* Creating a set is a legal step. *)
LEMMA CreateStep ==
    ASSUME IInv, NEW s \in SetId, NEW c \in SetConfigs, NEW e \in Epoch,
           CreateReplicaSet(s, c, e)
    PROVE  StepOK
<1>1. sets \in [SetId -> SetState]
  BY DEF IInv, TypeOK, SetState
<1>2. [lifecycle |-> "CREATED", cfg |-> c] \in SetState
  BY Names DEF SetState
<1>3. SetsKept
  BY <1>1, <1>2 DEF CreateReplicaSet, SetsKept, KnownSet
<1>4. QED
  BY <1>3, SetsOnly DEF CreateReplicaSet

(* So is an explicit transition of a set. *)
LEMMA TransitionStep ==
    ASSUME IInv, NEW s \in SetId, NEW to \in SetLifecycle, TransitionReplicaSet(s, to)
    PROVE  StepOK
<1>1. SetsKept
  BY SetMove DEF TransitionReplicaSet
<1>2. epoch' \in Epoch \cup {NullId}
  BY DEF TransitionReplicaSet, IInv, TypeOK
<1>3. QED
  BY <1>1, <1>2, SetsOnly DEF TransitionReplicaSet

(* Provisioning starts an incarnation without authority; it is the only     *)
(* step that changes the identity of a record.                              *)
LEMMA ProvisionStep ==
    ASSUME IInv, NEW r \in ReplicaId, NEW s \in SetId, NEW w \in WorkerId,
           NEW compatible \in BOOLEAN, NEW capacity \in Nat,
           ProvisionReplica(r, s, w, compatible, capacity)
    PROVE  StepOK
<1> DEFINE g == replicas[r].generation + 1
           rec == [NoReplica EXCEPT !.set_id = s, !.generation = g,
                              !.worker_id = w, !.boot_id = workers[w],
                              !.capacity_total = capacity, !.compatible = compatible,
                              !.coordinator_epoch = epoch, !.health_generation = 1,
                              !.set_generation = sets[s].cfg.generation]
<1>1. /\ replicas \in [ReplicaId -> Replica]
      /\ sets \in [SetId -> SetState]
      /\ workers[w] \in BootId
      /\ epoch \in Epoch \cup {NullId}
  BY DEF IInv, TypeOK, SetState, ProvisionReplica
<1>2. replicas' = [replicas EXCEPT ![r] = rec]
  BY DEF ProvisionReplica
<1>3. g \in 0..MaxGeneration /\ g # 0 /\ g # replicas[r].generation
  BY <1>1, BoundAssumption DEF ProvisionReplica, Replica
<1>4. sets[s].cfg.generation \in Nat
  BY <1>1, InputAssumption DEF SetState, SetConfig, NoConfig
<1> HIDE DEF g
<1>5. /\ rec \in Replica /\ rec.generation = g /\ rec.set_id = s /\ rec.worker_id = w
      /\ rec.serving_eligible = FALSE /\ rec.promotion = "NOT_PROMOTED" /\ rec.role = "NONE"
  BY <1>1, <1>3, <1>4, Names DEF NoReplica, Replica
<1> HIDE DEF rec
<1>6. SetsKept
  <2>1. sets[s].lifecycle \in SetLifecycle
    BY <1>1 DEF ProvisionReplica, Provisionable, SetState
  <2>2. QED
    BY <2>1, SetMove, Names DEF ProvisionReplica
<1>7. KnownSet(s)'
  BY <1>6 DEF SetsKept, KnownSet, ProvisionReplica, Provisionable
<1>8. TypeOK'
  <2>1. replicas' \in [ReplicaId -> Replica]
    BY <1>1, <1>2, <1>5
  <2>2. ASSUME NEW q \in ReplicaId, Known(q)'
        PROVE  /\ replicas'[q].set_id \in SetId
               /\ KnownSet(replicas[q].set_id)'
               /\ replicas'[q].worker_id \in WorkerId
    <3>1. CASE q = r
      BY <1>1, <1>2, <1>5, <1>7, <3>1
    <3>2. CASE q # r
      BY <1>1, <1>2, <1>6, <2>2, <3>2 DEF IInv, TypeOK, Known, SetsKept
    <3>3. QED
      BY <3>1, <3>2
  <2>3. QED
    BY <1>6, <2>1, <2>2 DEF IInv, TypeOK, ProvisionReplica, SetsKept, SetState
<1>9. AuthorityCoherent'
  BY <1>1, <1>2, <1>5 DEF IInv, AuthorityCoherent, Coherent
<1>10. Audited'
  BY <1>1, <1>2, <1>5 DEF IInv, Audited, PromotionRecord, ProvisionReplica
<1>11. \A q \in ReplicaId : LegalMove(replicas[q], replicas'[q])
  BY <1>1, <1>2, <1>3, <1>5 DEF LegalMove
<1>12. QED
  BY <1>8, <1>9, <1>10, <1>11 DEF IInv, StepOK

(* Only a DECLARED replica, which serves nothing, is allocated. *)
LEMMA AllocatingStep ==
    ASSUME IInv, NEW r \in ReplicaId, NEW placed, SetAllocating(r, placed)
    PROVE  StepOK
<1> DEFINE p == replicas[r]
           rec == [p EXCEPT !.lifecycle = "ALLOCATING",
                           !.placement = IF placed THEN "ASSIGNED" ELSE "PENDING"]
<1>1. p \in Replica /\ Coherent(p)
  BY DEF IInv, TypeOK, AuthorityCoherent
<1>2. replicas' = [replicas EXCEPT ![r] = rec] /\ CanTransition(p.lifecycle, "ALLOCATING")
  BY DEF SetAllocating, MayEnter
<1>3. p.lifecycle # "SERVING"
  BY <1>2, Edges
<1>4. rec \in Replica /\ SameIdentity(p, rec) /\ Coherent(rec) /\ LegalMove(p, rec)
      /\ rec.serving_eligible = p.serving_eligible
  BY <1>1, <1>2, <1>3, Names DEF Replica, SameIdentity, Coherent, LegalMove
<1> HIDE DEF rec
<1>5. QED
  BY <1>2, <1>4, QuietUpdate DEF SetAllocating, MayEnter

(* Starting is refused to a serving replica. *)
LEMMA StartingStep ==
    ASSUME IInv, NEW r \in ReplicaId, SetStarting(r)
    PROVE  StepOK
<1> DEFINE p == replicas[r]
           rec == [p EXCEPT !.lifecycle = "STARTING", !.health = "STARTING"]
<1>1. p \in Replica /\ Coherent(p)
  BY DEF IInv, TypeOK, AuthorityCoherent
<1>2. replicas' = [replicas EXCEPT ![r] = rec] /\ CanTransition(p.lifecycle, "STARTING")
  BY DEF SetStarting, MayEnter
<1>3. p.lifecycle # "SERVING"
  BY <1>2, Edges
<1>4. rec \in Replica /\ SameIdentity(p, rec) /\ Coherent(rec) /\ LegalMove(p, rec)
      /\ rec.serving_eligible = p.serving_eligible
  BY <1>1, <1>2, <1>3, Names DEF Replica, SameIdentity, Coherent, LegalMove
<1> HIDE DEF rec
<1>5. QED
  BY <1>2, <1>4, QuietUpdate DEF SetStarting, MayEnter

(* So is warming. *)
LEMMA WarmStep ==
    ASSUME IInv, NEW r \in ReplicaId, NEW w \in WorkerId, NEW b \in BootId, NEW partial, WarmReplica(r, w, b, partial)
    PROVE  StepOK
<1> DEFINE p == replicas[r]
           rec == [p EXCEPT !.lifecycle = "WARMING", !.warmth = IF partial THEN "WARMING" ELSE "WARM"]
<1>1. p \in Replica /\ Coherent(p)
  BY DEF IInv, TypeOK, AuthorityCoherent
<1>2. /\ replicas' = [replicas EXCEPT ![r] = rec]
      /\ CanTransition(p.lifecycle, "WARMING") \/ p.lifecycle = "WARMING"
  BY DEF WarmReplica, MayWarm
<1>3. p.lifecycle # "SERVING"
  BY <1>2, Edges
<1>4. rec \in Replica /\ SameIdentity(p, rec) /\ Coherent(rec) /\ LegalMove(p, rec)
      /\ rec.serving_eligible = p.serving_eligible
  BY <1>1, <1>2, <1>3, Names DEF Replica, SameIdentity, Coherent, LegalMove
<1> HIDE DEF rec
<1>5. QED
  BY <1>2, <1>4, QuietUpdate DEF WarmReplica, MayWarm

(* Health evidence changes the health and may demote. *)
LEMMA HealthStep ==
    ASSUME IInv, NEW r \in ReplicaId, NEW w \in WorkerId, NEW b \in BootId,
           NEW g, NEW h \in HealthState, ReportHealth(r, w, b, g, h)
    PROVE  StepOK
<1> DEFINE p == replicas[r]
           rec == [p EXCEPT !.health = h]
           strip == rec.serving_eligible /\ StripsAuthority(h)
           new == IF strip THEN Demoted(rec) ELSE rec
<1>1. p \in Replica /\ Coherent(p)
  BY DEF IInv, TypeOK, AuthorityCoherent
<1>2. replicas' = [replicas EXCEPT ![r] = new]
  BY DEF ReportHealth, EvidenceAccepted
<1>3. rec \in Replica /\ SameIdentity(p, rec) /\ Coherent(rec) /\ rec.lifecycle = p.lifecycle
      /\ rec.serving_eligible = p.serving_eligible
  BY <1>1 DEF Replica, SameIdentity, Coherent
<1> HIDE DEF p, rec, strip
<1>4. /\ new \in Replica /\ SameIdentity(p, new) /\ Coherent(new) /\ new.lifecycle = p.lifecycle
      /\ new.serving_eligible => p.serving_eligible
  BY <1>3, DemotedFacts DEF SameIdentity
<1> HIDE DEF new
<1>5. LegalMove(p, new)
  BY <1>4 DEF LegalMove
<1>6. QED
  BY <1>2, <1>4, <1>5, QuietUpdate DEF ReportHealth, EvidenceAccepted, p

(* A readiness report may make a started replica READY. *)
LEMMA ReadinessStep ==
    ASSUME IInv, NEW r \in ReplicaId, NEW w \in WorkerId, NEW b \in BootId, NEW all_set, ReportReadiness(r, w, b, all_set)
    PROVE  StepOK
<1> DEFINE p == replicas[r]
           x == IF all_set THEN "READY" ELSE "NOT_READY"
           l == IF all_set /\ p.lifecycle \in {"WARMING", "STARTING"} THEN "READY" ELSE p.lifecycle
           rec == [p EXCEPT !.readiness = x, !.lifecycle = l]
<1>1. p \in Replica /\ Coherent(p)
  BY DEF IInv, TypeOK, AuthorityCoherent
<1>2. replicas' = [replicas EXCEPT ![r] = rec]
  BY DEF ReportReadiness, EvidenceAccepted
<1>3. /\ x \in ReadinessState /\ l \in ReplicaLifecycle
      /\ p.lifecycle = "SERVING" => l = "SERVING"
      /\ l # p.lifecycle => CanTransition(p.lifecycle, l)
  BY <1>1, Names, Edges DEF Replica
<1> HIDE DEF x, l
<1>4. rec \in Replica /\ SameIdentity(p, rec) /\ Coherent(rec) /\ LegalMove(p, rec)
      /\ rec.serving_eligible = p.serving_eligible
  BY <1>1, <1>3 DEF Replica, SameIdentity, Coherent, LegalMove
<1> HIDE DEF rec
<1>5. QED
  BY <1>2, <1>4, QuietUpdate DEF ReportReadiness, EvidenceAccepted

(* A failed replica holds nothing. *)
LEMMA FailStep ==
    ASSUME IInv, NEW r \in ReplicaId, NEW w \in WorkerId, NEW b \in BootId, FailReplica(r, w, b)
    PROVE  StepOK
<1> DEFINE p == replicas[r]
           rec == Failed(p)
<1>1. p \in Replica /\ Coherent(p)
  BY DEF IInv, TypeOK, AuthorityCoherent
<1>2. replicas' = [replicas EXCEPT ![r] = rec] /\ CanTransition(p.lifecycle, "FAILED")
  BY DEF FailReplica
<1>3. rec \in Replica /\ SameIdentity(p, rec) /\ Coherent(rec) /\ LegalMove(p, rec)
      /\ ~rec.serving_eligible
  BY <1>1, <1>2, FailedFacts DEF LegalMove
<1> HIDE DEF rec
<1>4. QED
  BY <1>2, <1>3, QuietUpdate DEF FailReplica

(* Neither does one that fail_replica rejected. *)
LEMMA FailRejectedStep ==
    ASSUME IInv, NEW r \in ReplicaId, NEW w \in WorkerId, NEW b \in BootId, FailReplicaRejected(r, w, b)
    PROVE  StepOK
<1> DEFINE p == replicas[r]
           rec == Obsolete(p)
<1>1. p \in Replica /\ Coherent(p)
  BY DEF IInv, TypeOK, AuthorityCoherent
<1>2. replicas' = [replicas EXCEPT ![r] = rec]
  BY DEF FailReplicaRejected
<1>3. rec \in Replica /\ SameIdentity(p, rec) /\ Coherent(rec) /\ LegalMove(p, rec)
      /\ ~rec.serving_eligible
  BY <1>1, <1>2, ObsoleteFacts DEF LegalMove
<1> HIDE DEF rec
<1>4. QED
  BY <1>2, <1>3, QuietUpdate DEF FailReplicaRejected

(* Nor a retired one. *)
LEMMA RetireStep ==
    ASSUME IInv, NEW r \in ReplicaId, RetireReplica(r)
    PROVE  StepOK
<1> DEFINE p == replicas[r]
           rec == [p EXCEPT !.lifecycle = "RETIRED", !.serving_eligible = FALSE,
                           !.promotion = "NOT_PROMOTED", !.role = "NONE",
                           !.warmth = "INVALIDATED"]
<1>1. p \in Replica /\ Coherent(p)
  BY DEF IInv, TypeOK, AuthorityCoherent
<1>2. replicas' = [replicas EXCEPT ![r] = rec] /\ CanTransition(p.lifecycle, "RETIRED")
  BY DEF RetireReplica
<1>3. rec \in Replica
  BY <1>1, Names DEF Replica
<1>4. SameIdentity(p, rec) /\ Coherent(rec) /\ LegalMove(p, rec) /\ ~rec.serving_eligible
  BY <1>1, <1>2 DEF Replica, SameIdentity, Coherent, LegalMove
<1> HIDE DEF rec
<1>5. QED
  BY <1>2, <1>3, <1>4, QuietUpdate DEF RetireReplica

(* A promotion moves the lifecycle of the replica's set at most along the   *)
(* derivation, which never leaves the known lifecycles.                     *)
LEMMA DerivedMove ==
    ASSUME IInv, NEW s \in SetId, KnownSet(s),
           sets' = [sets EXCEPT ![s].lifecycle = DerivedLifecycle(s, replicas')]
    PROVE  SetsKept
<1>1. sets[s].lifecycle \in SetLifecycle
  BY DEF IInv, TypeOK, KnownSet
<1>2. DerivedLifecycle(s, replicas') \in SetLifecycle
  BY <1>1, Names DEF DerivedLifecycle
<1>3. QED
  BY <1>2, SetMove

(* A promotion to PRIMARY grants and records. *)
LEMMA PrimaryStep ==
    ASSUME IInv, NEW r \in ReplicaId, NEW w \in WorkerId, NEW b \in BootId,
           PromotePrimary(r, w, b)
    PROVE  StepOK
<1> DEFINE p == replicas[r]
           granted == Granted(p)
           h == IF p.health = "UNKNOWN" THEN "HEALTHY" ELSE p.health
           rec == [granted EXCEPT !.health = h]
<1>1. p \in Replica /\ Coherent(p)
  BY DEF IInv, TypeOK, AuthorityCoherent
<1>2. /\ replicas' = [replicas EXCEPT ![r] = rec]
      /\ p.lifecycle \in {"READY", "SERVING"}
      /\ Known(r)
  BY DEF PromotePrimary, ReadyOrServing, MayPromote
<1>3. /\ granted \in Replica /\ SameIdentity(p, granted) /\ Coherent(granted)
      /\ granted.lifecycle = "SERVING"
  BY <1>1, GrantedFacts
<1> HIDE DEF granted
<1>4. h \in HealthState
  BY <1>1, Names DEF Replica
<1> HIDE DEF h
<1>5. rec \in Replica /\ SameIdentity(p, rec) /\ Coherent(rec) /\ rec.lifecycle = "SERVING"
  BY <1>3, <1>4 DEF Replica, SameIdentity, Coherent
<1> HIDE DEF rec
<1>6. LegalMove(p, rec)
  BY <1>2, <1>5, Edges DEF LegalMove
<1>7. p.set_id \in SetId /\ KnownSet(p.set_id)
  BY <1>2 DEF IInv, TypeOK
<1>8. SetsKept
  BY <1>7, DerivedMove DEF PromotePrimary
<1>9. /\ promotions' \in [ReplicaId -> PromotionRecords]
      /\ promotions'[r] = PromotionRecord(r, "PRIMARY")
      /\ \A q \in ReplicaId \ {r} : promotions'[q] = promotions[q]
  <2>1. promotions \in [ReplicaId -> PromotionRecords]
    BY DEF IInv, TypeOK
  <2>2. PromotionRecord(r, "PRIMARY") \in PromotionRecords
    BY <1>1, BoundAssumption, Names DEF PromotionRecord, PromotionRecords, Replica
  <2>3. QED
    BY <2>1, <2>2 DEF PromotePrimary, Recorded
<1>10. /\ drains' \in Seq([replica_id : ReplicaId, state : {"DRAINING", "QUIESCED"}])
       /\ failover' \in FailoverRecords \cup {NullId}
  BY DEF IInv, TypeOK, PromotePrimary
<1>11. QED
  BY <1>2, <1>5, <1>6, <1>8, <1>9, <1>10, Update DEF PromotePrimary

(* A promotion to any other target takes authority away, and is recorded. *)
LEMMA OtherStep ==
    ASSUME IInv, NEW r \in ReplicaId, NEW w \in WorkerId, NEW b \in BootId,
           NEW target \in PromotionState, PromoteOther(r, w, b, target)
    PROVE  StepOK
<1> DEFINE p == replicas[r]
           rec == Assigned(p, target)
<1>1. p \in Replica
  BY DEF IInv, TypeOK
<1>2. replicas' = [replicas EXCEPT ![r] = rec] /\ Known(r) /\ target # "PRIMARY"
  BY DEF PromoteOther, MayPromote
<1>3. rec \in Replica /\ SameIdentity(p, rec) /\ Coherent(rec) /\ LegalMove(p, rec)
      /\ ~rec.serving_eligible
  BY <1>1, <1>2, AssignedFacts DEF LegalMove
<1> HIDE DEF rec
<1>4. p.set_id \in SetId /\ KnownSet(p.set_id)
  BY <1>2 DEF IInv, TypeOK
<1>5. SetsKept
  BY <1>4, DerivedMove DEF PromoteOther
<1>6. /\ promotions' \in [ReplicaId -> PromotionRecords]
      /\ \A q \in ReplicaId \ {r} : promotions'[q] = promotions[q]
  <2>1. promotions \in [ReplicaId -> PromotionRecords]
    BY DEF IInv, TypeOK
  <2>2. PromotionRecord(r, target) \in PromotionRecords
    BY <1>1, BoundAssumption DEF PromotionRecord, PromotionRecords, Replica
  <2>3. QED
    BY <2>1, <2>2 DEF PromoteOther, Recorded
<1>7. /\ drains' \in Seq([replica_id : ReplicaId, state : {"DRAINING", "QUIESCED"}])
      /\ failover' \in FailoverRecords \cup {NullId}
  BY DEF IInv, TypeOK, PromoteOther
<1>8. QED
  BY <1>2, <1>3, <1>5, <1>6, <1>7, Update DEF PromoteOther

(* Draining demotes and opens a drain record. *)
LEMMA DrainStep ==
    ASSUME IInv, NEW r \in ReplicaId, NEW w \in WorkerId, NEW b \in BootId,
           DrainReplica(r, w, b)
    PROVE  StepOK
<1> DEFINE p == replicas[r]
           d == Demoted(p)
           rec == [d EXCEPT !.lifecycle = "DRAINING"]
<1>1. p \in Replica
  BY DEF IInv, TypeOK
<1>2. replicas' = [replicas EXCEPT ![r] = rec] /\ p.lifecycle \in {"READY", "SERVING"}
  BY DEF DrainReplica, MayDrain, ReadyOrServing
<1>3. d \in Replica /\ SameIdentity(p, d) /\ Coherent(d) /\ ~d.serving_eligible
  BY <1>1, DemotedFacts
<1> HIDE DEF d
<1>4. rec \in Replica /\ SameIdentity(p, rec) /\ Coherent(rec) /\ ~rec.serving_eligible
      /\ rec.lifecycle = "DRAINING"
  BY <1>3, Names DEF Replica, SameIdentity, Coherent
<1> HIDE DEF rec
<1>5. LegalMove(p, rec)
  BY <1>2, <1>4, Edges DEF LegalMove
<1>6. SetsKept
  BY DEF IInv, TypeOK, SetsKept, SetState, KnownSet, DrainReplica, MayDrain
<1>7. /\ promotions' \in [ReplicaId -> PromotionRecords]
      /\ \A q \in ReplicaId \ {r} : promotions'[q] = promotions[q]
      /\ drains' \in Seq([replica_id : ReplicaId, state : {"DRAINING", "QUIESCED"}])
      /\ failover' \in FailoverRecords \cup {NullId}
  BY DEF IInv, TypeOK, DrainReplica, MayDrain, DrainRecorded, OpenDrain
<1>8. QED
  BY <1>2, <1>4, <1>5, <1>6, <1>7, Update DEF DrainReplica, MayDrain

(* Completing a drain closes one of the open records. *)
LEMMA CompleteStep ==
    ASSUME IInv, NEW r \in ReplicaId, CompleteDrain(r)
    PROVE  StepOK
<1> DEFINE p == replicas[r]
           rec == [p EXCEPT !.lifecycle = "QUIESCED", !.serving_eligible = FALSE]
           D == [replica_id : ReplicaId, state : {"DRAINING", "QUIESCED"}]
<1>1. p \in Replica /\ Coherent(p)
  BY DEF IInv, TypeOK, AuthorityCoherent
<1>2. replicas' = [replicas EXCEPT ![r] = rec] /\ p.lifecycle = "DRAINING"
  BY DEF CompleteDrain
<1>3. ~p.serving_eligible
  BY <1>1, <1>2 DEF Coherent
<1>4. rec \in Replica /\ SameIdentity(p, rec) /\ Coherent(rec) /\ ~rec.serving_eligible
      /\ rec.lifecycle = "QUIESCED"
  BY <1>1, <1>3, Names DEF Replica, SameIdentity, Coherent
<1> HIDE DEF rec
<1>5. LegalMove(p, rec)
  BY <1>2, <1>4, Edges DEF LegalMove
<1>6. SetsKept
  BY DEF IInv, TypeOK, SetsKept, SetState, KnownSet, CompleteDrain
<1>7. drains' \in Seq(D)
  <2>1. drains \in Seq(D)
    BY DEF IInv, TypeOK
  <2>2. \A d \in D : Closed(d) \in D
    BY DEF Closed
  <2>3. drains' = [i \in 1..Len(drains) |->
            IF i \in ToClose(r) /\ \A j \in ToClose(r) : i <= j
            THEN Closed(drains[i]) ELSE drains[i]]
    BY <2>1 DEF CompleteDrain
  <2> HIDE DEF D
  <2>4. drains' \in [1..Len(drains) -> D]
    BY <2>1, <2>2, <2>3
  <2>5. Len(drains) \in Nat
    BY <2>1
  <2>6. QED
    BY <2>4, <2>5, SeqDef
<1>8. /\ promotions' \in [ReplicaId -> PromotionRecords]
      /\ \A q \in ReplicaId \ {r} : promotions'[q] = promotions[q]
      /\ failover' \in FailoverRecords \cup {NullId}
  BY DEF IInv, TypeOK, CompleteDrain
<1>9. QED
  BY <1>2, <1>4, <1>5, <1>6, <1>7, <1>8, Update DEF CompleteDrain

(* A failover marks one replica failed and grants authority to another. *)
LEMMA FailoverStep ==
    ASSUME IInv, NEW s \in SetId, NEW f \in ReplicaId, NEW c \in ReplicaId,
           TriggerFailover(s, f, c)
    PROVE  StepOK
<1> DEFINE marked == MarkedFailed(replicas[f])
           granted == Granted(replicas[c])
<1>1. replicas \in [ReplicaId -> Replica] /\ \A q \in ReplicaId : Coherent(replicas[q])
  BY DEF IInv, TypeOK, AuthorityCoherent
<1>2. /\ c # f /\ replicas[c].lifecycle \in {"READY", "SERVING"}
      /\ KnownSet(s)
      /\ promotions' = [promotions EXCEPT ![c] = PromotionRecord(c, "PRIMARY")]
  BY DEF TriggerFailover, Candidates, ReadyOrServing, Recorded
<1>3. replicas' = [replicas EXCEPT ![f] = marked, ![c] = granted]
  BY <1>1, <1>2 DEF TriggerFailover
<1>4. /\ marked \in Replica /\ SameIdentity(replicas[f], marked) /\ Coherent(marked)
      /\ LegalMove(replicas[f], marked) /\ ~marked.serving_eligible
  BY <1>1, MarkedFailedFacts DEF LegalMove
<1>5. /\ granted \in Replica /\ SameIdentity(replicas[c], granted) /\ Coherent(granted)
      /\ LegalMove(replicas[c], granted)
  BY <1>1, <1>2, GrantedFacts, Edges DEF LegalMove
<1> HIDE DEF marked, granted
<1>6. replicas' \in [ReplicaId -> Replica]
  BY <1>1, <1>3, <1>4, <1>5
<1>7. promotions \in [ReplicaId -> PromotionRecords] /\ promotions' \in [ReplicaId -> PromotionRecords]
  <2>1. PromotionRecord(c, "PRIMARY") \in PromotionRecords
    BY <1>1, BoundAssumption, Names DEF PromotionRecord, PromotionRecords, Replica
  <2>2. QED
    BY <1>2, <2>1 DEF IInv, TypeOK
<1>8. ASSUME NEW q \in ReplicaId
      PROVE  /\ SameIdentity(replicas[q], replicas'[q])
             /\ Coherent(replicas'[q])
             /\ LegalMove(replicas[q], replicas'[q])
             /\ replicas'[q].serving_eligible => promotions'[q] = PromotionRecord(q, "PRIMARY")
  <2>1. CASE q = f
    <3>1. replicas'[q] = marked
      BY <1>1, <1>2, <1>3, <2>1
    <3>2. QED
      BY <1>4, <2>1, <3>1
  <2>2. CASE q = c
    <3>1. replicas'[q] = granted /\ promotions'[q] = PromotionRecord(q, "PRIMARY")
      BY <1>1, <1>2, <1>3, <1>7, <2>2
    <3>2. QED
      BY <1>5, <2>2, <3>1
  <2>3. CASE q # f /\ q # c
    <3>1. replicas'[q] = replicas[q] /\ promotions'[q] = promotions[q]
      BY <1>1, <1>2, <1>3, <1>7, <2>3
    <3>2. QED
      BY <3>1 DEF IInv, AuthorityCoherent, Audited, SameIdentity, LegalMove
  <2>4. QED
    BY <2>1, <2>2, <2>3
<1>9. SetsKept
  BY <1>2, DerivedMove DEF TriggerFailover
<1>10. /\ workers' \in [WorkerId -> BootId \cup {Unregistered}]
       /\ epoch' \in Epoch \cup {NullId}
       /\ drains' \in Seq([replica_id : ReplicaId, state : {"DRAINING", "QUIESCED"}])
       /\ failover' \in FailoverRecords \cup {NullId}
  BY DEF IInv, TypeOK, TriggerFailover, FailoverRecord, FailoverRecords
<1>11. QED
  BY <1>6, <1>7, <1>8, <1>9, <1>10, InPlace

(* A failover without a candidate only marks. *)
LEMMA FailoverRejectedStep ==
    ASSUME IInv, NEW s \in SetId, NEW f \in ReplicaId, TriggerFailoverRejected(s, f)
    PROVE  StepOK
<1> DEFINE rec == MarkedFailed(replicas[f])
<1>1. replicas[f] \in Replica
  BY DEF IInv, TypeOK
<1>2. replicas' = [replicas EXCEPT ![f] = rec]
  BY DEF TriggerFailoverRejected
<1>3. /\ rec \in Replica /\ SameIdentity(replicas[f], rec) /\ Coherent(rec)
      /\ LegalMove(replicas[f], rec) /\ ~rec.serving_eligible
  BY <1>1, MarkedFailedFacts DEF LegalMove
<1> HIDE DEF rec
<1>4. SetsKept
  BY DEF IInv, TypeOK, SetsKept, SetState, KnownSet, TriggerFailoverRejected
<1>5. /\ promotions' \in [ReplicaId -> PromotionRecords]
      /\ \A q \in ReplicaId \ {f} : promotions'[q] = promotions[q]
      /\ drains' \in Seq([replica_id : ReplicaId, state : {"DRAINING", "QUIESCED"}])
      /\ failover' \in FailoverRecords \cup {NullId}
  BY DEF IInv, TypeOK, TriggerFailoverRejected, FailoverRecord, FailoverRecords
<1>6. QED
  BY <1>2, <1>3, <1>4, <1>5, Update DEF TriggerFailoverRejected

-----------------------------------------------------------------------------
(* The specification *)

(* The initial state satisfies the invariant. *)
LEMMA InitIInv == Init => IInv
<1> SUFFICES ASSUME Init PROVE IInv
  OBVIOUS
<1>1. NoReplica \in Replica
  BY BoundAssumption, Names DEF NoReplica, Replica
<1>2. NoSet \in SetState /\ NoPromotion \in PromotionRecords
  BY Names DEF NoSet, SetState, NoPromotion, PromotionRecords
<1>3. TypeOK
  BY <1>1, <1>2 DEF Init, TypeOK, SetState, Known, NoReplica
<1>4. AuthorityCoherent /\ Audited
  BY DEF Init, AuthorityCoherent, Coherent, Audited, NoReplica
<1>5. QED
  BY <1>3, <1>4 DEF IInv

(* Every step of the controller keeps the invariant and moves legally. *)
LEMMA NextStep ==
    ASSUME IInv, [Next]_vars
    PROVE  StepOK
<1>1. ASSUME NEW w \in WorkerId, NEW b \in BootId, RegisterWorker(w, b)
      PROVE  StepOK
  BY <1>1, RegisterStep
<1>2. ASSUME NEW w \in WorkerId, UnregisterWorker(w)
      PROVE  StepOK
  BY <1>2, UnregisterStep
<1>3. ASSUME NEW s \in SetId, NEW c \in SetConfigs, NEW e \in Epoch, CreateReplicaSet(s, c, e)
      PROVE  StepOK
  BY <1>3, CreateStep
<1>4. ASSUME NEW s \in SetId, NEW to \in SetTargets, TransitionReplicaSet(s, to)
      PROVE  StepOK
  BY <1>4, TransitionStep, InputAssumption
<1>5. ASSUME NEW r \in ReplicaId, NEW s \in SetId, NEW w \in WorkerId,
             NEW compatible \in Compat, NEW capacity \in Capacities,
             ProvisionReplica(r, s, w, compatible, capacity)
      PROVE  StepOK
  BY <1>5, ProvisionStep, InputAssumption
<1>6. ASSUME NEW r \in ReplicaId, NEW placed \in Placed, SetAllocating(r, placed)
      PROVE  StepOK
  BY <1>6, AllocatingStep
<1>7. ASSUME NEW r \in ReplicaId, SetStarting(r) \/ CompleteDrain(r) \/ RetireReplica(r)
      PROVE  StepOK
  BY <1>7, StartingStep, CompleteStep, RetireStep
<1>8. ASSUME NEW r \in ReplicaId, NEW w \in WorkerId, NEW b \in BootId, WorkerStep(r, w, b)
      PROVE  StepOK
  <2>1. ASSUME NEW partial \in PartialWarm, WarmReplica(r, w, b, partial)
        PROVE  StepOK
    BY <2>1, WarmStep
  <2>2. ASSUME NEW g \in 1..MaxRounds, NEW h \in HealthReports, ReportHealth(r, w, b, g, h)
        PROVE  StepOK
    BY <2>2, HealthStep, InputAssumption
  <2>3. ASSUME NEW all_set \in AllFactorsSet, ReportReadiness(r, w, b, all_set)
        PROVE  StepOK
    BY <2>3, ReadinessStep
  <2>4. CASE PromotePrimary(r, w, b)
    BY <2>4, PrimaryStep
  <2>5. ASSUME NEW target \in Targets, PromoteOther(r, w, b, target)
        PROVE  StepOK
    BY <2>5, OtherStep, InputAssumption
  <2>6. CASE DrainReplica(r, w, b) \/ FailReplica(r, w, b) \/ FailReplicaRejected(r, w, b)
    BY <2>6, DrainStep, FailStep, FailRejectedStep
  <2>7. QED
    BY <1>8, <2>1, <2>2, <2>3, <2>4, <2>5, <2>6 DEF WorkerStep
<1>9. ASSUME NEW s \in SetId, NEW f \in ReplicaId, NEW c \in ReplicaId, TriggerFailover(s, f, c)
      PROVE  StepOK
  BY <1>9, FailoverStep
<1>10. ASSUME NEW s \in SetId, NEW f \in ReplicaId, TriggerFailoverRejected(s, f)
       PROVE  StepOK
  BY <1>10, FailoverRejectedStep
<1>11. CASE UNCHANGED vars
  <2>1. SetsKept /\ epoch' \in Epoch \cup {NullId}
    BY <1>11 DEF IInv, TypeOK, SetsKept, SetState, KnownSet, vars
  <2>2. QED
    BY <1>11, <2>1, SetsOnly DEF vars
<1>12. QED
  BY <1>1, <1>2, <1>3, <1>4, <1>5, <1>6, <1>7, <1>8, <1>9, <1>10, <1>11 DEF Next

(* The invariant is inductive. *)
LEMMA Inductive == Spec => []IInv
<1>1. IInv /\ [Next]_vars => IInv'
  BY NextStep DEF StepOK
<1>2. QED
  BY <1>1, InitIInv, PTL DEF Spec

(* TypeOK: in particular a known replica always names a known set, so that  *)
(* the set lookups of the operations never fail, and drain records are only *)
(* ever DRAINING or QUIESCED.                                               *)
THEOREM TypeCorrect == Spec => []TypeOK
<1>1. IInv => TypeOK
  BY DEF IInv
<1>2. QED
  BY <1>1, Inductive, PTL

(* AuthorityCoherent: no sequence of calls, however interleaved, leaves the *)
(* serving flag, the promotion state and the role of a replica in           *)
(* disagreement, or authority with a replica that is not SERVING.           *)
THEOREM AuthorityIsCoherent == Spec => []AuthorityCoherent
<1>1. IInv => AuthorityCoherent
  BY DEF IInv
<1>2. QED
  BY <1>1, Inductive, PTL

(* ServableAudited: what the gate lets serve is a PRIMARY, and the trail    *)
(* ends with the promotion of its current incarnation.                      *)
THEOREM ServableIsAudited == Spec => []ServableAudited
<1>1. IInv => ServableAudited
  BY DEF IInv, AuthorityCoherent, Coherent, Audited, ServableAudited, Servable
<1>2. QED
  BY <1>1, Inductive, PTL

(* LifecycleLegal: within an incarnation the lifecycle moves only along the *)
(* edges of can_transition.                                                 *)
THEOREM LifecycleIsLegal == Spec => LifecycleLegal
<1>1. IInv /\ [Next]_vars =>
        [\A r \in ReplicaId :
            SameIncarnation(r) /\ replicas'[r].lifecycle # replicas[r].lifecycle
                => CanTransition(replicas[r].lifecycle, replicas'[r].lifecycle)]_vars
  BY NextStep DEF StepOK, LegalMove, SameIncarnation
<1>2. QED
  BY <1>1, Inductive, PTL DEF Spec, LifecycleLegal

(* Only registering and unregistering change workers_. *)
LEMMA WorkersKept ==
    ASSUME [Next]_vars,
           ~ \E w \in WorkerId, b \in BootId : RegisterWorker(w, b),
           ~ \E w \in WorkerId : UnregisterWorker(w)
    PROVE  UNCHANGED workers
<1>1. ASSUME NEW r \in ReplicaId, NEW w \in WorkerId, NEW b \in BootId, WorkerStep(r, w, b)
      PROVE  UNCHANGED workers
  BY <1>1, Zenon DEF WorkerStep, WarmReplica, ReportHealth, ReportReadiness, PromotePrimary, PromoteOther,
              DrainReplica, FailReplica, FailReplicaRejected
<1>2. QED
  BY <1>1, Zenon DEF Next, vars, CreateReplicaSet, TransitionReplicaSet, ProvisionReplica,
              SetAllocating, SetStarting, CompleteDrain, RetireReplica, TriggerFailover,
              TriggerFailoverRejected

(* WorkerLossRevokes: a worker that disconnects or restarts takes the       *)
(* authority of all its replicas with it.  register_worker only fails what  *)
(* is SERVING; coherence shows that nothing else had authority.             *)
THEOREM WorkerLossAlwaysRevokes == Spec => WorkerLossRevokes
<1> DEFINE Revokes(w) ==
        workers[w] # Unregistered /\ workers'[w] # workers[w]
            => \A r \in ReplicaId : replicas'[r].worker_id = w => ~replicas'[r].serving_eligible
<1>1. ASSUME IInv, [Next]_vars, NEW w \in WorkerId
      PROVE  Revokes(w)
  <2> USE <1>1
  <2>1. /\ replicas \in [ReplicaId -> Replica] /\ workers \in [WorkerId -> BootId \cup {Unregistered}]
        /\ \A r \in ReplicaId : Coherent(replicas[r])
    BY DEF IInv, TypeOK, AuthorityCoherent
  <2>2. ASSUME NEW v \in WorkerId, NEW b \in BootId, RegisterWorker(v, b)
        PROVE  Revokes(w)
    <3> SUFFICES ASSUME workers[w] # Unregistered, workers'[w] # workers[w],
                        NEW r \in ReplicaId, replicas'[r].worker_id = w
                 PROVE  ~replicas'[r].serving_eligible
      OBVIOUS
    <3>1. v = w /\ workers[w] # b
      BY <2>1, <2>2 DEF RegisterWorker
    <3>2. CASE LostByRestart(r, v, b)
      BY <2>1, <2>2, <3>2, FailedFacts DEF RegisterWorker
    <3>3. CASE ~LostByRestart(r, v, b)
      <4>1. replicas'[r] = replicas[r]
        BY <2>2, <3>3 DEF RegisterWorker
      <4>2. replicas[r].lifecycle # "SERVING"
        BY <3>1, <3>3, <4>1 DEF LostByRestart
      <4>3. QED
        BY <2>1, <4>1, <4>2 DEF Coherent
    <3>4. QED
      BY <3>2, <3>3
  <2>3. ASSUME NEW v \in WorkerId, UnregisterWorker(v)
        PROVE  Revokes(w)
    <3> SUFFICES ASSUME workers'[w] # workers[w],
                        NEW r \in ReplicaId, replicas'[r].worker_id = w
                 PROVE  ~replicas'[r].serving_eligible
      OBVIOUS
    <3>1. v = w
      BY <2>1, <2>3 DEF UnregisterWorker
    <3>2. CASE replicas[r].worker_id = v /\ HadAuthority(replicas[r])
      BY <2>1, <2>3, <3>2, FailedFacts DEF UnregisterWorker
    <3>3. CASE ~(replicas[r].worker_id = v /\ HadAuthority(replicas[r]))
      BY <2>3, <3>1, <3>3 DEF UnregisterWorker, HadAuthority
    <3>4. QED
      BY <3>2, <3>3
  <2>4. QED
    BY <2>2, <2>3, WorkersKept
<1>2. IInv /\ [Next]_vars => [\A w \in WorkerId : Revokes(w)]_vars
  BY <1>1
<1>3. QED
  BY <1>2, Inductive, PTL DEF Spec, WorkerLossRevokes
=============================================================================
