---------------------------- MODULE ServingProofs ----------------------------
(***************************************************************************)
(* More theorems about ReplicaSetController: that it implements            *)
(* ServingLease, what drains, health evidence and capacity promise, and    *)
(* anti-affinity of failovers.  They rest on one description of the steps: *)
(* most operations revise the record of a single replica, and what such a  *)
(* revision may do is the same for all of them.                            *)
(***************************************************************************)
EXTENDS ReplicaSetControllerProofs, FiniteSetTheorems

(* The lifecycles of an incarnation that has ended for the lease. *)
Ended == Terminated \cup {"DRAINING"}

(* What an operation, short of provisioning, may do to a record. *)
Revised(p, q) ==
    /\ SameIdentity(p, q)
    /\ q.boot_id = p.boot_id
    /\ p.lifecycle \in Ended => q.lifecycle \in Ended
    /\ \/ q.health_generation = p.health_generation
       \/ p.health_generation < MaxRounds /\ q.health_generation = p.health_generation + 1

(* A revision that leaves authority with an unhealthy replica found it so,  *)
(* or policy does not ask for health.                                       *)
HealthKept(p, q, c) ==
    q.serving_eligible /\ q.health = "UNHEALTHY" =>
        ~c.require_healthy \/ (p.serving_eligible /\ p.health = "UNHEALTHY")

(* The step replaces the record of r, and drains of r are recorded. *)
Revises(r, rec) ==
    /\ Known(r)
    /\ replicas' = [replicas EXCEPT ![r] = rec]
    /\ Revised(replicas[r], rec)
    /\ HealthKept(replicas[r], rec, Cfg(r))
    /\ rec.lifecycle = "DRAINING" =>
          replicas[r].lifecycle = "DRAINING" \/ drains' = DrainRecorded(r)

Single(r) == \E rec \in Replica : Revises(r, rec)

-----------------------------------------------------------------------------
(* Single-replica operations *)

(* Ended incarnations cannot be started or warmed. *)
LEMMA EndedEdges ==
    /\ \A l \in Ended, m \in {"ALLOCATING", "STARTING", "WARMING"} : ~CanTransition(l, m)
    /\ \A l \in ReplicaLifecycle : ~CanTransition(l, "FAILED") => l \in Ended
BY DEF Ended, Terminated, CanTransition, ReplicaEdges, ReplicaLifecycle

(* set_allocating and set_starting *)
LEMMA SingleStartUp ==
    ASSUME IInv, NEW r \in ReplicaId, NEW placed, SetAllocating(r, placed) \/ SetStarting(r)
    PROVE  Single(r)
<1> DEFINE p == replicas[r]
           a == [p EXCEPT !.lifecycle = "ALLOCATING",
                          !.placement = IF placed THEN "ASSIGNED" ELSE "PENDING"]
           s == [p EXCEPT !.lifecycle = "STARTING", !.health = "STARTING"]
<1>1. p \in Replica
  BY DEF IInv, TypeOK
<1>2. CASE SetAllocating(r, placed)
  <2>1. Known(r) /\ replicas' = [replicas EXCEPT ![r] = a] /\ p.lifecycle \notin Ended
    BY <1>2, EndedEdges DEF SetAllocating, MayEnter
  <2>2. a \in Replica /\ Revised(p, a) /\ a.lifecycle = "ALLOCATING"
        /\ a.health = p.health /\ a.serving_eligible = p.serving_eligible
    BY <1>1, <2>1, Names DEF Replica, Revised, SameIdentity
  <2> HIDE DEF a
  <2>3. QED
    BY <2>1, <2>2 DEF Single, Revises, HealthKept
<1>3. CASE SetStarting(r)
  <2>1. Known(r) /\ replicas' = [replicas EXCEPT ![r] = s] /\ p.lifecycle \notin Ended
    BY <1>3, EndedEdges DEF SetStarting, MayEnter
  <2>2. s \in Replica /\ Revised(p, s) /\ s.lifecycle = "STARTING" /\ s.health = "STARTING"
    BY <1>1, <2>1, Names DEF Replica, Revised, SameIdentity
  <2> HIDE DEF s
  <2>3. QED
    BY <2>1, <2>2 DEF Single, Revises, HealthKept
<1>4. QED
  BY <1>2, <1>3

(* warm_replica *)
LEMMA SingleWarm ==
    ASSUME IInv, NEW r \in ReplicaId, NEW w, NEW b, NEW partial, WarmReplica(r, w, b, partial)
    PROVE  Single(r)
<1> DEFINE p == replicas[r]
           rec == [p EXCEPT !.lifecycle = "WARMING", !.warmth = IF partial THEN "WARMING" ELSE "WARM"]
<1>1. p \in Replica
  BY DEF IInv, TypeOK
<1>2. Known(r) /\ replicas' = [replicas EXCEPT ![r] = rec] /\ p.lifecycle \notin Ended
  BY EndedEdges DEF WarmReplica, MayWarm, Ended, Terminated
<1>3. rec \in Replica /\ Revised(p, rec) /\ rec.lifecycle = "WARMING"
      /\ rec.health = p.health /\ rec.serving_eligible = p.serving_eligible
  BY <1>1, <1>2, Names DEF Replica, Revised, SameIdentity
<1> HIDE DEF rec
<1>4. QED
  BY <1>2, <1>3 DEF Single, Revises, HealthKept

(* report_health: UNHEALTHY news leaves no authority *)
LEMMA SingleHealth ==
    ASSUME IInv, NEW r \in ReplicaId, NEW w, NEW b, NEW g, NEW h \in HealthState,
           ReportHealth(r, w, b, g, h)
    PROVE  Single(r)
<1> DEFINE p == replicas[r]
           rec == [p EXCEPT !.health = h]
           strip == rec.serving_eligible /\ StripsAuthority(h)
           new == IF strip THEN Demoted(rec) ELSE rec
<1>1. p \in Replica
  BY DEF IInv, TypeOK
<1>2. Known(r) /\ replicas' = [replicas EXCEPT ![r] = new]
  BY DEF ReportHealth, EvidenceAccepted
<1>3. rec \in Replica /\ Revised(p, rec) /\ rec.lifecycle = p.lifecycle /\ rec.health = h
  BY <1>1 DEF Replica, Revised, SameIdentity
<1>4. /\ Demoted(rec) \in Replica /\ ~Demoted(rec).serving_eligible
      /\ Demoted(rec).lifecycle = rec.lifecycle /\ SameIdentity(rec, Demoted(rec))
  BY <1>3, DemotedFacts
<1>5. Demoted(rec).boot_id = rec.boot_id /\ Demoted(rec).health_generation = rec.health_generation
  BY <1>3 DEF Demoted, Replica
<1> HIDE DEF p, rec
<1>6. Revised(p, Demoted(rec))
  BY <1>3, <1>4, <1>5 DEF Revised, SameIdentity
<1>7. new \in Replica /\ Revised(p, new) /\ new.lifecycle = p.lifecycle
  BY <1>3, <1>4, <1>6
<1>8. ~(new.serving_eligible /\ new.health = "UNHEALTHY")
  BY <1>3, <1>4 DEF StripsAuthority
<1> HIDE DEF new
<1>9. QED
  BY <1>2, <1>7, <1>8 DEF Single, Revises, HealthKept, p

(* report_readiness *)
LEMMA SingleReadiness ==
    ASSUME IInv, NEW r \in ReplicaId, NEW w, NEW b, NEW all_set, ReportReadiness(r, w, b, all_set)
    PROVE  Single(r)
<1> DEFINE p == replicas[r]
           x == IF all_set THEN "READY" ELSE "NOT_READY"
           l == IF all_set /\ p.lifecycle \in {"WARMING", "STARTING"} THEN "READY" ELSE p.lifecycle
           rec == [p EXCEPT !.readiness = x, !.lifecycle = l]
<1>1. p \in Replica
  BY DEF IInv, TypeOK
<1>2. Known(r) /\ replicas' = [replicas EXCEPT ![r] = rec]
  BY DEF ReportReadiness, EvidenceAccepted
<1>3. /\ x \in ReadinessState /\ l \in ReplicaLifecycle
      /\ p.lifecycle \in Ended => l = p.lifecycle
      /\ l = "DRAINING" => p.lifecycle = "DRAINING"
  BY <1>1, Names DEF Replica, Ended, Terminated
<1> HIDE DEF x, l
<1>4. rec \in Replica /\ Revised(p, rec) /\ rec.lifecycle = l
      /\ rec.health = p.health /\ rec.serving_eligible = p.serving_eligible
  BY <1>1, <1>3 DEF Replica, Revised, SameIdentity
<1> HIDE DEF rec
<1>5. QED
  BY <1>2, <1>3, <1>4 DEF Single, Revises, HealthKept

(* promote_replica to PRIMARY: the health check keeps UNHEALTHY out, and an *)
(* ended incarnation is not READY or SERVING.                               *)
LEMMA SinglePrimaryGrant ==
    ASSUME IInv, NEW r \in ReplicaId, NEW w, NEW b, PromotePrimary(r, w, b)
    PROVE  Single(r)
<1> DEFINE p == replicas[r]
           granted == Granted(p)
           h == IF p.health = "UNKNOWN" THEN "HEALTHY" ELSE p.health
           rec == [granted EXCEPT !.health = h]
<1>1. p \in Replica
  BY DEF IInv, TypeOK
<1>2. /\ Known(r) /\ replicas' = [replicas EXCEPT ![r] = rec]
      /\ p.lifecycle \in {"READY", "SERVING"}
      /\ p.health_generation < MaxRounds
      /\ Cfg(r).require_healthy => p.health # "UNHEALTHY"
  BY DEF PromotePrimary, MayPromote, ReadyOrServing, Cfg
<1>3. granted \in Replica /\ SameIdentity(p, granted) /\ granted.lifecycle = "SERVING"
  BY <1>1, GrantedFacts
<1>4. granted.boot_id = p.boot_id /\ granted.health_generation = p.health_generation + 1
  BY <1>1 DEF Granted, Replica
<1>5. h \in HealthState /\ (h = "UNHEALTHY" => p.health = "UNHEALTHY")
  BY <1>1, Names DEF Replica
<1> HIDE DEF granted, h
<1>6. /\ rec \in Replica /\ rec.lifecycle = "SERVING" /\ rec.health = h
      /\ SameIdentity(p, rec) /\ rec.boot_id = p.boot_id
      /\ rec.health_generation = p.health_generation + 1
  BY <1>3, <1>4, <1>5 DEF Replica, SameIdentity
<1> HIDE DEF rec
<1>7. Revised(p, rec)
  BY <1>2, <1>6 DEF Revised, Ended, Terminated
<1>8. QED
  BY <1>2, <1>5, <1>6, <1>7 DEF Single, Revises, HealthKept

(* promote_replica to any other target *)
LEMMA SingleAssignment ==
    ASSUME IInv, NEW r \in ReplicaId, NEW w, NEW b, NEW target \in PromotionState,
           PromoteOther(r, w, b, target)
    PROVE  Single(r)
<1> DEFINE p == replicas[r]
           rec == Assigned(p, target)
<1>1. p \in Replica
  BY DEF IInv, TypeOK
<1>2. Known(r) /\ replicas' = [replicas EXCEPT ![r] = rec] /\ target # "PRIMARY"
  BY DEF PromoteOther, MayPromote
<1>3. /\ rec \in Replica /\ SameIdentity(p, rec) /\ rec.lifecycle = p.lifecycle
      /\ ~rec.serving_eligible
  BY <1>1, <1>2, AssignedFacts
<1>4. rec.boot_id = p.boot_id /\ rec.health_generation = p.health_generation
  BY <1>1 DEF Assigned, Replica
<1> HIDE DEF rec
<1>5. QED
  BY <1>2, <1>3, <1>4 DEF Single, Revises, Revised, HealthKept

(* drain_replica: the only operation that lets a replica into DRAINING *)
LEMMA SingleDrain ==
    ASSUME IInv, NEW r \in ReplicaId, NEW w, NEW b, DrainReplica(r, w, b)
    PROVE  Single(r)
<1> DEFINE p == replicas[r]
           d == Demoted(p)
           rec == [d EXCEPT !.lifecycle = "DRAINING"]
<1>1. p \in Replica
  BY DEF IInv, TypeOK
<1>2. Known(r) /\ replicas' = [replicas EXCEPT ![r] = rec] /\ drains' = DrainRecorded(r)
  BY DEF DrainReplica, MayDrain
<1>3. d \in Replica /\ SameIdentity(p, d) /\ ~d.serving_eligible
  BY <1>1, DemotedFacts
<1>4. d.boot_id = p.boot_id /\ d.health_generation = p.health_generation
  BY <1>1 DEF Demoted, Replica
<1> HIDE DEF d
<1>5. /\ rec \in Replica /\ SameIdentity(p, rec) /\ ~rec.serving_eligible
      /\ rec.boot_id = p.boot_id /\ rec.health_generation = p.health_generation
      /\ rec.lifecycle = "DRAINING"
  BY <1>3, <1>4, Names DEF Replica, SameIdentity
<1> HIDE DEF rec
<1>6. QED
  BY <1>2, <1>5 DEF Single, Revises, Revised, HealthKept, Ended

(* complete_drain and retire_replica *)
LEMMA SingleEnd ==
    ASSUME IInv, NEW r \in ReplicaId, CompleteDrain(r) \/ RetireReplica(r)
    PROVE  Single(r)
<1> DEFINE p == replicas[r]
           q == [p EXCEPT !.lifecycle = "QUIESCED", !.serving_eligible = FALSE]
           t == [p EXCEPT !.lifecycle = "RETIRED", !.serving_eligible = FALSE,
                          !.promotion = "NOT_PROMOTED", !.role = "NONE", !.warmth = "INVALIDATED"]
<1>1. p \in Replica
  BY DEF IInv, TypeOK
<1>2. CASE CompleteDrain(r)
  <2>1. Known(r) /\ replicas' = [replicas EXCEPT ![r] = q]
    BY <1>2 DEF CompleteDrain
  <2>2. q \in Replica /\ Revised(p, q) /\ q.lifecycle = "QUIESCED" /\ ~q.serving_eligible
    BY <1>1, Names DEF Replica, Revised, SameIdentity, Ended, Terminated
  <2> HIDE DEF q
  <2>3. QED
    BY <2>1, <2>2 DEF Single, Revises, HealthKept
<1>3. CASE RetireReplica(r)
  <2>1. Known(r) /\ replicas' = [replicas EXCEPT ![r] = t]
    BY <1>3 DEF RetireReplica
  <2>2. t \in Replica
    BY <1>1, Names DEF Replica
  <2>3. Revised(p, t) /\ t.lifecycle = "RETIRED" /\ ~t.serving_eligible
    BY <1>1 DEF Replica, Revised, SameIdentity, Ended, Terminated
  <2> HIDE DEF t
  <2>4. QED
    BY <2>1, <2>2, <2>3 DEF Single, Revises, HealthKept
<1>4. QED
  BY <1>2, <1>3

(* What failing a record, in any of the three ways, does beyond FailedFacts. *)
LEMMA FailureRevises ==
    ASSUME NEW p \in Replica, NEW q, q \in {Obsolete(p), Failed(p), MarkedFailed(p)}
    PROVE  /\ q \in Replica /\ Revised(p, q) /\ ~q.serving_eligible
           /\ q.lifecycle = "DRAINING" => p.lifecycle = "DRAINING"
<1>1. /\ Obsolete(p).boot_id = p.boot_id /\ Obsolete(p).health_generation = p.health_generation
      /\ Failed(p).boot_id = p.boot_id /\ Failed(p).health_generation = p.health_generation
      /\ MarkedFailed(p).boot_id = p.boot_id
      /\ MarkedFailed(p).health_generation = p.health_generation
  <2> DEFINE o == Obsolete(p)
  <2>1. o \in Replica
    BY ObsoleteFacts
  <2>2. o.boot_id = p.boot_id /\ o.health_generation = p.health_generation
    BY DEF Obsolete, Replica
  <2> HIDE DEF o
  <2>3. \A l : /\ [o EXCEPT !.lifecycle = l].boot_id = p.boot_id
               /\ [o EXCEPT !.lifecycle = l].health_generation = p.health_generation
    BY <2>1, <2>2 DEF Replica
  <2>4. QED
    BY <2>2, <2>3, Zenon DEF Failed, MarkedFailed, o
<1>2. CASE q = Obsolete(p)
  BY <1>1, <1>2, ObsoleteFacts DEF Revised
<1>3. CASE q = Failed(p)
  BY <1>1, <1>3, FailedFacts DEF Revised, Ended, Terminated
<1>4. CASE q = MarkedFailed(p)
  BY <1>1, <1>4, MarkedFailedFacts DEF Revised, Ended, Terminated
<1>5. QED
  BY <1>2, <1>3, <1>4

(* fail_replica, and trigger_failover without a candidate *)
LEMMA SingleFailure ==
    ASSUME IInv, NEW r \in ReplicaId, NEW w, NEW b, NEW s,
           FailReplica(r, w, b) \/ FailReplicaRejected(r, w, b) \/ TriggerFailoverRejected(s, r)
    PROVE  Single(r)
<1>1. replicas[r] \in Replica
  BY DEF IInv, TypeOK
<1>2. PICK rec \in {Obsolete(replicas[r]), Failed(replicas[r]), MarkedFailed(replicas[r])} :
        Known(r) /\ replicas' = [replicas EXCEPT ![r] = rec]
  BY DEF FailReplica, FailReplicaRejected, TriggerFailoverRejected
<1>3. QED
  BY <1>1, <1>2, FailureRevises DEF Single, Revises, HealthKept

-----------------------------------------------------------------------------
(* All steps *)

Registers == \E w \in WorkerId, b \in BootId : RegisterWorker(w, b)
Unregisters == \E w \in WorkerId : UnregisterWorker(w)
Creates == \E s \in SetId, c \in SetConfigs, e \in Epoch : CreateReplicaSet(s, c, e)
Transitions == \E s \in SetId, to \in SetTargets : TransitionReplicaSet(s, to)
Provisions ==
    \E r \in ReplicaId, s \in SetId, w \in WorkerId, compatible \in Compat, capacity \in Capacities :
        ProvisionReplica(r, s, w, compatible, capacity)
FailsOver == \E s \in SetId, f \in ReplicaId, c \in ReplicaId : TriggerFailover(s, f, c)

(* What sets and drains may do in a step that revises a single replica:     *)
(* configurations stay, and the drain list is left alone, extended, or has  *)
(* a record of the replica closed.                                          *)
SingleFrame(r) ==
    /\ \A s \in SetId : sets'[s].cfg = sets[s].cfg
    /\ drains' = drains \/ drains' = DrainRecorded(r) \/ CompleteDrain(r)
    /\ UNCHANGED workers

(* The lifecycle of a set may change without its configuration. *)
LEMMA CfgKept ==
    ASSUME IInv, NEW t, NEW l, sets' = [sets EXCEPT ![t].lifecycle = l]
    PROVE  \A s \in SetId : sets'[s].cfg = sets[s].cfg
BY DEF IInv, TypeOK

(* Every step is one of six kinds that touch several replicas, none, or a   *)
(* new incarnation, or it revises a single replica.                         *)
LEMMA StepKinds ==
    ASSUME IInv, [Next]_vars
    PROVE  \/ Registers \/ Unregisters \/ Creates \/ Transitions \/ Provisions \/ FailsOver
           \/ UNCHANGED vars
           \/ \E r \in ReplicaId : Single(r) /\ SingleFrame(r)
<1> DEFINE Goal == \E r \in ReplicaId : Single(r) /\ SingleFrame(r)
<1>1. ASSUME NEW r \in ReplicaId, NEW placed \in Placed, SetAllocating(r, placed)
      PROVE  Goal
  <2>1. SingleFrame(r)
    BY <1>1 DEF SingleFrame, SetAllocating
  <2>2. QED
    BY <1>1, <2>1, SingleStartUp
<1>2. ASSUME NEW r \in ReplicaId, SetStarting(r)
      PROVE  Goal
  <2>1. SingleFrame(r)
    BY <1>2 DEF SingleFrame, SetStarting
  <2>2. QED
    BY <1>2, <2>1, SingleStartUp
<1>3. ASSUME NEW r \in ReplicaId, CompleteDrain(r) \/ RetireReplica(r)
      PROVE  Goal
  <2>1. SingleFrame(r)
    BY <1>3, Zenon DEF SingleFrame, CompleteDrain, RetireReplica
  <2>2. QED
    BY <1>3, <2>1, SingleEnd
<1>4. ASSUME NEW r \in ReplicaId, NEW w \in WorkerId, NEW b \in BootId, WorkerStep(r, w, b)
      PROVE  Goal
  <2>1. ASSUME NEW partial \in PartialWarm, WarmReplica(r, w, b, partial)
        PROVE  Goal
    <3>1. SingleFrame(r)
      BY <2>1 DEF SingleFrame, WarmReplica
    <3>2. QED
      BY <2>1, <3>1, SingleWarm
  <2>2. ASSUME NEW g \in 1..MaxRounds, NEW h \in HealthReports, ReportHealth(r, w, b, g, h)
        PROVE  Goal
    <3>1. SingleFrame(r)
      BY <2>2 DEF SingleFrame, ReportHealth
    <3>2. QED
      BY <2>2, <3>1, SingleHealth, InputAssumption
  <2>3. ASSUME NEW all_set \in AllFactorsSet, ReportReadiness(r, w, b, all_set)
        PROVE  Goal
    <3>1. SingleFrame(r)
      BY <2>3 DEF SingleFrame, ReportReadiness
    <3>2. QED
      BY <2>3, <3>1, SingleReadiness
  <2>4. CASE PromotePrimary(r, w, b)
    <3>1. SingleFrame(r)
      BY <2>4, CfgKept DEF SingleFrame, PromotePrimary
    <3>2. QED
      BY <2>4, <3>1, SinglePrimaryGrant
  <2>5. ASSUME NEW target \in Targets, PromoteOther(r, w, b, target)
        PROVE  Goal
    <3>1. SingleFrame(r)
      BY <2>5, CfgKept DEF SingleFrame, PromoteOther
    <3>2. QED
      BY <2>5, <3>1, SingleAssignment, InputAssumption
  <2>6. CASE DrainReplica(r, w, b)
    <3>1. SingleFrame(r)
      BY <2>6 DEF SingleFrame, DrainReplica
    <3>2. QED
      BY <2>6, <3>1, SingleDrain
  <2>7. CASE FailReplica(r, w, b) \/ FailReplicaRejected(r, w, b)
    <3>1. SingleFrame(r)
      BY <2>7 DEF SingleFrame, FailReplica, FailReplicaRejected
    <3>2. QED
      BY <2>7, <3>1, SingleFailure
  <2>8. QED
    BY <1>4, <2>1, <2>2, <2>3, <2>4, <2>5, <2>6, <2>7 DEF WorkerStep
<1>5. ASSUME NEW s \in SetId, NEW f \in ReplicaId, TriggerFailoverRejected(s, f)
      PROVE  Goal
  <2>1. SingleFrame(f)
    BY <1>5 DEF SingleFrame, TriggerFailoverRejected
  <2>2. QED
    BY <1>5, <2>1, SingleFailure
<1> HIDE DEF Goal
<1>6. \/ Registers \/ Unregisters \/ Creates \/ Transitions \/ Provisions \/ FailsOver
      \/ UNCHANGED vars \/ Goal
  BY <1>1, <1>2, <1>3, <1>4, <1>5
     DEF Next, Registers, Unregisters, Creates, Transitions, Provisions, FailsOver
<1>7. QED
  BY <1>6 DEF Goal

-----------------------------------------------------------------------------
(* What a step does to one replica *)

(* A map entry that does not exist is the default record. *)
AbsentIsDefault == \A r \in ReplicaId : ~Known(r) => replicas[r] = NoReplica

(* q is a new incarnation: it has nothing yet, and a registered boot. *)
Born(p, q) ==
    /\ q.generation = p.generation + 1
    /\ q.lifecycle = "DECLARED"
    /\ ~q.serving_eligible
    /\ q.boot_id \in BootId
    /\ q.health_generation = 1

RevisedInStep(q) ==
    /\ Known(q)
    /\ Revised(replicas[q], replicas'[q])
    /\ HealthKept(replicas[q], replicas'[q], Cfg(q))
    /\ replicas'[q].lifecycle = "DRAINING" =>
          replicas[q].lifecycle = "DRAINING" \/ drains' = DrainRecorded(q)

(* A provisioned record. *)
LEMMA BornFacts ==
    ASSUME IInv, NEW r \in ReplicaId, NEW s \in SetId, NEW w \in WorkerId,
           NEW compatible, NEW capacity, ProvisionReplica(r, s, w, compatible, capacity)
    PROVE  /\ Born(replicas[r], replicas'[r])
           /\ replicas'[r].set_id = s
           /\ \A q \in ReplicaId \ {r} : replicas'[q] = replicas[q]
<1>1. replicas \in [ReplicaId -> Replica] /\ workers[w] \in BootId
  BY DEF IInv, TypeOK, ProvisionReplica
<1>2. QED
  BY <1>1 DEF ProvisionReplica, Born, NoReplica

(* The record of a replica that a failover grants authority to. *)
LEMMA GrantRevises ==
    ASSUME NEW p \in Replica, p.lifecycle \in {"READY", "SERVING"}, p.health_generation < MaxRounds
    PROVE  Revised(p, Granted(p)) /\ Granted(p).health = p.health /\ Granted(p).lifecycle = "SERVING"
<1>1. SameIdentity(p, Granted(p)) /\ Granted(p).lifecycle = "SERVING"
  BY GrantedFacts
<1>2. /\ Granted(p).boot_id = p.boot_id /\ Granted(p).health = p.health
      /\ Granted(p).health_generation = p.health_generation + 1
  BY DEF Granted, Replica
<1>3. QED
  BY <1>1, <1>2 DEF Revised, Ended, Terminated

(* Whatever the step, one replica stays as it is, is revised, or is born. *)
LEMMA RecordMoves ==
    ASSUME IInv, AbsentIsDefault, [Next]_vars, NEW q \in ReplicaId
    PROVE  \/ replicas'[q] = replicas[q]
           \/ RevisedInStep(q)
           \/ Born(replicas[q], replicas'[q])
<1> DEFINE Goal == \/ replicas'[q] = replicas[q]
                   \/ RevisedInStep(q)
                   \/ Born(replicas[q], replicas'[q])
<1>1. replicas \in [ReplicaId -> Replica]
  BY DEF IInv, TypeOK
<1>2. ASSUME replicas'[q] = Failed(replicas[q]), replicas[q].worker_id \in WorkerId
      PROVE  RevisedInStep(q)
  <2>1. Known(q)
    BY <1>2, IdAssumption DEF AbsentIsDefault, NoReplica
  <2>2. QED
    BY <1>1, <1>2, <2>1, FailureRevises DEF RevisedInStep, HealthKept
<1>3. CASE Registers
  BY <1>2, <1>3 DEF Registers, RegisterWorker, LostByRestart
<1>4. CASE Unregisters
  BY <1>2, <1>4 DEF Unregisters, UnregisterWorker
<1>5. CASE Creates \/ Transitions \/ UNCHANGED vars
  BY <1>5 DEF Creates, Transitions, CreateReplicaSet, TransitionReplicaSet, vars
<1>6. CASE Provisions
  BY <1>6, BornFacts DEF Provisions
<1>7. CASE FailsOver
  <2>1. PICK s \in SetId, f \in ReplicaId, c \in ReplicaId : TriggerFailover(s, f, c)
    BY <1>7 DEF FailsOver
  <2>2. /\ c # f /\ Known(f) /\ replicas[c].set_id = s
        /\ replicas[c].lifecycle \in {"READY", "SERVING"}
        /\ replicas[c].health \in {"HEALTHY", "DEGRADED"}
        /\ replicas[c].health_generation < MaxRounds
        /\ replicas' = [replicas EXCEPT ![f] = MarkedFailed(@), ![c] = Granted(@)]
    BY <2>1 DEF TriggerFailover, Candidates, MembersOf, ReadyOrServing
  <2>3. Known(c)
    BY <2>2, IdAssumption DEF AbsentIsDefault, NoReplica
  <2>4. CASE q = f
    <3>1. replicas'[q] = MarkedFailed(replicas[q])
      BY <1>1, <2>2, <2>4
    <3>2. QED
      BY <1>1, <2>2, <2>4, <3>1, FailureRevises DEF RevisedInStep, HealthKept
  <2>5. CASE q = c
    <3>1. replicas'[q] = Granted(replicas[q])
      BY <1>1, <2>2, <2>5
    <3>2. QED
      BY <1>1, <2>2, <2>3, <2>5, <3>1, GrantRevises DEF RevisedInStep, HealthKept
  <2>6. CASE q # f /\ q # c
    BY <1>1, <2>2, <2>6
  <2>7. QED
    BY <2>4, <2>5, <2>6
<1>8. CASE \E r \in ReplicaId : Single(r) /\ SingleFrame(r)
  <2>1. PICK r \in ReplicaId, rec \in Replica : Revises(r, rec)
    BY <1>8 DEF Single
  <2>2. CASE q = r
    <3>1. replicas'[q] = rec
      BY <1>1, <2>1, <2>2 DEF Revises
    <3>2. QED
      BY <2>1, <2>2, <3>1 DEF Revises, RevisedInStep
  <2>3. CASE q # r
    BY <1>1, <2>1, <2>3 DEF Revises
  <2>4. QED
    BY <2>2, <2>3
<1>9. QED
  BY <1>3, <1>4, <1>5, <1>6, <1>7, <1>8, StepKinds

(* The configuration of a known set is never changed. *)
LEMMA KnownCfgKept ==
    ASSUME IInv, [Next]_vars, NEW s \in SetId, KnownSet(s)
    PROVE  sets'[s].cfg = sets[s].cfg
<1>1. sets \in [SetId -> SetState]
  BY DEF IInv, TypeOK, SetState
<1>2. CASE Registers \/ Unregisters \/ UNCHANGED vars
  BY <1>2 DEF Registers, Unregisters, RegisterWorker, UnregisterWorker, vars
<1>3. CASE Creates
  BY <1>1, <1>3 DEF Creates, CreateReplicaSet
<1>4. CASE Transitions
  BY <1>4, CfgKept DEF Transitions, TransitionReplicaSet
<1>5. CASE Provisions
  BY <1>5, CfgKept DEF Provisions, ProvisionReplica
<1>6. CASE FailsOver
  BY <1>6, CfgKept DEF FailsOver, TriggerFailover
<1>7. CASE \E r \in ReplicaId : Single(r) /\ SingleFrame(r)
  BY <1>7 DEF SingleFrame
<1>8. QED
  BY <1>2, <1>3, <1>4, <1>5, <1>6, <1>7, StepKinds

-----------------------------------------------------------------------------
(* Health evidence *)

(* Health generations count the rounds an incarnation was granted, and      *)
(* every incarnation has the boot its worker was registered with.           *)
Rounds ==
    \A r \in ReplicaId : Known(r) =>
        /\ replicas[r].boot_id \in BootId
        /\ replicas[r].health_generation \in 1..MaxRounds \cup {1}

(* The invariant behind the results on health evidence. *)
HInv == IInv /\ AbsentIsDefault /\ Rounds /\ UnhealthyHoldsNothing

(* The invariant holds at the start and is kept by every step. *)
LEMMA HealthInit == Init => HInv
BY InitIInv DEF Init, HInv, AbsentIsDefault, Rounds, UnhealthyHoldsNothing, Known, NoReplica

(* By RecordMoves: a record that stays, is revised or is born satisfies it. *)
LEMMA HealthKeptByNext ==
    ASSUME HInv, [Next]_vars
    PROVE  HInv'
<1>1. IInv /\ IInv' /\ AbsentIsDefault
  BY NextStep DEF HInv, StepOK
<1>2. replicas \in [ReplicaId -> Replica] /\ replicas' \in [ReplicaId -> Replica]
  BY <1>1 DEF IInv, TypeOK
<1>3. ASSUME NEW q \in ReplicaId
      PROVE  /\ ~Known(q)' => replicas'[q] = NoReplica
             /\ Known(q)' => /\ replicas'[q].boot_id \in BootId
                             /\ replicas'[q].health_generation \in 1..MaxRounds \cup {1}
             /\ replicas'[q].serving_eligible /\ Cfg(q)'.require_healthy
                   => replicas'[q].health # "UNHEALTHY"
  <2>1. CASE replicas'[q] = replicas[q]
    <3>1. CASE Known(q)
      <4>1. Cfg(q)' = Cfg(q)
        BY <1>1, <2>1, <3>1, KnownCfgKept DEF IInv, TypeOK, Cfg
      <4>2. QED
        BY <2>1, <3>1, <4>1 DEF HInv, Rounds, UnhealthyHoldsNothing, Known
    <3>2. CASE ~Known(q)
      <4>1. replicas'[q] = NoReplica
        BY <1>1, <2>1, <3>2 DEF AbsentIsDefault
      <4>2. NoReplica.generation = 0 /\ ~NoReplica.serving_eligible
        BY DEF NoReplica
      <4>3. QED
        BY <4>1, <4>2 DEF Known
    <3>3. QED
      BY <3>1, <3>2
  <2>2. CASE RevisedInStep(q)
    <3>1. /\ Known(q) /\ SameIdentity(replicas[q], replicas'[q])
          /\ replicas'[q].boot_id = replicas[q].boot_id
          /\ \/ replicas'[q].health_generation = replicas[q].health_generation
             \/ /\ replicas[q].health_generation < MaxRounds
                /\ replicas'[q].health_generation = replicas[q].health_generation + 1
          /\ HealthKept(replicas[q], replicas'[q], Cfg(q))
      BY <2>2 DEF RevisedInStep, Revised
    <3>2. Cfg(q)' = Cfg(q)
      BY <1>1, <3>1, KnownCfgKept DEF IInv, TypeOK, Cfg, SameIdentity
    <3>3. /\ replicas[q].boot_id \in BootId
          /\ replicas[q].health_generation \in 1..MaxRounds \cup {1}
      BY <3>1 DEF HInv, Rounds
    <3>4. replicas'[q].health_generation \in 1..MaxRounds \cup {1}
      BY <3>1, <3>3, BoundAssumption
    <3>5. Known(q)'
      BY <3>1 DEF SameIdentity, Known
    <3>6. replicas'[q].serving_eligible /\ Cfg(q)'.require_healthy => replicas'[q].health # "UNHEALTHY"
      BY <3>1, <3>2 DEF HealthKept, HInv, UnhealthyHoldsNothing
    <3>7. QED
      BY <3>1, <3>3, <3>4, <3>5, <3>6
  <2>3. CASE Born(replicas[q], replicas'[q])
    BY <1>2, <2>3, BoundAssumption DEF Born, Known, Replica
  <2>4. QED
    BY <1>1, <2>1, <2>2, <2>3, RecordMoves
<1>4. QED
  BY <1>1, <1>3 DEF HInv, AbsentIsDefault, Rounds, UnhealthyHoldsNothing

(* So it holds always. *)
LEMMA HealthInductive == Spec => []HInv
BY HealthInit, HealthKeptByNext, PTL DEF Spec

(* UnhealthyHoldsNothing: under the default policy no interleaving of       *)
(* reports, promotions and failovers leaves serving authority with a        *)
(* replica whose last health evidence says UNHEALTHY.                       *)
THEOREM UnhealthyNeverHolds == Spec => []UnhealthyHoldsNothing
<1>1. HInv => UnhealthyHoldsNothing
  BY DEF HInv
<1>2. QED
  BY <1>1, HealthInductive, PTL

-----------------------------------------------------------------------------
(* Drain records *)

(* How the drain list may change. *)
LEMMA DrainsMove ==
    ASSUME IInv, [Next]_vars
    PROVE  drains' = drains \/ \E r \in ReplicaId : drains' = DrainRecorded(r) \/ CompleteDrain(r)
<1>1. CASE Registers \/ Unregisters \/ UNCHANGED vars
  BY <1>1 DEF Registers, Unregisters, RegisterWorker, UnregisterWorker, vars
<1>2. CASE Creates \/ Transitions \/ Provisions \/ FailsOver
  BY <1>2 DEF Creates, Transitions, Provisions, FailsOver, CreateReplicaSet, TransitionReplicaSet,
              ProvisionReplica, TriggerFailover
<1>3. CASE \E r \in ReplicaId : Single(r) /\ SingleFrame(r)
  BY <1>3 DEF SingleFrame
<1>4. QED
  BY <1>1, <1>2, <1>3, StepKinds

(* An open record outlives every step but the completion of its own drain. *)
LEMMA OpenRecordKept ==
    ASSUME IInv, [Next]_vars, NEW q \in ReplicaId, ~CompleteDrain(q),
           \E i \in DOMAIN drains : drains[i] = OpenDrain(q)
    PROVE  \E i \in DOMAIN drains' : drains'[i] = OpenDrain(q)
<1> DEFINE D == [replica_id : ReplicaId, state : {"DRAINING", "QUIESCED"}]
<1>1. drains \in Seq(D)
  BY DEF IInv, TypeOK
<1>2. PICK i \in DOMAIN drains : drains[i] = OpenDrain(q)
  OBVIOUS
<1>3. ASSUME NEW r \in ReplicaId, drains' = DrainRecorded(r)
      PROVE  i \in DOMAIN drains' /\ drains'[i] = OpenDrain(q)
  <2>1. drains' = Append(drains, OpenDrain(r)) /\ OpenDrain(r) \in D
    BY <1>3 DEF DrainRecorded, OpenDrain
  <2>2. i \in 1..Len(drains)
    BY <1>1
  <2> HIDE DEF D
  <2>3. QED
    BY <1>1, <1>2, <2>1, <2>2
<1>4. ASSUME NEW r \in ReplicaId, CompleteDrain(r)
      PROVE  i \in DOMAIN drains' /\ drains'[i] = OpenDrain(q)
  <2>1. r # q
    BY <1>4
  <2>2. i \notin ToClose(r)
    BY <1>2, <2>1 DEF ToClose, OpenDrain
  <2>3. QED
    BY <1>2, <1>4, <2>2 DEF CompleteDrain
<1>5. QED
  BY <1>2, <1>3, <1>4, DrainsMove

(* A replica that drains after a step has a record: the step wrote it, or   *)
(* it was there and the step closed another one.                            *)
LEMMA DrainAuditKept ==
    ASSUME HInv, DrainAudited, [Next]_vars
    PROVE  DrainAudited'
<1>1. IInv /\ AbsentIsDefault /\ replicas \in [ReplicaId -> Replica]
  BY DEF HInv, IInv, TypeOK
<1> SUFFICES ASSUME NEW q \in ReplicaId, replicas'[q].lifecycle = "DRAINING"
             PROVE  \E i \in DOMAIN drains' : drains'[i] = OpenDrain(q)
  BY DEF DrainAudited, OpenDrain
<1>2. ~CompleteDrain(q)
  BY <1>1 DEF CompleteDrain, Replica
<1>3. CASE drains' = DrainRecorded(q)
  <2> DEFINE D == [replica_id : ReplicaId, state : {"DRAINING", "QUIESCED"}]
  <2>1. drains \in Seq(D) /\ OpenDrain(q) \in D
    BY <1>1 DEF IInv, TypeOK, OpenDrain
  <2> HIDE DEF D
  <2>2. /\ Len(drains) + 1 \in DOMAIN drains'
        /\ drains'[Len(drains) + 1] = OpenDrain(q)
    BY <1>3, <2>1 DEF DrainRecorded
  <2>3. QED
    BY <2>2
<1>4. CASE replicas[q].lifecycle = "DRAINING"
  BY <1>1, <1>2, <1>4, OpenRecordKept DEF DrainAudited
<1>5. QED
  BY <1>1, <1>3, <1>4, RecordMoves DEF RevisedInStep, Born

(* DrainAudited: a drain can always be completed with a record to close,    *)
(* although complete_drain closes the first open record of the id and that  *)
(* may be an earlier incarnation's.                                         *)
THEOREM DrainsAreAudited == Spec => []DrainAudited
<1>1. Init => DrainAudited
  BY DEF Init, DrainAudited, NoReplica
<1>2. QED
  BY <1>1, DrainAuditKept, HealthInductive, PTL DEF Spec

-----------------------------------------------------------------------------
(* Anti-affinity of failovers *)

(* FailoverDiverse: the comparator puts every candidate on another worker   *)
(* before one on the failed replica's worker, unless policy puts standing   *)
(* first and the one on the same worker has the better standing.            *)
THEOREM FailoverIsDiverse == Spec => FailoverDiverse
<1> DEFINE Diverse(s, f, c) ==
        sets[s].cfg.require_diversity /\ TriggerFailover(s, f, c) /\ ~Elsewhere(c, f)
            => \A q \in Candidates(s, f) : Elsewhere(q, f) =>
                  /\ sets[s].cfg.prefer_standby_first
                  /\ RoleRank(replicas[c].promotion) < RoleRank(replicas[q].promotion)
<1>1. ASSUME NEW s \in SetId, NEW f \in ReplicaId, NEW c \in ReplicaId
      PROVE  Diverse(s, f, c)
  <2> SUFFICES ASSUME sets[s].cfg.require_diversity, TriggerFailover(s, f, c), ~Elsewhere(c, f),
                      NEW q \in Candidates(s, f), Elsewhere(q, f)
               PROVE  /\ sets[s].cfg.prefer_standby_first
                      /\ RoleRank(replicas[c].promotion) < RoleRank(replicas[q].promotion)
    OBVIOUS
  <2>1. SortsBefore(c, q, f, sets[s].cfg)
    BY Zenon DEF TriggerFailover, IsFront
  <2>2. QED
    BY <2>1 DEF SortsBefore
<1>2. [Next]_vars => [\A s \in SetId, f, c \in ReplicaId : Diverse(s, f, c)]_vars
  BY <1>1
<1>3. QED
  BY <1>2, PTL DEF Spec, FailoverDiverse

-----------------------------------------------------------------------------
(* Capacity *)

(* CapacityRespected with what makes it inductive: membership is finite. *)
Sized ==
    \A s \in SetId :
        /\ IsFiniteSet(MembersOf(s))
        /\ Cardinality(MembersOf(s)) <= sets[s].cfg.max_replicas

(* An unknown set has no members: unknown replicas belong to no set and     *)
(* known ones to known sets.                                                *)
LEMMA UnknownSetIsEmpty ==
    ASSUME HInv, NEW s \in SetId, ~KnownSet(s)
    PROVE  MembersOf(s) = {}
<1> SUFFICES ASSUME NEW r \in ReplicaId, replicas[r].set_id = s
             PROVE  FALSE
  BY DEF MembersOf
<1>1. CASE Known(r)
  BY <1>1 DEF HInv, IInv, TypeOK
<1>2. CASE ~Known(r)
  BY <1>2, IdAssumption DEF HInv, AbsentIsDefault, NoReplica
<1>3. QED
  BY <1>1, <1>2

(* A step that moves no replica to another set and configures no set keeps  *)
(* every set within its limit.                                              *)
LEMMA SizedKept ==
    ASSUME Sized,
           \A r \in ReplicaId : replicas'[r].set_id = replicas[r].set_id,
           \A s \in SetId : sets'[s].cfg = sets[s].cfg
    PROVE  Sized'
<1> SUFFICES ASSUME NEW s \in SetId
             PROVE  /\ IsFiniteSet(MembersOf(s)')
                    /\ Cardinality(MembersOf(s)') <= sets'[s].cfg.max_replicas
  BY DEF Sized
<1>1. MembersOf(s)' = MembersOf(s)
  BY DEF MembersOf
<1>2. QED
  BY <1>1 DEF Sized

(* Provisioning adds at most one member to a set below its limit, and takes *)
(* the replica from the set it was in.                                      *)
LEMMA SizedProvision ==
    ASSUME HInv, Sized, NEW r \in ReplicaId, NEW s \in SetId, NEW w \in WorkerId,
           NEW compatible, NEW capacity, ProvisionReplica(r, s, w, compatible, capacity)
    PROVE  Sized'
<1>1. /\ replicas'[r].set_id = s
      /\ \A q \in ReplicaId \ {r} : replicas'[q] = replicas[q]
  BY BornFacts DEF HInv
<1>2. \A t \in SetId : sets'[t].cfg = sets[t].cfg
  BY CfgKept DEF HInv, ProvisionReplica
<1>3. Cardinality(MembersOf(s)) < sets[s].cfg.max_replicas
  BY DEF ProvisionReplica, Provisionable
<1>4. ASSUME NEW t \in SetId
      PROVE  /\ IsFiniteSet(MembersOf(t)')
             /\ Cardinality(MembersOf(t)') <= sets'[t].cfg.max_replicas
  <2>1. IsFiniteSet(MembersOf(t)) /\ Cardinality(MembersOf(t)) <= sets[t].cfg.max_replicas
    BY DEF Sized
  <2>2. sets[t].cfg.max_replicas \in Nat
    BY InputAssumption DEF HInv, IInv, TypeOK, SetConfig, NoConfig
  <2>3. CASE t = s
    <3>1. MembersOf(t)' = MembersOf(t) \cup {r}
      BY <1>1, <2>3 DEF MembersOf
    <3>2. Cardinality(MembersOf(t)) \in Nat
      BY <2>1, FS_CardinalityType
    <3>3. /\ IsFiniteSet(MembersOf(t) \cup {r})
          /\ Cardinality(MembersOf(t) \cup {r}) <= Cardinality(MembersOf(t)) + 1
      <4>1. /\ IsFiniteSet(MembersOf(t) \cup {r})
            /\ Cardinality(MembersOf(t) \cup {r}) =
                  IF r \in MembersOf(t) THEN Cardinality(MembersOf(t)) ELSE Cardinality(MembersOf(t)) + 1
        BY <2>1, FS_AddElement, Zenon
      <4>2. QED
        BY <3>2, <4>1
    <3>4. Cardinality(MembersOf(t) \cup {r}) \in Nat
      BY <3>3, FS_CardinalityType
    <3>5. QED
      BY <1>2, <1>3, <2>2, <2>3, <3>1, <3>2, <3>3, <3>4
  <2>4. CASE t # s
    <3>1. MembersOf(t)' = MembersOf(t) \ {r}
      BY <1>1, <2>4 DEF MembersOf
    <3>2. /\ IsFiniteSet(MembersOf(t) \ {r})
          /\ Cardinality(MembersOf(t) \ {r}) <= Cardinality(MembersOf(t))
      BY <2>1, FS_Subset
    <3>3. Cardinality(MembersOf(t)) \in Nat /\ Cardinality(MembersOf(t) \ {r}) \in Nat
      BY <2>1, <3>2, FS_CardinalityType
    <3>4. QED
      BY <1>2, <2>1, <2>2, <3>1, <3>2, <3>3
  <2>5. QED
    BY <2>3, <2>4
<1>5. QED
  BY <1>4 DEF Sized

(* Creating a set gives a limit to a set without members. *)
LEMMA SizedCreate ==
    ASSUME HInv, Sized, NEW s \in SetId, NEW c \in SetConfigs, NEW e, CreateReplicaSet(s, c, e)
    PROVE  Sized'
<1>1. MembersOf(s) = {}
  BY UnknownSetIsEmpty DEF CreateReplicaSet
<1>2. sets \in [SetId -> SetState] /\ c.max_replicas \in Nat
  BY InputAssumption DEF HInv, IInv, TypeOK, SetState, SetConfig
<1>3. \A t \in SetId : MembersOf(t)' = MembersOf(t)
  BY DEF MembersOf, CreateReplicaSet
<1>4. ASSUME NEW t \in SetId
      PROVE  /\ IsFiniteSet(MembersOf(t)')
             /\ Cardinality(MembersOf(t)') <= sets'[t].cfg.max_replicas
  <2>1. CASE t = s
    BY <1>1, <1>2, <1>3, <2>1, FS_EmptySet DEF CreateReplicaSet
  <2>2. CASE t # s
    BY <1>2, <1>3, <2>2 DEF CreateReplicaSet, Sized
  <2>3. QED
    BY <2>1, <2>2
<1>5. QED
  BY <1>4 DEF Sized

(* CapacityRespected: max_replicas bounds every set for any number of       *)
(* replica ids, also when ids in use are provisioned again elsewhere.       *)
THEOREM CapacityIsRespected == Spec => []CapacityRespected
<1>1. Init => Sized
  <2> SUFFICES ASSUME Init, NEW s \in SetId
               PROVE  /\ IsFiniteSet(MembersOf(s))
                      /\ Cardinality(MembersOf(s)) <= sets[s].cfg.max_replicas
    BY DEF Sized
  <2>1. MembersOf(s) = {}
    BY IdAssumption DEF Init, MembersOf, NoReplica
  <2>2. sets[s].cfg.max_replicas = 1
    BY DEF Init, NoSet, NoConfig
  <2>3. QED
    BY <2>1, <2>2, FS_EmptySet
<1>2. ASSUME HInv, Sized, [Next]_vars
      PROVE  Sized'
  <2>1. IInv /\ AbsentIsDefault /\ replicas \in [ReplicaId -> Replica]
    BY <1>2 DEF HInv, IInv, TypeOK
  <2>2. CASE Creates
    BY <1>2, <2>2, SizedCreate DEF Creates
  <2>3. CASE Provisions
    BY <1>2, <2>3, SizedProvision DEF Provisions
  <2>4. CASE Registers
    <3>1. \A r \in ReplicaId : replicas'[r].set_id = replicas[r].set_id
      BY <2>1, <2>4, FailedFacts DEF Registers, RegisterWorker, SameIdentity
    <3>2. QED
      BY <1>2, <2>4, <3>1, SizedKept DEF Registers, RegisterWorker
  <2>5. CASE Unregisters
    <3>1. \A r \in ReplicaId : replicas'[r].set_id = replicas[r].set_id
      BY <2>1, <2>5, FailedFacts DEF Unregisters, UnregisterWorker, SameIdentity
    <3>2. QED
      BY <1>2, <2>5, <3>1, SizedKept DEF Unregisters, UnregisterWorker
  <2>6. CASE Transitions
    <3>1. \A s \in SetId : sets'[s].cfg = sets[s].cfg
      BY <2>1, <2>6, CfgKept DEF Transitions, TransitionReplicaSet
    <3>2. UNCHANGED replicas
      BY <2>6 DEF Transitions, TransitionReplicaSet
    <3>3. QED
      BY <1>2, <3>1, <3>2, SizedKept
  <2>7. CASE FailsOver
    <3>1. PICK s \in SetId, f \in ReplicaId, c \in ReplicaId : TriggerFailover(s, f, c)
      BY <2>7 DEF FailsOver
    <3>2. \A t \in SetId : sets'[t].cfg = sets[t].cfg
      BY <2>1, <3>1, CfgKept DEF TriggerFailover
    <3>3. c # f /\ replicas' = [replicas EXCEPT ![f] = MarkedFailed(@), ![c] = Granted(@)]
      BY <3>1 DEF TriggerFailover, Candidates
    <3>4. /\ MarkedFailed(replicas[f]).set_id = replicas[f].set_id
          /\ Granted(replicas[c]).set_id = replicas[c].set_id
      BY <2>1, MarkedFailedFacts, GrantedFacts DEF SameIdentity
    <3>5. \A r \in ReplicaId : replicas'[r].set_id = replicas[r].set_id
      BY <2>1, <3>3, <3>4
    <3>6. QED
      BY <1>2, <3>2, <3>5, SizedKept
  <2>8. CASE \E r \in ReplicaId : Single(r) /\ SingleFrame(r)
    <3>1. PICK r \in ReplicaId, rec \in Replica : Revises(r, rec) /\ SingleFrame(r)
      BY <2>8 DEF Single
    <3>2. \A q \in ReplicaId : replicas'[q].set_id = replicas[q].set_id
      BY <2>1, <3>1 DEF Revises, Revised, SameIdentity
    <3>3. QED
      BY <1>2, <3>1, <3>2, SizedKept DEF SingleFrame
  <2>9. CASE UNCHANGED vars
    BY <1>2, <2>9, SizedKept DEF vars
  <2>10. QED
    BY <1>2, <2>1, <2>2, <2>3, <2>4, <2>5, <2>6, <2>7, <2>8, <2>9, StepKinds
<1>3. Sized => CapacityRespected
  BY DEF Sized, CapacityRespected
<1>4. QED
  BY <1>1, <1>2, <1>3, HealthInductive, PTL DEF Spec

-----------------------------------------------------------------------------
(* The controller implements ServingLease *)

Incarnations == [r \in ReplicaId |-> replicas[r].generation]

LeaseStep == [Lease!Next]_(Lease!vars)

(* The phase of each replica is a function of its own record. *)
PhaseOf(rec) ==
    IF rec.generation = 0 THEN "ABSENT"
    ELSE IF rec.lifecycle \in Ended THEN "ENDED"
    ELSE IF rec.serving_eligible THEN "LEASED" ELSE "IDLE"

(* LeasePhase in terms of it. *)
LEMMA Phases == LeasePhase = [r \in ReplicaId |-> PhaseOf(replicas[r])]
BY DEF LeasePhase, PhaseOf, Known, Ended

(* The same in the next state. *)
LEMMA PhasesNext == LeasePhase' = [r \in ReplicaId |-> PhaseOf(replicas'[r])]
BY DEF LeasePhase, PhaseOf, Known, Ended

(* A known replica whose record is revised was not absent and is not; if it *)
(* had ended, it still has.                                                 *)
LEMMA RevisedPhase ==
    ASSUME NEW p, NEW q, p.generation # 0, Revised(p, q)
    PROVE  /\ PhaseOf(p) # "ABSENT"
           /\ PhaseOf(q) \in {"IDLE", "LEASED", "ENDED"}
           /\ PhaseOf(p) = "ENDED" => PhaseOf(q) = "ENDED"
           /\ q.generation = p.generation
BY DEF PhaseOf, Revised, SameIdentity

(* A step that revises one replica is a grant, a revocation, an end or      *)
(* nothing to the lease.                                                    *)
LEMMA LeaseSingle ==
    ASSUME NEW r \in ReplicaId, Known(r), Revised(replicas[r], replicas'[r]),
           \A q \in ReplicaId \ {r} : replicas'[q] = replicas[q]
    PROVE  LeaseStep
<1>1. /\ LeasePhase[r] \notin {"ABSENT"} /\ LeasePhase'[r] \in {"IDLE", "LEASED", "ENDED"}
      /\ LeasePhase[r] = "ENDED" => LeasePhase'[r] = "ENDED"
      /\ replicas'[r].generation = replicas[r].generation
  BY Phases, PhasesNext, RevisedPhase DEF Known
<1>2. LeasePhase[r] \in {"IDLE", "LEASED", "ENDED"}
  BY <1>1, Phases DEF PhaseOf
<1>3. LeasePhase' = [q \in ReplicaId |-> IF q = r THEN LeasePhase'[r] ELSE LeasePhase[q]]
  BY Phases, PhasesNext
<1>4. LeasePhase = [q \in ReplicaId |-> LeasePhase[q]]
  BY Phases
<1>5. Incarnations' = Incarnations
  BY <1>1 DEF Incarnations
<1> DEFINE phase == LeasePhase
           next == LeasePhase'
<1>6. CASE next[r] = phase[r]
  <2>1. next = phase
    BY <1>3, <1>4, <1>6
  <2>2. QED
    BY <1>5, <2>1 DEF LeaseStep, Lease!vars, Incarnations
<1>7. CASE next[r] = "ENDED"
  <2>1. next = [q \in ReplicaId |-> IF q \in {r} THEN "ENDED" ELSE phase[q]]
    BY <1>3, <1>7
  <2>2. Lease!End({r})
    BY <1>1, <1>5, <2>1 DEF Lease!End, Incarnations
  <2>3. QED
    BY <2>2 DEF LeaseStep, Lease!Next
<1>8. CASE next[r] = "LEASED" /\ phase[r] = "IDLE"
  <2>1. next = [q \in ReplicaId |-> IF q = r THEN "LEASED"
                                    ELSE IF q \in {} THEN "ENDED" ELSE phase[q]]
    BY <1>3, <1>8
  <2>2. Lease!Grant(r, {})
    BY <1>5, <1>8, <2>1 DEF Lease!Grant, Incarnations
  <2>3. QED
    BY <2>2 DEF LeaseStep, Lease!Next
<1>9. CASE next[r] = "IDLE" /\ phase[r] = "LEASED"
  <2>1. next = [phase EXCEPT ![r] = "IDLE"]
    BY <1>3, <1>4, <1>9
  <2>2. Lease!Revoke(r)
    BY <1>5, <1>9, <2>1 DEF Lease!Revoke, Incarnations
  <2>3. QED
    BY <2>2 DEF LeaseStep, Lease!Next
<1>10. QED
  BY <1>1, <1>2, <1>6, <1>7, <1>8, <1>9

(* The loss of a worker ends the incarnations it fails. *)
LEMMA LeaseLoss ==
    ASSUME IInv, AbsentIsDefault, NEW lost \in SUBSET ReplicaId,
           \A r \in lost : replicas[r].worker_id \in WorkerId /\ replicas'[r] = Failed(replicas[r]),
           \A r \in ReplicaId \ lost : replicas'[r] = replicas[r]
    PROVE  LeaseStep
<1>1. \A r \in ReplicaId : replicas[r] \in Replica
  BY DEF IInv, TypeOK
<1>2. ASSUME NEW r \in lost
      PROVE  /\ LeasePhase[r] # "ABSENT"
             /\ PhaseOf(replicas'[r]) = "ENDED"
             /\ replicas'[r].generation = replicas[r].generation
  <2>1. replicas[r].generation # 0
    BY IdAssumption DEF AbsentIsDefault, NoReplica, Known
  <2>2. PhaseOf(replicas[r]) # "ABSENT"
    BY <2>1 DEF PhaseOf
  <2>3. replicas'[r].lifecycle = "FAILED" /\ replicas'[r].generation = replicas[r].generation
    BY <1>1, FailedFacts DEF SameIdentity
  <2>4. QED
    BY <2>1, <2>2, <2>3, Phases DEF PhaseOf, Ended, Terminated
<1>3. LeasePhase' = [q \in ReplicaId |-> IF q \in lost THEN "ENDED" ELSE LeasePhase[q]]
  BY <1>2, Phases, PhasesNext
<1>4. Incarnations' = Incarnations
  BY <1>2 DEF Incarnations
<1>5. Lease!End(lost)
  BY <1>2, <1>3, <1>4 DEF Lease!End, Incarnations
<1>6. QED
  BY <1>5 DEF LeaseStep, Lease!Next

(* A failover ends one incarnation and grants the lease to another. *)
LEMMA LeaseFailover ==
    ASSUME IInv, AbsentIsDefault, NEW s \in SetId, NEW f \in ReplicaId, NEW c \in ReplicaId,
           TriggerFailover(s, f, c)
    PROVE  LeaseStep
<1>1. replicas \in [ReplicaId -> Replica]
  BY DEF IInv, TypeOK
<1>2. /\ c # f /\ Known(f) /\ replicas[c].set_id = s
      /\ replicas[c].lifecycle \in {"READY", "SERVING"}
      /\ replicas' = [replicas EXCEPT ![f] = MarkedFailed(@), ![c] = Granted(@)]
  BY DEF TriggerFailover, Candidates, MembersOf, ReadyOrServing
<1>3. Known(c)
  BY <1>2, IdAssumption DEF AbsentIsDefault, NoReplica
<1>4. /\ replicas'[f] = MarkedFailed(replicas[f]) /\ replicas'[c] = Granted(replicas[c])
      /\ \A q \in ReplicaId \ {f, c} : replicas'[q] = replicas[q]
  BY <1>1, <1>2
<1>5. /\ PhaseOf(replicas'[f]) = "ENDED" /\ PhaseOf(replicas[f]) # "ABSENT"
      /\ replicas'[f].generation = replicas[f].generation
  <2>1. /\ replicas'[f].generation = replicas[f].generation
        /\ replicas'[f].lifecycle \in Ended
    BY <1>1, <1>4, MarkedFailedFacts, EndedEdges DEF SameIdentity, Ended, Terminated, Replica
  <2>2. QED
    BY <1>2, <2>1 DEF PhaseOf, Known
<1>6. /\ PhaseOf(replicas'[c]) = "LEASED" /\ PhaseOf(replicas[c]) \in {"IDLE", "LEASED"}
      /\ replicas'[c].generation = replicas[c].generation
  <2>1. /\ replicas'[c].generation = replicas[c].generation
        /\ replicas'[c].lifecycle = "SERVING" /\ replicas'[c].serving_eligible
    BY <1>1, <1>4, GrantedFacts DEF SameIdentity
  <2>2. QED
    BY <1>2, <1>3, <2>1 DEF PhaseOf, Known, Ended, Terminated
<1>7. LeasePhase' = [q \in ReplicaId |-> IF q = c THEN "LEASED"
                                         ELSE IF q \in {f} THEN "ENDED" ELSE LeasePhase[q]]
  <2>1. \A q \in ReplicaId : PhaseOf(replicas'[q]) =
            IF q = c THEN "LEASED" ELSE IF q \in {f} THEN "ENDED" ELSE PhaseOf(replicas[q])
    BY <1>4, <1>5, <1>6
  <2>2. QED
    BY <2>1, Phases, PhasesNext
<1>8. Incarnations' = Incarnations
  BY <1>4, <1>5, <1>6 DEF Incarnations
<1>9. LeasePhase[c] \in {"IDLE", "LEASED"} /\ LeasePhase[f] # "ABSENT"
  BY <1>5, <1>6, Phases
<1>10. Lease!Grant(c, {f})
  BY <1>2, <1>7, <1>8, <1>9 DEF Lease!Grant, Incarnations
<1>11. QED
  BY <1>10 DEF LeaseStep, Lease!Next

(* Provisioning starts an incarnation. *)
LEMMA LeaseProvision ==
    ASSUME IInv, NEW r \in ReplicaId, NEW s \in SetId, NEW w \in WorkerId,
           NEW compatible, NEW capacity, ProvisionReplica(r, s, w, compatible, capacity)
    PROVE  LeaseStep
<1>1. /\ Born(replicas[r], replicas'[r])
      /\ \A q \in ReplicaId \ {r} : replicas'[q] = replicas[q]
  BY BornFacts
<1>2. replicas[r].generation \in Nat
  BY BoundAssumption DEF IInv, TypeOK, Replica
<1>3. PhaseOf(replicas'[r]) = "IDLE" /\ replicas'[r].generation = replicas[r].generation + 1
  BY <1>1, <1>2 DEF PhaseOf, Born, Ended, Terminated
<1>4. LeasePhase' = [LeasePhase EXCEPT ![r] = "IDLE"]
  BY <1>1, <1>3, Phases, PhasesNext
<1>5. Incarnations' = [Incarnations EXCEPT ![r] = @ + 1]
  BY <1>1, <1>3 DEF Incarnations
<1>6. Lease!Incarnate(r)
  BY <1>4, <1>5 DEF Lease!Incarnate, Incarnations
<1>7. QED
  BY <1>6 DEF LeaseStep, Lease!Next

(* ImplementsLease: every behaviour of the controller is one of the         *)
(* abstract lease, so an incarnation that drained, failed or was retired    *)
(* never serves again and one step grants at most one lease.                *)
THEOREM ControllerImplementsLease == Spec => ImplementsLease
<1>1. Init => Lease!Init
  BY DEF Init, Lease!Init, LeasePhase, Known, NoReplica
<1>2. ASSUME HInv, [Next]_vars
      PROVE  LeaseStep
  <2>1. IInv /\ AbsentIsDefault /\ replicas \in [ReplicaId -> Replica]
    BY <1>2 DEF HInv, IInv, TypeOK
  <2>2. CASE UNCHANGED replicas
    <3>1. LeasePhase' = LeasePhase /\ Incarnations' = Incarnations
      BY <2>2, Phases, PhasesNext DEF Incarnations
    <3>2. QED
      BY <3>1 DEF LeaseStep, Lease!vars, Incarnations
  <2>3. CASE Creates \/ Transitions \/ UNCHANGED vars
    BY <2>2, <2>3 DEF Creates, Transitions, CreateReplicaSet, TransitionReplicaSet, vars
  <2>4. CASE Registers
    <3>1. PICK w \in WorkerId, b \in BootId : RegisterWorker(w, b)
      BY <2>4 DEF Registers
    <3> DEFINE lost == {r \in ReplicaId : LostByRestart(r, w, b)}
    <3>2. /\ \A r \in lost : replicas[r].worker_id \in WorkerId /\ replicas'[r] = Failed(replicas[r])
          /\ \A r \in ReplicaId \ lost : replicas'[r] = replicas[r]
      BY <3>1 DEF RegisterWorker, LostByRestart
    <3>3. lost \in SUBSET ReplicaId
      OBVIOUS
    <3> HIDE DEF lost
    <3>4. QED
      BY <2>1, <3>2, <3>3, LeaseLoss
  <2>5. CASE Unregisters
    <3>1. PICK w \in WorkerId : UnregisterWorker(w)
      BY <2>5 DEF Unregisters
    <3> DEFINE lost == {r \in ReplicaId : replicas[r].worker_id = w /\ HadAuthority(replicas[r])}
    <3>2. /\ \A r \in lost : replicas[r].worker_id \in WorkerId /\ replicas'[r] = Failed(replicas[r])
          /\ \A r \in ReplicaId \ lost : replicas'[r] = replicas[r]
      BY <3>1 DEF UnregisterWorker
    <3>3. lost \in SUBSET ReplicaId
      OBVIOUS
    <3> HIDE DEF lost
    <3>4. QED
      BY <2>1, <3>2, <3>3, LeaseLoss
  <2>6. CASE Provisions
    BY <2>1, <2>6, LeaseProvision DEF Provisions
  <2>7. CASE FailsOver
    BY <2>1, <2>7, LeaseFailover DEF FailsOver
  <2>8. CASE \E r \in ReplicaId : Single(r) /\ SingleFrame(r)
    <3>1. PICK r \in ReplicaId, rec \in Replica : Revises(r, rec)
      BY <2>8 DEF Single
    <3>2. /\ Known(r) /\ Revised(replicas[r], replicas'[r])
          /\ \A q \in ReplicaId \ {r} : replicas'[q] = replicas[q]
      BY <2>1, <3>1 DEF Revises
    <3>3. QED
      BY <3>2, LeaseSingle
  <2>9. QED
    BY <1>2, <2>1, <2>3, <2>4, <2>5, <2>6, <2>7, <2>8, StepKinds
<1>3. HInv /\ [Next]_vars => [Lease!Next]_(Lease!vars)
  BY <1>2 DEF LeaseStep
<1>4. QED
  BY <1>1, <1>3, HealthInductive, PTL DEF Spec, ImplementsLease, Lease!Spec
=============================================================================
