-------------------------- MODULE CommandLineProofs --------------------------
(***************************************************************************)
(* Proofs about CommandLine, for any sequence of invocations killed at any *)
(* moment: what is saved can be loaded, recovery resurrects nothing and    *)
(* undoes nothing, and a promotion after recovery serves.                  *)
(***************************************************************************)
EXTENDS CommandLine, ServingProofs

(* The types of what a snapshot holds. *)
Snapshots ==
    [ replicas : [ReplicaId -> Replica],
      sets : [SetId -> [lifecycle : SetLifecycle \cup {"ABSENT"}, cfg : SetConfigs \cup {NoConfig}]],
      workers : [WorkerId -> BootId \cup {Unregistered}],
      promotions : [ReplicaId -> PromotionRecords],
      drains : Seq([replica_id : ReplicaId, state : {"DRAINING", "QUIESCED"}]),
      failover : FailoverRecords \cup {NullId}, epoch : Epoch \cup {NullId} ]

(* The lifecycles of a set that has had a replica. *)
Populated == {"PROVISIONING", "AVAILABLE", "DEGRADED"}

(* What the commands make of a set, and of a replica on its worker. *)
SetKept(set) ==
    /\ set.lifecycle \in Populated \cup {"CREATED"}
    /\ \E n \in Sizes : set.cfg = MkSet(n)
    /\ CountsValid(set.cfg)

RecordKept(rec) ==
    /\ rec.set_id = SetupSet /\ rec.coordinator_epoch = SetupEpoch
    /\ rec.worker_id \in WorkerId
    /\ rec.compatible /\ rec.capacity_total # 0 /\ rec.set_generation = 1
    /\ rec.lifecycle \in {"ALLOCATING", "STARTING", "WARMING", "READY"} => rec.placement = "ASSIGNED"

(* What holds of memory at every moment and so of every file. *)
Kept(state) ==
    /\ \A s \in SetId : state.sets[s].lifecycle # "ABSENT" => SetKept(state.sets[s])
    /\ \A r \in ReplicaId : state.replicas[r].generation # 0 =>
          /\ RecordKept(state.replicas[r])
          /\ state.workers[state.replicas[r].worker_id] # Unregistered
          /\ state.sets[SetupSet].lifecycle \in Populated

(* A state the controller can be in when a command has finished: what the   *)
(* inductive invariant of the controller says of a state, apart from the    *)
(* authority and the boots, which recovery clears, and nothing in the       *)
(* middle of a warm-up.                                                     *)
Saved(state) ==
    /\ state \in Snapshots
    /\ \A r \in ReplicaId :
          /\ state.replicas[r].generation = 0 => state.replicas[r] = NoReplica
          /\ state.replicas[r].generation # 0 =>
                state.replicas[r].health_generation \in 1..MaxRounds \cup {1}
          /\ state.replicas[r].lifecycle # "WARMING"
          /\ state.replicas[r].lifecycle = "DRAINING" =>
                \E i \in DOMAIN state.drains : state.drains[i] = OpenDrain(r)
    /\ Kept(state)

-----------------------------------------------------------------------------
(* The calls a process has still to make *)

CreateCalls == [op : {"create"}, s : SetId, size : Sizes, epoch : Epoch]
WorkerCalls ==
    [ op : {"register", "provision", "allocate", "start", "warm", "health", "readiness",
            "check", "promote", "drain"},
      r : ReplicaId, w : WorkerId, b : BootId ]
FailoverCalls ==
    [op : {"failover"}, r : ReplicaId, w : WorkerId \cup {NullId}, b : BootId \cup {NullId}]
AllCalls == CreateCalls \cup WorkerCalls \cup FailoverCalls

EvidenceOps == {"warm", "health", "readiness"}
SetupOps == {"register", "provision", "allocate", "start"}

(* The calls each command makes. *)
OpsOf(op) ==
    CASE op = "create-set" -> {"create"}
      [] op = "setup" -> SetupOps \cup {"create"}
      [] op = "warm" -> EvidenceOps
      [] op = "promote" -> EvidenceOps \cup {"check", "promote"}
      [] op = "drain" -> {"drain"}
      [] op = "failover" -> EvidenceOps \cup {"failover"}
      [] OTHER -> {}

(* The order of the calls: a set is created first, a start follows an       *)
(* allocation and a warm-up is followed by readiness.                       *)
Ordered(calls) ==
    \A i \in DOMAIN calls :
        /\ i > 1 => calls[i].op # "create"
        /\ i > 1 /\ calls[i].op = "start" =>
              calls[i - 1].op = "allocate" /\ calls[i - 1].r = calls[i].r
        /\ calls[i].op = "warm" =>
              i + 2 \in DOMAIN calls
              /\ calls[i + 2] = Call("readiness", calls[i].r, calls[i].w, calls[i].b)

ProcessOK ==
    /\ phase \in {"idle", "loaded", "running", "refused", "saving"}
    /\ command \in Commands \cup {NoCommand}
    /\ todo \in Seq(AllCalls)
    /\ phase \in {"idle", "loaded", "saving"} => todo = <<>>
    /\ phase \in {"idle", "loaded"} => command = NoCommand
    /\ \A i \in DOMAIN todo : todo[i].op \in OpsOf(command.op)
    /\ command.op = "setup" =>
          \A i \in DOMAIN todo : todo[i].op = "create" => todo[i].s = SetupSet /\ todo[i].epoch = SetupEpoch
    /\ Ordered(todo)

-----------------------------------------------------------------------------
(* The process and the file *)

(* Without a process there is no memory. *)
IdleIsEmpty == phase = "idle" => Init

(* A process that has loaded a file has its image in memory. *)
LoadedIsImage ==
    phase = "loaded" /\ Decodes(file) =>
        /\ replicas = Relinked(RecoveredReplicas(file), file.workers)
        /\ epoch = RelinkedEpoch(RecoveredReplicas(file))
        /\ sets = file.sets /\ workers = file.workers

(* Whoever is known belongs to the current epoch, unless the command is the *)
(* one that starts another.                                                 *)
EpochKept == command.op # "create-set" /\ (\E r \in ReplicaId : Known(r)) => epoch = SetupEpoch

(* `setup' goes on only if it has created the set, and then there was no    *)
(* replica before.                                                          *)
SetupIsFirst ==
    command.op = "setup" /\ phase = "running" /\ todo # <<>> /\ Head(todo).op # "create" =>
        /\ epoch = SetupEpoch
        /\ Decodes(file) => \A r \in ReplicaId : file.replicas[r].generation = 0

(* A replica is allocated before it is started. *)
StartIsLate ==
    todo # <<>> /\ Head(todo).op = "start" =>
        ~Known(Head(todo).r) \/ replicas[Head(todo).r].lifecycle # "DECLARED"

(* A replica that is warming up will be told that it is ready. *)
WarmingEnds ==
    \A r \in ReplicaId : replicas[r].lifecycle = "WARMING" =>
        /\ phase \in {"running", "refused"}
        /\ command.op \in {"warm", "promote", "failover"}
        /\ phase = "running" => \E i \in DOMAIN todo :
              todo[i] = Call("readiness", r, replicas[r].worker_id, replicas[r].boot_id)

(* How a replica in memory may differ from what was recovered. *)
Descends(p, q) ==
    /\ q.generation = p.generation
    /\ p.lifecycle \in Ended => q.lifecycle \in Ended
    /\ p.lifecycle = "SERVING" => q.lifecycle \in Ended \cup {"SERVING"} /\ q.warmth # "WARM"
    /\ p.lifecycle \in {"DECLARED", "ALLOCATING"} =>
          q.lifecycle \in Ended \cup {"DECLARED", "ALLOCATING"}

(* Only `setup' adds a replica. *)
MemoryDescends ==
    OnSnapshot => \A r \in ReplicaId :
        IF file.replicas[r].generation = 0 THEN Known(r) => command.op = "setup"
        ELSE Descends(file.replicas[r], replicas[r])

(* The invariant of the command line but for the promote command. *)
LInv ==
    /\ HInv /\ DrainAudited /\ Kept(MakeSnapshot)
    /\ Decodes(file) => Saved(file)
    /\ ProcessOK /\ IdleIsEmpty /\ LoadedIsImage /\ EpochKept
    /\ SetupIsFirst /\ StartIsLate /\ WarmingEnds /\ MemoryDescends

(* The promote command on a replica that was saved STARTING or READY, by    *)
(* the number of calls it has still to make.                                *)
Script(c) ==
    <<Call("warm", c.r, c.w, c.b), Call("health", c.r, c.w, c.b), Call("readiness", c.r, c.w, c.b),
      Call("check", c.r, c.w, c.b), Call("promote", c.r, c.w, c.b)>>

Promotes ==
    /\ OnSnapshot /\ phase \in {"running", "refused"}
    /\ PromoteCommand(command) /\ WorkerBootMatches(command.r, command.w, command.b)
    /\ file.replicas[command.r].lifecycle \in {"STARTING", "READY"}

(* What the replica has after each call. *)
Progress(rec, left) ==
    /\ left = 5 => rec.lifecycle \in {"STARTING", "READY"}
    /\ left \in {3, 4} => rec.lifecycle = "WARMING"
    /\ left \in {1, 2} => rec.lifecycle = "READY"
    /\ left <= 4 => rec.warmth = "WARM"
    /\ left <= 3 => rec.health = "HEALTHY"
    /\ left <= 2 => rec.readiness = "READY"
    /\ left >= 1 => rec.health_generation < MaxRounds

PromoteAdvances ==
    Promotes =>
        /\ phase = "running" /\ Known(command.r)
        /\ replicas[command.r].boot_id = workers[replicas[command.r].worker_id]
        /\ Len(todo) <= 5 /\ \A i \in 1..Len(todo) : todo[i] = Script(command)[5 - Len(todo) + i]
        /\ Progress(replicas[command.r], Len(todo))
        /\ Len(todo) = 0 => Servable(command.r)

-----------------------------------------------------------------------------
(* The calls as steps of the controller *)

(* What a call and a command consist of. *)
LEMMA CallTypes ==
    ASSUME NEW c \in AllCalls
    PROVE  /\ c.op = "create" => c.s \in SetId /\ c.size \in Sizes /\ c.epoch \in Epoch
           /\ c.op # "create" => c.r \in ReplicaId
           /\ c.op \notin {"create", "failover"} => c.w \in WorkerId /\ c.b \in BootId
BY DEF AllCalls, CreateCalls, WorkerCalls, FailoverCalls

(* The arguments of each command. *)
LEMMA CommandTypes ==
    ASSUME NEW c \in Commands \cup {NoCommand}
    PROVE  /\ c.op = "promote" => /\ c.target \in Targets
                                  /\ c.r \in ReplicaId /\ c.w \in WorkerId /\ c.b \in BootId
           /\ c.op = "failover" => c.s \in SetId /\ c.r \in ReplicaId
           /\ c.op \in {"warm", "drain"} => c.r \in ReplicaId /\ c.w \in WorkerId /\ c.b \in BootId
           /\ c.op = "create-set" => c.s \in SetId /\ c.size \in Sizes
           /\ c.op = "setup" => c.size \in Sizes
BY DEF Commands, NoCommand, SnapshotSave

(* Which command a call belongs to. *)
LEMMA CallBelongs ==
    ASSUME NEW op, NEW call \in OpsOf(op)
    PROVE  /\ call \in SetupOps => op = "setup"
           /\ call \in EvidenceOps => op \in {"warm", "promote", "failover"}
           /\ call \in {"promote", "check"} => op = "promote"
           /\ call = "failover" => op = "failover"
           /\ call = "drain" => op = "drain"
           /\ call = "create" => op \in {"create-set", "setup"}
BY DEF OpsOf, SetupOps, EvidenceOps

(* The call the process makes next. *)
LEMMA NextCall ==
    ASSUME ProcessOK, todo # <<>>
    PROVE  /\ Head(todo) \in AllCalls /\ Head(todo) = todo[1] /\ 1 \in DOMAIN todo
           /\ Head(todo).op \in OpsOf(command.op)
           /\ phase \in {"running", "refused"}
<1>1. todo \in Seq(AllCalls)
  BY DEF ProcessOK
<1> HIDE DEF AllCalls
<1>2. Head(todo) \in AllCalls /\ Head(todo) = todo[1] /\ 1 \in DOMAIN todo
  BY <1>1
<1>3. QED
  BY <1>2 DEF ProcessOK

(* Every call is a step the controller may take. *)
LEMMA PerformIsNext ==
    ASSUME HInv, ProcessOK, todo # <<>>, Perform(Head(todo))
    PROVE  [Next]_vars
<1> DEFINE c == Head(todo)
<1>1. c \in AllCalls /\ c.op \in OpsOf(command.op)
  BY NextCall
<1>2. command \in Commands \cup {NoCommand}
  BY DEF ProcessOK
<1> HIDE DEF c
<1>3. CASE c.op = "create" /\ CreateReplicaSet(c.s, MkSet(c.size), c.epoch)
  BY <1>1, <1>3, CallTypes, SetupAssumption DEF Next
<1>4. CASE c.op = "register" /\ RegisterWorker(c.w, c.b)
  BY <1>1, <1>4, CallTypes DEF Next
<1>5. CASE c.op = "provision" /\ ProvisionReplica(c.r, SetupSet, c.w, TRUE, 1)
  BY <1>1, <1>5, CallTypes, SetupAssumption DEF Next
<1>6. CASE c.op = "allocate" /\ SetAllocating(c.r, TRUE)
  BY <1>1, <1>6, CallTypes, SetupAssumption DEF Next
<1>7. CASE c.op = "start" /\ SetStarting(c.r)
  BY <1>1, <1>7, CallTypes DEF Next
<1>8. CASE c.op = "warm" /\ WarmReplica(c.r, c.w, c.b, FALSE)
  BY <1>1, <1>8, CallTypes, SetupAssumption DEF Next, WorkerStep
<1>9. CASE c.op = "health" /\ ReportHealth(c.r, c.w, c.b, replicas[c.r].health_generation, "HEALTHY")
  <2>1. c.r \in ReplicaId /\ c.w \in WorkerId /\ c.b \in BootId
    BY <1>1, <1>9, CallTypes
  <2>2. replicas[c.r].health_generation \in 1..MaxRounds
    BY <1>9, <2>1, SetupAssumption, BoundAssumption DEF HInv, Rounds, ReportHealth, EvidenceAccepted
  <2>3. QED
    BY <1>9, <2>1, <2>2, SetupAssumption DEF Next, WorkerStep
<1>10. CASE c.op = "readiness" /\ ReportReadiness(c.r, c.w, c.b, TRUE)
  BY <1>1, <1>10, CallTypes, SetupAssumption DEF Next, WorkerStep
<1>11. CASE c.op = "check" /\ UNCHANGED vars
  BY <1>11
<1>12. CASE c.op = "promote" /\ command.target = "PRIMARY" /\ PromotePrimary(c.r, c.w, c.b)
  <2>1. command.op = "promote"
    BY <1>1, <1>12, CallBelongs
  <2>2. QED
    BY <1>1, <1>2, <1>12, <2>1, CallTypes, CommandTypes DEF Next, WorkerStep
<1>13. CASE c.op = "promote" /\ PromoteOther(c.r, c.w, c.b, command.target)
  <2>1. command.op = "promote"
    BY <1>1, <1>13, CallBelongs
  <2>2. QED
    BY <1>1, <1>2, <1>13, <2>1, CallTypes, CommandTypes DEF Next, WorkerStep
<1>14. CASE c.op = "drain" /\ DrainReplica(c.r, c.w, c.b)
  BY <1>1, <1>14, CallTypes DEF Next, WorkerStep
<1>15. CASE c.op = "failover" /\ Failover(command.s, c.r)
  <2>1. command.op = "failover" /\ c.r \in ReplicaId
    BY <1>1, <1>15, CallBelongs, CallTypes
  <2>2. QED
    BY <1>2, <1>15, <2>1, CommandTypes DEF Next, Failover
<1>16. QED
  BY <1>3, <1>4, <1>5, <1>6, <1>7, <1>8, <1>9, <1>10, <1>11, <1>12, <1>13, <1>14, <1>15
     DEF Perform, c

-----------------------------------------------------------------------------
(* What a call does to one replica *)

Working == {"ALLOCATING", "STARTING", "WARMING", "READY"}

(* What stays of a record. *)
SameOrigin(p, q) ==
    /\ SameIdentity(p, q)
    /\ q.boot_id = p.boot_id /\ q.coordinator_epoch = p.coordinator_epoch
    /\ q.compatible = p.compatible /\ q.capacity_total = p.capacity_total
    /\ q.set_generation = p.set_generation

(* How a call, short of provisioning, may move a record. *)
Evolves(p, q, op) ==
    /\ SameOrigin(p, q)
    /\ p.lifecycle \in Ended => q.lifecycle \in Ended
    /\ p.lifecycle = "SERVING" => q.lifecycle \in Ended \cup {"SERVING"}
    /\ p.lifecycle \in {"DECLARED", "ALLOCATING"} =>
          q.lifecycle \in Ended \cup {"DECLARED", "ALLOCATING"} \/ op = "start"
    /\ q.lifecycle = "WARMING" => p.lifecycle = "WARMING" \/ op = "warm"
    /\ q.lifecycle \in Working /\ p.lifecycle \notin Working =>
          q.placement = "ASSIGNED" \/ (op = "start" /\ p.lifecycle = "DECLARED")
    /\ p.placement = "ASSIGNED" => q.placement = "ASSIGNED"
    /\ q.warmth = "WARM" => p.warmth = "WARM" \/ p.lifecycle \in {"STARTING", "READY", "WARMING"}

(* A record that stays the same. *)
LEMMA EvolvesStays == ASSUME NEW p, NEW op PROVE Evolves(p, p, op)
BY DEF Evolves, SameOrigin, SameIdentity

(* A record that fails, in any of the three ways. *)
LEMMA EvolvesFailure ==
    ASSUME NEW p \in Replica, NEW q, NEW op, q \in {Failed(p), MarkedFailed(p)}
    PROVE  Evolves(p, q, op)
<1> DEFINE o == Obsolete(p)
<1>1. SameOrigin(p, o) /\ o.lifecycle = p.lifecycle /\ o.placement = p.placement /\ o.warmth = p.warmth
      /\ o \in Replica
  <2>1. o \in Replica
    BY ObsoleteFacts
  <2>2. QED
    BY <2>1 DEF Obsolete, Replica, SameOrigin, SameIdentity
<1> HIDE DEF o
<1>2. PICK l : q = [o EXCEPT !.lifecycle = l] /\ l = q.lifecycle
              /\ (l = "FAILED" \/ (l = p.lifecycle /\ ~CanTransition(l, "FAILED")))
  <2>1. /\ Failed(p) = [o EXCEPT !.lifecycle = "FAILED"]
        /\ MarkedFailed(p) = [o EXCEPT !.lifecycle = IF CanTransition(@, "FAILED") THEN "FAILED" ELSE @]
    BY Zenon DEF Failed, MarkedFailed, o
  <2>2. q.lifecycle = "FAILED" \/ (q.lifecycle = p.lifecycle /\ ~CanTransition(p.lifecycle, "FAILED"))
    BY FailedFacts, MarkedFailedFacts
  <2>3. q = [o EXCEPT !.lifecycle = q.lifecycle]
    BY <1>1, <2>1 DEF Replica
  <2>4. QED
    BY <2>2, <2>3
<1>3. SameOrigin(p, q) /\ q.placement = p.placement /\ q.warmth = p.warmth
  BY <1>1, <1>2 DEF Replica, SameOrigin, SameIdentity
<1>4. q.lifecycle \in Ended
  BY <1>2, EndedEdges DEF Replica, Ended, Terminated
<1>5. QED
  BY <1>3, <1>4 DEF Evolves, Ended, Terminated, Working

(* Evidence, a promotion and a drain *)
LEMMA EvolvesStart ==
    ASSUME NEW p \in Replica
    PROVE  /\ CanTransition(p.lifecycle, "ALLOCATING") =>
                Evolves(p, [p EXCEPT !.lifecycle = "ALLOCATING", !.placement = "ASSIGNED"], "allocate")
           /\ CanTransition(p.lifecycle, "STARTING") =>
                Evolves(p, [p EXCEPT !.lifecycle = "STARTING", !.health = "STARTING"], "start")
           /\ CanTransition(p.lifecycle, "WARMING") \/ p.lifecycle = "WARMING" =>
                Evolves(p, [p EXCEPT !.lifecycle = "WARMING", !.warmth = "WARM"], "warm")
<1>1. /\ CanTransition(p.lifecycle, "ALLOCATING") => p.lifecycle = "DECLARED"
      /\ CanTransition(p.lifecycle, "STARTING") => p.lifecycle \in {"DECLARED", "ALLOCATING", "WARMING"}
      /\ CanTransition(p.lifecycle, "WARMING") => p.lifecycle \in {"STARTING", "READY"}
  BY DEF CanTransition, ReplicaEdges, Replica, ReplicaLifecycle
<1>2. QED
  BY <1>1 DEF Replica, Evolves, SameOrigin, SameIdentity, Ended, Terminated, Working

(* A record that takes health or readiness evidence. *)
LEMMA EvolvesEvidence ==
    ASSUME NEW p \in Replica, NEW op
    PROVE  /\ Evolves(p, [p EXCEPT !.health = "HEALTHY"], op)
           /\ \A l : l = p.lifecycle \/ (l = "READY" /\ p.lifecycle \in {"WARMING", "STARTING"}) =>
                Evolves(p, [p EXCEPT !.readiness = "READY", !.lifecycle = l], op)
BY DEF Replica, Evolves, SameOrigin, SameIdentity, Ended, Terminated, Working

(* A record that is promoted, chosen by a failover or drained. *)
LEMMA EvolvesAuthority ==
    ASSUME NEW p \in Replica, NEW op, NEW h, NEW target
    PROVE  /\ p.lifecycle \in ReadyOrServing => Evolves(p, Granted(p), op)
           /\ p.lifecycle \in ReadyOrServing => Evolves(p, [Granted(p) EXCEPT !.health = h], op)
           /\ Evolves(p, Assigned(p, target), op)
           /\ p.lifecycle \in ReadyOrServing =>
                Evolves(p, [Demoted(p) EXCEPT !.lifecycle = "DRAINING"], op)
BY DEF Granted, Assigned, Demoted, ReadyOrServing, Replica, Evolves, SameOrigin, SameIdentity, Ended,
       Terminated, Working

(* The record of one replica, for every call but the provisioning of it. *)
LEMMA CallEvolves ==
    ASSUME HInv, ProcessOK, todo # <<>>, Perform(Head(todo)), NEW q \in ReplicaId,
           Head(todo).op = "provision" => q # Head(todo).r
    PROVE  Evolves(replicas[q], replicas'[q], Head(todo).op)
<1> DEFINE c == Head(todo)
<1>1. c \in AllCalls /\ replicas \in [ReplicaId -> Replica]
  BY NextCall DEF HInv, IInv, TypeOK
<1>2. c.op # "create" => c.r \in ReplicaId
  BY <1>1, CallTypes
<1> SUFFICES Evolves(replicas[q], replicas'[q], c.op)
  OBVIOUS
<1> HIDE DEF c
<1>3. ASSUME NEW rec, replicas' = [replicas EXCEPT ![c.r] = rec], Evolves(replicas[c.r], rec, c.op),
             c.op # "create"
      PROVE  Evolves(replicas[q], replicas'[q], c.op)
  <2>1. CASE q = c.r
    BY <1>1, <1>3, <2>1
  <2>2. CASE q # c.r
    BY <1>1, <1>3, <2>2, EvolvesStays
  <2>3. QED
    BY <2>1, <2>2
<1>4. CASE c.op = "create" /\ CreateReplicaSet(c.s, MkSet(c.size), c.epoch)
  BY <1>4, EvolvesStays DEF CreateReplicaSet
<1>5. CASE c.op = "register" /\ RegisterWorker(c.w, c.b)
  <2>1. replicas'[q] \in {Failed(replicas[q]), replicas[q]}
    BY <1>5 DEF RegisterWorker
  <2>2. QED
    BY <1>1, <2>1, EvolvesStays, EvolvesFailure
<1>6. CASE c.op = "provision" /\ ProvisionReplica(c.r, SetupSet, c.w, TRUE, 1)
  <2>1. replicas'[q] = replicas[q]
    BY <1>1, <1>2, <1>6 DEF ProvisionReplica, c
  <2>2. QED
    BY <2>1, EvolvesStays
<1>7. CASE c.op = "allocate" /\ SetAllocating(c.r, TRUE)
  <2> DEFINE rec == [replicas[c.r] EXCEPT !.lifecycle = "ALLOCATING", !.placement = "ASSIGNED"]
  <2>1. replicas' = [replicas EXCEPT ![c.r] = rec]
    BY <1>7 DEF SetAllocating
  <2>2. replicas[c.r] \in Replica /\ CanTransition(replicas[c.r].lifecycle, "ALLOCATING")
    BY <1>1, <1>2, <1>7 DEF SetAllocating, MayEnter
  <2>3. Evolves(replicas[c.r], rec, c.op)
    BY <1>7, <2>2, EvolvesStart
  <2> HIDE DEF rec
  <2>4. QED
    BY <1>3, <1>7, <2>1, <2>3, Zenon
<1>8. CASE c.op = "start" /\ SetStarting(c.r)
  <2> DEFINE rec == [replicas[c.r] EXCEPT !.lifecycle = "STARTING", !.health = "STARTING"]
  <2>1. replicas' = [replicas EXCEPT ![c.r] = rec]
    BY <1>8 DEF SetStarting
  <2>2. replicas[c.r] \in Replica /\ CanTransition(replicas[c.r].lifecycle, "STARTING")
    BY <1>1, <1>2, <1>8 DEF SetStarting, MayEnter
  <2>3. Evolves(replicas[c.r], rec, c.op)
    BY <1>8, <2>2, EvolvesStart
  <2> HIDE DEF rec
  <2>4. QED
    BY <1>3, <1>8, <2>1, <2>3, Zenon
<1>9. CASE c.op = "warm" /\ WarmReplica(c.r, c.w, c.b, FALSE)
  <2> DEFINE rec == [replicas[c.r] EXCEPT !.lifecycle = "WARMING", !.warmth = "WARM"]
  <2>1. replicas' = [replicas EXCEPT ![c.r] = rec]
    BY <1>9 DEF WarmReplica
  <2>2. replicas[c.r] \in Replica
        /\ (CanTransition(replicas[c.r].lifecycle, "WARMING") \/ replicas[c.r].lifecycle = "WARMING")
    BY <1>1, <1>2, <1>9 DEF WarmReplica, MayWarm
  <2>3. Evolves(replicas[c.r], rec, c.op)
    BY <1>9, <2>2, EvolvesStart
  <2> HIDE DEF rec
  <2>4. QED
    BY <1>3, <1>9, <2>1, <2>3, Zenon
<1>10. CASE c.op = "health" /\ ReportHealth(c.r, c.w, c.b, replicas[c.r].health_generation, "HEALTHY")
  <2> DEFINE rec == [replicas[c.r] EXCEPT !.health = "HEALTHY"]
  <2>1. replicas' = [replicas EXCEPT ![c.r] = rec]
    BY <1>10 DEF ReportHealth, StripsAuthority
  <2>2. replicas[c.r] \in Replica
    BY <1>1, <1>2, <1>10 DEF ReportHealth
  <2>3. Evolves(replicas[c.r], rec, c.op)
    BY <1>10, <2>2, EvolvesEvidence
  <2> HIDE DEF rec
  <2>4. QED
    BY <1>3, <1>10, <2>1, <2>3, Zenon
<1>11. CASE c.op = "readiness" /\ ReportReadiness(c.r, c.w, c.b, TRUE)
  <2> DEFINE was == replicas[c.r].lifecycle
             l == IF was \in {"WARMING", "STARTING"} THEN "READY" ELSE was
             rec == [replicas[c.r] EXCEPT !.readiness = "READY", !.lifecycle = l]
  <2>1. replicas' = [replicas EXCEPT ![c.r] = rec]
    BY <1>11 DEF ReportReadiness
  <2>2. replicas[c.r] \in Replica
    BY <1>1, <1>2, <1>11
  <2>3. l = was \/ (l = "READY" /\ was \in {"WARMING", "STARTING"})
    OBVIOUS
  <2> HIDE DEF l
  <2>4. Evolves(replicas[c.r], rec, c.op)
    BY <2>2, <2>3, EvolvesEvidence
  <2> HIDE DEF rec
  <2>5. QED
    BY <1>3, <1>11, <2>1, <2>4, Zenon
<1>12. CASE c.op = "check" /\ UNCHANGED vars
  BY <1>12, EvolvesStays DEF vars
<1>13. CASE c.op = "promote" /\ PromotePrimary(c.r, c.w, c.b)
  <2> DEFINE h == IF replicas[c.r].health = "UNKNOWN" THEN "HEALTHY" ELSE replicas[c.r].health
             rec == [Granted(replicas[c.r]) EXCEPT !.health = h]
  <2>1. replicas' = [replicas EXCEPT ![c.r] = rec]
    BY <1>13 DEF PromotePrimary
  <2>2. replicas[c.r] \in Replica /\ replicas[c.r].lifecycle \in ReadyOrServing
    BY <1>1, <1>2, <1>13 DEF PromotePrimary
  <2> HIDE DEF h
  <2>3. Evolves(replicas[c.r], rec, c.op)
    BY <2>2, EvolvesAuthority
  <2> HIDE DEF rec
  <2>4. QED
    BY <1>3, <1>13, <2>1, <2>3, Zenon
<1>14. CASE c.op = "promote" /\ PromoteOther(c.r, c.w, c.b, command.target)
  <2> DEFINE rec == Assigned(replicas[c.r], command.target)
  <2>1. replicas' = [replicas EXCEPT ![c.r] = rec]
    BY <1>14 DEF PromoteOther
  <2>2. replicas[c.r] \in Replica
    BY <1>1, <1>2, <1>14 DEF PromoteOther
  <2>3. Evolves(replicas[c.r], rec, c.op)
    BY <1>14, <2>2, EvolvesAuthority
  <2> HIDE DEF rec
  <2>4. QED
    BY <1>3, <1>14, <2>1, <2>3, Zenon
<1>15. CASE c.op = "drain" /\ DrainReplica(c.r, c.w, c.b)
  <2> DEFINE rec == [Demoted(replicas[c.r]) EXCEPT !.lifecycle = "DRAINING"]
  <2>1. replicas' = [replicas EXCEPT ![c.r] = rec]
    BY <1>15 DEF DrainReplica
  <2>2. replicas[c.r] \in Replica /\ replicas[c.r].lifecycle \in ReadyOrServing
    BY <1>1, <1>2, <1>15 DEF DrainReplica, MayDrain
  <2>3. Evolves(replicas[c.r], rec, c.op)
    BY <1>15, <2>2, EvolvesAuthority
  <2> HIDE DEF rec
  <2>4. QED
    BY <1>3, <1>15, <2>1, <2>3, Zenon
<1>16. ASSUME c.op = "failover", NEW chosen \in ReplicaId, TriggerFailover(command.s, c.r, chosen)
       PROVE  Evolves(replicas[q], replicas'[q], c.op)
  <2>1. /\ chosen # c.r /\ replicas[chosen].lifecycle \in ReadyOrServing
        /\ replicas' = [replicas EXCEPT ![c.r] = MarkedFailed(@), ![chosen] = Granted(@)]
    BY <1>16 DEF TriggerFailover, Candidates
  <2>2. replicas'[q] = IF q = chosen THEN Granted(replicas[q])
                       ELSE IF q = c.r THEN MarkedFailed(replicas[q]) ELSE replicas[q]
    BY <1>1, <1>2, <1>16, <2>1
  <2>3. replicas[q] \in Replica
    BY <1>1
  <2>4. Evolves(replicas[q], MarkedFailed(replicas[q]), c.op)
    BY <2>3, EvolvesFailure
  <2>5. q = chosen => Evolves(replicas[q], Granted(replicas[q]), c.op)
    BY <2>1, <2>3, EvolvesAuthority
  <2>6. QED
    BY <2>2, <2>4, <2>5, EvolvesStays
<1>17. CASE c.op = "failover" /\ TriggerFailoverRejected(command.s, c.r)
  <2> DEFINE rec == MarkedFailed(replicas[c.r])
  <2>1. replicas' = [replicas EXCEPT ![c.r] = rec]
    BY <1>17 DEF TriggerFailoverRejected
  <2>2. replicas[c.r] \in Replica
    BY <1>1, <1>2, <1>17 DEF TriggerFailoverRejected
  <2>3. Evolves(replicas[c.r], rec, c.op)
    BY <1>17, <2>2, EvolvesFailure
  <2> HIDE DEF rec
  <2>4. QED
    BY <1>3, <1>17, <2>1, <2>3, Zenon
<1>18. QED
  BY <1>4, <1>5, <1>6, <1>7, <1>8, <1>9, <1>10, <1>11, <1>12, <1>13, <1>14, <1>15, <1>16, <1>17
     DEF Perform, Failover, c

-----------------------------------------------------------------------------
(* What a call does to sets and workers *)

(* The lifecycle a promotion derives: a set that has a replica is AVAILABLE *)
(* or DEGRADED afterwards, whatever the number of healthy members.          *)
LEMMA DerivedIsLive ==
    ASSUME NEW s, NEW reps, sets[s].lifecycle \in Populated \cup {"CREATED"}
    PROVE  /\ sets[s].lifecycle \in Populated => DerivedLifecycle(s, reps) \in {"AVAILABLE", "DEGRADED"}
           /\ sets[s].lifecycle = "CREATED" => DerivedLifecycle(s, reps) = "CREATED"
<1> DEFINE enough == Cardinality({r \in ReplicaId : reps[r].set_id = s /\ reps[r].health = "HEALTHY"})
                        >= sets[s].cfg.min_healthy
           now == sets[s].lifecycle
<1>1. DerivedLifecycle(s, reps) = IF ~enough /\ CanTransitionSet(now, "DEGRADED") THEN "DEGRADED"
                                  ELSE IF enough /\ CanTransitionSet(now, "AVAILABLE") THEN "AVAILABLE" ELSE now
  BY DEF DerivedLifecycle
<1> HIDE DEF enough
<1>2. QED
  BY <1>1 DEF CanTransitionSet, SetEdges, Populated

(* How a call may move a set. *)
SetMoves(s, c) ==
    \/ /\ sets'[s].cfg = sets[s].cfg
       /\ \/ sets'[s].lifecycle = sets[s].lifecycle
          \/ KnownSet(s) /\ sets'[s].lifecycle \in Populated
    \/ /\ c.op = "create" /\ s = c.s /\ ~KnownSet(s) /\ CountsValid(MkSet(c.size))
       /\ sets'[s] = [lifecycle |-> "CREATED", cfg |-> MkSet(c.size)]

(* A step that only changes the lifecycle of one known set. *)
LEMMA OneSetMoves ==
    ASSUME HInv, NEW t \in SetId, NEW l, NEW c, NEW s \in SetId,
           sets' = [sets EXCEPT ![t].lifecycle = l],
           l = sets[t].lifecycle \/ (KnownSet(t) /\ l \in Populated)
    PROVE  SetMoves(s, c)
<1>1. sets \in [SetId -> SetState]
  BY DEF HInv, IInv, TypeOK, SetState
<1>2. sets'[s].cfg = sets[s].cfg /\ sets'[s].lifecycle = IF s = t THEN l ELSE sets[s].lifecycle
  BY <1>1 DEF SetState
<1>3. QED
  BY <1>2 DEF SetMoves

(* The set of a known replica under the commands. *)
LEMMA MemberFacts ==
    ASSUME Kept(MakeSnapshot), NEW r \in ReplicaId, Known(r)
    PROVE  /\ RecordKept(replicas[r])
           /\ workers[replicas[r].worker_id] # Unregistered
           /\ sets[SetupSet].lifecycle \in Populated
           /\ replicas[r].set_id = SetupSet
           /\ \E n \in Sizes : sets[SetupSet].cfg = MkSet(n)
<1>1. RecordKept(replicas[r]) /\ sets[SetupSet].lifecycle \in Populated
      /\ workers[replicas[r].worker_id] # Unregistered
  BY DEF Kept, MakeSnapshot, Known
<1>2. SetKept(sets[SetupSet])
  BY <1>1, SetupAssumption DEF Kept, MakeSnapshot, Populated
<1>3. QED
  BY <1>1, <1>2 DEF SetKept, RecordKept

(* What a call does to the sets. *)
LEMMA CallMovesSets ==
    ASSUME HInv, Kept(MakeSnapshot), ProcessOK, todo # <<>>, Perform(Head(todo)), NEW s \in SetId
    PROVE  /\ SetMoves(s, Head(todo))
           /\ Head(todo).op = "provision" => sets'[SetupSet].lifecycle \in Populated
<1> DEFINE c == Head(todo)
<1>1. /\ c \in AllCalls /\ sets \in [SetId -> SetState]
      /\ c.op = "create" => c.s \in SetId
      /\ c.op # "create" => c.r \in ReplicaId
  BY NextCall, CallTypes DEF HInv, IInv, TypeOK, SetState
<1> SUFFICES SetMoves(s, c) /\ (c.op = "provision" => sets'[SetupSet].lifecycle \in Populated)
  OBVIOUS
<1> HIDE DEF c
<1>2. CASE c.op # "provision" /\ UNCHANGED sets
  BY <1>2 DEF SetMoves
<1>3. CASE c.op = "create" /\ CreateReplicaSet(c.s, MkSet(c.size), c.epoch)
  BY <1>1, <1>3 DEF CreateReplicaSet, SetMoves
<1>4. CASE c.op = "provision" /\ ProvisionReplica(c.r, SetupSet, c.w, TRUE, 1)
  <2> DEFINE l == IF sets[SetupSet].lifecycle = "CREATED" THEN "PROVISIONING" ELSE sets[SetupSet].lifecycle
  <2>1. sets' = [sets EXCEPT ![SetupSet].lifecycle = l] /\ KnownSet(SetupSet) /\ SetupSet \in SetId
    BY <1>1, <1>4, SetupAssumption DEF ProvisionReplica, Provisionable, KnownSet
  <2>2. l \in Populated
    BY <2>1 DEF Kept, MakeSnapshot, SetKept, KnownSet, Populated
  <2> HIDE DEF l
  <2>3. sets'[SetupSet].lifecycle = l
    BY <1>1, <2>1 DEF SetState
  <2>4. QED
    BY <2>1, <2>2, <2>3, OneSetMoves
<1>5. ASSUME c.op # "provision", NEW t \in SetId, KnownSet(t),
             sets' = [sets EXCEPT ![t].lifecycle = DerivedLifecycle(t, replicas')]
      PROVE  SetMoves(s, c)
  <2> DEFINE l == DerivedLifecycle(t, replicas')
  <2>1. sets[t].lifecycle \in Populated \cup {"CREATED"}
    BY <1>5 DEF Kept, MakeSnapshot, SetKept, KnownSet
  <2>2. l = sets[t].lifecycle \/ l \in Populated
    BY <2>1, DerivedIsLive DEF Populated
  <2> HIDE DEF l
  <2>3. sets' = [sets EXCEPT ![t].lifecycle = l]
    BY <1>5 DEF l
  <2>4. QED
    BY <1>5, <2>2, <2>3, OneSetMoves
<1>6. CASE c.op = "promote" /\ (PromotePrimary(c.r, c.w, c.b) \/ PromoteOther(c.r, c.w, c.b, command.target))
  <2>1. Known(c.r)
    BY <1>6 DEF PromotePrimary, PromoteOther, MayPromote
  <2>2. replicas[c.r].set_id = SetupSet /\ KnownSet(SetupSet)
    BY <1>1, <1>6, <2>1, MemberFacts DEF Populated, KnownSet
  <2>3. sets' = [sets EXCEPT ![SetupSet].lifecycle = DerivedLifecycle(SetupSet, replicas')]
    BY <1>6, <2>2 DEF PromotePrimary, PromoteOther
  <2>4. QED
    BY <1>5, <1>6, <2>2, <2>3, SetupAssumption
<1>7. ASSUME c.op = "failover", NEW chosen \in ReplicaId, TriggerFailover(command.s, c.r, chosen)
      PROVE  SetMoves(s, c)
  <2>1. command.s \in SetId
    BY <1>7, NextCall, CallBelongs, CommandTypes DEF ProcessOK, c
  <2>2. KnownSet(command.s)
        /\ sets' = [sets EXCEPT ![command.s].lifecycle = DerivedLifecycle(command.s, replicas')]
    BY <1>7 DEF TriggerFailover
  <2>3. QED
    BY <1>5, <1>7, <2>1, <2>2
<1>8. QED
  BY <1>2, <1>3, <1>4, <1>6, <1>7
     DEF c, Perform, Failover, RegisterWorker, SetAllocating, SetStarting, WarmReplica, ReportHealth,
         ReportReadiness, DrainReplica, TriggerFailoverRejected, vars

(* Workers are only ever registered, and the epoch changes with a set. *)
LEMMA CallMovesWorkers ==
    ASSUME HInv, ProcessOK, todo # <<>>, Perform(Head(todo))
    PROVE  /\ \A w \in WorkerId : workers[w] # Unregistered => workers'[w] # Unregistered
           /\ Head(todo).op # "register" => workers' = workers
           /\ Head(todo).op # "create" => epoch' = epoch
           /\ Head(todo).op = "create" => epoch' = Head(todo).epoch
<1> DEFINE c == Head(todo)
<1>1. c \in AllCalls /\ workers \in [WorkerId -> BootId \cup {Unregistered}]
  BY NextCall DEF HInv, IInv, TypeOK
<1>2. c.op = "register" => c.b \in BootId /\ c.w \in WorkerId
  BY <1>1, CallTypes
<1> SUFFICES /\ \A w \in WorkerId : workers[w] # Unregistered => workers'[w] # Unregistered
             /\ c.op # "register" => workers' = workers
             /\ c.op # "create" => epoch' = epoch
             /\ c.op = "create" => epoch' = c.epoch
  OBVIOUS
<1> HIDE DEF c
<1>3. CASE c.op = "register" /\ RegisterWorker(c.w, c.b)
  BY <1>1, <1>2, <1>3, IdAssumption DEF RegisterWorker
<1>4. CASE c.op = "create" /\ CreateReplicaSet(c.s, MkSet(c.size), c.epoch)
  BY <1>4 DEF CreateReplicaSet
<1>5. CASE c.op \notin {"register", "create"} /\ UNCHANGED <<workers, epoch>>
  BY <1>5
<1>6. QED
  BY <1>3, <1>4, <1>5
     DEF c, Perform, Failover, ProvisionReplica, SetAllocating, SetStarting, WarmReplica, ReportHealth,
         ReportReadiness, PromotePrimary, PromoteOther, DrainReplica, TriggerFailover,
         TriggerFailoverRejected, vars

-----------------------------------------------------------------------------
(* The rest of the calls *)

(* What is left of the calls after the first. *)
LEMMA Rest ==
    ASSUME ProcessOK, todo # <<>>
    PROVE  /\ Tail(todo) \in Seq(AllCalls)
           /\ Len(todo) \in Nat \ {0} /\ DOMAIN todo = 1..Len(todo)
           /\ Len(Tail(todo)) = Len(todo) - 1
           /\ DOMAIN Tail(todo) = 1..(Len(todo) - 1)
           /\ \A i \in 1..(Len(todo) - 1) : Tail(todo)[i] = todo[i + 1] /\ i + 1 \in DOMAIN todo
<1>1. todo \in Seq(AllCalls)
  BY DEF ProcessOK
<1> HIDE DEF AllCalls
<1>2. QED
  BY <1>1

(* They are still in order. *)
LEMMA RestOrdered ==
    ASSUME ProcessOK, todo # <<>>
    PROVE  Ordered(Tail(todo))
<1> DEFINE rest == Tail(todo)
           n == Len(todo)
<1>1. n \in Nat /\ DOMAIN todo = 1..n /\ DOMAIN rest = 1..(n - 1)
      /\ \A i \in 1..(n - 1) : rest[i] = todo[i + 1]
  BY Rest
<1>2. Ordered(todo)
  BY DEF ProcessOK
<1> HIDE DEF rest, n
<1>3. SUFFICES ASSUME NEW i \in 1..(n - 1)
               PROVE  /\ i > 1 => rest[i].op # "create"
                      /\ i > 1 /\ rest[i].op = "start" =>
                            rest[i - 1].op = "allocate" /\ rest[i - 1].r = rest[i].r
                      /\ rest[i].op = "warm" =>
                            i + 2 \in DOMAIN rest
                            /\ rest[i + 2] = Call("readiness", rest[i].r, rest[i].w, rest[i].b)
  BY <1>1 DEF Ordered, rest
<1>4. i \in Nat /\ i + 1 \in 1..n /\ rest[i] = todo[i + 1]
  BY <1>1
<1>5. rest[i].op # "create"
  BY <1>1, <1>2, <1>4 DEF Ordered
<1>6. ASSUME i > 1, rest[i].op = "start"
      PROVE  rest[i - 1].op = "allocate" /\ rest[i - 1].r = rest[i].r
  <2>1. i - 1 \in 1..(n - 1) /\ rest[i - 1] = todo[i] /\ (i + 1) - 1 = i
    BY <1>1, <1>4, <1>6
  <2>2. QED
    BY <1>1, <1>2, <1>4, <1>6, <2>1 DEF Ordered
<1>7. ASSUME rest[i].op = "warm"
      PROVE  /\ i + 2 \in DOMAIN rest
             /\ rest[i + 2] = Call("readiness", rest[i].r, rest[i].w, rest[i].b)
  <2>1. i + 3 \in 1..n /\ todo[i + 3] = Call("readiness", rest[i].r, rest[i].w, rest[i].b)
    <3>1. (i + 1) + 2 = i + 3
      BY <1>4
    <3>2. QED
      BY <1>1, <1>2, <1>4, <1>7, <3>1 DEF Ordered
  <2>2. i + 2 \in 1..(n - 1) /\ (i + 2) + 1 = i + 3
    BY <1>1, <1>4, <2>1
  <2>3. QED
    BY <1>1, <2>1, <2>2
<1>8. QED
  BY <1>5, <1>6, <1>7

(* The process stays well-formed when it has made a call. *)
LEMMA RestOfProcess ==
    ASSUME ProcessOK, todo # <<>>, todo' = Tail(todo), command' = command,
           phase' \in {"running", "refused"}
    PROVE  ProcessOK'
<1>1. /\ Tail(todo) \in Seq(AllCalls) /\ Ordered(Tail(todo))
      /\ \A i \in DOMAIN Tail(todo) : \E j \in DOMAIN todo : Tail(todo)[i] = todo[j]
  BY Rest, RestOrdered
<1>2. /\ \A i \in DOMAIN todo' : todo'[i].op \in OpsOf(command'.op)
      /\ command'.op = "setup" =>
            \A i \in DOMAIN todo' : todo'[i].op = "create" => todo'[i].s = SetupSet /\ todo'[i].epoch = SetupEpoch
  BY <1>1 DEF ProcessOK
<1>3. Ordered(todo') /\ todo' \in Seq(AllCalls)
  BY <1>1
<1>4. command' \in Commands \cup {NoCommand}
  BY DEF ProcessOK
<1>5. QED
  BY <1>2, <1>3, <1>4 DEF ProcessOK, Ordered

-----------------------------------------------------------------------------
(* Memory after a call *)

(* What provision_replica makes under `setup'. *)
LEMMA ProvisionedRecord ==
    ASSUME HInv, Kept(MakeSnapshot), ProcessOK, SetupIsFirst, phase = "running", todo # <<>>,
           Perform(Head(todo)), Head(todo).op = "provision"
    PROVE  LET rec == replicas'[Head(todo).r]
           IN /\ RecordKept(rec) /\ rec.lifecycle = "DECLARED"
              /\ workers[rec.worker_id] # Unregistered
<1> DEFINE c == Head(todo)
<1>1. c \in AllCalls /\ c.op = "provision" /\ c.op \in OpsOf(command.op)
  BY NextCall
<1>2. c.r \in ReplicaId /\ c.w \in WorkerId
  BY <1>1, CallTypes
<1>3. epoch = SetupEpoch
  BY <1>1, CallBelongs DEF SetupOps, SetupIsFirst
<1>4. ProvisionReplica(c.r, SetupSet, c.w, TRUE, 1)
  BY <1>1 DEF Perform
<1> HIDE DEF c
<1>5. KnownSet(SetupSet)
  BY <1>4 DEF ProvisionReplica, Provisionable, KnownSet
<1>6. sets[SetupSet].cfg.generation = 1
  <2>1. PICK n \in Sizes : sets[SetupSet].cfg = MkSet(n)
    BY <1>5, SetupAssumption DEF Kept, MakeSnapshot, SetKept, KnownSet
  <2>2. QED
    BY <2>1 DEF MkSet, NoConfig
<1>7. replicas \in [ReplicaId -> Replica]
  BY DEF HInv, IInv, TypeOK
<1>8. replicas'[c.r] = [NoReplica EXCEPT !.set_id = SetupSet, !.generation = replicas[c.r].generation + 1,
                              !.worker_id = c.w, !.boot_id = workers[c.w],
                              !.capacity_total = 1, !.compatible = TRUE,
                              !.coordinator_epoch = SetupEpoch, !.health_generation = 1,
                              !.set_generation = 1]
  BY <1>2, <1>3, <1>4, <1>6, <1>7 DEF ProvisionReplica
<1>9. workers[c.w] # Unregistered
  BY <1>4 DEF ProvisionReplica
<1>10. RecordKept(replicas'[c.r]) /\ replicas'[c.r].lifecycle = "DECLARED" /\ replicas'[c.r].worker_id = c.w
  BY <1>2, <1>8 DEF NoReplica, RecordKept
<1>11. QED
  BY <1>9, <1>10 DEF c

(* A start is only ever applied to a replica that was allocated. *)
LEMMA StartedWasAllocated ==
    ASSUME HInv, ProcessOK, StartIsLate, todo # <<>>, Perform(Head(todo)), Head(todo).op = "start",
           NEW q \in ReplicaId, replicas'[q] # replicas[q]
    PROVE  replicas[q].lifecycle # "DECLARED"
<1> DEFINE c == Head(todo)
<1>1. c \in AllCalls /\ c.op = "start" /\ replicas \in [ReplicaId -> Replica]
  BY NextCall DEF HInv, IInv, TypeOK
<1>2. c.r \in ReplicaId
  BY <1>1, CallTypes
<1>3. SetStarting(c.r)
  BY <1>1 DEF Perform
<1>4. q = c.r /\ Known(c.r)
  BY <1>1, <1>2, <1>3 DEF SetStarting, MayEnter
<1>5. QED
  BY <1>4 DEF StartIsLate

(* Sets, records and workers stay what the commands make of them. *)
LEMMA KeptByCall ==
    ASSUME HInv, Kept(MakeSnapshot), ProcessOK, SetupIsFirst, StartIsLate, phase = "running",
           todo # <<>>, Perform(Head(todo))
    PROVE  Kept(MakeSnapshot)'
<1> DEFINE c == Head(todo)
<1>1. c \in AllCalls
  BY NextCall
<1>2. ASSUME NEW s \in SetId, sets'[s].lifecycle # "ABSENT"
      PROVE  SetKept(sets'[s])
  <2>1. CASE KnownSet(s) /\ sets'[s].cfg = sets[s].cfg
             /\ (sets'[s].lifecycle = sets[s].lifecycle \/ sets'[s].lifecycle \in Populated)
    BY <2>1 DEF Kept, MakeSnapshot, SetKept, KnownSet
  <2>2. CASE /\ c.op = "create" /\ CountsValid(MkSet(c.size))
             /\ sets'[s] = [lifecycle |-> "CREATED", cfg |-> MkSet(c.size)]
    BY <1>1, <2>2, CallTypes DEF SetKept
  <2>3. QED
    BY <1>2, <2>1, <2>2, CallMovesSets DEF SetMoves, KnownSet
<1>3. sets[SetupSet].lifecycle \in Populated => sets'[SetupSet].lifecycle \in Populated
  BY CallMovesSets, SetupAssumption DEF SetMoves, KnownSet, Populated
<1>4. ASSUME NEW r \in ReplicaId, replicas'[r].generation # 0
      PROVE  /\ RecordKept(replicas'[r])
             /\ workers'[replicas'[r].worker_id] # Unregistered
             /\ sets'[SetupSet].lifecycle \in Populated
  <2>1. CASE c.op = "provision" /\ r = c.r
    <3>1. RecordKept(replicas'[r]) /\ workers[replicas'[r].worker_id] # Unregistered
      BY <2>1, ProvisionedRecord
    <3>2. QED
      BY <2>1, <3>1, CallMovesSets, CallMovesWorkers, SetupAssumption DEF RecordKept
  <2>2. CASE ~(c.op = "provision" /\ r = c.r)
    <3>1. Evolves(replicas[r], replicas'[r], c.op)
      BY <2>2, CallEvolves
    <3>2. Known(r)
      BY <1>4, <3>1 DEF Evolves, SameOrigin, SameIdentity, Known
    <3>3. /\ RecordKept(replicas[r]) /\ workers[replicas[r].worker_id] # Unregistered
          /\ sets[SetupSet].lifecycle \in Populated
      BY <3>2, MemberFacts
    <3>4. ~(c.op = "start" /\ replicas[r].lifecycle = "DECLARED" /\ replicas'[r] # replicas[r])
      BY StartedWasAllocated
    <3>5. replicas'[r].lifecycle \in Working => replicas'[r].placement = "ASSIGNED"
      BY <3>1, <3>3, <3>4 DEF Evolves, RecordKept, Working
    <3>6. RecordKept(replicas'[r]) /\ replicas'[r].worker_id = replicas[r].worker_id
      BY <3>1, <3>3, <3>5 DEF Evolves, SameOrigin, SameIdentity, RecordKept, Working
    <3>7. QED
      BY <1>3, <3>3, <3>6, CallMovesWorkers DEF RecordKept
  <2>3. QED
    BY <2>1, <2>2
<1>5. QED
  BY <1>2, <1>4 DEF Kept, MakeSnapshot

-----------------------------------------------------------------------------
(* Memory and file after a call *)

(* Only provisioning makes a replica known, and only `setup' provisions. *)
LEMMA NewlyKnown ==
    ASSUME HInv, ProcessOK, todo # <<>>, Perform(Head(todo)), NEW r \in ReplicaId, Known(r)'
    PROVE  Known(r) \/ (Head(todo).op = "provision" /\ command.op = "setup")
<1>1. CASE Head(todo).op = "provision"
  BY <1>1, NextCall, CallBelongs DEF SetupOps
<1>2. CASE Head(todo).op # "provision"
  BY <1>2, CallEvolves DEF Evolves, SameOrigin, SameIdentity, Known
<1>3. QED
  BY <1>1, <1>2

(* The epoch of the replicas stays the current one. *)
LEMMA EpochKeptByCall ==
    ASSUME HInv, ProcessOK, EpochKept, SetupIsFirst, phase = "running", todo # <<>>,
           Perform(Head(todo)), command' = command
    PROVE  EpochKept'
<1> SUFFICES ASSUME command.op # "create-set", NEW r \in ReplicaId, Known(r)'
             PROVE  epoch' = SetupEpoch
  BY DEF EpochKept, Known
<1>1. CASE Head(todo).op = "create"
  <2>1. command.op = "setup"
    BY <1>1, NextCall, CallBelongs
  <2>2. QED
    BY <1>1, <2>1, NextCall, CallMovesWorkers DEF ProcessOK
<1>2. CASE Head(todo).op # "create"
  <2>1. epoch' = epoch
    BY <1>2, CallMovesWorkers
  <2>2. Known(r) \/ command.op = "setup"
    BY NewlyKnown
  <2>3. QED
    BY <1>2, <2>1, <2>2 DEF EpochKept, SetupIsFirst
<1>3. QED
  BY <1>1, <1>2

(* A set that `setup' has created had no replicas in the file either. *)
LEMMA SetupIsFirstByCall ==
    ASSUME HInv, Kept(MakeSnapshot), ProcessOK, SetupIsFirst, MemoryDescends, phase = "running",
           todo # <<>>, Perform(Head(todo)), command.op = "setup", file' = file
    PROVE  epoch' = SetupEpoch /\ (Decodes(file') => \A r \in ReplicaId : file'.replicas[r].generation = 0)
<1>1. CASE Head(todo).op # "create"
  BY <1>1, CallMovesWorkers DEF SetupIsFirst
<1>2. CASE Head(todo).op = "create"
  <2>1. Head(todo).s = SetupSet /\ epoch' = SetupEpoch
    BY <1>2, NextCall, CallMovesWorkers DEF ProcessOK
  <2>2. ~KnownSet(SetupSet)
    BY <1>2, <2>1 DEF Perform, CreateReplicaSet
  <2>3. \A r \in ReplicaId : ~Known(r)
    BY <2>2, MemberFacts DEF Populated, KnownSet
  <2>4. QED
    BY <2>1, <2>3 DEF MemoryDescends, OnSnapshot, Descends, Known
<1>3. QED
  BY <1>1, <1>2

(* After an allocation, made or refused, the replica is not DECLARED. *)
LEMMA StartIsLateNext ==
    ASSUME HInv, ProcessOK, todo # <<>>, todo' = Tail(todo),
           Perform(Head(todo)) \/ (~Accepts(Head(todo)) /\ UNCHANGED vars)
    PROVE  StartIsLate'
<1> SUFFICES ASSUME todo' # <<>>, Head(todo').op = "start"
             PROVE  replicas'[Head(todo').r].generation = 0 \/ replicas'[Head(todo').r].lifecycle # "DECLARED"
  BY DEF StartIsLate, Known
<1>1. Head(todo') = todo[2] /\ 2 \in DOMAIN todo /\ Head(todo) = todo[1]
  <2>1. todo \in Seq(AllCalls)
    BY DEF ProcessOK
  <2> HIDE DEF AllCalls
  <2>2. QED
    BY <2>1
<1> DEFINE c == Head(todo)
<1>2. c.op = "allocate" /\ c.r = Head(todo').r
  BY <1>1 DEF ProcessOK, Ordered
<1>3. c.r \in ReplicaId /\ replicas \in [ReplicaId -> Replica]
  BY <1>2, NextCall, CallTypes DEF HInv, IInv, TypeOK
<1> HIDE DEF c
<1>4. CASE SetAllocating(c.r, TRUE)
  BY <1>2, <1>3, <1>4 DEF SetAllocating, Replica
<1>5. CASE ~MayEnter(c.r, "ALLOCATING") /\ UNCHANGED vars
  BY <1>2, <1>5 DEF MayEnter, CanTransition, ReplicaEdges, vars, Known
<1>6. QED
  BY <1>2, <1>4, <1>5 DEF Perform, Accepts, c

(* A replica that is warming up is still to be told that it is ready. *)
LEMMA WarmingEndsByCall ==
    ASSUME HInv, ProcessOK, WarmingEnds, phase = "running", todo # <<>>, Perform(Head(todo)),
           todo' = Tail(todo), UNCHANGED <<phase, command>>
    PROVE  WarmingEnds'
<1> DEFINE c == Head(todo)
<1>1. c \in AllCalls /\ c = todo[1] /\ c.op \in OpsOf(command.op) /\ replicas \in [ReplicaId -> Replica]
  BY NextCall DEF HInv, IInv, TypeOK
<1> SUFFICES ASSUME NEW r \in ReplicaId, replicas'[r].lifecycle = "WARMING"
             PROVE  /\ command.op \in {"warm", "promote", "failover"}
                    /\ \E i \in DOMAIN todo' :
                          todo'[i] = Call("readiness", r, replicas'[r].worker_id, replicas'[r].boot_id)
  BY DEF WarmingEnds
<1> HIDE DEF c
<1>2. ~(c.op = "provision" /\ r = c.r)
  BY <1>1, CallTypes, BornFacts, SetupAssumption DEF Perform, Born, HInv, c
<1>3. Evolves(replicas[r], replicas'[r], c.op)
  BY <1>2, CallEvolves DEF c
<1>4. replicas'[r].worker_id = replicas[r].worker_id /\ replicas'[r].boot_id = replicas[r].boot_id
  BY <1>3 DEF Evolves, SameOrigin, SameIdentity
<1> DEFINE told == Call("readiness", r, replicas[r].worker_id, replicas[r].boot_id)
<1>5. ASSUME NEW i \in DOMAIN todo, todo[i] = told, i # 1
      PROVE  \E j \in DOMAIN todo' : todo'[j] = told
  <2>1. i - 1 \in 1..(Len(todo) - 1) /\ (i - 1) + 1 = i
    BY <1>5, Rest
  <2> HIDE DEF told
  <2>2. QED
    BY <1>5, <2>1, Rest
<1>6. CASE replicas[r].lifecycle = "WARMING"
  <2>1. PICK i \in DOMAIN todo : todo[i] = told
    BY <1>6 DEF WarmingEnds
  <2>2. CASE i = 1
    <3>1. c.op = "readiness" /\ c.r = r
      BY <1>1, <2>1, <2>2 DEF Call
    <3>2. ReportReadiness(r, c.w, c.b, TRUE)
      BY <3>1 DEF Perform, c
    <3>3. replicas'[r].lifecycle = "READY"
      BY <1>1, <1>6, <3>2 DEF ReportReadiness, Replica
    <3>4. QED
      BY <3>3
  <2>3. CASE i # 1
    BY <1>4, <1>5, <1>6, <2>1, <2>3 DEF WarmingEnds
  <2>4. QED
    BY <2>2, <2>3
<1>7. CASE replicas[r].lifecycle # "WARMING"
  <2>1. c.op = "warm"
    BY <1>3, <1>7 DEF Evolves
  <2>2. WarmReplica(c.r, c.w, c.b, FALSE) /\ c.r \in ReplicaId
    BY <1>1, <2>1, CallTypes DEF Perform, c
  <2>3. r = c.r /\ replicas[r].worker_id = c.w /\ replicas[r].boot_id = c.b
    BY <1>1, <1>7, <2>2 DEF WarmReplica, MayWarm, WorkerBootMatches
  <2>4. 3 \in DOMAIN todo /\ todo[3] = told
    <3>1. 1 + 2 = 3 /\ 1 \in DOMAIN todo
      BY NextCall
    <3>2. QED
      BY <1>1, <2>1, <2>3, <3>1 DEF ProcessOK, Ordered
  <2>5. command.op \in {"warm", "promote", "failover"}
    BY <1>1, <2>1, CallBelongs DEF EvidenceOps
  <2>6. QED
    BY <1>4, <1>5, <2>4, <2>5
<1>8. QED
  BY <1>6, <1>7

(* What recovery found stays ended, serving without warmth, or not started. *)
LEMMA DescentKeptByCall ==
    ASSUME HInv, ProcessOK, SetupIsFirst, MemoryDescends, phase = "running", todo # <<>>,
           Perform(Head(todo)), UNCHANGED <<file, phase, command>>
    PROVE  MemoryDescends'
<1> DEFINE c == Head(todo)
<1>1. c.op \in OpsOf(command.op)
  BY NextCall
<1> SUFFICES ASSUME OnSnapshot, NEW r \in ReplicaId
             PROVE  IF file.replicas[r].generation = 0 THEN Known(r)' => command.op = "setup"
                    ELSE Descends(file.replicas[r], replicas'[r])
  BY DEF MemoryDescends, OnSnapshot, Known, Decodes
<1>2. CASE file.replicas[r].generation = 0
  BY <1>2, NewlyKnown DEF MemoryDescends
<1>3. CASE file.replicas[r].generation # 0
  <2>1. c.op \notin {"provision", "start"}
    BY <1>1, <1>3, CallBelongs DEF SetupIsFirst, SetupOps, OnSnapshot
  <2>2. Evolves(replicas[r], replicas'[r], c.op) /\ Descends(file.replicas[r], replicas[r])
    BY <1>3, <2>1, CallEvolves DEF MemoryDescends
  <2> HIDE DEF c
  <2>3. QED
    BY <1>3, <2>1, <2>2 DEF Evolves, Descends, SameOrigin, SameIdentity, Ended, Terminated
<1>4. QED
  BY <1>2, <1>3

-----------------------------------------------------------------------------
(* The calls of a command *)

(* A run of calls that may follow others. *)
Block(calls, ops) ==
    /\ calls \in Seq(AllCalls)
    /\ \A i \in DOMAIN calls : calls[i].op \in ops /\ calls[i].op # "create"
    /\ calls # <<>> => calls[1].op # "start"
    /\ Ordered(calls)

(* Calls that are all of a command and in order, also with others in front. *)
Arranged(calls, ops) ==
    /\ calls \in Seq(AllCalls)
    /\ Ordered(calls)
    /\ \A i \in DOMAIN calls : calls[i].op \in ops

BeginsWith(calls, first, next) ==
    /\ first # <<>> => calls # <<>> /\ calls[1] = first[1]
    /\ first = <<>> => calls = next

(* Following others it leaves them in order. *)
LEMMA Joined ==
    ASSUME NEW ops, NEW first, NEW next, Arranged(first, ops), Block(next, ops)
    PROVE  Arranged(first \o next, ops) /\ BeginsWith(first \o next, first, next)
<1> DEFINE all == first \o next
           m == Len(first)
           n == Len(next)
<1>1. /\ next \in Seq(AllCalls) /\ first \in Seq(AllCalls) /\ Ordered(first)
      /\ \A i \in DOMAIN first : first[i].op \in ops
  BY DEF Block, Arranged
<1> HIDE DEF AllCalls
<1>2. /\ all \in Seq(AllCalls) /\ m \in Nat /\ n \in Nat /\ DOMAIN all = 1..(m + n)
      /\ DOMAIN first = 1..m /\ DOMAIN next = 1..n
      /\ \A i \in 1..m : all[i] = first[i]
      /\ \A i \in 1..(m + n) : i > m => all[i] = next[i - m]
  BY <1>1
<1>3. /\ first # <<>> => all # <<>> /\ m > 0
      /\ first = <<>> => all = next
      /\ next # <<>> => n > 0
  BY <1>1
<1> HIDE DEF all, m, n
<1>4. ASSUME NEW i \in 1..(m + n), i > m
      PROVE  i - m \in 1..n /\ all[i] = next[i - m]
  BY <1>2, <1>4
<1>5. \A i \in 1..(m + n) : all[i].op \in ops
  <2> TAKE i \in 1..(m + n)
  <2>1. CASE i > m
    BY <1>2, <1>4, <2>1 DEF Block
  <2>2. CASE ~(i > m)
    BY <1>1, <1>2, <2>2
  <2>3. QED
    BY <2>1, <2>2
<1>6. Ordered(all)
  <2> SUFFICES ASSUME NEW i \in 1..(m + n)
               PROVE  /\ i > 1 => all[i].op # "create"
                      /\ i > 1 /\ all[i].op = "start" =>
                            all[i - 1].op = "allocate" /\ all[i - 1].r = all[i].r
                      /\ all[i].op = "warm" =>
                            i + 2 \in DOMAIN all
                            /\ all[i + 2] = Call("readiness", all[i].r, all[i].w, all[i].b)
    BY <1>2 DEF Ordered
  <2>1. CASE ~(i > m)
    <3>1. i \in 1..m /\ all[i] = first[i]
      BY <1>2, <2>1
    <3>2. ASSUME i > 1 PROVE all[i - 1] = first[i - 1]
      BY <1>2, <3>1, <3>2
    <3>3. ASSUME i + 2 \in 1..m PROVE i + 2 \in DOMAIN all /\ all[i + 2] = first[i + 2]
      BY <1>2, <3>3
    <3>4. /\ i > 1 => first[i].op # "create"
          /\ i > 1 /\ first[i].op = "start" => first[i - 1].op = "allocate" /\ first[i - 1].r = first[i].r
          /\ first[i].op = "warm" =>
                i + 2 \in 1..m /\ first[i + 2] = Call("readiness", first[i].r, first[i].w, first[i].b)
      BY <1>1, <1>2, <3>1 DEF Ordered
    <3>5. QED
      BY <3>1, <3>2, <3>3, <3>4
  <2>2. CASE i > m
    <3> DEFINE j == i - m
    <3>1. j \in 1..n /\ all[i] = next[j] /\ next # <<>>
      BY <1>2, <1>4, <2>2
    <3>2. ASSUME j > 1 PROVE all[i - 1] = next[j - 1]
      <4>1. i - 1 \in 1..(m + n) /\ i - 1 > m /\ (i - 1) - m = j - 1
        BY <1>2, <2>2, <3>1, <3>2
      <4>2. QED
        BY <1>2, <4>1
    <3>3. ASSUME j + 2 \in 1..n PROVE i + 2 \in DOMAIN all /\ all[i + 2] = next[j + 2]
      <4>1. i + 2 \in 1..(m + n) /\ i + 2 > m /\ (i + 2) - m = j + 2
        BY <1>2, <2>2, <3>1, <3>3
      <4>2. QED
        BY <1>2, <4>1
    <3>4. j > 1 \/ j = 1
      BY <1>2, <3>1
    <3> HIDE DEF j
    <3>5. all[i].op # "create"
      BY <1>2, <3>1 DEF Block
    <3>6. /\ j > 1 /\ next[j].op = "start" => next[j - 1].op = "allocate" /\ next[j - 1].r = next[j].r
          /\ next[j].op = "warm" =>
                j + 2 \in 1..n /\ next[j + 2] = Call("readiness", next[j].r, next[j].w, next[j].b)
          /\ j = 1 => next[j].op # "start"
      BY <1>2, <3>1 DEF Block, Ordered
    <3>7. QED
      BY <3>1, <3>2, <3>3, <3>4, <3>5, <3>6
  <2>3. QED
    BY <2>1, <2>2
<1>7. first # <<>> => all[1] = first[1]
  BY <1>2, <1>3
<1>8. QED
  BY <1>2, <1>3, <1>5, <1>6, <1>7 DEF all, Arranged, BeginsWith

(* The runs the commands are made of. *)
LEMMA EmptyBlock == ASSUME NEW ops PROVE Block(<<>>, ops)
BY DEF Block, Ordered

(* The evidence of one replica. *)
LEMMA EvidenceBlock ==
    ASSUME NEW ops, EvidenceOps \subseteq ops, NEW r \in ReplicaId, NEW w \in WorkerId, NEW b \in BootId
    PROVE  Block(Evidence(r, w, b), ops)
<1> DEFINE x == Call("warm", r, w, b)
           y == Call("health", r, w, b)
           z == Call("readiness", r, w, b)
           calls == <<x, y, z>>
<1>1. {x, y, z} \subseteq AllCalls
  BY DEF AllCalls, WorkerCalls, Call
<1>2. /\ x.op = "warm" /\ y.op = "health" /\ z.op = "readiness"
      /\ x.r = r /\ x.w = w /\ x.b = b
      /\ z = Call("readiness", x.r, x.w, x.b)
      /\ {x.op, y.op, z.op} \subseteq ops
  BY DEF Call, EvidenceOps
<1> HIDE DEF x, y, z
<1>3. calls \in Seq(AllCalls) /\ DOMAIN calls = {1, 2, 3} /\ calls # <<>>
      /\ calls[1] = x /\ calls[2] = y /\ calls[3] = z
  <2> HIDE DEF AllCalls
  <2>1. QED
    BY <1>1
<1> HIDE DEF calls
<1>4. Ordered(calls)
  BY <1>2, <1>3 DEF Ordered
<1>5. Block(calls, ops)
  BY <1>2, <1>3, <1>4 DEF Block
<1>6. QED
  BY <1>5 DEF calls, Evidence, x, y, z

(* The calls that set up one replica. *)
LEMMA SetupBlock ==
    ASSUME NEW ops, SetupOps \subseteq ops, NEW r \in ReplicaId
    PROVE  Block(SetupReplica(r), ops)
<1> DEFINE w == HostOf[r]
           b == BootOf[w]
           x == Call("register", r, w, b)
           y == Call("provision", r, w, b)
           z == Call("allocate", r, w, b)
           v == Call("start", r, w, b)
           calls == <<x, y, z, v>>
<1>1. w \in WorkerId /\ b \in BootId
  BY SetupAssumption
<1> HIDE DEF w, b
<1>2. {x, y, z, v} \subseteq AllCalls
  BY <1>1 DEF AllCalls, WorkerCalls, Call
<1>3. /\ x.op = "register" /\ y.op = "provision" /\ z.op = "allocate" /\ v.op = "start" /\ z.r = v.r
      /\ {x.op, y.op, z.op, v.op} \subseteq ops
  BY DEF Call, SetupOps
<1> HIDE DEF x, y, z, v
<1>4. calls \in Seq(AllCalls) /\ DOMAIN calls = {1, 2, 3, 4} /\ calls # <<>>
      /\ calls[1] = x /\ calls[2] = y /\ calls[3] = z /\ calls[4] = v
  <2> HIDE DEF AllCalls
  <2>1. QED
    BY <1>2
<1> HIDE DEF calls
<1>5. Ordered(calls)
  BY <1>3, <1>4 DEF Ordered
<1>6. Block(calls, ops)
  BY <1>3, <1>4, <1>5 DEF Block
<1>7. QED
  BY <1>6 DEF calls, SetupReplica, w, b, x, y, z, v

(* A single call, and the two that end a promotion. *)
LEMMA ShortBlocks ==
    ASSUME NEW ops, NEW x \in AllCalls, NEW y \in AllCalls,
           {x.op, y.op} \subseteq ops \ {"create", "start", "warm"}
    PROVE  Block(<<x>>, ops) /\ Block(<<x, y>>, ops)
<1>1. <<x>> \in Seq(AllCalls) /\ <<x, y>> \in Seq(AllCalls)
  <2> HIDE DEF AllCalls
  <2>1. QED
    OBVIOUS
<1> HIDE DEF AllCalls
<1>2. Ordered(<<x>>) /\ Ordered(<<x, y>>)
  BY DEF Ordered
<1>3. QED
  BY <1>1, <1>2 DEF Block

(* The evidence a failover command gives a member of the set. *)
LEMMA StandinBlock ==
    ASSUME HInv, NEW ops, EvidenceOps \subseteq ops, NEW r \in ReplicaId, NEW s \in SetId, NEW failed
    PROVE  Block(Standin(r, s, failed), ops)
<1> DEFINE w == replicas[r].worker_id
<1>1. CASE r \in MembersOf(s) \ {failed} /\ workers[w] # Unregistered
  <2>1. Known(r)
    BY <1>1, IdAssumption DEF HInv, AbsentIsDefault, NoReplica, MembersOf
  <2>2. w \in WorkerId /\ workers[w] \in BootId
    BY <1>1, <2>1 DEF HInv, IInv, TypeOK
  <2>3. Standin(r, s, failed) = Evidence(r, w, workers[w])
    BY <1>1 DEF Standin
  <2> HIDE DEF w
  <2>4. QED
    BY <2>2, <2>3, EvidenceBlock
<1>2. CASE ~(r \in MembersOf(s) \ {failed} /\ workers[w] # Unregistered)
  <2>1. Standin(r, s, failed) = <<>>
    BY <1>2 DEF Standin
  <2>2. QED
    BY <2>1, EmptyBlock
<1>3. QED
  BY <1>1, <1>2

(* What the process starts with. *)
Started(c, calls) ==
    /\ calls \in Seq(AllCalls)
    /\ \A i \in DOMAIN calls : calls[i].op \in OpsOf(c.op)
    /\ Ordered(calls)
    /\ calls # <<>> => Head(calls).op # "start"
    /\ c.op = "setup" => /\ calls # <<>> /\ Head(calls).op = "create"
                         /\ Head(calls).s = SetupSet /\ Head(calls).epoch = SetupEpoch

(* A run of calls of a command that is no setup. *)
LEMMA BlockIsStarted ==
    ASSUME NEW c, NEW calls, Block(calls, OpsOf(c.op)), c.op # "setup"
    PROVE  Started(c, calls)
<1>1. calls \in Seq(AllCalls)
  BY DEF Block
<1> HIDE DEF AllCalls
<1>2. calls # <<>> => Head(calls) = calls[1]
  BY <1>1
<1>3. QED
  BY <1>1, <1>2 DEF Block, Started

(* Two runs make one. *)
LEMMA BlocksJoin ==
    ASSUME NEW ops, NEW a, NEW b, Block(a, ops), Block(b, ops)
    PROVE  Block(a \o b, ops)
<1> DEFINE all == a \o b
<1>1. a \in Seq(AllCalls) /\ b \in Seq(AllCalls) /\ Arranged(a, ops)
  BY DEF Block, Arranged
<1>2. Arranged(all, ops) /\ BeginsWith(all, a, b)
  BY <1>1, Joined
<1>3. /\ all \in Seq(AllCalls) /\ Ordered(all) /\ \A i \in DOMAIN all : all[i].op \in ops
      /\ a # <<>> => all[1] = a[1]
      /\ a = <<>> => all = b
  BY <1>2 DEF Arranged, BeginsWith
<1>4. \A i \in DOMAIN all : (i = 1 /\ all[1] = a[1] /\ a # <<>>) \/ all = b \/ i > 1
  <2> HIDE DEF AllCalls
  <2>1. DOMAIN all = 1..(Len(a) + Len(b)) /\ Len(a) \in Nat /\ Len(b) \in Nat
    BY <1>1
  <2>2. QED
    BY <1>3, <2>1
<1>5. a # <<>> => 1 \in DOMAIN a
  <2> HIDE DEF AllCalls
  <2>1. QED
    BY <1>1
<1> HIDE DEF all
<1>6. \A i \in DOMAIN all : all[i].op # "create"
  BY <1>3, <1>4, <1>5 DEF Block, Ordered
<1>7. all # <<>> => all[1].op # "start"
  BY <1>3 DEF Block
<1>8. QED
  BY <1>3, <1>6, <1>7 DEF Block, all

(* The calls of every command. *)
LEMMA CallsStarted ==
    ASSUME HInv, NEW c \in Commands
    PROVE  Started(c, Calls(c))
<1>0. c.op \in {"create-set", "setup", "warm", "drain", "promote", "failover", "snapshot-save"}
  BY DEF Commands, SnapshotSave
<1>1. CASE c.op = "create-set"
  <2> DEFINE x == Create(c.s, c.size, CreateEpoch)
  <2>1. c.s \in SetId /\ c.size \in Sizes
    BY <1>1, CommandTypes
  <2>2. x \in AllCalls /\ x.op = "create" /\ x.op \in OpsOf(c.op)
    BY <1>1, <2>1, SetupAssumption DEF AllCalls, CreateCalls, Create, OpsOf
  <2>3. Calls(c) = <<x>>
    BY <1>1 DEF Calls
  <2> HIDE DEF x
  <2>4. <<x>> \in Seq(AllCalls) /\ Ordered(<<x>>) /\ Head(<<x>>) = x
    <3> HIDE DEF AllCalls
    <3>1. QED
      BY <2>2 DEF Ordered
  <2>5. QED
    BY <1>1, <2>2, <2>3, <2>4 DEF Started
<1>2. CASE c.op = "setup"
  <2> DEFINE x == Create(SetupSet, c.size, SetupEpoch)
             first == <<x>>
             one == IF c.size < 1 THEN <<>> ELSE SetupReplica(1)
             two == IF c.size < 2 THEN <<>> ELSE SetupReplica(2)
             ops == OpsOf(c.op)
  <2>1. c.size \in Sizes
    BY <1>2, CommandTypes
  <2>2. /\ x \in AllCalls /\ x.op = "create" /\ x.op \in ops /\ x.s = SetupSet /\ x.epoch = SetupEpoch
        /\ SetupOps \subseteq ops
    BY <1>2, <2>1, SetupAssumption DEF AllCalls, CreateCalls, Create, OpsOf
  <2>3. Calls(c) = (first \o one) \o two
    BY <1>2 DEF Calls
  <2>4. Block(one, ops) /\ Block(two, ops)
    BY <2>2, SetupAssumption, SetupBlock, EmptyBlock
  <2> HIDE DEF x, one, two, ops
  <2>5. /\ first \in Seq(AllCalls) /\ Ordered(first) /\ first # <<>> /\ first[1] = x
        /\ \A i \in DOMAIN first : first[i].op \in ops
    <3> HIDE DEF AllCalls
    <3>1. QED
      BY <2>2 DEF Ordered
  <2> HIDE DEF first
  <2> DEFINE most == first \o one
  <2>6. Arranged(most, ops) /\ BeginsWith(most, first, one)
    BY <2>4, <2>5, Joined DEF Arranged
  <2> HIDE DEF most
  <2>7. /\ Arranged(Calls(c), ops) /\ BeginsWith(Calls(c), most, two)
        /\ most # <<>> /\ most[1] = x
    BY <2>3, <2>4, <2>5, <2>6, Joined DEF BeginsWith, most
  <2>8. Calls(c) # <<>> /\ Head(Calls(c)) = x
    <3>1. Calls(c) \in Seq(AllCalls) /\ Calls(c) # <<>> /\ Calls(c)[1] = x
      BY <2>7 DEF Arranged, BeginsWith
    <3> HIDE DEF AllCalls
    <3>2. QED
      BY <3>1
  <2>9. QED
    BY <2>2, <2>7, <2>8 DEF Started, Arranged, ops
<1>3. CASE c.op = "warm"
  <2>1. c.r \in ReplicaId /\ c.w \in WorkerId /\ c.b \in BootId
    BY <1>3, CommandTypes
  <2>2. Calls(c) = Evidence(c.r, c.w, c.b) /\ EvidenceOps \subseteq OpsOf(c.op)
    BY <1>3 DEF Calls, OpsOf
  <2>3. QED
    BY <1>3, <2>1, <2>2, EvidenceBlock, BlockIsStarted
<1>4. CASE c.op = "drain"
  <2> DEFINE x == Call("drain", c.r, c.w, c.b)
  <2>1. c.r \in ReplicaId /\ c.w \in WorkerId /\ c.b \in BootId
    BY <1>4, CommandTypes
  <2>2. x \in AllCalls /\ x.op = "drain" /\ x.op \in OpsOf(c.op) \ {"create", "start", "warm"}
    BY <1>4, <2>1 DEF AllCalls, WorkerCalls, Call, OpsOf
  <2>3. Calls(c) = <<x>>
    BY <1>4 DEF Calls
  <2> HIDE DEF x
  <2>4. QED
    BY <1>4, <2>2, <2>3, ShortBlocks, BlockIsStarted
<1>5. CASE c.op = "promote"
  <2> DEFINE x == Call("check", c.r, c.w, c.b)
             y == Call("promote", c.r, c.w, c.b)
             ops == OpsOf(c.op)
  <2>1. c.r \in ReplicaId /\ c.w \in WorkerId /\ c.b \in BootId
    BY <1>5, CommandTypes
  <2>2. {x, y} \subseteq AllCalls /\ {x.op, y.op} \subseteq ops \ {"create", "start", "warm"}
        /\ EvidenceOps \subseteq ops
    BY <1>5, <2>1 DEF AllCalls, WorkerCalls, Call, OpsOf
  <2>3. Calls(c) = Evidence(c.r, c.w, c.b) \o <<x, y>>
    BY <1>5 DEF Calls
  <2> HIDE DEF x, y, ops
  <2>4. Block(Evidence(c.r, c.w, c.b), ops) /\ Block(<<x, y>>, ops)
    BY <2>1, <2>2, EvidenceBlock, ShortBlocks
  <2>5. Block(Calls(c), ops)
    BY <2>3, <2>4, BlocksJoin
  <2>6. QED
    BY <1>5, <2>5, BlockIsStarted DEF ops
<1>6. CASE c.op = "failover"
  <2> DEFINE x == Call("failover", c.r, replicas[c.r].worker_id, replicas[c.r].boot_id)
             ops == OpsOf(c.op)
             one == Standin(1, c.s, c.r)
             two == Standin(2, c.s, c.r)
             both == one \o two
  <2>1. c.s \in SetId /\ c.r \in ReplicaId
    BY <1>6, CommandTypes
  <2>2. replicas[c.r].worker_id \in WorkerId \cup {NullId} /\ replicas[c.r].boot_id \in BootId \cup {NullId}
    BY <2>1 DEF HInv, IInv, TypeOK, Replica
  <2>3. /\ x \in AllCalls /\ x.op \in ops \ {"create", "start", "warm"} /\ EvidenceOps \subseteq ops
    BY <1>6, <2>1, <2>2 DEF AllCalls, FailoverCalls, Call, OpsOf
  <2>4. Calls(c) = both \o <<x>>
    BY <1>6 DEF Calls
  <2> HIDE DEF x, ops
  <2>5. Block(one, ops) /\ Block(two, ops) /\ Block(<<x>>, ops)
    BY <2>1, <2>3, SetupAssumption, StandinBlock, ShortBlocks
  <2> HIDE DEF one, two
  <2>6. Block(both, ops)
    BY <2>5, BlocksJoin
  <2> HIDE DEF both
  <2>7. Block(Calls(c), ops)
    BY <2>4, <2>5, <2>6, BlocksJoin
  <2>8. QED
    BY <1>6, <2>7, BlockIsStarted DEF ops
<1>7. CASE c.op = "snapshot-save"
  <2>1. Calls(c) = <<>>
    BY <1>7 DEF Calls
  <2>2. QED
    BY <1>7, <2>1, EmptyBlock, BlockIsStarted
<1>8. QED
  BY <1>0, <1>1, <1>2, <1>3, <1>4, <1>5, <1>6, <1>7

-----------------------------------------------------------------------------
(* The invariant is inductive: steps of a process *)

(* Steps that leave memory alone. *)
LEMMA MemoryStays ==
    ASSUME HInv, DrainAudited, Kept(MakeSnapshot), UNCHANGED vars
    PROVE  HInv' /\ DrainAudited' /\ Kept(MakeSnapshot)'
<1>1. HInv' /\ DrainAudited'
  BY HealthKeptByNext, DrainAuditKept
<1>2. MakeSnapshot' = MakeSnapshot
  BY DEF MakeSnapshot, vars
<1>3. QED
  BY <1>1, <1>2

(* A call keeps it. *)
LEMMA ApplyKeeps == ASSUME LInv, Apply PROVE LInv'
<1>1. /\ HInv /\ DrainAudited /\ Kept(MakeSnapshot) /\ ProcessOK /\ EpochKept /\ SetupIsFirst
      /\ StartIsLate /\ WarmingEnds /\ MemoryDescends
      /\ phase = "running" /\ todo # <<>> /\ Perform(Head(todo)) /\ todo' = Tail(todo)
      /\ file' = file /\ phase' = phase /\ command' = command
  BY DEF LInv, Apply
<1>2. HInv' /\ DrainAudited'
  BY <1>1, PerformIsNext, HealthKeptByNext, DrainAuditKept
<1>3. Kept(MakeSnapshot)'
  BY <1>1, KeptByCall
<1>4. Decodes(file') => Saved(file')
  BY <1>1 DEF LInv
<1>5. ProcessOK' /\ IdleIsEmpty' /\ LoadedIsImage'
  BY <1>1, RestOfProcess DEF IdleIsEmpty, LoadedIsImage
<1>6. EpochKept' /\ StartIsLate' /\ WarmingEnds' /\ MemoryDescends'
  BY <1>1, EpochKeptByCall, StartIsLateNext, WarmingEndsByCall, DescentKeptByCall
<1>7. SetupIsFirst'
  BY <1>1, SetupIsFirstByCall DEF SetupIsFirst
<1>8. QED
  BY <1>2, <1>3, <1>4, <1>5, <1>6, <1>7 DEF LInv

(* A refusal keeps it: readiness of a replica that is warming up is never   *)
(* refused.                                                                 *)
LEMMA RefuseKeeps == ASSUME LInv, Refuse PROVE LInv'
<1> DEFINE c == Head(todo)
<1>1. /\ HInv /\ DrainAudited /\ Kept(MakeSnapshot) /\ ProcessOK /\ EpochKept /\ SetupIsFirst
      /\ StartIsLate /\ WarmingEnds /\ MemoryDescends
      /\ phase = "running" /\ todo # <<>> /\ ~Accepts(c) /\ todo' = Tail(todo)
      /\ phase' = (IF Required(c) THEN "refused" ELSE "running")
      /\ UNCHANGED vars /\ file' = file /\ command' = command
  BY DEF LInv, Refuse
<1>2. UNCHANGED <<replicas, sets, workers, epoch, promotions, drains, failover>>
  BY <1>1 DEF vars
<1>3. HInv' /\ DrainAudited' /\ Kept(MakeSnapshot)'
  BY <1>1, MemoryStays
<1>4. Decodes(file') => Saved(file')
  BY <1>1 DEF LInv
<1>5. ProcessOK' /\ IdleIsEmpty' /\ LoadedIsImage'
  BY <1>1, RestOfProcess DEF IdleIsEmpty, LoadedIsImage
<1>6. EpochKept' /\ MemoryDescends'
  BY <1>1, <1>2 DEF EpochKept, MemoryDescends, OnSnapshot, Known
<1>7. StartIsLate'
  BY <1>1, StartIsLateNext
<1>8. SetupIsFirst'
  BY <1>1, <1>2 DEF SetupIsFirst, Required
<1>9. WarmingEnds'
  <2> SUFFICES ASSUME NEW r \in ReplicaId, replicas[r].lifecycle = "WARMING"
               PROVE  /\ command.op \in {"warm", "promote", "failover"}
                      /\ \E i \in DOMAIN todo' :
                            todo'[i] = Call("readiness", r, replicas[r].worker_id, replicas[r].boot_id)
    BY <1>1, <1>2 DEF WarmingEnds
  <2> DEFINE told == Call("readiness", r, replicas[r].worker_id, replicas[r].boot_id)
  <2>1. PICK i \in DOMAIN todo : todo[i] = told
    BY <1>1 DEF WarmingEnds
  <2>2. command.op \in {"warm", "promote", "failover"}
    BY <1>1 DEF WarmingEnds
  <2>3. Known(r)
    BY <1>1 DEF HInv, AbsentIsDefault, NoReplica
  <2>4. EvidenceAccepted(r, replicas[r].worker_id, replicas[r].boot_id)
    <3>1. replicas[r].coordinator_epoch = SetupEpoch
      BY <1>1, <2>3, MemberFacts DEF RecordKept
    <3>2. epoch = SetupEpoch
      BY <1>1, <2>2, <2>3 DEF EpochKept
    <3>3. QED
      BY <2>3, <3>1, <3>2 DEF EvidenceAccepted, WorkerBootMatches, EpochCurrent, Terminated
  <2>5. told.op = "readiness" /\ told.r = r /\ told.w = replicas[r].worker_id /\ told.b = replicas[r].boot_id
    BY DEF Call
  <2> HIDE DEF told
  <2>6. Accepts(told)
    BY <2>4, <2>5 DEF Accepts
  <2>7. i # 1
    BY <1>1, <2>1, <2>6, NextCall
  <2>8. i - 1 \in 1..(Len(todo) - 1) /\ (i - 1) + 1 = i
    BY <1>1, <2>7, Rest
  <2>9. \E j \in DOMAIN todo' : todo'[j] = told
    BY <1>1, <2>1, <2>8, Rest
  <2>10. QED
    BY <2>2, <2>9 DEF told
<1>10. QED
  BY <1>3, <1>4, <1>5, <1>6, <1>7, <1>8, <1>9 DEF LInv

(* A command begins with its calls. *)
LEMMA BeginKeeps == ASSUME LInv, NEW c \in Commands, Begin(c) PROVE LInv'
<1>1. /\ HInv /\ DrainAudited /\ Kept(MakeSnapshot) /\ ProcessOK /\ EpochKept
      /\ WarmingEnds /\ MemoryDescends
      /\ phase = "loaded" /\ phase' = "running" /\ todo' = Calls(c) /\ command' = c
      /\ UNCHANGED vars /\ file' = file
  BY DEF LInv, Begin
<1>2. UNCHANGED <<replicas, sets, workers, epoch, promotions, drains, failover>>
  BY <1>1 DEF vars
<1>3. HInv' /\ DrainAudited' /\ Kept(MakeSnapshot)'
  BY <1>1, MemoryStays
<1>4. Decodes(file') => Saved(file')
  BY <1>1 DEF LInv
<1>5. Started(c, todo')
  BY <1>1, CallsStarted
<1>6. ProcessOK'
  <2>1. todo' # <<>> => Head(todo') = todo'[1]
    <3>1. todo' \in Seq(AllCalls)
      BY <1>5 DEF Started
    <3> HIDE DEF AllCalls
    <3>2. QED
      BY <3>1
  <2>2. \A i \in DOMAIN todo' : i = 1 \/ i > 1
    <3>1. todo' \in Seq(AllCalls)
      BY <1>5 DEF Started
    <3> HIDE DEF AllCalls
    <3>2. QED
      BY <3>1
  <2>3. c.op = "setup" =>
          \A i \in DOMAIN todo' : todo'[i].op = "create" => todo'[i].s = SetupSet /\ todo'[i].epoch = SetupEpoch
    BY <1>5, <2>1, <2>2 DEF Started, Ordered
  <2>4. QED
    BY <1>1, <1>5, <2>3 DEF ProcessOK, Started, Ordered
<1>7. IdleIsEmpty' /\ LoadedIsImage'
  BY <1>1 DEF IdleIsEmpty, LoadedIsImage
<1>8. command = NoCommand /\ NoCommand.op = "none"
  BY <1>1 DEF ProcessOK, NoCommand
<1>9. EpochKept' /\ MemoryDescends'
  BY <1>1, <1>2, <1>8 DEF EpochKept, MemoryDescends, OnSnapshot, Known
<1>10. SetupIsFirst' /\ StartIsLate'
  BY <1>1, <1>5 DEF SetupIsFirst, StartIsLate, Started
<1>11. WarmingEnds'
  BY <1>1, <1>2 DEF WarmingEnds
<1>12. QED
  BY <1>3, <1>4, <1>6, <1>7, <1>9, <1>10, <1>11 DEF LInv

(* A process starts without a file. *)
LEMMA StartEmptyKeeps == ASSUME LInv, StartEmpty PROVE LInv'
<1>1. /\ HInv /\ DrainAudited /\ Kept(MakeSnapshot) /\ ProcessOK /\ EpochKept /\ WarmingEnds
      /\ phase = "idle" /\ phase' = "loaded" /\ todo' = todo /\ command' = command
      /\ UNCHANGED vars /\ file = NoFile /\ file' = file
  BY DEF LInv, StartEmpty
<1>2. UNCHANGED <<replicas, sets, workers, epoch, promotions, drains, failover>>
  BY <1>1 DEF vars
<1>3. HInv' /\ DrainAudited' /\ Kept(MakeSnapshot)'
  BY <1>1, MemoryStays
<1>4. ~Decodes(file')
  BY <1>1 DEF Decodes
<1>5. ProcessOK'
  BY <1>1 DEF ProcessOK, Ordered
<1>6. todo = <<>>
  BY <1>1 DEF ProcessOK
<1>7. IdleIsEmpty' /\ LoadedIsImage' /\ EpochKept' /\ SetupIsFirst' /\ StartIsLate' /\ MemoryDescends'
  BY <1>1, <1>2, <1>4, <1>6
     DEF IdleIsEmpty, LoadedIsImage, EpochKept, SetupIsFirst, StartIsLate, MemoryDescends, OnSnapshot, Known
<1>8. WarmingEnds'
  BY <1>1, <1>2 DEF WarmingEnds
<1>9. QED
  BY <1>3, <1>4, <1>5, <1>7, <1>8 DEF LInv

(* The file is truncated when no replica is warming up. *)
LEMMA OpenKeeps == ASSUME LInv, OpenForWrite PROVE LInv'
<1>1. /\ HInv /\ DrainAudited /\ Kept(MakeSnapshot) /\ ProcessOK /\ EpochKept /\ WarmingEnds
      /\ phase = "running" /\ todo = <<>> /\ phase' = "saving" /\ todo' = todo /\ command' = command
      /\ UNCHANGED vars /\ file' = Torn
  BY DEF LInv, OpenForWrite
<1>2. UNCHANGED <<replicas, sets, workers, epoch, promotions, drains, failover>>
  BY <1>1 DEF vars
<1>3. HInv' /\ DrainAudited' /\ Kept(MakeSnapshot)'
  BY <1>1, MemoryStays
<1>4. ~Decodes(file')
  BY <1>1 DEF Decodes
<1>5. ProcessOK'
  BY <1>1 DEF ProcessOK, Ordered
<1>6. IdleIsEmpty' /\ LoadedIsImage' /\ EpochKept' /\ SetupIsFirst' /\ StartIsLate' /\ MemoryDescends'
  BY <1>1, <1>2, <1>4
     DEF IdleIsEmpty, LoadedIsImage, EpochKept, SetupIsFirst, StartIsLate, MemoryDescends, OnSnapshot, Known
<1>7. \A r \in ReplicaId : replicas[r].lifecycle # "WARMING"
  BY <1>1 DEF WarmingEnds
<1>8. WarmingEnds'
  BY <1>2, <1>7 DEF WarmingEnds
<1>9. QED
  BY <1>3, <1>4, <1>5, <1>6, <1>8 DEF LInv

-----------------------------------------------------------------------------
(* The invariant is inductive: the ends of a process *)

(* Recovery takes authority, boot and evidence away and leaves the rest. *)
LEMMA RecoveredFacts ==
    ASSUME NEW rec \in Replica
    PROVE  LET q == Recovered(rec)
           IN /\ q \in Replica /\ ~q.serving_eligible
              /\ q.promotion = "NOT_PROMOTED" /\ q.role = "NONE" /\ q.warmth = "COLD"
              /\ SameIdentity(rec, q) /\ q.lifecycle = rec.lifecycle
              /\ q.health_generation = rec.health_generation /\ q.placement = rec.placement
              /\ q.coordinator_epoch = rec.coordinator_epoch /\ q.compatible = rec.compatible
              /\ q.capacity_total = rec.capacity_total /\ q.set_generation = rec.set_generation
<1>1. Recovered(rec) \in Replica
  BY Names DEF Recovered, Replica
<1>2. QED
  BY <1>1 DEF Recovered, Replica, SameIdentity

(* What relink_authority adds is the boot of a registered worker. *)
LEMMA RelinkedFacts ==
    ASSUME Saved(file), NEW r \in ReplicaId, file.replicas[r].generation # 0
    PROVE  LET q == Relinked(RecoveredReplicas(file), file.workers)[r]
               p == file.replicas[r]
           IN /\ q \in Replica /\ q.boot_id = file.workers[p.worker_id] /\ q.boot_id \in BootId
              /\ ~q.serving_eligible
              /\ q.promotion = "NOT_PROMOTED" /\ q.role = "NONE" /\ q.warmth = "COLD"
              /\ SameIdentity(p, q) /\ q.lifecycle = p.lifecycle
              /\ q.health_generation = p.health_generation /\ q.placement = p.placement
              /\ q.coordinator_epoch = p.coordinator_epoch /\ q.compatible = p.compatible
              /\ q.capacity_total = p.capacity_total /\ q.set_generation = p.set_generation
<1> DEFINE p == file.replicas[r]
           m == Recovered(p)
           b == file.workers[p.worker_id]
           q == Relinked(RecoveredReplicas(file), file.workers)[r]
<1>1. p \in Replica /\ file.workers \in [WorkerId -> BootId \cup {Unregistered}]
  BY DEF Saved, Snapshots
<1>2. p.worker_id \in WorkerId /\ b # Unregistered
  BY DEF Saved, Kept, RecordKept
<1>3. b \in BootId
  BY <1>1, <1>2
<1>4. /\ m \in Replica /\ ~m.serving_eligible
      /\ m.promotion = "NOT_PROMOTED" /\ m.role = "NONE" /\ m.warmth = "COLD"
      /\ SameIdentity(p, m) /\ m.lifecycle = p.lifecycle
      /\ m.health_generation = p.health_generation /\ m.placement = p.placement
      /\ m.coordinator_epoch = p.coordinator_epoch /\ m.compatible = p.compatible
      /\ m.capacity_total = p.capacity_total /\ m.set_generation = p.set_generation
  BY <1>1, RecoveredFacts
<1>5. RecoveredReplicas(file)[r] = m
  BY DEF RecoveredReplicas
<1>6. m.worker_id = p.worker_id
  BY <1>4 DEF SameIdentity
<1> HIDE DEF m
<1>7. q = [m EXCEPT !.boot_id = b]
  BY <1>2, <1>5, <1>6 DEF Relinked
<1> HIDE DEF q, b, p
<1>8. q \in Replica /\ q.boot_id = b
  BY <1>3, <1>4, <1>7 DEF Replica
<1>9. /\ ~q.serving_eligible /\ q.promotion = m.promotion /\ q.role = m.role /\ q.warmth = m.warmth
      /\ SameIdentity(m, q) /\ q.lifecycle = m.lifecycle
      /\ q.health_generation = m.health_generation /\ q.placement = m.placement
      /\ q.coordinator_epoch = m.coordinator_epoch /\ q.compatible = m.compatible
      /\ q.capacity_total = m.capacity_total /\ q.set_generation = m.set_generation
  BY <1>4, <1>7 DEF Replica, SameIdentity
<1>10. QED
  BY <1>3, <1>4, <1>8, <1>9 DEF q, b, p, SameIdentity

(* A replica the file does not have is not made up. *)
LEMMA RelinkedAbsent ==
    ASSUME NEW r \in ReplicaId, file.replicas[r].generation = 0
    PROVE  Relinked(RecoveredReplicas(file), file.workers)[r] = NoReplica
<1>1. RecoveredReplicas(file)[r] = NoReplica
  BY DEF RecoveredReplicas
<1>2. NoReplica.worker_id \notin WorkerId
  BY IdAssumption DEF NoReplica
<1>3. QED
  BY <1>1, <1>2 DEF Relinked

(* The default record is a record. *)
LEMMA DefaultRecord ==
    /\ NoReplica \in Replica /\ NoReplica.generation = 0 /\ ~NoReplica.serving_eligible
    /\ NoReplica.lifecycle = "DECLARED" /\ Coherent(NoReplica)
<1>1. NoReplica \in Replica
  BY Names, BoundAssumption DEF NoReplica, Replica
<1>2. QED
  BY <1>1 DEF NoReplica, Coherent

(* Every replica in the file belongs to the epoch `setup' drew. *)
LEMMA RelinkedEpochIsSetups ==
    ASSUME Saved(file), NEW r \in ReplicaId, file.replicas[r].generation # 0
    PROVE  RelinkedEpoch(RecoveredReplicas(file)) = SetupEpoch
<1> DEFINE reps == RecoveredReplicas(file)
           known == {q \in ReplicaId : reps[q].generation # 0}
           first == CHOOSE a \in known : \A b \in known : a <= b
<1>1. \A q \in ReplicaId : file.replicas[q] \in Replica
  BY DEF Saved, Snapshots
<1>2. \A q \in ReplicaId : file.replicas[q].generation # 0 =>
          reps[q].generation = file.replicas[q].generation /\ reps[q].coordinator_epoch = SetupEpoch
  <2> TAKE q \in ReplicaId
  <2> HAVE file.replicas[q].generation # 0
  <2>1. reps[q] = Recovered(file.replicas[q])
    BY DEF RecoveredReplicas
  <2>2. /\ Recovered(file.replicas[q]).coordinator_epoch = file.replicas[q].coordinator_epoch
        /\ Recovered(file.replicas[q]).generation = file.replicas[q].generation
    BY <1>1, RecoveredFacts DEF SameIdentity
  <2>3. file.replicas[q].coordinator_epoch = SetupEpoch
    BY DEF Saved, Kept, RecordKept
  <2>4. QED
    BY <2>1, <2>2, <2>3
<1>3. \A q \in ReplicaId : file.replicas[q].generation = 0 => reps[q].generation = 0
  BY DefaultRecord DEF RecoveredReplicas
<1>4. r \in known
  BY <1>2
<1>5. \E a \in known : \A b \in known : a <= b
  <2>1. known \in SUBSET {1, 2}
    BY SetupAssumption
  <2> HIDE DEF known
  <2>2. QED
    BY <1>4, <2>1
<1>6. first \in known
  <2> HIDE DEF known
  <2>1. QED
    BY <1>5
<1>7. reps[first].coordinator_epoch = SetupEpoch
  BY <1>2, <1>3, <1>6
<1>8. QED
  BY <1>4, <1>7 DEF RelinkedEpoch

(* Recovery of a saved state yields a state of the controller. *)
LEMMA LoadedState ==
    ASSUME Saved(file), LoadState
    PROVE  HInv' /\ DrainAudited' /\ Kept(MakeSnapshot)'
<1> DEFINE image == Relinked(RecoveredReplicas(file), file.workers)
<1>1. /\ replicas' = image /\ epoch' = RelinkedEpoch(RecoveredReplicas(file))
      /\ sets' = file.sets /\ workers' = file.workers /\ promotions' = file.promotions
      /\ drains' = file.drains /\ failover' = file.failover
  BY DEF LoadState
<1>2. /\ file.sets \in [SetId -> SetState] /\ file.workers \in [WorkerId -> BootId \cup {Unregistered}]
      /\ file.promotions \in [ReplicaId -> PromotionRecords]
      /\ file.drains \in Seq([replica_id : ReplicaId, state : {"DRAINING", "QUIESCED"}])
      /\ file.failover \in FailoverRecords \cup {NullId}
  BY DEF Saved, Snapshots, SetState
<1>3. \A r \in ReplicaId : image[r] \in Replica /\ ~image[r].serving_eligible /\ Coherent(image[r])
  <2> TAKE r \in ReplicaId
  <2>1. CASE file.replicas[r].generation = 0
    BY <2>1, RelinkedAbsent, DefaultRecord
  <2>2. CASE file.replicas[r].generation # 0
    BY <2>2, RelinkedFacts DEF Coherent
  <2>3. QED
    BY <2>1, <2>2
<1>4. image \in [ReplicaId -> Replica]
  BY <1>3 DEF Relinked
<1>5. ASSUME NEW r \in ReplicaId, image[r].generation # 0
      PROVE  /\ file.replicas[r].generation # 0
             /\ SameIdentity(file.replicas[r], image[r])
             /\ RecordKept(image[r]) /\ image[r].set_id = SetupSet
             /\ file.workers[image[r].worker_id] # Unregistered
             /\ file.sets[SetupSet].lifecycle \in Populated
             /\ image[r].boot_id \in BootId
             /\ image[r].health_generation \in 1..MaxRounds \cup {1}
             /\ image[r].lifecycle = file.replicas[r].lifecycle
  <2>1. file.replicas[r].generation # 0
    BY <1>5, RelinkedAbsent, DefaultRecord
  <2>2. /\ RecordKept(file.replicas[r]) /\ file.workers[file.replicas[r].worker_id] # Unregistered
        /\ file.sets[SetupSet].lifecycle \in Populated
        /\ file.replicas[r].health_generation \in 1..MaxRounds \cup {1}
    BY <2>1 DEF Saved, Kept
  <2> HIDE DEF image
  <2>3. LET q == image[r]
            p == file.replicas[r]
        IN /\ q.boot_id \in BootId
           /\ SameIdentity(p, q) /\ q.lifecycle = p.lifecycle
           /\ q.health_generation = p.health_generation /\ q.placement = p.placement
           /\ q.coordinator_epoch = p.coordinator_epoch /\ q.compatible = p.compatible
           /\ q.capacity_total = p.capacity_total /\ q.set_generation = p.set_generation
    BY <2>1, RelinkedFacts DEF image
  <2>4. QED
    BY <2>1, <2>2, <2>3 DEF RecordKept, SameIdentity
<1> HIDE DEF image
<1>6. epoch' \in Epoch \cup {NullId}
  <2>1. CASE \E r \in ReplicaId : file.replicas[r].generation # 0
    BY <1>1, <2>1, RelinkedEpochIsSetups, SetupAssumption
  <2>2. CASE \A r \in ReplicaId : file.replicas[r].generation = 0
    <3>1. \A r \in ReplicaId : RecoveredReplicas(file)[r].generation = 0
      BY <2>2, DefaultRecord DEF RecoveredReplicas
    <3>2. RelinkedEpoch(RecoveredReplicas(file)) = NullId
      BY <3>1 DEF RelinkedEpoch
    <3>3. QED
      BY <1>1, <3>2
  <2>3. QED
    BY <2>1, <2>2
<1>7. ASSUME NEW r \in ReplicaId, image[r].generation # 0
      PROVE  /\ image[r].set_id \in SetId
             /\ file.sets[image[r].set_id].lifecycle # "ABSENT"
             /\ image[r].worker_id \in WorkerId
  BY <1>5, <1>7, SetupAssumption DEF RecordKept, Populated
<1>8. TypeOK'
  BY <1>1, <1>2, <1>4, <1>6, <1>7 DEF TypeOK, Known, KnownSet, SetState
<1>9. AuthorityCoherent' /\ Audited' /\ UnhealthyHoldsNothing'
  BY <1>1, <1>3 DEF AuthorityCoherent, Audited, UnhealthyHoldsNothing
<1>10. AbsentIsDefault'
  <2> SUFFICES ASSUME NEW r \in ReplicaId, image[r].generation = 0 PROVE image[r] = NoReplica
    BY <1>1 DEF AbsentIsDefault, Known
  <2>1. file.replicas[r].generation = 0
    BY RelinkedFacts DEF SameIdentity, image
  <2>2. QED
    BY <2>1, RelinkedAbsent DEF image
<1>11. Rounds'
  BY <1>1, <1>5 DEF Rounds, Known
<1>12. DrainAudited'
  <2> SUFFICES ASSUME NEW r \in ReplicaId, image[r].lifecycle = "DRAINING"
               PROVE  \E i \in DOMAIN file.drains : file.drains[i] = OpenDrain(r)
    BY <1>1 DEF DrainAudited, OpenDrain
  <2>1. file.replicas[r].lifecycle = "DRAINING"
    BY RelinkedAbsent, RelinkedFacts, DefaultRecord DEF image
  <2>2. QED
    BY <2>1 DEF Saved
<1>13. Kept(MakeSnapshot)'
  <2>1. \A s \in SetId : file.sets[s].lifecycle # "ABSENT" => SetKept(file.sets[s])
    BY DEF Saved, Kept
  <2>2. QED
    BY <1>1, <1>5, <2>1 DEF Kept, MakeSnapshot
<1>14. QED
  BY <1>8, <1>9, <1>10, <1>11, <1>12, <1>13 DEF HInv, IInv

(* A process loads the file. *)
LEMMA LoadKeeps == ASSUME LInv, LoadState PROVE LInv'
<1> DEFINE image == Relinked(RecoveredReplicas(file), file.workers)
<1>1. /\ ProcessOK /\ Saved(file) /\ Decodes(file)
      /\ phase = "idle" /\ phase' = "loaded" /\ file' = file /\ command' = command /\ todo' = todo
      /\ replicas' = image /\ epoch' = RelinkedEpoch(RecoveredReplicas(file))
      /\ sets' = file.sets /\ workers' = file.workers
  BY DEF LInv, LoadState
<1>2. HInv' /\ DrainAudited' /\ Kept(MakeSnapshot)'
  BY <1>1, LoadedState
<1>3. command.op = "none" /\ todo = <<>>
  BY <1>1 DEF ProcessOK, NoCommand
<1>4. ASSUME NEW r \in ReplicaId
      PROVE  /\ file.replicas[r].generation = 0 => image[r] = NoReplica
             /\ file.replicas[r].generation # 0 =>
                   /\ image[r].generation = file.replicas[r].generation
                   /\ image[r].lifecycle = file.replicas[r].lifecycle
                   /\ image[r].warmth = "COLD"
  <2>1. CASE file.replicas[r].generation = 0
    BY <2>1, RelinkedAbsent
  <2>2. CASE file.replicas[r].generation # 0
    BY <1>1, <2>2, RelinkedFacts DEF SameIdentity
  <2>3. QED
    BY <2>1, <2>2
<1>5. ProcessOK'
  BY <1>1 DEF ProcessOK, Ordered
<1>6. LoadedIsImage'
  BY <1>1 DEF LoadedIsImage
<1> HIDE DEF image
<1>7. \A r \in ReplicaId : image[r].lifecycle # "WARMING"
  BY <1>1, <1>4, DefaultRecord DEF Saved
<1>8. EpochKept'
  BY <1>1, <1>4, DefaultRecord, RelinkedEpochIsSetups DEF EpochKept, Known
<1>9. IdleIsEmpty' /\ SetupIsFirst' /\ StartIsLate' /\ WarmingEnds'
  BY <1>1, <1>3, <1>7 DEF IdleIsEmpty, SetupIsFirst, StartIsLate, WarmingEnds
<1>10. MemoryDescends'
  BY <1>1, <1>4, DefaultRecord DEF MemoryDescends, OnSnapshot, Descends, Known
<1>11. QED
  BY <1>1, <1>2, <1>5, <1>6, <1>8, <1>9, <1>10 DEF LInv

(* Without a process there is nothing but the file. *)
LEMMA NothingLeft ==
    Init /\ phase = "idle" /\ command = NoCommand /\ todo = <<>> /\ (Decodes(file) => Saved(file)) => LInv
<1> SUFFICES ASSUME Init, phase = "idle", command = NoCommand, todo = <<>>, Decodes(file) => Saved(file)
             PROVE  LInv
  OBVIOUS
<1>1. HInv
  BY HealthInit
<1>2. \A r \in ReplicaId : replicas[r] = NoReplica
  BY DEF Init
<1>3. DrainAudited /\ WarmingEnds /\ EpochKept
  BY <1>2, DefaultRecord DEF DrainAudited, WarmingEnds, EpochKept, Known
<1>4. Kept(MakeSnapshot)
  <2>1. \A s \in SetId : sets[s].lifecycle = "ABSENT"
    BY DEF Init, NoSet
  <2>2. QED
    BY <1>2, <2>1, DefaultRecord DEF Kept, MakeSnapshot
<1>5. ProcessOK
  <2>1. todo \in Seq(AllCalls) /\ Ordered(todo)
    BY DEF Ordered
  <2>2. QED
    BY <2>1 DEF ProcessOK
<1>6. IdleIsEmpty /\ LoadedIsImage /\ SetupIsFirst /\ StartIsLate /\ MemoryDescends
  BY DEF IdleIsEmpty, LoadedIsImage, SetupIsFirst, StartIsLate, MemoryDescends, OnSnapshot
<1>7. QED
  BY <1>1, <1>3, <1>4, <1>5, <1>6 DEF LInv

(* What a process writes can be recovered. *)
LEMMA WrittenIsSaved == ASSUME LInv, phase = "saving" PROVE Saved(MakeSnapshot)
<1>1. HInv /\ DrainAudited /\ Kept(MakeSnapshot) /\ WarmingEnds /\ TypeOK
  BY DEF LInv, HInv, IInv
<1>2. MakeSnapshot \in Snapshots
  BY <1>1 DEF MakeSnapshot, Snapshots, TypeOK
<1>3. ASSUME NEW r \in ReplicaId
      PROVE  /\ replicas[r].generation = 0 => replicas[r] = NoReplica
             /\ replicas[r].generation # 0 => replicas[r].health_generation \in 1..MaxRounds \cup {1}
             /\ replicas[r].lifecycle # "WARMING"
             /\ replicas[r].lifecycle = "DRAINING" => \E i \in DOMAIN drains : drains[i] = OpenDrain(r)
  BY <1>1 DEF HInv, AbsentIsDefault, Rounds, WarmingEnds, DrainAudited, Known
<1>4. QED
  BY <1>1, <1>2, <1>3 DEF Saved, MakeSnapshot

(* The end of a process keeps the invariant, whether it writes or not. *)
LEMMA EndKeeps == ASSUME LInv, WriteAndExit \/ Die PROVE LInv'
<1>1. Decodes(file') => Saved(file')
  <2>1. CASE WriteAndExit
    BY <2>1, WrittenIsSaved DEF WriteAndExit
  <2>2. CASE Die
    BY <2>2 DEF Die, LInv
  <2>3. QED
    BY <2>1, <2>2
<1>2. ProcessGone
  BY DEF WriteAndExit, Die
<1>3. Init' /\ phase' = "idle" /\ command' = NoCommand /\ todo' = <<>>
  BY <1>2 DEF ProcessGone, Init
<1>4. (Init /\ phase = "idle" /\ command = NoCommand /\ todo = <<>> /\ (Decodes(file) => Saved(file)) => LInv)'
  BY NothingLeft, PTL
<1>5. QED
  BY <1>1, <1>3, <1>4 DEF Decodes

(* Any sequence of invocations keeps it. *)
LEMMA CommandsInductive == CLISpec => []LInv
<1>1. CLIInit => LInv
  BY NothingLeft DEF CLIInit, Decodes
<1>2. ASSUME LInv, [CLINext]_cliVars PROVE LInv'
  <2>1. CASE UNCHANGED cliVars
    <3>1. UNCHANGED <<vars, file, phase, command, todo>>
      BY <2>1 DEF cliVars, process
    <3>2. HInv' /\ DrainAudited' /\ Kept(MakeSnapshot)'
      BY <1>2, <3>1, MemoryStays DEF LInv
    <3>3. Init => Init'
      BY <3>1 DEF Init, vars
    <3>4. UNCHANGED <<replicas, sets, workers, epoch>>
      BY <3>1 DEF vars
    <3>5. ProcessOK' /\ IdleIsEmpty' /\ LoadedIsImage' /\ EpochKept'
      BY <1>2, <3>1, <3>3, <3>4 DEF LInv, ProcessOK, Ordered, IdleIsEmpty, LoadedIsImage, EpochKept, Known
    <3>6. SetupIsFirst' /\ StartIsLate' /\ WarmingEnds' /\ MemoryDescends'
      BY <1>2, <3>1, <3>4 DEF LInv, SetupIsFirst, StartIsLate, WarmingEnds, MemoryDescends, OnSnapshot, Known
    <3>7. QED
      BY <1>2, <3>1, <3>2, <3>5, <3>6 DEF LInv
  <2>2. QED
    BY <1>2, <2>1, ApplyKeeps, RefuseKeeps, BeginKeeps, StartEmptyKeeps, OpenKeeps, LoadKeeps, EndKeeps
       DEF CLINext
<1>3. QED
  BY <1>1, <1>2, PTL DEF CLISpec

-----------------------------------------------------------------------------
(* AuthorityCoherent and DrainAudited hold of every process, also of one    *)
(* that recovered a state which others wrote.                               *)
THEOREM CommandsKeepAuthority == CLISpec => [](AuthorityCoherent /\ DrainAudited)
<1>1. LInv => AuthorityCoherent /\ DrainAudited
  BY DEF LInv, HInv, IInv
<1>2. QED
  BY <1>1, CommandsInductive, PTL

(* SavedIsLoadable: whatever sequence of commands wrote a file to its end,  *)
(* validate_recovered_state accepts it.                                     *)
THEOREM SavedAlwaysLoads == CLISpec => []SavedIsLoadable
<1>1. LInv => SavedIsLoadable
  <2> SUFFICES ASSUME Saved(file) PROVE ValidRecoveredState(file)
    BY DEF LInv, SavedIsLoadable
  <2>1. ASSUME NEW r \in ReplicaId, file.replicas[r].generation # 0
        PROVE  /\ file.replicas[r].set_id # NullId
               /\ file.sets[file.replicas[r].set_id].lifecycle # "ABSENT"
    BY <2>1, SetupAssumption, IdAssumption DEF Saved, Kept, RecordKept, Populated
  <2>2. ASSUME NEW s \in SetId, file.sets[s].lifecycle # "ABSENT"
        PROVE  CountsValid(file.sets[s].cfg)
    BY <2>2 DEF Saved, Kept, SetKept
  <2>3. QED
    BY <2>1, <2>2 DEF ValidRecoveredState, CountsValid
<1>2. QED
  BY <1>1, CommandsInductive, PTL

(* NoResurrection: no command makes a replica serve in the process that     *)
(* recovered it SERVING, because nothing warms it up again.                 *)
THEOREM NothingIsResurrected == CLISpec => []NoResurrection
<1>1. LInv => NoResurrection
  <2> SUFFICES ASSUME LInv, OnSnapshot, NEW r \in ReplicaId, file.replicas[r].lifecycle = "SERVING"
               PROVE  ~Servable(r)
    BY DEF NoResurrection
  <2>1. file.replicas[r].generation # 0
    BY DefaultRecord DEF LInv, Saved, OnSnapshot
  <2>2. replicas[r].warmth # "WARM"
    BY <2>1 DEF LInv, MemoryDescends, Descends
  <2>3. QED
    BY <2>2 DEF Servable
<1>2. QED
  BY <1>1, CommandsInductive, PTL

(* EndedStaysEnded: a drain or a failure that reached the file is not       *)
(* undone by any command.                                                   *)
THEOREM EndedNeverReturns == CLISpec => []EndedStaysEnded
<1>1. LInv => EndedStaysEnded
  <2> SUFFICES ASSUME LInv, OnSnapshot, NEW r \in ReplicaId, file.replicas[r].lifecycle \in Ended
               PROVE  replicas[r].lifecycle \in Ended
    BY DEF EndedStaysEnded, Ended
  <2>1. file.replicas[r].generation # 0
    BY DefaultRecord DEF LInv, Saved, OnSnapshot, Ended, Terminated
  <2>2. QED
    BY <2>1 DEF LInv, MemoryDescends, Descends
<1>2. QED
  BY <1>1, CommandsInductive, PTL

-----------------------------------------------------------------------------
(* The promote command *)

(* The head of what is left of the script. *)
LEMMA ScriptHead ==
    ASSUME LInv, PromoteAdvances, Promotes, todo # <<>>
    PROVE  /\ Len(todo) \in 1..5
           /\ Head(todo) = Script(command)[6 - Len(todo)]
           /\ (Len(todo) = 5 => Head(todo).op = "warm") /\ (Len(todo) = 4 => Head(todo).op = "health")
           /\ (Len(todo) = 3 => Head(todo).op = "readiness") /\ (Len(todo) = 2 => Head(todo).op = "check")
           /\ (Len(todo) = 1 => Head(todo).op = "promote")
           /\ Head(todo).r = command.r /\ Head(todo).w = command.w /\ Head(todo).b = command.b
<1>1. ProcessOK
  BY DEF LInv
<1>2. Len(todo) \in 1..5 /\ Head(todo) = todo[1]
  <2>1. Len(todo) <= 5
    BY DEF PromoteAdvances
  <2>2. Head(todo) = todo[1] /\ 1 \in DOMAIN todo
    BY <1>1, NextCall
  <2>3. todo \in Seq(AllCalls)
    BY <1>1 DEF ProcessOK
  <2> HIDE DEF AllCalls
  <2>4. Len(todo) \in Nat /\ DOMAIN todo = 1..Len(todo)
    BY <2>3
  <2>5. QED
    BY <2>1, <2>2, <2>4
<1> DEFINE n == Len(todo)
<1>3. \A i \in 1..n : todo[i] = Script(command)[5 - n + i]
  BY DEF PromoteAdvances
<1> HIDE DEF n
<1>4. n \in 1..5
  BY <1>2 DEF n
<1>5. 5 - n + 1 = 6 - n /\ 6 - n \in 1..5 /\ 1 \in 1..n
  BY <1>4
<1>6. Head(todo) = Script(command)[6 - n]
  BY <1>2, <1>3, <1>5
<1>7. /\ Script(command)[1] = Call("warm", command.r, command.w, command.b)
      /\ Script(command)[2] = Call("health", command.r, command.w, command.b)
      /\ Script(command)[3] = Call("readiness", command.r, command.w, command.b)
      /\ Script(command)[4] = Call("check", command.r, command.w, command.b)
      /\ Script(command)[5] = Call("promote", command.r, command.w, command.b)
  BY DEF Script
<1>8. \A op, r, w, b : LET c == Call(op, r, w, b) IN c.op = op /\ c.r = r /\ c.w = w /\ c.b = b
  BY DEF Call
<1>9. /\ n = 5 => Head(todo) = Script(command)[1]
      /\ n = 4 => Head(todo) = Script(command)[2]
      /\ n = 3 => Head(todo) = Script(command)[3]
      /\ n = 2 => Head(todo) = Script(command)[4]
      /\ n = 1 => Head(todo) = Script(command)[5]
  BY <1>6
<1>10. n = 1 \/ n = 2 \/ n = 3 \/ n = 4 \/ n = 5
  BY <1>4
<1>11. QED
  BY <1>2, <1>6, <1>7, <1>8, <1>9, <1>10 DEF n

(* What the controller knows of the replica all along. *)
LEMMA PromotedFacts ==
    ASSUME LInv, PromoteAdvances, Promotes
    PROVE  LET r == command.r
           IN /\ r \in ReplicaId /\ Known(r) /\ replicas[r] \in Replica
              /\ RecordKept(replicas[r]) /\ replicas[r].set_id = SetupSet
              /\ sets[SetupSet].lifecycle \in Populated /\ sets[SetupSet].cfg.generation = 1
              /\ EpochCurrent(r) /\ WorkerBootMatches(r, command.w, command.b)
              /\ replicas[r].boot_id = CurrentBootFor(r)
<1>1. command.op = "promote" /\ command \in Commands \cup {NoCommand}
  BY DEF LInv, ProcessOK, Promotes, PromoteCommand
<1>2. command.r \in ReplicaId
  BY <1>1, CommandTypes
<1>3. Known(command.r) /\ WorkerBootMatches(command.r, command.w, command.b)
  BY DEF PromoteAdvances, Promotes
<1>4. /\ RecordKept(replicas[command.r]) /\ replicas[command.r].set_id = SetupSet
      /\ sets[SetupSet].lifecycle \in Populated
      /\ workers[replicas[command.r].worker_id] # Unregistered
      /\ \E n \in Sizes : sets[SetupSet].cfg = MkSet(n)
  BY <1>2, <1>3, MemberFacts DEF LInv
<1>5. sets[SetupSet].cfg.generation = 1
  BY <1>4 DEF MkSet, NoConfig
<1>6. EpochCurrent(command.r)
  BY <1>1, <1>2, <1>3, <1>4 DEF LInv, EpochKept, EpochCurrent, RecordKept
<1>7. replicas[command.r].boot_id = CurrentBootFor(command.r)
  BY <1>4 DEF PromoteAdvances, CurrentBootFor, RecordKept
<1>8. replicas[command.r] \in Replica
  BY <1>2 DEF LInv, HInv, IInv, TypeOK
<1>9. QED
  BY <1>2, <1>3, <1>4, <1>5, <1>6, <1>7, <1>8

(* No call of the script is refused. *)
LEMMA ScriptAccepted ==
    ASSUME LInv, PromoteAdvances, Promotes, todo # <<>>
    PROVE  Accepts(Head(todo))
<1> DEFINE c == Head(todo)
           r == command.r
           n == Len(todo)
<1>1. /\ n \in 1..5 /\ c.r = r /\ c.w = command.w /\ c.b = command.b
      /\ (n = 5 => c.op = "warm") /\ (n = 4 => c.op = "health")
      /\ (n = 3 => c.op = "readiness") /\ (n = 2 => c.op = "check")
      /\ (n = 1 => c.op = "promote")
  BY ScriptHead
<1>2. /\ Known(r) /\ replicas[r] \in Replica
      /\ RecordKept(replicas[r]) /\ replicas[r].set_id = SetupSet
      /\ sets[SetupSet].cfg.generation = 1
      /\ EpochCurrent(r) /\ WorkerBootMatches(r, command.w, command.b)
  BY PromotedFacts
<1>3. Progress(replicas[r], n)
  BY DEF PromoteAdvances
<1> HIDE DEF c, n
<1>4. CASE n = 5
  <2>1. replicas[r].lifecycle \in {"STARTING", "READY"} /\ c.op = "warm"
    BY <1>1, <1>3, <1>4 DEF Progress
  <2>2. CanTransition(replicas[r].lifecycle, "WARMING")
    BY <2>1 DEF CanTransition, ReplicaEdges
  <2>3. MayWarm(c.r, c.w, c.b)
    BY <1>1, <1>2, <2>2 DEF MayWarm
  <2>4. QED
    BY <2>1, <2>3 DEF Accepts, c
<1>5. CASE n \in {3, 4}
  <2>1. replicas[r].lifecycle = "WARMING" /\ c.op \in {"health", "readiness"}
    BY <1>1, <1>3, <1>5 DEF Progress
  <2>2. EvidenceAccepted(c.r, c.w, c.b)
    BY <1>1, <1>2, <2>1 DEF EvidenceAccepted, Terminated
  <2>3. QED
    BY <2>1, <2>2 DEF Accepts, c
<1>6. CASE n = 2
  <2>1. replicas[r].readiness = "READY" /\ replicas[r].health = "HEALTHY" /\ c.op = "check"
    BY <1>1, <1>3, <1>6 DEF Progress
  <2>2. QED
    BY <1>1, <2>1 DEF Accepts, IsReady, c
<1>7. CASE n = 1
  <2>1. /\ replicas[r].lifecycle = "READY" /\ replicas[r].readiness = "READY"
        /\ replicas[r].health = "HEALTHY" /\ c.op = "promote"
    BY <1>1, <1>3, <1>7 DEF Progress
  <2>2. MayPromote(c.r, c.w, c.b) /\ replicas[c.r].lifecycle \in ReadyOrServing
    BY <1>1, <1>2, <2>1 DEF MayPromote, RecordKept, ReadyOrServing
  <2>3. QED
    BY <2>1, <2>2 DEF Accepts, c
<1>8. QED
  BY <1>1, <1>4, <1>5, <1>6, <1>7

(* Each call of the script advances the replica. *)
LEMMA ScriptProgress ==
    ASSUME LInv, PromoteAdvances, Promotes, todo # <<>>, Perform(Head(todo)),
           NEW r \in ReplicaId, r = command.r
    PROVE  /\ Progress(replicas'[r], Len(todo) - 1)
           /\ Len(todo) = 1 => Servable(r)'
<1> DEFINE c == Head(todo)
           n == Len(todo)
           p == replicas[r]
           q == replicas'[r]
<1>1. /\ n \in 1..5 /\ c.r = r /\ c.w = command.w /\ c.b = command.b
      /\ (n = 5 => c.op = "warm") /\ (n = 4 => c.op = "health")
      /\ (n = 3 => c.op = "readiness") /\ (n = 2 => c.op = "check")
      /\ (n = 1 => c.op = "promote")
  BY ScriptHead
<1>2. /\ r \in ReplicaId /\ Known(r) /\ p \in Replica
      /\ RecordKept(p) /\ p.set_id = SetupSet
      /\ sets[SetupSet].lifecycle \in Populated /\ sets[SetupSet].cfg.generation = 1
      /\ EpochCurrent(r) /\ p.boot_id = CurrentBootFor(r)
  BY PromotedFacts
<1>3. Progress(p, n) /\ command.target = "PRIMARY"
  BY DEF PromoteAdvances, Promotes, PromoteCommand
<1>4. replicas \in [ReplicaId -> Replica] /\ sets \in [SetId -> SetState]
  BY DEF LInv, HInv, IInv, TypeOK, SetState
<1> SUFFICES Progress(q, n - 1) /\ (n = 1 => Servable(r)')
  OBVIOUS
<1> HIDE DEF c, n
<1>5. CASE n = 5
  <2>1. WarmReplica(r, c.w, c.b, FALSE)
    BY <1>1, <1>5 DEF Perform, c
  <2>2. q = [p EXCEPT !.lifecycle = "WARMING", !.warmth = "WARM"]
    BY <1>2, <1>4, <2>1 DEF WarmReplica
  <2>3. QED
    BY <1>2, <1>3, <1>5, <2>2 DEF Progress, Replica
<1>6. CASE n = 4
  <2>1. ReportHealth(r, c.w, c.b, p.health_generation, "HEALTHY")
    BY <1>1, <1>6 DEF Perform, c
  <2>2. q = [p EXCEPT !.health = "HEALTHY"]
    BY <1>2, <1>4, <2>1 DEF ReportHealth, StripsAuthority
  <2>3. QED
    BY <1>2, <1>3, <1>6, <2>2 DEF Progress, Replica
<1>7. CASE n = 3
  <2>1. ReportReadiness(r, c.w, c.b, TRUE)
    BY <1>1, <1>7 DEF Perform, c
  <2>2. p.lifecycle = "WARMING"
    BY <1>3, <1>7 DEF Progress
  <2>3. q = [p EXCEPT !.readiness = "READY", !.lifecycle = "READY"]
    BY <1>2, <1>4, <2>1, <2>2 DEF ReportReadiness
  <2>4. QED
    BY <1>2, <1>3, <1>7, <2>3 DEF Progress, Replica
<1>8. CASE n = 2
  <2>1. replicas' = replicas
    BY <1>1, <1>8 DEF Perform, vars, c
  <2>2. QED
    BY <1>3, <1>8, <2>1 DEF Progress
<1>9. CASE n = 1
  <2>1. PromotePrimary(r, c.w, c.b)
    BY <1>1, <1>3, <1>9 DEF Perform, PromoteOther, c
  <2>2. /\ p.lifecycle = "READY" /\ p.warmth = "WARM" /\ p.health = "HEALTHY" /\ p.readiness = "READY"
        /\ p.placement = "ASSIGNED" /\ p.set_generation = 1
    BY <1>2, <1>3, <1>9 DEF Progress, RecordKept
  <2>3. q = [Granted(p) EXCEPT !.health = "HEALTHY"]
    BY <1>2, <1>4, <2>1, <2>2 DEF PromotePrimary
  <2>4. /\ q.lifecycle = "SERVING" /\ q.promotion = "PRIMARY" /\ q.serving_eligible
        /\ q.warmth = p.warmth /\ q.health = "HEALTHY" /\ q.readiness = p.readiness
        /\ q.placement = p.placement /\ q.set_generation = p.set_generation /\ q.set_id = p.set_id
        /\ q.generation = p.generation /\ q.worker_id = p.worker_id /\ q.boot_id = p.boot_id
        /\ q.coordinator_epoch = p.coordinator_epoch
    BY <1>2, <2>3 DEF Granted, Replica
  <2>5. UNCHANGED <<workers, epoch>>
    BY <2>1 DEF PromotePrimary
  <2>6. sets'[SetupSet].lifecycle \in {"AVAILABLE", "DEGRADED"} /\ sets'[SetupSet].cfg = sets[SetupSet].cfg
    <3> DEFINE l == DerivedLifecycle(SetupSet, replicas')
    <3>1. sets' = [sets EXCEPT ![SetupSet].lifecycle = l]
      BY <1>2, <2>1 DEF PromotePrimary
    <3>2. l \in {"AVAILABLE", "DEGRADED"}
      BY <1>2, DerivedIsLive
    <3> HIDE DEF l
    <3>3. QED
      BY <1>4, <3>1, <3>2, SetupAssumption DEF SetState
  <2>7. q.boot_id = CurrentBootFor(r)'
    BY <1>2, <2>4, <2>5 DEF CurrentBootFor
  <2> HIDE DEF q
  <2>8. Servable(r)'
    BY <1>2, <2>2, <2>4, <2>5, <2>6, <2>7 DEF Servable, Known, EpochCurrent, q
  <2>9. Progress(q, 0)
    BY <2>2, <2>4 DEF Progress
  <2>10. QED
    BY <1>9, <2>8, <2>9
<1>10. QED
  BY <1>1, <1>5, <1>6, <1>7, <1>8, <1>9

(* The command starts the script on a replica as it was recovered. *)
LEMMA BeginAdvances == ASSUME LInv, NEW c \in Commands, Begin(c) PROVE PromoteAdvances'
<1> SUFFICES ASSUME Promotes' PROVE PromoteAdvances'
  BY DEF PromoteAdvances
<1>1. /\ phase = "loaded" /\ phase' = "running" /\ todo' = Calls(c) /\ command' = c
      /\ UNCHANGED vars /\ file' = file /\ ProcessOK /\ LoadedIsImage
  BY DEF LInv, Begin
<1>2. UNCHANGED <<replicas, sets, workers, epoch, promotions, drains, failover>>
  BY <1>1 DEF vars
<1>3. /\ c.op = "promote" /\ Decodes(file) /\ Known(c.r) /\ RoundsLeft
      /\ file.replicas[c.r].lifecycle \in {"STARTING", "READY"}
  BY <1>1 DEF Promotes, OnSnapshot, PromoteCommand, Begin
<1>4. c.r \in ReplicaId /\ Saved(file)
  BY <1>3, CommandTypes DEF LInv
<1>5. file.replicas[c.r].generation # 0
  BY <1>3, <1>4, DefaultRecord DEF Saved
<1>6. /\ replicas[c.r].boot_id = workers[replicas[c.r].worker_id]
      /\ replicas[c.r].lifecycle = file.replicas[c.r].lifecycle
  BY <1>1, <1>3, <1>4, <1>5, RelinkedFacts DEF LoadedIsImage, SameIdentity
<1>7. replicas[c.r].health_generation < MaxRounds
  BY <1>3, <1>4 DEF RoundsLeft
<1>8. todo' = Evidence(c.r, c.w, c.b) \o <<Call("check", c.r, c.w, c.b), Call("promote", c.r, c.w, c.b)>>
  BY <1>1, <1>3 DEF Calls
<1>9. Len(todo') = 5 /\ \A i \in 1..5 : todo'[i] = Script(c)[5 - 5 + i]
  <2>1. ASSUME NEW u, NEW v, NEW x, NEW y, NEW z
        PROVE  LET s == <<u, v, x>> \o <<y, z>>
               IN Len(s) = 5 /\ s[1] = u /\ s[2] = v /\ s[3] = x /\ s[4] = y /\ s[5] = z
    OBVIOUS
  <2>2. /\ Len(todo') = 5
        /\ todo'[1] = Script(c)[1] /\ todo'[2] = Script(c)[2] /\ todo'[3] = Script(c)[3]
        /\ todo'[4] = Script(c)[4] /\ todo'[5] = Script(c)[5]
    BY <1>8, <2>1 DEF Evidence, Script
  <2>3. \A i \in 1..5 : 5 - 5 + i = i /\ (i = 1 \/ i = 2 \/ i = 3 \/ i = 4 \/ i = 5)
    OBVIOUS
  <2>4. QED
    BY <2>2, <2>3
<1>10. Progress(replicas[c.r], 5)
  BY <1>3, <1>6, <1>7 DEF Progress
<1>11. Known(c.r)'
  BY <1>2, <1>3 DEF Known
<1>12. QED
  BY <1>1, <1>2, <1>6, <1>9, <1>10, <1>11 DEF PromoteAdvances

(* Every call of it takes the script one further. *)
LEMMA ApplyAdvances == ASSUME LInv, PromoteAdvances, Apply PROVE PromoteAdvances'
<1> SUFFICES ASSUME Promotes' PROVE PromoteAdvances'
  BY DEF PromoteAdvances
<1> DEFINE r == command.r
           n == Len(todo)
<1>1. /\ phase = "running" /\ todo # <<>> /\ Perform(Head(todo)) /\ todo' = Tail(todo)
      /\ UNCHANGED <<file, phase, command>> /\ HInv /\ ProcessOK
  BY DEF Apply, LInv
<1>2. /\ command.op = "promote" /\ command \in Commands \cup {NoCommand} /\ PromoteCommand(command)
      /\ Decodes(file) /\ file.replicas[r].lifecycle \in {"STARTING", "READY"}
      /\ replicas'[r].worker_id = command.w /\ replicas'[r].boot_id = command.b
  BY <1>1 DEF Promotes, OnSnapshot, PromoteCommand, ProcessOK, WorkerBootMatches
<1>3. r \in ReplicaId
  BY <1>2, CommandTypes
<1>4. Head(todo).op \notin {"register", "provision"}
  BY <1>1, <1>2, NextCall, CallBelongs DEF SetupOps
<1>5. SameOrigin(replicas[r], replicas'[r]) /\ workers' = workers
  BY <1>1, <1>3, <1>4, CallEvolves, CallMovesWorkers DEF Evolves
<1>6. Promotes
  BY <1>1, <1>2, <1>5 DEF Promotes, OnSnapshot, WorkerBootMatches, SameOrigin, SameIdentity
<1>7. /\ Known(r) /\ replicas[r].boot_id = workers[replicas[r].worker_id]
      /\ n <= 5 /\ \A i \in 1..n : todo[i] = Script(command)[5 - n + i]
  BY <1>6 DEF PromoteAdvances
<1>8. Progress(replicas'[r], n - 1) /\ (n = 1 => Servable(r)')
  BY <1>1, <1>3, <1>6, ScriptProgress
<1>9. /\ n \in Nat \ {0} /\ Len(todo') = n - 1
      /\ \A i \in 1..(n - 1) : todo'[i] = todo[i + 1]
  BY <1>1, Rest
<1> HIDE DEF n
<1>10. /\ Len(todo') <= 5 /\ (Len(todo') = 0 => n = 1)
       /\ \A i \in 1..Len(todo') : todo'[i] = Script(command)[5 - Len(todo') + i]
  <2>1. ASSUME NEW i \in 1..(n - 1) PROVE todo'[i] = Script(command)[5 - (n - 1) + i]
    <3>1. i + 1 \in 1..n /\ 5 - n + (i + 1) = 5 - (n - 1) + i
      BY <1>9
    <3>2. QED
      BY <1>7, <1>9, <3>1
  <2>2. QED
    BY <1>7, <1>9, <2>1
<1>11. /\ replicas'[r].boot_id = workers'[replicas'[r].worker_id]
       /\ Known(r)'
  BY <1>1, <1>5, <1>7 DEF SameOrigin, SameIdentity, Known
<1>12. /\ Progress(replicas'[r], Len(todo')) /\ (Len(todo') = 0 => Servable(r)')
  BY <1>8, <1>9, <1>10
<1>13. phase' = "running" /\ command' = command
  BY <1>1
<1>14. Servable(r)' => Servable(command.r)'
  BY <1>13
<1>15. QED
  BY <1>10, <1>11, <1>12, <1>13, <1>14 DEF PromoteAdvances

(* PromoteAdvances holds of every invocation. *)
LEMMA PromotionsAdvance == CLISpec => []PromoteAdvances
<1>1. CLIInit => PromoteAdvances
  BY DEF CLIInit, PromoteAdvances, Promotes
<1>2. ASSUME LInv, PromoteAdvances, [CLINext]_cliVars PROVE PromoteAdvances'
  <2>1. CASE UNCHANGED cliVars
    <3>1. UNCHANGED <<replicas, sets, workers, epoch, file, phase, command, todo>>
      BY <2>1 DEF cliVars, process, vars
    <3>2. QED
      BY <1>2, <3>1 DEF PromoteAdvances, Promotes, OnSnapshot, WorkerBootMatches, Known, Servable,
         EpochCurrent, CurrentBootFor
  <2>2. CASE Refuse
    <3>1. /\ UNCHANGED <<replicas, file, command>> /\ ~Accepts(Head(todo)) /\ todo # <<>>
          /\ phase = "running"
      BY <2>2 DEF Refuse, vars
    <3>2. Promotes' => Promotes
      BY <3>1 DEF Promotes, OnSnapshot, WorkerBootMatches
    <3>3. ~Promotes
      BY <1>2, <3>1, ScriptAccepted
    <3>4. QED
      BY <3>2, <3>3 DEF PromoteAdvances
  <2>3. CASE StartEmpty \/ LoadState \/ OpenForWrite \/ WriteAndExit \/ Die
    <3>1. phase' \in {"loaded", "saving", "idle"}
      BY <2>3 DEF StartEmpty, LoadState, OpenForWrite, WriteAndExit, Die, ProcessGone
    <3>2. QED
      BY <3>1 DEF PromoteAdvances, Promotes
  <2>4. QED
    BY <1>2, <2>1, <2>2, <2>3, BeginAdvances, ApplyAdvances DEF CLINext
<1>3. QED
  BY <1>1, <1>2, CommandsInductive, PTL DEF CLISpec

(* PromoteServes: relink_authority restores what a promotion of a replica   *)
(* saved STARTING or READY needs, for any identities and any history of the *)
(* file, and a replica saved in any other lifecycle is not made to serve.   *)
THEOREM PromotionServes == CLISpec => []PromoteServes
<1>1. LInv /\ PromoteAdvances => PromoteServes
  <2> SUFFICES ASSUME LInv, PromoteAdvances, OnSnapshot,
                      phase = "refused" \/ (phase = "running" /\ todo = <<>>),
                      PromoteCommand(command), WorkerBootMatches(command.r, command.w, command.b)
               PROVE  Servable(command.r) <=> file.replicas[command.r].lifecycle \in {"STARTING", "READY"}
    BY DEF PromoteServes
  <2> DEFINE r == command.r
             l == file.replicas[r].lifecycle
  <2>1. r \in ReplicaId /\ command.op = "promote" /\ Saved(file)
    BY CommandTypes DEF LInv, ProcessOK, PromoteCommand, OnSnapshot
  <2>2. CASE l \in {"STARTING", "READY"}
    <3>1. Promotes
      BY <2>2 DEF Promotes
    <3>2. phase = "running" /\ (Len(todo) = 0 => Servable(r))
      BY <3>1 DEF PromoteAdvances
    <3>3. todo = <<>> => Len(todo) = 0
      OBVIOUS
    <3>4. QED
      BY <2>2, <3>2, <3>3
  <2>3. CASE l \notin {"STARTING", "READY"}
    <3>1. CASE file.replicas[r].generation = 0
      <4>1. ~Known(r)
        BY <2>1, <3>1 DEF LInv, MemoryDescends
      <4>2. QED
        BY <2>3, <4>1 DEF Servable
    <3>2. CASE file.replicas[r].generation # 0
      <4>1. Descends(file.replicas[r], replicas[r])
        BY <2>1, <3>2 DEF LInv, MemoryDescends
      <4>2. l \in ReplicaLifecycle /\ l # "WARMING"
        BY <2>1 DEF Saved, Snapshots, Replica
      <4>3. l \in Ended \cup {"SERVING", "DECLARED", "ALLOCATING"}
        BY <2>3, <4>2 DEF ReplicaLifecycle, Ended, Terminated
      <4>4. replicas[r].lifecycle # "SERVING" \/ replicas[r].warmth # "WARM"
        BY <4>1, <4>3 DEF Descends, Ended, Terminated
      <4>5. QED
        BY <2>3, <4>4 DEF Servable
    <3>3. QED
      BY <3>1, <3>2
  <2>4. QED
    BY <2>2, <2>3
<1>2. QED
  BY <1>1, CommandsInductive, PromotionsAdvance, PTL
=============================================================================
