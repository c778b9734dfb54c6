---------------------------- MODULE CommandLine ----------------------------
(***************************************************************************)
(* rf_cli run again and again on one state file.  Every invocation is a    *)
(* process with a controller of its own: it recovers the file, relinks     *)
(* authority, runs one command - a fixed sequence of controller calls -    *)
(* and writes the file back.  It may be killed at any moment, also while   *)
(* it writes.  The variables of ReplicaSetController are the memory of the *)
(* process that is running.                                                *)
(*                                                                         *)
(* rf_cli seeds both of its generators with constants, so `setup' draws    *)
(* the same set, replica, worker and boot identities every time.  A        *)
(* command reads the file it writes (--state and --save name one file) and *)
(* starts from an empty controller only where there is no file.            *)
(***************************************************************************)
EXTENDS Persistence, Integers

CONSTANTS
    SetupSet,       \* the set id `setup' draws
    HostOf,         \* the worker `setup' draws for each replica
    BootOf,         \* and the boot id of that worker
    SetupEpoch,     \* the epoch `setup' draws
    CreateEpoch,    \* the epoch `create-set' draws
    Sizes,          \* values of the `max' argument, a signed int
    UintRange       \* how many values a uint32_t has

(* mk_set casts the argument: a negative one becomes a very large count. *)
MkSet(size) ==
    [NoConfig EXCEPT !.generation = 1, !.desired_count = size % UintRange,
                     !.max_replicas = size % UintRange]

(* `setup' provisions at most two replicas and no other command provisions. *)
(* What the commands call the controller with is among its inputs.          *)
ASSUME SetupAssumption ==
    /\ ReplicaId = {1, 2}
    /\ SetupSet \in SetId
    /\ HostOf \in [ReplicaId -> WorkerId]
    /\ BootOf \in [WorkerId -> BootId]
    /\ {SetupEpoch, CreateEpoch} \subseteq Epoch
    /\ Sizes \subseteq Int /\ UintRange \in Nat \ {0}
    /\ \A n \in Sizes : MkSet(n) \in SetConfigs
    /\ TRUE \in Compat /\ 1 \in Capacities /\ TRUE \in Placed /\ FALSE \in PartialWarm
    /\ "HEALTHY" \in HealthReports /\ TRUE \in AllFactorsSet
    /\ MaxRounds # 0

VARIABLES
    file,       \* the state file
    phase,      \* what the process is doing; "idle": no process
    command,    \* the command of the process
    todo        \* the controller calls the command has still to make

process == <<phase, command, todo>>
cliVars == <<vars, file, process>>

NoCommand == [op |-> "none"]

CLIInit ==
    /\ Init
    /\ file = NoFile
    /\ phase = "idle" /\ command = NoCommand /\ todo = <<>>

-----------------------------------------------------------------------------
(* load_state *)

(* Mutant: the epoch is left null. *)
RelinkedEpoch_Null(reps) == NullId

(* relink_authority: the epoch of the first replica, in the order of ids *)
RelinkedEpoch(reps) ==
    LET known == {r \in ReplicaId : reps[r].generation # 0}
    IN IF known = {} THEN NullId
       ELSE reps[CHOOSE r \in known : \A q \in known : r <= q].coordinator_epoch

(* relink_authority: every replica is given the boot of its worker *)
Relinked(reps, registered) ==
    [r \in ReplicaId |->
        LET w == reps[r].worker_id
        IN IF w \in WorkerId /\ registered[w] # Unregistered
           THEN [reps[r] EXCEPT !.boot_id = registered[w]] ELSE reps[r]]

StartEmpty ==
    /\ phase = "idle"
    /\ file = NoFile
    /\ phase' = "loaded"
    /\ UNCHANGED <<vars, file, command, todo>>

LoadState ==
    /\ phase = "idle"
    /\ Decodes(file) /\ ValidRecoveredState(file)
    /\ replicas' = Relinked(RecoveredReplicas(file), file.workers)
    /\ epoch' = RelinkedEpoch(RecoveredReplicas(file))
    /\ sets' = file.sets /\ workers' = file.workers
    /\ promotions' = file.promotions /\ drains' = file.drains /\ failover' = file.failover
    /\ phase' = "loaded"
    /\ UNCHANGED <<file, command, todo>>

-----------------------------------------------------------------------------
(* The commands, as the controller calls they make *)

Call(op, r, w, b) == [op |-> op, r |-> r, w |-> w, b |-> b]
Create(s, size, e) == [op |-> "create", s |-> s, size |-> size, epoch |-> e]

(* setup_replica: a fresh worker, and a replica on it that is left STARTING *)
SetupReplica(r) ==
    LET w == HostOf[r]
        b == BootOf[w]
    IN <<Call("register", r, w, b), Call("provision", r, w, b),
         Call("allocate", r, w, b), Call("start", r, w, b)>>

(* The evidence ensure_ready and the warm command give.  After a load no    *)
(* replica is HEALTHY, so ensure_ready never finds it can skip this.        *)
Evidence(r, w, b) ==
    <<Call("warm", r, w, b), Call("health", r, w, b), Call("readiness", r, w, b)>>

(* The failover command makes the other members of the set ready. *)
Standin(r, s, failed) ==
    LET w == replicas[r].worker_id
    IN IF r \in MembersOf(s) \ {failed} /\ workers[w] # Unregistered
       THEN Evidence(r, w, workers[w]) ELSE <<>>

Calls(c) ==
    CASE c.op = "create-set" -> <<Create(c.s, c.size, CreateEpoch)>>
      \* the replicas are counted with the signed argument
      [] c.op = "setup" ->
            <<Create(SetupSet, c.size, SetupEpoch)>>
            \o (IF c.size < 1 THEN <<>> ELSE SetupReplica(1))
            \o (IF c.size < 2 THEN <<>> ELSE SetupReplica(2))
      [] c.op = "warm" -> Evidence(c.r, c.w, c.b)
      [] c.op = "promote" ->
            Evidence(c.r, c.w, c.b) \o <<Call("check", c.r, c.w, c.b), Call("promote", c.r, c.w, c.b)>>
      [] c.op = "drain" -> <<Call("drain", c.r, c.w, c.b)>>
      [] c.op = "failover" ->
            Standin(1, c.s, c.r) \o Standin(2, c.s, c.r)
            \o <<Call("failover", c.r, replicas[c.r].worker_id, replicas[c.r].boot_id)>>
      [] OTHER -> <<>>

(* Bound: a promotion or failover starts a round only below MaxRounds. *)
RoundsLeft == \A r \in ReplicaId : replicas[r].health_generation < MaxRounds

(* snapshot-save: no call at all, the recovered state is written back *)
SnapshotSave == [op |-> "snapshot-save"]

Commands ==
    [op : {"create-set"}, s : SetId, size : Sizes]
    \cup [op : {"setup"}, size : Sizes]
    \cup [op : {"warm", "drain"}, r : ReplicaId, w : WorkerId, b : BootId]
    \cup [op : {"promote"}, r : ReplicaId, w : WorkerId, b : BootId, target : Targets]
    \cup [op : {"failover"}, s : SetId, r : ReplicaId]
    \cup {SnapshotSave}

(* warm and promote end at once, without saving, if the replica is unknown. *)
Begin(c) ==
    /\ phase = "loaded"
    /\ c.op \in {"warm", "promote"} => Known(c.r)
    /\ c.op \in {"promote", "failover"} => RoundsLeft
    /\ command' = c
    /\ todo' = Calls(c)
    /\ phase' = "running"
    /\ UNCHANGED <<vars, file>>

-----------------------------------------------------------------------------
(* One controller call *)

Failover(s, failed) ==
    \/ \E chosen \in ReplicaId : TriggerFailover(s, failed, chosen)
    \/ TriggerFailoverRejected(s, failed)

(* What ensure_ready looks at when it has given its evidence *)
IsReady(r) == replicas[r].readiness = "READY" /\ replicas[r].health = "HEALTHY"

Perform(c) ==
    \/ c.op = "create" /\ CreateReplicaSet(c.s, MkSet(c.size), c.epoch)
    \/ c.op = "register" /\ RegisterWorker(c.w, c.b)
    \/ c.op = "provision" /\ ProvisionReplica(c.r, SetupSet, c.w, TRUE, 1)
    \/ c.op = "allocate" /\ SetAllocating(c.r, TRUE)
    \/ c.op = "start" /\ SetStarting(c.r)
    \/ c.op = "warm" /\ WarmReplica(c.r, c.w, c.b, FALSE)
    \/ c.op = "health" /\ ReportHealth(c.r, c.w, c.b, replicas[c.r].health_generation, "HEALTHY")
    \/ c.op = "readiness" /\ ReportReadiness(c.r, c.w, c.b, TRUE)
    \/ c.op = "check" /\ IsReady(c.r) /\ UNCHANGED vars
    \/ c.op = "promote" /\ command.target = "PRIMARY" /\ PromotePrimary(c.r, c.w, c.b)
    \/ c.op = "promote" /\ PromoteOther(c.r, c.w, c.b, command.target)
    \/ c.op = "drain" /\ DrainReplica(c.r, c.w, c.b)
    \/ c.op = "failover" /\ Failover(command.s, c.r)

(* The conditions under which the call is not refused. *)
Accepts(c) ==
    CASE c.op = "create" -> ~KnownSet(c.s) /\ CountsValid(MkSet(c.size))
      [] c.op = "provision" -> Provisionable(SetupSet) /\ workers[c.w] # Unregistered
      [] c.op = "allocate" -> MayEnter(c.r, "ALLOCATING")
      [] c.op = "start" -> MayEnter(c.r, "STARTING")
      [] c.op = "warm" -> MayWarm(c.r, c.w, c.b)
      [] c.op \in {"health", "readiness"} -> EvidenceAccepted(c.r, c.w, c.b)
      [] c.op = "check" -> IsReady(c.r)
      [] c.op = "promote" ->
            /\ MayPromote(c.r, c.w, c.b)
            /\ command.target = "PRIMARY" => replicas[c.r].lifecycle \in ReadyOrServing
      [] c.op = "drain" -> MayDrain(c.r, c.w, c.b)
      [] c.op = "failover" ->
            KnownSet(command.s) /\ Known(c.r) /\ replicas[c.r].set_id = command.s
      [] OTHER -> TRUE

(* The calls whose refusal ends the process without saving. *)
Required(c) == c.op = "check" \/ (c.op = "create" /\ command.op = "setup")

Apply ==
    /\ phase = "running" /\ todo # <<>>
    /\ Perform(Head(todo))
    /\ todo' = Tail(todo)
    /\ UNCHANGED <<file, phase, command>>

(* The controller refuses the call and changes nothing. *)
Refuse ==
    /\ phase = "running" /\ todo # <<>>
    /\ ~Accepts(Head(todo))
    /\ todo' = Tail(todo)
    /\ phase' = IF Required(Head(todo)) THEN "refused" ELSE "running"
    /\ UNCHANGED <<vars, file, command>>

-----------------------------------------------------------------------------
(* save_state, and the end of the process *)

ProcessGone ==
    /\ replicas' = [r \in ReplicaId |-> NoReplica]
    /\ sets' = [s \in SetId |-> NoSet]
    /\ workers' = [w \in WorkerId |-> Unregistered]
    /\ epoch' = NullId
    /\ promotions' = [r \in ReplicaId |-> NoPromotion]
    /\ drains' = <<>>
    /\ failover' = NullId
    /\ phase' = "idle" /\ command' = NoCommand /\ todo' = <<>>

(* fopen with "wb" truncates the file before anything is written *)
OpenForWrite ==
    /\ phase = "running" /\ todo = <<>>
    /\ file' = Torn
    /\ phase' = "saving"
    /\ UNCHANGED <<vars, command, todo>>

WriteAndExit ==
    /\ phase = "saving"
    /\ file' = MakeSnapshot
    /\ ProcessGone

(* A command that does not save ends, or the process is killed. *)
Die ==
    /\ phase # "idle"
    /\ ProcessGone
    /\ UNCHANGED file

CLINext ==
    \/ StartEmpty
    \/ LoadState
    \/ \E c \in Commands : Begin(c)
    \/ Apply
    \/ Refuse
    \/ OpenForWrite
    \/ WriteAndExit
    \/ Die

CLISpec == CLIInit /\ [][CLINext]_cliVars

-----------------------------------------------------------------------------
(* Properties *)

(* The process works on a snapshot it has loaded; the file still holds it. *)
OnSnapshot == phase \in {"loaded", "running", "refused"} /\ Decodes(file)

(* Whatever sequence of commands wrote it, a file that was written to its   *)
(* end is accepted by validate_recovered_state: what create_replica_set and *)
(* provision_replica let in is what recovery lets in.                       *)
SavedIsLoadable == Decodes(file) => ValidRecoveredState(file)

(* README.md: "Recovery never resurrects stale serving authority".  A       *)
(* replica that was SERVING in the file does not pass the gate in the       *)
(* process that recovered it, even after the command gave it fresh evidence *)
(* and a promotion or a failover chose it.                                  *)
NoResurrection ==
    OnSnapshot => \A r \in ReplicaId :
        file.replicas[r].lifecycle = "SERVING" => ~Servable(r)

(* A drain or a failure that reached the file is never undone: the process  *)
(* that recovers it holds the replica in an ended lifecycle until it writes *)
(* the file again (README.md: "A drained replica does not silently become   *)
(* serving again").                                                         *)
EndedStaysEnded ==
    OnSnapshot => \A r \in ReplicaId :
        file.replicas[r].lifecycle \in Terminated \cup {"DRAINING"}
            => replicas[r].lifecycle \in Terminated \cup {"DRAINING"}

PromoteCommand(c) == c.op = "promote" /\ c.target = "PRIMARY"

(* What relink_authority makes of the next invocation: a promote command    *)
(* that names the worker and the boot of its replica makes it pass the gate *)
(* if and only if the replica was saved STARTING or READY, and the command  *)
(* does not end early on such a replica.  This says what rf_cli does, under *)
(* the saved epoch; the documents ask for a fresh one (below).              *)
PromoteServes ==
    /\ OnSnapshot
    /\ phase = "refused" \/ (phase = "running" /\ todo = <<>>)
    /\ PromoteCommand(command) /\ WorkerBootMatches(command.r, command.w, command.b)
    => (Servable(command.r) <=> file.replicas[command.r].lifecycle \in {"STARTING", "READY"})

-----------------------------------------------------------------------------
(* What documents say of recovery and the code of rf_cli does not keep.     *)

(* README.md:116: after recovery "live workers must re-establish a current  *)
(* boot identity (and the coordinator a fresh epoch) before any replica     *)
(* serves again".  A replica that passes the gate in a process that         *)
(* recovered a file does so under an epoch that no replica of the file was  *)
(* given.  relink_authority takes the epoch of the first replica.           *)
ServesUnderFreshEpoch ==
    OnSnapshot => \A r, q \in ReplicaId :
        Servable(r) /\ file.replicas[q].generation # 0
            => epoch # file.replicas[q].coordinator_epoch
=============================================================================
