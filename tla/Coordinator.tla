----------------------------- MODULE Coordinator -----------------------------
(***************************************************************************)
(* rf_coordinator and the rf_worker processes that connect to it, over the *)
(* controller.  The coordinator has one thread per connection.  The        *)
(* controller's mutex covers a single call, so every call a thread makes   *)
(* is a step of its own, and so is every use of worker_conns.              *)
(*                                                                         *)
(* A worker process opens one connection in its life, so processes and     *)
(* their connections share one name.  TCP is a pair of FIFO channels; a    *)
(* process that dies takes what it had not delivered with it.  The         *)
(* coordinator keeps everything in memory and is not restarted here.       *)
(*                                                                         *)
(* Clients speak to control threads, one at a time and in order, so a      *)
(* client and its thread are one process.  A request that the controller   *)
(* refuses at once changes nothing and is not written down, nor are QUERY  *)
(* and the acknowledgements.  A replica and the process that hosts it are  *)
(* matched by worker and boot id; the epoch, sequence and attempt fields   *)
(* of a message are never read and are left out.                           *)
(***************************************************************************)
EXTENDS ReplicaSetController

CONSTANTS
    Conn,           \* worker processes, each with its one connection
    WorkerOf,       \* the --worker each was started with
    BootOf,         \* the --boot each was started with
    NoConn,         \* worker_conns has no entry
    Client,         \* control clients
    ProcessEpoch,   \* the epoch the coordinator draws when it starts
    Counts,         \* desired, min and max of the sets clients create
    Ops,            \* the single-replica commands clients send
    MaxQueue        \* bound: messages in flight when work is forwarded

(* build_set: the counts come from the request, every policy is the default *)
BuildSet(n) ==
    [NoConfig EXCEPT !.generation = 1, !.desired_count = n[1],
                     !.min_healthy = n[2], !.max_replicas = n[3]]

ASSUME CoordinatorAssumption ==
    /\ WorkerOf \in [Conn -> WorkerId]
    /\ BootOf \in [Conn -> BootId]
    /\ \A c, d \in Conn : BootOf[c] = BootOf[d] => c = d
    /\ \A c \in Conn : BootOf[c] # NullId
    /\ NoConn \notin Conn
    /\ ProcessEpoch \in Epoch
    /\ \A n \in Counts : BuildSet(n) \in SetConfigs
    /\ Ops \subseteq Targets \cup {"DRAIN"}
    /\ MaxRounds # 0 /\ "HEALTHY" \in HealthReports
    /\ TRUE \in AllFactorsSet /\ TRUE \in Placed /\ FALSE \in PartialWarm

VARIABLES
    proc,        \* the worker processes
    thread,      \* where the coordinator's thread of each connection is
    evidence,    \* the health evidence a thread is about to report
    up, down,    \* messages to the coordinator, and to the worker
    conns,       \* worker_conns
    job,         \* what each control thread has still to do
    results      \* stash_result: the boot that computed the last result

netvars == <<proc, thread, evidence, up, down, conns, job, results>>
cvars == <<vars, netvars>>

Msg(kind, r) == [kind |-> kind, replica |-> r]

NoEvidence == [replica |-> NullId, incarnation |-> 0, generation |-> 0]

Idle == [step |-> "IDLE", op |-> "NONE", replica |-> NullId, worker |-> NullId, boot |-> NullId]

CoordInit ==
    /\ Init
    /\ proc = [c \in Conn |-> "OFF"]
    /\ thread = [c \in Conn |-> "FIRST"]
    /\ evidence = [c \in Conn |-> NoEvidence]
    /\ up = [c \in Conn |-> <<>>]
    /\ down = [c \in Conn |-> <<>>]
    /\ conns = [w \in WorkerId |-> NoConn]
    /\ job = [k \in Client |-> Idle]
    /\ results = [r \in ReplicaId |-> NullId]

(* write_frame on a connection whose peer has died is lost *)
Written(c, m) == IF proc[c] = "GONE" THEN down ELSE [down EXCEPT ![c] = Append(@, m)]

(* send_to_worker: whichever connection is listed, if any *)
SentTo(w, m) == IF conns[w] = NoConn THEN down ELSE Written(conns[w], m)

-----------------------------------------------------------------------------
(* The worker process *)

Connect(c) ==
    /\ proc[c] = "OFF"
    /\ proc' = [proc EXCEPT ![c] = "REGISTERING"]
    /\ up' = [up EXCEPT ![c] = Append(@, Msg("REGISTER", NullId))]
    /\ UNCHANGED <<vars, thread, evidence, down, conns, job, results>>

(* The first frame decides; anything but the acknowledgement ends the process. *)
Handshake(c) ==
    /\ proc[c] = "REGISTERING"
    /\ down[c] # <<>>
    /\ IF Head(down[c]).kind = "REGISTER_ACK"
       THEN /\ proc' = [proc EXCEPT ![c] = "RUNNING"]
            /\ down' = [down EXCEPT ![c] = Tail(@)]
       ELSE /\ proc' = [proc EXCEPT ![c] = "GONE"]
            /\ down' = [down EXCEPT ![c] = <<>>]
    /\ UNCHANGED <<vars, thread, evidence, up, conns, job, results>>

(* Mutant: the warm-up is reported, readiness is not. *)
Replies_NoReadiness(m) ==
    CASE m.kind = "WARM" -> <<Msg("WARM_DONE", m.replica), Msg("HEALTH", m.replica)>>
      [] m.kind = "EXECUTE" -> <<Msg("EXECUTE_RESULT", m.replica)>>
      [] OTHER -> <<>>

(* What the worker writes for each frame it reads. *)
Replies(m) ==
    CASE m.kind = "WARM" ->
           <<Msg("WARM_DONE", m.replica), Msg("HEALTH", m.replica), Msg("READINESS", m.replica)>>
      [] m.kind = "EXECUTE" -> <<Msg("EXECUTE_RESULT", m.replica)>>
      [] OTHER -> <<>>

Serve(c) ==
    /\ proc[c] = "RUNNING"
    /\ down[c] # <<>>
    /\ up' = [up EXCEPT ![c] = @ \o Replies(Head(down[c]))]
    /\ down' = [down EXCEPT ![c] = Tail(@)]
    /\ UNCHANGED <<vars, proc, thread, evidence, conns, job, results>>

(* The process is killed; the last messages it wrote may not arrive. *)
Crash(c) ==
    /\ proc[c] \in {"REGISTERING", "RUNNING"}
    /\ proc' = [proc EXCEPT ![c] = "GONE"]
    /\ down' = [down EXCEPT ![c] = <<>>]
    /\ \E n \in 0..Len(up[c]) : up' = [up EXCEPT ![c] = SubSeq(@, 1, n)]
    /\ UNCHANGED <<vars, thread, evidence, conns, job, results>>

-----------------------------------------------------------------------------
(* The coordinator's thread of a connection *)

Reads(c, kind) == up[c] # <<>> /\ Head(up[c]).kind = kind
Consumed(c) == [up EXCEPT ![c] = Tail(@)]
At(c, from, to) == thread[c] = from /\ thread' = [thread EXCEPT ![c] = to]

(* register_worker, then the entry in worker_conns, then the acknowledgement *)
Register(c) ==
    /\ At(c, "FIRST", "REGISTERED")
    /\ Reads(c, "REGISTER")
    /\ RegisterWorker(WorkerOf[c], BootOf[c])
    /\ up' = Consumed(c)
    /\ UNCHANGED <<proc, evidence, down, conns, job, results>>

List(c) ==
    /\ At(c, "REGISTERED", "LISTED")
    /\ conns' = [conns EXCEPT ![WorkerOf[c]] = c]
    /\ UNCHANGED <<vars, proc, evidence, up, down, job, results>>

Acknowledge(c) ==
    /\ At(c, "LISTED", "READING")
    /\ down' = Written(c, Msg("REGISTER_ACK", NullId))
    /\ UNCHANGED <<vars, proc, evidence, up, conns, job, results>>

WarmDone(c) ==
    /\ thread[c] = "READING"
    /\ Reads(c, "WARM_DONE")
    /\ LET r == Head(up[c]).replica
       IN IF MayWarm(r, WorkerOf[c], BootOf[c])
          THEN WarmReplica(r, WorkerOf[c], BootOf[c], FALSE)
          ELSE UNCHANGED vars
    /\ up' = Consumed(c)
    /\ UNCHANGED <<proc, thread, evidence, down, conns, job, results>>

(* The health generation is drawn at random for each incarnation, so two    *)
(* incarnations never share one.                                            *)
Dated(r) ==
    [ replica |-> r, incarnation |-> replicas[r].generation,
      generation |-> replicas[r].health_generation ]

(* The evidence is dated with the health generation of the moment it is     *)
(* handled, read through find_replica; the report is a second call.         *)
DateEvidence(c) ==
    /\ At(c, "READING", "DATED")
    /\ Reads(c, "HEALTH")
    /\ evidence' = [evidence EXCEPT ![c] = Dated(Head(up[c]).replica)]
    /\ up' = Consumed(c)
    /\ UNCHANGED <<vars, proc, down, conns, job, results>>

Health(c) ==
    /\ At(c, "DATED", "READING")
    /\ LET r == evidence[c].replica
       IN IF EvidenceAccepted(r, WorkerOf[c], BootOf[c]) /\ evidence[c] = Dated(r)
          THEN ReportHealth(r, WorkerOf[c], BootOf[c], evidence[c].generation, "HEALTHY")
          ELSE UNCHANGED vars
    /\ evidence' = [evidence EXCEPT ![c] = NoEvidence]
    /\ UNCHANGED <<proc, up, down, conns, job, results>>

Readiness(c) ==
    /\ thread[c] = "READING"
    /\ Reads(c, "READINESS")
    /\ LET r == Head(up[c]).replica
       IN IF EvidenceAccepted(r, WorkerOf[c], BootOf[c])
          THEN ReportReadiness(r, WorkerOf[c], BootOf[c], TRUE)
          ELSE UNCHANGED vars
    /\ up' = Consumed(c)
    /\ UNCHANGED <<proc, thread, evidence, down, conns, job, results>>

(* Mutant: only the first result of a replica is kept. *)
Stashed_Once(r, b) == IF results[r] = NullId THEN [results EXCEPT ![r] = b] ELSE results

Stashed(r, b) == [results EXCEPT ![r] = b]

(* The case falls through to PING's: the worker is also sent a PONG. *)
ExecuteResult(c) ==
    /\ thread[c] = "READING"
    /\ Reads(c, "EXECUTE_RESULT")
    /\ results' = Stashed(Head(up[c]).replica, BootOf[c])
    /\ down' = Written(c, Msg("PONG", NullId))
    /\ up' = Consumed(c)
    /\ UNCHANGED <<vars, proc, thread, evidence, conns, job>>

(* Mutant: once the worker has registered, a closed connection is taken for *)
(* a quiet one.                                                             *)
Eof_Quiet(c) == proc[c] = "GONE" /\ up[c] = <<>> /\ thread[c] = "FIRST"

(* read_frame fails when the peer has closed and everything is read *)
Eof(c) == proc[c] = "GONE" /\ up[c] = <<>>

(* A connection that closes before its first frame leaves nothing behind. *)
NeverRegistered(c) ==
    /\ At(c, "FIRST", "ENDED")
    /\ Eof(c)
    /\ UNCHANGED <<vars, proc, evidence, up, down, conns, job, results>>

(* Mutant: the worker is left registered when its connection closes. *)
LeaveWorker_Registered(w) == UNCHANGED vars

(* unregister_worker goes by the worker id, whoever is registered under it. *)
LeaveWorker(w) == IF workers[w] # Unregistered THEN UnregisterWorker(w) ELSE UNCHANGED vars

Unregister(c) ==
    /\ At(c, "READING", "UNREGISTERED")
    /\ Eof(c)
    /\ LeaveWorker(WorkerOf[c])
    /\ UNCHANGED <<proc, evidence, up, down, conns, job, results>>

(* Mutant: the entry stays. *)
Unlisted_Kept(w) == conns

(* worker_conns.erase goes by the worker id, whichever connection it holds. *)
Unlisted(w) == [conns EXCEPT ![w] = NoConn]

Erase(c) ==
    /\ At(c, "UNREGISTERED", "ENDED")
    /\ conns' = Unlisted(WorkerOf[c])
    /\ UNCHANGED <<vars, proc, evidence, up, down, job, results>>

-----------------------------------------------------------------------------
(* Control threads: handle_control *)

Waits(k, step) == job[k].step = step
Then(k, step) == job' = [job EXCEPT ![k].step = step]
Done(k) == job' = [job EXCEPT ![k] = Idle]

CreateSet(k, s, n) ==
    /\ Waits(k, "IDLE")
    /\ CreateReplicaSet(s, BuildSet(n), ProcessEpoch)
    /\ UNCHANGED netvars

(* PROVISION: four calls; the replica has been acknowledged after the first *)
Provision(k, r, s, w, compatible, capacity) ==
    /\ Waits(k, "IDLE")
    /\ ProvisionReplica(r, s, w, compatible, capacity)
    /\ job' = [job EXCEPT ![k] = [Idle EXCEPT !.step = "ALLOCATE", !.op = "PROVISION",
                                             !.replica = r, !.worker = w]]
    /\ UNCHANGED <<proc, thread, evidence, up, down, conns, results>>

(* Mutant: the thread gives up when the worker has gone in the meantime. *)
Allocate_GivesUp(k) ==
    /\ Waits(k, "ALLOCATE")
    /\ IF workers[job[k].worker] # Unregistered /\ MayEnter(job[k].replica, "ALLOCATING")
       THEN SetAllocating(job[k].replica, TRUE) /\ Then(k, "START")
       ELSE UNCHANGED vars /\ Done(k)
    /\ UNCHANGED <<proc, thread, evidence, up, down, conns, results>>

Allocate(k) ==
    /\ Waits(k, "ALLOCATE")
    /\ IF MayEnter(job[k].replica, "ALLOCATING") THEN SetAllocating(job[k].replica, TRUE) ELSE UNCHANGED vars
    /\ Then(k, "START")
    /\ UNCHANGED <<proc, thread, evidence, up, down, conns, results>>

Start(k) ==
    /\ Waits(k, "START")
    /\ IF MayEnter(job[k].replica, "STARTING") THEN SetStarting(job[k].replica) ELSE UNCHANGED vars
    /\ Then(k, "WARM")
    /\ UNCHANGED <<proc, thread, evidence, up, down, conns, results>>

(* The result of send_to_worker is not looked at. *)
SendWarm(k) ==
    /\ Waits(k, "WARM")
    /\ down' = SentTo(job[k].worker, Msg("WARM", job[k].replica))
    /\ Done(k)
    /\ UNCHANGED <<vars, proc, thread, evidence, up, conns, results>>

(* PROMOTE and DRAIN: the worker is read from the replica, then the boot    *)
(* from the worker's registration, and with both the controller is called.  *)
LookUpWorker(k, op, r) ==
    /\ Waits(k, "IDLE")
    /\ Known(r)
    /\ job' = [job EXCEPT ![k] = [Idle EXCEPT !.step = "BOOT", !.op = op, !.replica = r,
                                             !.worker = replicas[r].worker_id]]
    /\ UNCHANGED <<vars, proc, thread, evidence, up, down, conns, results>>

(* For a replica the controller does not know, the message's own worker and *)
(* boot are taken, and the controller is called all the same: by then       *)
(* another thread may have provisioned the replica.                         *)
TakeAddress(k, op, r, w, b) ==
    /\ Waits(k, "IDLE")
    /\ ~Known(r)
    /\ job' = [job EXCEPT ![k] = [step |-> "CALL", op |-> op, replica |-> r, worker |-> w, boot |-> b]]
    /\ UNCHANGED <<vars, proc, thread, evidence, up, down, conns, results>>

(* Mutant: a worker that has gone is not provided for. *)
RegisteredBoot_Raw(r) == workers[replicas[r].worker_id]

RegisteredBoot(r) == CurrentBootFor(r)

LookUpBoot(k) ==
    /\ Waits(k, "BOOT")
    /\ job' = [job EXCEPT ![k].step = "CALL", ![k].boot = RegisteredBoot(job[k].replica)]
    /\ UNCHANGED <<vars, proc, thread, evidence, up, down, conns, results>>

MayPromotePrimary(r, w, b) ==
    /\ MayPromote(r, w, b)
    /\ replicas[r].lifecycle \in ReadyOrServing
    /\ replicas[r].health_generation < MaxRounds

CallController(k) ==
    LET r == job[k].replica
        w == job[k].worker
        b == job[k].boot
        op == job[k].op
    IN /\ Waits(k, "CALL")
       /\ IF op = "DRAIN" /\ MayDrain(r, w, b) THEN DrainReplica(r, w, b)
          ELSE IF op = "PRIMARY" /\ MayPromotePrimary(r, w, b) THEN PromotePrimary(r, w, b)
          ELSE IF op \notin {"DRAIN", "PRIMARY"} /\ MayPromote(r, w, b) THEN PromoteOther(r, w, b, op)
          ELSE UNCHANGED vars
       /\ Done(k)
       /\ UNCHANGED <<proc, thread, evidence, up, down, conns, results>>

Failover(k, s, failed) ==
    /\ Waits(k, "IDLE")
    /\ \/ \E chosen \in ReplicaId : TriggerFailover(s, failed, chosen)
       \/ TriggerFailoverRejected(s, failed)
    /\ UNCHANGED netvars

Queued(w) == IF conns[w] = NoConn THEN 0 ELSE Len(down[conns[w]]) + Len(up[conns[w]])

(* EXECUTE is forwarded for any known replica: the gate is not asked.  The  *)
(* worker is read from the replica, and the message goes to whichever       *)
(* connection that worker has when it is sent.                              *)
Execute(k, r) ==
    /\ Waits(k, "IDLE")
    /\ Known(r)
    /\ Queued(replicas[r].worker_id) < MaxQueue
    /\ job' = [job EXCEPT ![k] = [Idle EXCEPT !.step = "FORWARD", !.op = "EXECUTE", !.replica = r,
                                             !.worker = replicas[r].worker_id]]
    /\ UNCHANGED <<vars, proc, thread, evidence, up, down, conns, results>>

Forward(k) ==
    /\ Waits(k, "FORWARD")
    /\ down' = SentTo(job[k].worker, Msg("EXECUTE", job[k].replica))
    /\ Done(k)
    /\ UNCHANGED <<vars, proc, thread, evidence, up, conns, results>>

-----------------------------------------------------------------------------
WorkerProcess(c) == Handshake(c) \/ Serve(c)

ConnectionThread(c) ==
    \/ Register(c) \/ List(c) \/ Acknowledge(c)
    \/ WarmDone(c) \/ DateEvidence(c) \/ Health(c) \/ Readiness(c) \/ ExecuteResult(c)
    \/ NeverRegistered(c) \/ Unregister(c) \/ Erase(c)

ControlThread(k) ==
    Allocate(k) \/ Start(k) \/ SendWarm(k) \/ LookUpBoot(k) \/ CallController(k) \/ Forward(k)

Request(k) ==
    \/ \E s \in SetId, n \in Counts : CreateSet(k, s, n)
    \/ \E r \in ReplicaId, s \in SetId, w \in WorkerId, compatible \in Compat, capacity \in Capacities :
          Provision(k, r, s, w, compatible, capacity)
    \/ \E op \in Ops, r \in ReplicaId : LookUpWorker(k, op, r)
    \/ \E op \in Ops, r \in ReplicaId, w \in WorkerId, b \in BootId \cup {NullId} : TakeAddress(k, op, r, w, b)
    \/ \E s \in SetId, failed \in ReplicaId : Failover(k, s, failed)
    \/ \E r \in ReplicaId : Execute(k, r)

CoordNext ==
    \/ \E c \in Conn : Connect(c) \/ Crash(c) \/ WorkerProcess(c) \/ ConnectionThread(c)
    \/ \E k \in Client : ControlThread(k) \/ Request(k)

(* Threads that can run do run, and so do worker processes until they die.  *)
(* No one has to start a process, kill one or send a request.               *)
Fairness ==
    /\ \A c \in Conn : WF_cvars(WorkerProcess(c)) /\ WF_cvars(ConnectionThread(c))
    /\ \A k \in Client : WF_cvars(ControlThread(k))

CoordSpec == CoordInit /\ [][CoordNext]_cvars

FairCoordSpec == CoordSpec /\ Fairness
-----------------------------------------------------------------------------
(* Properties: type correctness *)

Upward == [kind : {"REGISTER"}, replica : {NullId}]
          \cup [kind : {"WARM_DONE", "HEALTH", "READINESS", "EXECUTE_RESULT"}, replica : ReplicaId]

Downward == [kind : {"REGISTER_ACK", "PONG"}, replica : {NullId}]
            \cup [kind : {"WARM", "EXECUTE"}, replica : ReplicaId]

ProvisionJobs ==
    [ step : {"ALLOCATE", "START", "WARM"}, op : {"PROVISION"}, replica : ReplicaId,
      worker : WorkerId, boot : {NullId} ]

CommandJobs ==
    [ step : {"BOOT", "CALL"}, op : Ops, replica : ReplicaId, worker : WorkerId,
      boot : BootId \cup {NullId} ]

ForwardJobs ==
    [ step : {"FORWARD"}, op : {"EXECUTE"}, replica : ReplicaId, worker : WorkerId, boot : {NullId} ]

(* Every variable of the network has its type, and a thread that is about   *)
(* to report has evidence of some replica.                                  *)
CoordTypeOK ==
    /\ proc \in [Conn -> {"OFF", "REGISTERING", "RUNNING", "GONE"}]
    /\ thread \in [Conn -> {"FIRST", "REGISTERED", "LISTED", "READING", "DATED", "UNREGISTERED", "ENDED"}]
    /\ evidence \in [Conn -> {NoEvidence} \cup [replica : ReplicaId, incarnation : Nat, generation : Nat]]
    /\ up \in [Conn -> Seq(Upward)]
    /\ down \in [Conn -> Seq(Downward)]
    /\ conns \in [WorkerId -> Conn \cup {NoConn}]
    /\ job \in [Client -> {Idle} \cup ProvisionJobs \cup CommandJobs \cup ForwardJobs]
    /\ results \in [ReplicaId -> BootId \cup {NullId}]
    /\ \A c \in Conn : thread[c] = "DATED" => evidence[c] # NoEvidence

-----------------------------------------------------------------------------
(* Properties: what the threads do to each other *)

HostedBy(r, c) == replicas[r].worker_id = WorkerOf[c] /\ replicas[r].boot_id = BootOf[c]

(* A control thread is going to make one of these calls for the replica. *)
Pending(r, steps) ==
    \E k \in Client : job[k].op = "PROVISION" /\ job[k].replica = r /\ job[k].step \in steps

(* No replica is stranded before it starts: one that is DECLARED or         *)
(* ALLOCATING has a control thread that will call set_allocating or         *)
(* set_starting for it, although the calls are separate, the worker may go  *)
(* or the id may be provisioned anew between them, and the threads of two   *)
(* clients may be starting the same id.                                     *)
StartupIsDriven ==
    \A r \in ReplicaId : Known(r) =>
        /\ replicas[r].lifecycle = "DECLARED" => Pending(r, {"ALLOCATE"})
        /\ replicas[r].lifecycle = "ALLOCATING" => Pending(r, {"ALLOCATE", "START"})

(* When the thread of a connection has cleaned up, no replica of that boot  *)
(* passes the gate and none does so later, although the thread goes by the  *)
(* worker id, calls of other threads and of clients fall between its steps  *)
(* and the worker may have registered again in the meantime.                *)
ClosedIsFenced ==
    \A c \in Conn : thread[c] \in {"UNREGISTERED", "ENDED"} =>
        \A r \in ReplicaId : HostedBy(r, c) => ~Servable(r)

(* worker_conns holds the connections of its worker only, and none whose    *)
(* thread has ended: a connection that closed may stay listed while its     *)
(* thread is between unregistering and erasing, and no longer.              *)
RoutesAreLive ==
    \A w \in WorkerId : conns[w] # NoConn =>
        WorkerOf[conns[w]] = w /\ thread[conns[w]] \notin {"FIRST", "REGISTERED", "ENDED"}

-----------------------------------------------------------------------------
(* Properties: liveness *)

(* When a worker process dies, its replicas are eventually refused by the   *)
(* gate for good, without a heartbeat, a timeout or a client's failover.    *)
LossIsNoticed ==
    \A c \in Conn :
        proc[c] = "GONE" ~> [](\A r \in ReplicaId : HostedBy(r, c) => ~Servable(r))

InFlight(c, m) == \E i \in DOMAIN down[c] : down[c][i] = m

(* A WARM is on its way to the running process that hosts the replica,      *)
(* which is starting.                                                       *)
WarmupDue(c, r) ==
    /\ proc[c] = "RUNNING" /\ InFlight(c, Msg("WARM", r))
    /\ HostedBy(r, c) /\ replicas[r].lifecycle = "STARTING"

(* A warm-up command on its way to the process that hosts the replica takes *)
(* it out of start-up, unless the process dies: the three reports of the    *)
(* worker are enough, in the order they are sent.  A replica that is        *)
(* provisioned anew meanwhile is DECLARED, and its start-up begins again.   *)
WarmupCompletes ==
    \A c \in Conn, r \in ReplicaId :
        WarmupDue(c, r)
            ~> proc[c] = "GONE" \/ replicas[r].lifecycle \notin {"STARTING", "WARMING"}

(* Work forwarded to a running process is answered by it, unless it dies.   *)
WorkIsAnswered ==
    \A c \in Conn, r \in ReplicaId :
        proc[c] = "RUNNING" /\ InFlight(c, Msg("EXECUTE", r))
            ~> proc[c] = "GONE" \/ results[r] = BootOf[c]

-----------------------------------------------------------------------------
(* What documents say of the coordinator and its code does not keep.  The   *)
(* README explains the counterexamples.                                     *)

Report(c) == Health(c) \/ Readiness(c)

(* README.md:127: the coordinator "rejects stale messages so they can never *)
(* mark a replica healthy/ready".  A report of health or readiness is       *)
(* compared with the boot the replica was provisioned under, not with the   *)
(* boot its worker is registered under now.                                 *)
StaleReportsRejected ==
    [][\A c \in Conn : Report(c) /\ replicas' # replicas => workers[WorkerOf[c]] = BootOf[c]]_cvars

(* tests/multiprocess/test_multiprocess.cpp:125: a provisioned replica      *)
(* becomes READY "(healed after warm + health + readiness)".  A worker is   *)
(* registered before it is listed, so a WARM may find no connection, and no *)
(* one sends it again.                                                      *)
ProvisionedBecomesReady ==
    \A c \in Conn, r \in ReplicaId :
        HostedBy(r, c) /\ replicas[r].lifecycle = "STARTING"
            ~> proc[c] = "GONE" \/ replicas[r].lifecycle # "STARTING"
=============================================================================
