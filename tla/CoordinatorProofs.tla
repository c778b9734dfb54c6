-------------------------- MODULE CoordinatorProofs --------------------------
(***************************************************************************)
(* Proofs about Coordinator, for any number of worker processes, clients,  *)
(* replicas and sets: its threads only make steps of the controller, so    *)
(* everything proved of the controller holds in the coordinator; and what  *)
(* closed connections leave behind.                                        *)
(***************************************************************************)
EXTENDS Coordinator, ServingProofs

(* From its registration until it has cleaned up. *)
Active == {"REGISTERED", "LISTED", "READING", "DATED"}

(* A boot that is registered belongs to a connection whose thread is active. *)
Fence == \A c \in Conn : workers[WorkerOf[c]] = BootOf[c] => thread[c] \in Active

(* The inductive invariant of the coordinator. *)
CInv == HInv /\ CoordTypeOK /\ Fence /\ RoutesAreLive

-----------------------------------------------------------------------------
(* Every step is a step of the controller *)

(* A message that carries evidence names a replica. *)
LEMMA HeadOfUp ==
    ASSUME CoordTypeOK, NEW c \in Conn,
           \E kind \in {"WARM_DONE", "HEALTH", "READINESS", "EXECUTE_RESULT"} : Reads(c, kind)
    PROVE  Head(up[c]).replica \in ReplicaId
<1>1. up[c] \in Seq(Upward) /\ up[c] # <<>>
  BY DEF CoordTypeOK, Reads
<1>2. Head(up[c]) \in Upward
  BY <1>1
<1>3. Head(up[c]).kind \in {"WARM_DONE", "HEALTH", "READINESS", "EXECUTE_RESULT"}
  BY DEF Reads
<1>4. QED
  BY <1>2, <1>3 DEF Upward

(* A report of a connection thread is one the controller's callers may make, *)
(* or it is refused.                                                         *)
LEMMA ReportStep ==
    ASSUME CInv, NEW c \in Conn, WarmDone(c) \/ Health(c) \/ Readiness(c)
    PROVE  [Next]_vars
<1>1. WorkerOf[c] \in WorkerId /\ BootOf[c] \in BootId
  BY CoordinatorAssumption
<1>2. CASE WarmDone(c)
  <2> DEFINE r == Head(up[c]).replica
  <2>1. r \in ReplicaId
    BY <1>2, HeadOfUp DEF CInv, WarmDone
  <2>2. WarmReplica(r, WorkerOf[c], BootOf[c], FALSE) \/ UNCHANGED vars
    BY <1>2 DEF WarmDone
  <2> HIDE DEF r
  <2>3. QED
    BY <1>1, <2>1, <2>2, CoordinatorAssumption DEF Next, WorkerStep
<1>3. CASE Health(c)
  <2> DEFINE r == evidence[c].replica
             g == evidence[c].generation
  <2>1. UNCHANGED vars \/ (/\ EvidenceAccepted(r, WorkerOf[c], BootOf[c])
                           /\ evidence[c] = Dated(r)
                           /\ ReportHealth(r, WorkerOf[c], BootOf[c], g, "HEALTHY"))
    BY <1>3 DEF Health
  <2>2. r \in ReplicaId
    BY <1>3 DEF CInv, CoordTypeOK, Health, At
  <2>3. ASSUME EvidenceAccepted(r, WorkerOf[c], BootOf[c]), evidence[c] = Dated(r)
        PROVE  g \in 1..MaxRounds
    <3>1. Known(r)
      BY <2>3 DEF EvidenceAccepted
    <3>2. replicas[r].health_generation \in 1..MaxRounds \cup {1}
      BY <2>2, <3>1 DEF CInv, HInv, Rounds
    <3>3. g = replicas[r].health_generation
      BY <2>3 DEF Dated
    <3>4. QED
      BY <3>2, <3>3, BoundAssumption, CoordinatorAssumption
  <2> HIDE DEF r, g
  <2>4. QED
    BY <1>1, <2>1, <2>2, <2>3, CoordinatorAssumption DEF Next, WorkerStep
<1>4. CASE Readiness(c)
  <2> DEFINE r == Head(up[c]).replica
  <2>1. r \in ReplicaId
    BY <1>4, HeadOfUp DEF CInv, Readiness
  <2>2. ReportReadiness(r, WorkerOf[c], BootOf[c], TRUE) \/ UNCHANGED vars
    BY <1>4 DEF Readiness
  <2> HIDE DEF r
  <2>3. QED
    BY <1>1, <2>1, <2>2, CoordinatorAssumption DEF Next, WorkerStep
<1>5. QED
  BY <1>2, <1>3, <1>4

(* What a control thread has still to do, by its step. *)
LEMMA JobTypes ==
    ASSUME CoordTypeOK, NEW k \in Client
    PROVE  /\ job[k].step \in {"ALLOCATE", "START", "WARM"} => job[k] \in ProvisionJobs
           /\ job[k].step \in {"BOOT", "CALL"} => job[k] \in CommandJobs
           /\ job[k].step = "FORWARD" => job[k] \in ForwardJobs
BY DEF CoordTypeOK, Idle, ProvisionJobs, CommandJobs, ForwardJobs

(* A control thread calls the controller with the worker and boot it looked *)
(* up earlier; if they are still those of the replica, they are legal       *)
(* arguments, and otherwise the call is refused.                            *)
LEMMA CommandStep ==
    ASSUME CInv, NEW k \in Client, CallController(k)
    PROVE  [Next]_vars
<1> DEFINE r == job[k].replica
           w == job[k].worker
           b == job[k].boot
           op == job[k].op
<1>1. r \in ReplicaId /\ w \in WorkerId /\ op \in Ops
  <2>1. job[k] \in CommandJobs
    BY JobTypes DEF CallController, Waits, CInv
  <2>2. QED
    BY <2>1 DEF CommandJobs
<1>2. ASSUME Known(r), WorkerBootMatches(r, w, b)
      PROVE  b \in BootId
  BY <1>1, <1>2 DEF CInv, HInv, Rounds, WorkerBootMatches
<1>3. \/ DrainReplica(r, w, b)
      \/ op = "PRIMARY" /\ PromotePrimary(r, w, b)
      \/ op # "DRAIN" /\ PromoteOther(r, w, b, op)
      \/ UNCHANGED vars
  BY DEF CallController
<1> HIDE DEF r, w, b, op
<1>4. CASE DrainReplica(r, w, b)
  <2>1. b \in BootId
    BY <1>2, <1>4 DEF DrainReplica, MayDrain
  <2>2. QED
    BY <1>1, <1>4, <2>1 DEF Next, WorkerStep
<1>5. CASE op = "PRIMARY" /\ PromotePrimary(r, w, b)
  <2>1. b \in BootId
    BY <1>2, <1>5 DEF PromotePrimary, MayPromote
  <2>2. "PRIMARY" \in Targets
    BY <1>1, <1>5, CoordinatorAssumption
  <2>3. QED
    BY <1>1, <1>5, <2>1, <2>2 DEF Next, WorkerStep
<1>6. CASE op # "DRAIN" /\ PromoteOther(r, w, b, op)
  <2>1. b \in BootId
    BY <1>2, <1>6 DEF PromoteOther, MayPromote
  <2>2. op \in Targets
    BY <1>1, <1>6, CoordinatorAssumption
  <2>3. QED
    BY <1>1, <1>6, <2>1, <2>2 DEF Next, WorkerStep
<1>7. QED
  BY <1>3, <1>4, <1>5, <1>6

(* Every step of the coordinator is a step of the controller or leaves the  *)
(* controller alone.                                                        *)
LEMMA ControllerStep ==
    ASSUME CInv, [CoordNext]_cvars
    PROVE  [Next]_vars
<1>1. ASSUME NEW c \in Conn, Connect(c) \/ Crash(c) \/ WorkerProcess(c)
      PROVE  [Next]_vars
  BY <1>1 DEF Connect, Crash, WorkerProcess, Handshake, Serve
<1>2. ASSUME NEW c \in Conn, ConnectionThread(c)
      PROVE  [Next]_vars
  <2>1. CASE Register(c)
    BY <2>1, CoordinatorAssumption DEF Register, Next
  <2>2. CASE Unregister(c)
    BY <2>2, CoordinatorAssumption DEF Unregister, LeaveWorker, Next
  <2>3. CASE WarmDone(c) \/ Health(c) \/ Readiness(c)
    BY <2>3, ReportStep
  <2>4. CASE List(c) \/ Acknowledge(c) \/ DateEvidence(c) \/ ExecuteResult(c) \/ NeverRegistered(c) \/ Erase(c)
    BY <2>4 DEF List, Acknowledge, DateEvidence, ExecuteResult, NeverRegistered, Erase
  <2>5. QED
    BY <1>2, <2>1, <2>2, <2>3, <2>4 DEF ConnectionThread
<1>3. ASSUME NEW k \in Client, ControlThread(k)
      PROVE  [Next]_vars
  <2>1. ASSUME Allocate(k) \/ Start(k)
        PROVE  [Next]_vars
    <3>1. job[k].replica \in ReplicaId
      BY <2>1, JobTypes DEF Allocate, Start, Waits, CInv, ProvisionJobs
    <3>2. SetAllocating(job[k].replica, TRUE) \/ SetStarting(job[k].replica) \/ UNCHANGED vars
      BY <2>1 DEF Allocate, Start
    <3>3. QED
      BY <3>1, <3>2, CoordinatorAssumption DEF Next
  <2>2. CASE CallController(k)
    BY <2>2, CommandStep
  <2>3. CASE SendWarm(k) \/ LookUpBoot(k) \/ Forward(k)
    BY <2>3 DEF SendWarm, LookUpBoot, Forward
  <2>4. QED
    BY <1>3, <2>1, <2>2, <2>3 DEF ControlThread
<1>4. ASSUME NEW k \in Client, Request(k)
      PROVE  [Next]_vars
  <2>1. ASSUME NEW s \in SetId, NEW n \in Counts, CreateSet(k, s, n)
        PROVE  [Next]_vars
    BY <2>1, CoordinatorAssumption DEF CreateSet, Next
  <2>2. ASSUME NEW r \in ReplicaId, NEW s \in SetId, NEW w \in WorkerId,
               NEW compatible \in Compat, NEW capacity \in Capacities,
               Provision(k, r, s, w, compatible, capacity)
        PROVE  [Next]_vars
    BY <2>2 DEF Provision, Next
  <2>3. ASSUME NEW s \in SetId, NEW failed \in ReplicaId, Failover(k, s, failed)
        PROVE  [Next]_vars
    BY <2>3 DEF Failover, Next
  <2>4. ASSUME NEW op \in Ops, NEW r \in ReplicaId, LookUpWorker(k, op, r)
        PROVE  [Next]_vars
    BY <2>4 DEF LookUpWorker
  <2>5. ASSUME NEW op \in Ops, NEW r \in ReplicaId, NEW w \in WorkerId, NEW b \in BootId \cup {NullId},
               TakeAddress(k, op, r, w, b)
        PROVE  [Next]_vars
    BY <2>5 DEF TakeAddress
  <2>6. ASSUME NEW r \in ReplicaId, Execute(k, r)
        PROVE  [Next]_vars
    BY <2>6 DEF Execute
  <2>7. QED
    BY <1>4, <2>1, <2>2, <2>3, <2>4, <2>5, <2>6 DEF Request
<1>5. CASE UNCHANGED cvars
  BY <1>5 DEF cvars
<1>6. QED
  BY <1>1, <1>2, <1>3, <1>4, <1>5 DEF CoordNext

-----------------------------------------------------------------------------
(* Which steps change the registrations *)

(* The controller operations that leave workers_ alone. *)
LEMMA QuietCalls ==
    ASSUME NEW r, NEW w, NEW b, NEW x, NEW y,
           \/ WarmReplica(r, w, b, x) \/ ReportHealth(r, w, b, x, y) \/ ReportReadiness(r, w, b, x)
           \/ SetAllocating(r, x) \/ SetStarting(r)
           \/ DrainReplica(r, w, b) \/ PromotePrimary(r, w, b) \/ PromoteOther(r, w, b, x)
    PROVE  UNCHANGED workers
BY DEF WarmReplica, ReportHealth, ReportReadiness, SetAllocating, SetStarting, DrainReplica,
       PromotePrimary, PromoteOther

(* Only the threads of worker connections register and unregister. *)
LEMMA WorkersMove ==
    ASSUME [CoordNext]_cvars
    PROVE  UNCHANGED workers \/ \E c \in Conn : Register(c) \/ Unregister(c)
<1>1. ASSUME NEW c \in Conn, Connect(c) \/ Crash(c) \/ WorkerProcess(c)
      PROVE  UNCHANGED workers
  BY <1>1 DEF Connect, Crash, WorkerProcess, Handshake, Serve, vars
<1>2. ASSUME NEW c \in Conn, ConnectionThread(c), ~Register(c), ~Unregister(c)
      PROVE  UNCHANGED workers
  <2>1. CASE WarmDone(c) \/ Health(c) \/ Readiness(c)
    BY <2>1, QuietCalls, Zenon DEF WarmDone, Health, Readiness, vars
  <2>2. CASE List(c) \/ Acknowledge(c) \/ DateEvidence(c) \/ ExecuteResult(c) \/ NeverRegistered(c) \/ Erase(c)
    BY <2>2 DEF List, Acknowledge, DateEvidence, ExecuteResult, NeverRegistered, Erase, vars
  <2>3. QED
    BY <1>2, <2>1, <2>2 DEF ConnectionThread
<1>3. ASSUME NEW k \in Client, ControlThread(k)
      PROVE  UNCHANGED workers
  <2>1. CASE Allocate(k) \/ Start(k) \/ CallController(k)
    BY <2>1, QuietCalls, Zenon DEF Allocate, Start, CallController, vars
  <2>2. CASE SendWarm(k) \/ LookUpBoot(k) \/ Forward(k)
    BY <2>2 DEF SendWarm, LookUpBoot, Forward, vars
  <2>3. QED
    BY <1>3, <2>1, <2>2 DEF ControlThread
<1>4. ASSUME NEW k \in Client, Request(k)
      PROVE  UNCHANGED workers
  <2>1. ASSUME NEW s \in SetId, NEW n \in Counts, CreateSet(k, s, n)
        PROVE  UNCHANGED workers
    BY <2>1 DEF CreateSet, CreateReplicaSet
  <2>2. ASSUME NEW r \in ReplicaId, NEW s \in SetId, NEW w \in WorkerId,
               NEW compatible \in Compat, NEW capacity \in Capacities,
               Provision(k, r, s, w, compatible, capacity)
        PROVE  UNCHANGED workers
    BY <2>2 DEF Provision, ProvisionReplica
  <2>3. ASSUME NEW s \in SetId, NEW failed \in ReplicaId, Failover(k, s, failed)
        PROVE  UNCHANGED workers
    BY <2>3 DEF Failover, TriggerFailover, TriggerFailoverRejected
  <2>4. ASSUME NEW op \in Ops, NEW r \in ReplicaId, LookUpWorker(k, op, r)
        PROVE  UNCHANGED workers
    BY <2>4 DEF LookUpWorker, vars
  <2>5. ASSUME NEW op \in Ops, NEW r \in ReplicaId, NEW w \in WorkerId, NEW b \in BootId \cup {NullId},
               TakeAddress(k, op, r, w, b)
        PROVE  UNCHANGED workers
    BY <2>5 DEF TakeAddress, vars
  <2>6. ASSUME NEW r \in ReplicaId, Execute(k, r)
        PROVE  UNCHANGED workers
    BY <2>6 DEF Execute, vars
  <2>7. QED
    BY <1>4, <2>1, <2>2, <2>3, <2>4, <2>5, <2>6 DEF Request
<1>5. CASE UNCHANGED cvars
  BY <1>5 DEF cvars, vars
<1>6. QED
  BY <1>1, <1>2, <1>3, <1>4, <1>5 DEF CoordNext

-----------------------------------------------------------------------------
(* Where threads go *)

(* A thread moves along the life of a connection, and the others wait. *)
Moves(c, from, to) ==
    /\ thread[c] = from
    /\ thread' = [thread EXCEPT ![c] = to]

ThreadSteps ==
    { <<"FIRST", "REGISTERED">>, <<"REGISTERED", "LISTED">>, <<"LISTED", "READING">>,
      <<"READING", "DATED">>, <<"DATED", "READING">>, <<"FIRST", "ENDED">>,
      <<"READING", "UNREGISTERED">>, <<"UNREGISTERED", "ENDED">> }

(* What the steps do to threads and routes: List and Erase change a route,  *)
(* and each of them moves the thread of its own connection.                 *)
LEMMA ThreadMoves ==
    ASSUME [CoordNext]_cvars
    PROVE  \/ UNCHANGED <<thread, conns>>
           \/ \E c \in Conn : \E m \in ThreadSteps :
                 /\ Moves(c, m[1], m[2])
                 /\ conns' = CASE m[2] = "LISTED" -> [conns EXCEPT ![WorkerOf[c]] = c]
                               [] m = <<"UNREGISTERED", "ENDED">> -> [conns EXCEPT ![WorkerOf[c]] = NoConn]
                               [] OTHER -> conns
                 /\ m = <<"FIRST", "REGISTERED">> => Register(c)
                 /\ m = <<"READING", "UNREGISTERED">> => Unregister(c)
<1> DEFINE Still == UNCHANGED <<thread, conns>>
           Goal(c, m) ==
                 /\ Moves(c, m[1], m[2])
                 /\ conns' = CASE m[2] = "LISTED" -> [conns EXCEPT ![WorkerOf[c]] = c]
                               [] m = <<"UNREGISTERED", "ENDED">> -> [conns EXCEPT ![WorkerOf[c]] = NoConn]
                               [] OTHER -> conns
                 /\ m = <<"FIRST", "REGISTERED">> => Register(c)
                 /\ m = <<"READING", "UNREGISTERED">> => Unregister(c)
<1>1. ASSUME NEW c \in Conn, Connect(c) \/ Crash(c) \/ WorkerProcess(c)
      PROVE  Still
  BY <1>1 DEF Connect, Crash, WorkerProcess, Handshake, Serve
<1>2. ASSUME NEW c \in Conn, ConnectionThread(c)
      PROVE  Still \/ \E m \in ThreadSteps : Goal(c, m)
  <2>1. CASE Register(c)
    <3>1. Goal(c, <<"FIRST", "REGISTERED">>)
      BY <2>1 DEF Register, At, Moves
    <3>2. QED
      BY <3>1 DEF ThreadSteps
  <2>2. CASE List(c)
    <3>1. Goal(c, <<"REGISTERED", "LISTED">>)
      BY <2>2 DEF List, At, Moves
    <3>2. QED
      BY <3>1 DEF ThreadSteps
  <2>3. CASE Acknowledge(c)
    <3>1. Goal(c, <<"LISTED", "READING">>)
      BY <2>3 DEF Acknowledge, At, Moves
    <3>2. QED
      BY <3>1 DEF ThreadSteps
  <2>4. CASE DateEvidence(c)
    <3>1. Goal(c, <<"READING", "DATED">>)
      BY <2>4 DEF DateEvidence, At, Moves
    <3>2. QED
      BY <3>1 DEF ThreadSteps
  <2>5. CASE Health(c)
    <3>1. Goal(c, <<"DATED", "READING">>)
      BY <2>5 DEF Health, At, Moves
    <3>2. QED
      BY <3>1 DEF ThreadSteps
  <2>6. CASE NeverRegistered(c)
    <3>1. Goal(c, <<"FIRST", "ENDED">>)
      BY <2>6 DEF NeverRegistered, At, Moves
    <3>2. QED
      BY <3>1 DEF ThreadSteps
  <2>7. CASE Unregister(c)
    <3>1. Goal(c, <<"READING", "UNREGISTERED">>)
      BY <2>7 DEF Unregister, At, Moves
    <3>2. QED
      BY <3>1 DEF ThreadSteps
  <2>8. CASE Erase(c)
    <3>1. Goal(c, <<"UNREGISTERED", "ENDED">>)
      BY <2>8 DEF Erase, At, Moves, Unlisted
    <3>2. QED
      BY <3>1 DEF ThreadSteps
  <2>9. CASE WarmDone(c) \/ Readiness(c) \/ ExecuteResult(c)
    BY <2>9 DEF WarmDone, Readiness, ExecuteResult
  <2>10. QED
    BY <1>2, <2>1, <2>2, <2>3, <2>4, <2>5, <2>6, <2>7, <2>8, <2>9 DEF ConnectionThread
<1>3. ASSUME NEW k \in Client, ControlThread(k)
      PROVE  Still
  BY <1>3, Zenon DEF ControlThread, Allocate, Start, SendWarm, LookUpBoot, CallController, Forward
<1>4. ASSUME NEW k \in Client, Request(k)
      PROVE  Still
  <2>1. ASSUME NEW s \in SetId, NEW n \in Counts, CreateSet(k, s, n)
        PROVE  Still
    BY <2>1 DEF CreateSet, netvars
  <2>2. ASSUME NEW r \in ReplicaId, NEW s \in SetId, NEW w \in WorkerId,
               NEW compatible \in Compat, NEW capacity \in Capacities,
               Provision(k, r, s, w, compatible, capacity)
        PROVE  Still
    BY <2>2 DEF Provision
  <2>3. ASSUME NEW s \in SetId, NEW failed \in ReplicaId, Failover(k, s, failed)
        PROVE  Still
    BY <2>3 DEF Failover, netvars
  <2>4. ASSUME NEW op \in Ops, NEW r \in ReplicaId, LookUpWorker(k, op, r)
        PROVE  Still
    BY <2>4 DEF LookUpWorker
  <2>5. ASSUME NEW op \in Ops, NEW r \in ReplicaId, NEW w \in WorkerId, NEW b \in BootId \cup {NullId},
               TakeAddress(k, op, r, w, b)
        PROVE  Still
    BY <2>5 DEF TakeAddress
  <2>6. ASSUME NEW r \in ReplicaId, Execute(k, r)
        PROVE  Still
    BY <2>6 DEF Execute
  <2>7. QED
    BY <1>4, <2>1, <2>2, <2>3, <2>4, <2>5, <2>6 DEF Request
<1>5. ASSUME UNCHANGED cvars
      PROVE  Still
  BY <1>5 DEF cvars, netvars
<1> DEFINE Move == Still \/ \E c \in Conn : \E m \in ThreadSteps : Goal(c, m)
<1> HIDE DEF Goal
<1>6. Move
  <2>1. CASE CoordNext
    <3>1. ASSUME NEW c \in Conn, Connect(c) \/ Crash(c) \/ WorkerProcess(c) \/ ConnectionThread(c)
          PROVE  Move
      BY <1>1, <1>2, <3>1, Zenon
    <3>2. ASSUME NEW k \in Client, ControlThread(k) \/ Request(k)
          PROVE  Move
      BY <1>3, <1>4, <3>2, Zenon
    <3> HIDE DEF Move
    <3>3. QED
      BY <2>1, <3>1, <3>2 DEF CoordNext
  <2>2. CASE UNCHANGED cvars
    BY <1>5, <2>2, Zenon
  <2> HIDE DEF Move
  <2>3. QED
    BY <2>1, <2>2
<1>7. QED
  BY <1>6, Zenon DEF Goal

(* RoutesAreLive is kept: a thread that ends has erased the only route that *)
(* could lead to it.                                                        *)
LEMMA RoutesStep ==
    ASSUME CInv, [CoordNext]_cvars
    PROVE  RoutesAreLive'
<1>1. /\ thread \in [Conn -> {"FIRST", "REGISTERED", "LISTED", "READING", "DATED", "UNREGISTERED", "ENDED"}]
      /\ conns \in [WorkerId -> Conn \cup {NoConn}]
      /\ WorkerOf \in [Conn -> WorkerId] /\ NoConn \notin Conn
      /\ RoutesAreLive
  BY CoordinatorAssumption DEF CInv, CoordTypeOK
<1>2. CASE UNCHANGED <<thread, conns>>
  BY <1>1, <1>2 DEF RoutesAreLive
<1>3. ASSUME NEW c \in Conn, NEW m \in ThreadSteps, Moves(c, m[1], m[2]),
             conns' = CASE m[2] = "LISTED" -> [conns EXCEPT ![WorkerOf[c]] = c]
                        [] m = <<"UNREGISTERED", "ENDED">> -> [conns EXCEPT ![WorkerOf[c]] = NoConn]
                        [] OTHER -> conns
      PROVE  RoutesAreLive'
  <2>1. CASE m[2] = "LISTED"
    <3>1. conns' = [conns EXCEPT ![WorkerOf[c]] = c] /\ thread' = [thread EXCEPT ![c] = "LISTED"]
      BY <1>3, <2>1 DEF Moves
    <3>2. QED
      BY <1>1, <3>1 DEF RoutesAreLive
  <2>2. CASE m = <<"UNREGISTERED", "ENDED">>
    <3>1. conns' = [conns EXCEPT ![WorkerOf[c]] = NoConn] /\ thread' = [thread EXCEPT ![c] = "ENDED"]
      BY <1>3, <2>2 DEF Moves
    <3>2. QED
      BY <1>1, <3>1 DEF RoutesAreLive
  <2>3. CASE m[2] # "LISTED" /\ m # <<"UNREGISTERED", "ENDED">>
    <3>1. conns' = conns /\ thread[c] = m[1] /\ thread' = [thread EXCEPT ![c] = m[2]]
      BY <1>3, <2>3 DEF Moves
    <3>2. m[1] = "FIRST" \/ m[2] \in {"READING", "DATED", "UNREGISTERED"}
      BY <2>3 DEF ThreadSteps
    <3>3. ASSUME NEW w \in WorkerId, conns[w] # NoConn
          PROVE  WorkerOf[conns[w]] = w /\ thread'[conns[w]] \notin {"FIRST", "REGISTERED", "ENDED"}
      <4>1. conns[w] \in Conn /\ WorkerOf[conns[w]] = w
            /\ thread[conns[w]] \notin {"FIRST", "REGISTERED", "ENDED"}
        BY <1>1, <3>3 DEF RoutesAreLive
      <4>2. CASE conns[w] = c
        BY <1>1, <3>1, <3>2, <4>1, <4>2
      <4>3. CASE conns[w] # c
        BY <1>1, <3>1, <4>1, <4>3
      <4>4. QED
        BY <4>2, <4>3
    <3>4. QED
      BY <3>1, <3>3 DEF RoutesAreLive
  <2>4. QED
    BY <2>1, <2>2, <2>3
<1>4. QED
  BY <1>2, <1>3, ThreadMoves

(* Fence is kept: a registration replaces every other boot of the worker,   *)
(* and a thread that cleans up leaves no boot registered at all.            *)
LEMMA FenceStep ==
    ASSUME CInv, [CoordNext]_cvars
    PROVE  Fence'
<1>1. /\ thread \in [Conn -> {"FIRST", "REGISTERED", "LISTED", "READING", "DATED", "UNREGISTERED", "ENDED"}]
      /\ workers \in [WorkerId -> BootId \cup {Unregistered}]
      /\ WorkerOf \in [Conn -> WorkerId] /\ BootOf \in [Conn -> BootId]
      /\ \A c, d \in Conn : BootOf[c] = BootOf[d] => c = d
      /\ Fence
  BY CoordinatorAssumption DEF CInv, CoordTypeOK, HInv, IInv, TypeOK
<1>2. CASE \E c \in Conn : Register(c)
  <2>1. PICK c \in Conn : /\ thread' = [thread EXCEPT ![c] = "REGISTERED"]
                          /\ workers' = [workers EXCEPT ![WorkerOf[c]] = BootOf[c]]
    BY <1>2 DEF Register, At, RegisterWorker
  <2>2. ASSUME NEW d \in Conn, workers'[WorkerOf[d]] = BootOf[d]
        PROVE  thread'[d] \in Active
    <3>1. CASE d = c
      BY <1>1, <2>1, <3>1 DEF Active
    <3>2. CASE d # c
      <4>1. WorkerOf[d] # WorkerOf[c]
        BY <1>1, <2>1, <2>2, <3>2
      <4>2. QED
        BY <1>1, <2>1, <2>2, <3>2, <4>1 DEF Fence
    <3>3. QED
      BY <3>1, <3>2
  <2>3. QED
    BY <2>2 DEF Fence
<1>3. CASE \E c \in Conn : Unregister(c)
  <2>1. PICK c \in Conn : /\ thread' = [thread EXCEPT ![c] = "UNREGISTERED"]
                          /\ LeaveWorker(WorkerOf[c])
    BY <1>3 DEF Unregister, At
  <2>2. workers' = [workers EXCEPT ![WorkerOf[c]] = Unregistered]
    BY <1>1, <2>1 DEF LeaveWorker, UnregisterWorker, vars
  <2>3. ASSUME NEW d \in Conn, workers'[WorkerOf[d]] = BootOf[d]
        PROVE  thread'[d] \in Active
    <3>1. WorkerOf[d] # WorkerOf[c]
      BY <1>1, <2>2, <2>3, IdAssumption
    <3>2. QED
      BY <1>1, <2>1, <2>2, <2>3, <3>1 DEF Fence
  <2>4. QED
    BY <2>3 DEF Fence
<1>4. CASE ~ \E c \in Conn : Register(c) \/ Unregister(c)
  <2>1. UNCHANGED workers
    BY <1>4, WorkersMove
  <2>2. CASE UNCHANGED thread
    BY <1>1, <2>1, <2>2 DEF Fence
  <2>3. ASSUME NEW c \in Conn, NEW m \in ThreadSteps, Moves(c, m[1], m[2]),
               m # <<"FIRST", "REGISTERED">>, m # <<"READING", "UNREGISTERED">>
        PROVE  Fence'
    <3>1. thread[c] = m[1] /\ thread' = [thread EXCEPT ![c] = m[2]]
      BY <2>3 DEF Moves
    <3>2. m[1] \in Active => m[2] \in Active
      BY <2>3 DEF ThreadSteps, Active
    <3>3. QED
      BY <1>1, <2>1, <3>1, <3>2 DEF Fence
  <2>4. QED
    BY <1>4, <2>2, <2>3, ThreadMoves
<1>5. QED
  BY <1>2, <1>3, <1>4

-----------------------------------------------------------------------------
(* Types of the network *)

(* The part of CoordTypeOK that concerns messages and jobs. *)
ProcOK == proc \in [Conn -> {"OFF", "REGISTERING", "RUNNING", "GONE"}]
UpOK == up \in [Conn -> Seq(Upward)]
DownOK == down \in [Conn -> Seq(Downward)]
EvidenceOK ==
    /\ evidence \in [Conn -> {NoEvidence} \cup [replica : ReplicaId, incarnation : Nat, generation : Nat]]
    /\ \A c \in Conn : thread[c] = "DATED" => evidence[c] # NoEvidence
JobOK == job \in [Client -> {Idle} \cup ProvisionJobs \cup CommandJobs \cup ForwardJobs]
ResultsOK == results \in [ReplicaId -> BootId \cup {NullId}]

NetOK == ProcOK /\ UpOK /\ DownOK /\ EvidenceOK /\ JobOK /\ ResultsOK

(* Messages of the two directions. *)
LEMMA Messages ==
    /\ Msg("REGISTER", NullId) \in Upward
    /\ \A r \in ReplicaId : \A kind \in {"WARM_DONE", "HEALTH", "READINESS", "EXECUTE_RESULT"} : Msg(kind, r) \in Upward
    /\ \A kind \in {"REGISTER_ACK", "PONG"} : Msg(kind, NullId) \in Downward
    /\ \A r \in ReplicaId : \A kind \in {"WARM", "EXECUTE"} : Msg(kind, r) \in Downward
BY DEF Msg, Upward, Downward

(* Writing a frame keeps the channel typed, whoever it goes to. *)
LEMMA WrittenType ==
    ASSUME DownOK, NEW c \in Conn, NEW m \in Downward
    PROVE  Written(c, m) \in [Conn -> Seq(Downward)]
<1>1. down[c] \in Seq(Downward) /\ down \in [Conn -> Seq(Downward)]
  BY DEF DownOK
<1>2. Append(down[c], m) \in Seq(Downward)
  BY <1>1
<1>3. QED
  BY <1>1, <1>2 DEF Written

(* The same when it goes by the route of the worker. *)
LEMMA SentType ==
    ASSUME DownOK, conns \in [WorkerId -> Conn \cup {NoConn}], NEW w \in WorkerId, NEW m \in Downward
    PROVE  SentTo(w, m) \in [Conn -> Seq(Downward)]
<1>1. CASE conns[w] = NoConn
  BY <1>1 DEF SentTo, DownOK
<1>2. CASE conns[w] # NoConn
  BY <1>2, WrittenType DEF SentTo
<1>3. QED
  BY <1>1, <1>2

(* Reading a frame keeps the channel typed. *)
LEMMA ConsumedType ==
    ASSUME UpOK, NEW c \in Conn, up[c] # <<>>
    PROVE  Consumed(c) \in [Conn -> Seq(Upward)]
<1>1. up[c] \in Seq(Upward) /\ up \in [Conn -> Seq(Upward)]
  BY DEF UpOK
<1>2. Tail(up[c]) \in Seq(Upward)
  BY <1>1
<1>3. QED
  BY <1>1, <1>2 DEF Consumed

(* What the worker answers has the type of its channel. *)
LEMMA RepliesType ==
    ASSUME NEW m \in Downward
    PROVE  Replies(m) \in Seq(Upward)
<1>1. CASE m.kind = "WARM"
  <2>1. m.replica \in ReplicaId
    BY <1>1 DEF Downward
  <2>2. /\ Msg("WARM_DONE", m.replica) \in Upward /\ Msg("HEALTH", m.replica) \in Upward
        /\ Msg("READINESS", m.replica) \in Upward
    BY <2>1, Messages
  <2>3. Replies(m) = <<Msg("WARM_DONE", m.replica), Msg("HEALTH", m.replica), Msg("READINESS", m.replica)>>
    BY <1>1 DEF Replies
  <2>4. QED
    BY <2>2, <2>3
<1>2. CASE m.kind = "EXECUTE"
  <2>1. m.replica \in ReplicaId
    BY <1>2 DEF Downward
  <2>2. Msg("EXECUTE_RESULT", m.replica) \in Upward
    BY <2>1, Messages
  <2>3. Replies(m) = <<Msg("EXECUTE_RESULT", m.replica)>>
    BY <1>2 DEF Replies
  <2>4. QED
    BY <2>2, <2>3
<1>3. CASE m.kind \notin {"WARM", "EXECUTE"}
  BY <1>3 DEF Replies
<1>4. QED
  BY <1>1, <1>2, <1>3

(* Threads and routes keep their types. *)
LEMMA ThreadTypeStep ==
    ASSUME CInv, [CoordNext]_cvars
    PROVE  /\ thread' \in [Conn -> {"FIRST", "REGISTERED", "LISTED", "READING", "DATED", "UNREGISTERED", "ENDED"}]
           /\ conns' \in [WorkerId -> Conn \cup {NoConn}]
<1>1. /\ thread \in [Conn -> {"FIRST", "REGISTERED", "LISTED", "READING", "DATED", "UNREGISTERED", "ENDED"}]
      /\ conns \in [WorkerId -> Conn \cup {NoConn}]
  BY DEF CInv, CoordTypeOK
<1>2. ASSUME NEW c \in Conn, NEW m \in ThreadSteps, Moves(c, m[1], m[2])
      PROVE  thread' \in [Conn -> {"FIRST", "REGISTERED", "LISTED", "READING", "DATED", "UNREGISTERED", "ENDED"}]
  <2>1. m[2] \in {"FIRST", "REGISTERED", "LISTED", "READING", "DATED", "UNREGISTERED", "ENDED"}
    BY DEF ThreadSteps
  <2>2. thread' = [thread EXCEPT ![c] = m[2]]
    BY <1>2 DEF Moves
  <2>3. QED
    BY <1>1, <2>1, <2>2
<1>3. \/ conns' = conns
      \/ \E c \in Conn : conns' = [conns EXCEPT ![WorkerOf[c]] = c] \/ conns' = [conns EXCEPT ![WorkerOf[c]] = NoConn]
  BY ThreadMoves
<1>4. conns' \in [WorkerId -> Conn \cup {NoConn}]
  BY <1>1, <1>3
<1>5. QED
  BY <1>1, <1>2, <1>4, ThreadMoves

(* Worker processes *)
LEMMA WorkerTypeStep ==
    ASSUME NetOK, NEW c \in Conn, Connect(c) \/ Crash(c) \/ WorkerProcess(c)
    PROVE  NetOK'
<1>1. ProcOK /\ UpOK /\ DownOK /\ up[c] \in Seq(Upward) /\ down[c] \in Seq(Downward)
  BY DEF NetOK, UpOK, DownOK
<1>2. UNCHANGED <<thread, evidence, job, results>>
  BY DEF Connect, Crash, WorkerProcess, Handshake, Serve
<1>3. EvidenceOK' /\ JobOK' /\ ResultsOK'
  BY <1>2 DEF NetOK, EvidenceOK, JobOK, ResultsOK
<1>4. CASE Connect(c)
  <2>1. Append(up[c], Msg("REGISTER", NullId)) \in Seq(Upward)
    BY <1>1, Messages
  <2>2. ProcOK' /\ UpOK' /\ DownOK'
    BY <1>1, <1>4, <2>1 DEF Connect, ProcOK, UpOK, DownOK
  <2>3. QED
    BY <1>3, <2>2 DEF NetOK
<1>5. CASE Crash(c)
  <2>1. \A n \in 0..Len(up[c]) : SubSeq(up[c], 1, n) \in Seq(Upward)
    BY <1>1
  <2>2. ProcOK' /\ UpOK' /\ DownOK'
    BY <1>1, <1>5, <2>1 DEF Crash, ProcOK, UpOK, DownOK
  <2>3. QED
    BY <1>3, <2>2 DEF NetOK
<1>6. CASE Handshake(c)
  <2>1. Tail(down[c]) \in Seq(Downward) /\ <<>> \in Seq(Downward)
    BY <1>1, <1>6 DEF Handshake
  <2>2. ProcOK' /\ UpOK' /\ DownOK'
    BY <1>1, <1>6, <2>1 DEF Handshake, ProcOK, UpOK, DownOK
  <2>3. QED
    BY <1>3, <2>2 DEF NetOK
<1>7. CASE Serve(c)
  <2>1. Tail(down[c]) \in Seq(Downward) /\ Head(down[c]) \in Downward
    BY <1>1, <1>7 DEF Serve
  <2>2. up[c] \o Replies(Head(down[c])) \in Seq(Upward)
    BY <1>1, <2>1, RepliesType
  <2>3. ProcOK' /\ UpOK' /\ DownOK'
    BY <1>1, <1>7, <2>1, <2>2 DEF Serve, ProcOK, UpOK, DownOK
  <2>4. QED
    BY <1>3, <2>3 DEF NetOK
<1>8. QED
  BY <1>4, <1>5, <1>6, <1>7 DEF WorkerProcess

(* Connection threads *)
LEMMA ConnectionTypeStep ==
    ASSUME HInv, NetOK, NEW c \in Conn, ConnectionThread(c),
           thread \in [Conn -> {"FIRST", "REGISTERED", "LISTED", "READING", "DATED", "UNREGISTERED", "ENDED"}]
    PROVE  NetOK'
<1>1. ProcOK /\ UpOK /\ DownOK /\ EvidenceOK /\ JobOK /\ ResultsOK
  BY DEF NetOK
<1>2. UNCHANGED <<proc, job>>
  BY DEF ConnectionThread, Register, List, Acknowledge, WarmDone, DateEvidence, Health, Readiness,
         ExecuteResult, NeverRegistered, Unregister, Erase
<1>3. ProcOK' /\ JobOK'
  BY <1>1, <1>2 DEF ProcOK, JobOK
<1>4. CASE Register(c) \/ WarmDone(c) \/ Readiness(c)
  <2>1. UpOK'
    BY <1>1, <1>4, ConsumedType DEF Register, WarmDone, Readiness, Reads, UpOK
  <2>2. DownOK' /\ EvidenceOK' /\ ResultsOK'
    BY <1>1, <1>4 DEF Register, WarmDone, Readiness, At, DownOK, EvidenceOK, ResultsOK
  <2>3. QED
    BY <1>3, <2>1, <2>2 DEF NetOK
<1>5. CASE List(c) \/ NeverRegistered(c) \/ Unregister(c) \/ Erase(c)
  <2>1. UpOK' /\ DownOK' /\ EvidenceOK' /\ ResultsOK'
    BY <1>1, <1>5 DEF List, NeverRegistered, Unregister, Erase, At, UpOK, DownOK, EvidenceOK, ResultsOK
  <2>2. QED
    BY <1>3, <2>1 DEF NetOK
<1>6. CASE Acknowledge(c)
  <2>1. DownOK'
    BY <1>1, <1>6, WrittenType, Messages DEF Acknowledge, DownOK
  <2>2. UpOK' /\ EvidenceOK' /\ ResultsOK'
    BY <1>1, <1>6 DEF Acknowledge, At, UpOK, EvidenceOK, ResultsOK
  <2>3. QED
    BY <1>3, <2>1, <2>2 DEF NetOK
<1>7. CASE DateEvidence(c)
  <2> DEFINE r == Head(up[c]).replica
  <2>1. r \in ReplicaId
    <3>1. up[c] \in Seq(Upward) /\ up[c] # <<>> /\ Head(up[c]).kind = "HEALTH"
      BY <1>1, <1>7 DEF DateEvidence, Reads, UpOK
    <3>2. Head(up[c]) \in Upward
      BY <3>1
    <3>3. QED
      BY <3>1, <3>2 DEF Upward
  <2>2. evidence' = [evidence EXCEPT ![c] = Dated(r)]
    BY <1>7 DEF DateEvidence
  <2> HIDE DEF r
  <2>3. Dated(r) \in [replica : ReplicaId, incarnation : Nat, generation : Nat] /\ Dated(r) # NoEvidence
    <3>1. replicas[r] \in Replica
      BY <2>1 DEF HInv, IInv, TypeOK
    <3>2. replicas[r].generation \in Nat /\ replicas[r].health_generation \in Nat
      BY <3>1, BoundAssumption DEF Replica
    <3>3. QED
      BY <2>1, <3>2, IdAssumption DEF Dated, NoEvidence
  <2>4. EvidenceOK'
    BY <1>1, <1>7, <2>2, <2>3 DEF DateEvidence, At, EvidenceOK
  <2>5. UpOK'
    BY <1>1, <1>7, ConsumedType DEF DateEvidence, Reads, UpOK
  <2>6. DownOK' /\ ResultsOK'
    BY <1>1, <1>7 DEF DateEvidence, DownOK, ResultsOK
  <2>7. QED
    BY <1>3, <2>4, <2>5, <2>6 DEF NetOK
<1>8. CASE Health(c)
  <2>1. EvidenceOK'
    BY <1>1, <1>8 DEF Health, At, EvidenceOK
  <2>2. UpOK' /\ DownOK' /\ ResultsOK'
    BY <1>1, <1>8 DEF Health, UpOK, DownOK, ResultsOK
  <2>3. QED
    BY <1>3, <2>1, <2>2 DEF NetOK
<1>9. CASE ExecuteResult(c)
  <2>1. BootOf[c] \in BootId
    BY CoordinatorAssumption
  <2>2. ResultsOK'
    BY <1>1, <1>9, <2>1 DEF ExecuteResult, Stashed, ResultsOK
  <2>3. DownOK'
    BY <1>1, <1>9, WrittenType, Messages DEF ExecuteResult, DownOK
  <2>4. UpOK'
    BY <1>1, <1>9, ConsumedType DEF ExecuteResult, Reads, UpOK
  <2>5. EvidenceOK'
    BY <1>1, <1>9 DEF ExecuteResult, EvidenceOK
  <2>6. QED
    BY <1>3, <2>2, <2>3, <2>4, <2>5 DEF NetOK
<1>10. QED
  BY <1>4, <1>5, <1>6, <1>7, <1>8, <1>9 DEF ConnectionThread

(* Control threads *)
LEMMA ControlTypeStep ==
    ASSUME CInv, NetOK, NEW k \in Client, ControlThread(k)
    PROVE  NetOK'
<1>1. ProcOK /\ UpOK /\ DownOK /\ EvidenceOK /\ JobOK /\ ResultsOK
  BY DEF NetOK
<1>2. UNCHANGED <<proc, thread, evidence, up, results>>
  BY DEF ControlThread, Allocate, Start, SendWarm, LookUpBoot, CallController, Forward
<1>3. ProcOK' /\ UpOK' /\ EvidenceOK' /\ ResultsOK'
  BY <1>1, <1>2 DEF ProcOK, UpOK, EvidenceOK, ResultsOK
<1>4. CASE Allocate(k) \/ Start(k)
  <2>1. job[k] \in ProvisionJobs
    BY <1>4, JobTypes DEF Allocate, Start, Waits, CInv
  <2>2. \A step \in {"START", "WARM"} : [job[k] EXCEPT !.step = step] \in ProvisionJobs
    BY <2>1 DEF ProvisionJobs
  <2>3. PICK step \in {"START", "WARM"} : job' = [job EXCEPT ![k] = [job[k] EXCEPT !.step = step]]
    BY <1>4 DEF Allocate, Start, Then
  <2>4. JobOK'
    BY <1>1, <2>2, <2>3 DEF JobOK
  <2>5. DownOK'
    BY <1>1, <1>4 DEF Allocate, Start, DownOK
  <2>6. QED
    BY <1>3, <2>4, <2>5 DEF NetOK
<1>5. CASE SendWarm(k)
  <2>1. job[k] \in ProvisionJobs
    BY <1>5, JobTypes DEF SendWarm, Waits, CInv
  <2>2. job[k].worker \in WorkerId /\ Msg("WARM", job[k].replica) \in Downward
    BY <2>1, Messages DEF ProvisionJobs
  <2>3. DownOK'
    BY <1>1, <1>5, <2>2, SentType DEF SendWarm, DownOK, CInv, CoordTypeOK
  <2>4. JobOK'
    BY <1>1, <1>5 DEF SendWarm, Done, JobOK
  <2>5. QED
    BY <1>3, <2>3, <2>4 DEF NetOK
<1>6. CASE LookUpBoot(k)
  <2> DEFINE b == RegisteredBoot(job[k].replica)
  <2>1. job[k] \in CommandJobs
    BY <1>6, JobTypes DEF LookUpBoot, Waits, CInv
  <2>2. b \in BootId \cup {NullId}
    BY DEF RegisteredBoot, CurrentBootFor, CInv, HInv, IInv, TypeOK
  <2>3. job' = [job EXCEPT ![k] = [job[k] EXCEPT !.step = "CALL", !.boot = b]]
    BY <1>1, <1>6 DEF LookUpBoot, JobOK
  <2> HIDE DEF b
  <2>4. [job[k] EXCEPT !.step = "CALL", !.boot = b] \in CommandJobs
    BY <2>1, <2>2 DEF CommandJobs
  <2>5. JobOK'
    BY <1>1, <2>3, <2>4 DEF JobOK
  <2>6. DownOK'
    BY <1>1, <1>6 DEF LookUpBoot, DownOK
  <2>7. QED
    BY <1>3, <2>5, <2>6 DEF NetOK
<1>7. CASE CallController(k)
  <2>1. JobOK' /\ DownOK'
    BY <1>1, <1>7 DEF CallController, Done, JobOK, DownOK
  <2>2. QED
    BY <1>3, <2>1 DEF NetOK
<1>8. CASE Forward(k)
  <2>1. job[k] \in ForwardJobs
    BY <1>8, JobTypes DEF Forward, Waits, CInv
  <2>2. job[k].worker \in WorkerId /\ Msg("EXECUTE", job[k].replica) \in Downward
    BY <2>1, Messages DEF ForwardJobs
  <2>3. DownOK'
    BY <1>1, <1>8, <2>2, SentType DEF Forward, DownOK, CInv, CoordTypeOK
  <2>4. JobOK'
    BY <1>1, <1>8 DEF Forward, Done, JobOK
  <2>5. QED
    BY <1>3, <2>3, <2>4 DEF NetOK
<1>9. QED
  BY <1>4, <1>5, <1>6, <1>7, <1>8 DEF ControlThread

(* Requests *)
LEMMA RequestTypeStep ==
    ASSUME CInv, NetOK, NEW k \in Client, Request(k)
    PROVE  NetOK'
<1>1. ProcOK /\ UpOK /\ DownOK /\ EvidenceOK /\ JobOK /\ ResultsOK
  BY DEF NetOK
<1>2. ASSUME UNCHANGED <<proc, thread, evidence, up, results>>
      PROVE  ProcOK' /\ UpOK' /\ EvidenceOK' /\ ResultsOK'
  BY <1>1, <1>2 DEF ProcOK, UpOK, EvidenceOK, ResultsOK
<1>3. ASSUME UNCHANGED netvars
      PROVE  NetOK'
  BY <1>1, <1>3 DEF netvars, NetOK, ProcOK, UpOK, DownOK, EvidenceOK, JobOK, ResultsOK
<1>4. ASSUME NEW s \in SetId, NEW n \in Counts, CreateSet(k, s, n)
      PROVE  NetOK'
  BY <1>3, <1>4 DEF CreateSet
<1>5. ASSUME NEW r \in ReplicaId, NEW s \in SetId, NEW w \in WorkerId,
             NEW compatible \in Compat, NEW capacity \in Capacities,
             Provision(k, r, s, w, compatible, capacity)
      PROVE  NetOK'
  <2>1. [Idle EXCEPT !.step = "ALLOCATE", !.op = "PROVISION", !.replica = r, !.worker = w] \in ProvisionJobs
    BY DEF Idle, ProvisionJobs
  <2>2. JobOK'
    BY <1>1, <1>5, <2>1 DEF Provision, JobOK
  <2>3. DownOK'
    BY <1>1, <1>5 DEF Provision, DownOK
  <2>4. UNCHANGED <<proc, thread, evidence, up, results>>
    BY <1>5 DEF Provision
  <2>5. QED
    BY <1>2, <2>2, <2>3, <2>4 DEF NetOK
<1>6. ASSUME NEW op \in Ops, NEW r \in ReplicaId, LookUpWorker(k, op, r)
      PROVE  NetOK'
  <2> DEFINE w == replicas[r].worker_id
  <2>1. w \in WorkerId
    BY <1>6 DEF LookUpWorker, CInv, HInv, IInv, TypeOK
  <2>2. job' = [job EXCEPT ![k] = [Idle EXCEPT !.step = "BOOT", !.op = op, !.replica = r, !.worker = w]]
    BY <1>6 DEF LookUpWorker
  <2> HIDE DEF w
  <2>3. [Idle EXCEPT !.step = "BOOT", !.op = op, !.replica = r, !.worker = w] \in CommandJobs
    BY <2>1 DEF Idle, CommandJobs
  <2>4. JobOK'
    BY <1>1, <2>2, <2>3 DEF JobOK
  <2>5. DownOK'
    BY <1>1, <1>6 DEF LookUpWorker, DownOK
  <2>6. UNCHANGED <<proc, thread, evidence, up, results>>
    BY <1>6 DEF LookUpWorker
  <2>7. QED
    BY <1>2, <2>4, <2>5, <2>6 DEF NetOK
<1>7. ASSUME NEW s \in SetId, NEW failed \in ReplicaId, Failover(k, s, failed)
      PROVE  NetOK'
  BY <1>3, <1>7 DEF Failover
<1>8. ASSUME NEW r \in ReplicaId, Execute(k, r)
      PROVE  NetOK'
  <2> DEFINE w == replicas[r].worker_id
  <2>1. w \in WorkerId
    BY <1>8 DEF Execute, CInv, HInv, IInv, TypeOK
  <2>2. job' = [job EXCEPT ![k] = [Idle EXCEPT !.step = "FORWARD", !.op = "EXECUTE", !.replica = r, !.worker = w]]
    BY <1>8 DEF Execute
  <2> HIDE DEF w
  <2>3. [Idle EXCEPT !.step = "FORWARD", !.op = "EXECUTE", !.replica = r, !.worker = w] \in ForwardJobs
    BY <2>1 DEF Idle, ForwardJobs
  <2>4. JobOK'
    BY <1>1, <2>2, <2>3 DEF JobOK
  <2>5. DownOK'
    BY <1>1, <1>8 DEF Execute, DownOK
  <2>6. UNCHANGED <<proc, thread, evidence, up, results>>
    BY <1>8 DEF Execute
  <2>7. QED
    BY <1>2, <2>4, <2>5, <2>6 DEF NetOK
<1>9. ASSUME NEW op \in Ops, NEW r \in ReplicaId, NEW w \in WorkerId, NEW b \in BootId \cup {NullId},
             TakeAddress(k, op, r, w, b)
      PROVE  NetOK'
  <2>1. [step |-> "CALL", op |-> op, replica |-> r, worker |-> w, boot |-> b] \in CommandJobs
    BY DEF CommandJobs
  <2>2. JobOK'
    BY <1>1, <1>9, <2>1 DEF TakeAddress, JobOK
  <2>3. DownOK'
    BY <1>1, <1>9 DEF TakeAddress, DownOK
  <2>4. UNCHANGED <<proc, thread, evidence, up, results>>
    BY <1>9 DEF TakeAddress
  <2>5. QED
    BY <1>2, <2>2, <2>3, <2>4 DEF NetOK
<1>10. QED
  BY <1>4, <1>5, <1>6, <1>7, <1>8, <1>9 DEF Request

(* Together: every step keeps the types. *)
LEMMA TypeStep ==
    ASSUME CInv, [CoordNext]_cvars
    PROVE  CoordTypeOK'
<1>1. NetOK /\ HInv
      /\ thread \in [Conn -> {"FIRST", "REGISTERED", "LISTED", "READING", "DATED", "UNREGISTERED", "ENDED"}]
  BY DEF CInv, CoordTypeOK, NetOK, ProcOK, UpOK, DownOK, EvidenceOK, JobOK, ResultsOK
<1>2. NetOK'
  <2>1. CASE UNCHANGED cvars
    BY <1>1, <2>1 DEF cvars, netvars, NetOK, ProcOK, UpOK, DownOK, EvidenceOK, JobOK, ResultsOK
  <2>2. QED
    BY <1>1, <2>1, WorkerTypeStep, ConnectionTypeStep, ControlTypeStep, RequestTypeStep DEF CoordNext
<1>3. QED
  BY <1>2, ThreadTypeStep DEF CoordTypeOK, NetOK, ProcOK, UpOK, DownOK, EvidenceOK, JobOK, ResultsOK

-----------------------------------------------------------------------------
(* Start-up *)

(* The step takes q neither into a new incarnation nor into start-up. *)
Settled(q) ==
    /\ replicas'[q].generation = replicas[q].generation
    /\ replicas'[q].lifecycle \in {"DECLARED", "ALLOCATING"} => replicas'[q].lifecycle = replicas[q].lifecycle

(* A thread that is about to start a replica stays where it is. *)
StartersWait == \A k \in Client : job[k].step \in {"ALLOCATE", "START"} => job'[k] = job[k]

(* A step that changes one record settles everything if it settles that one. *)
LEMMA SettledOne ==
    ASSUME IInv, NEW r \in ReplicaId, NEW rec,
           replicas' = [replicas EXCEPT ![r] = rec],
           rec.generation = replicas[r].generation,
           rec.lifecycle \in {"DECLARED", "ALLOCATING"} => rec.lifecycle = replicas[r].lifecycle
    PROVE  \A q \in ReplicaId : Settled(q)
BY DEF IInv, TypeOK, Settled

(* The calls of connection threads settle every replica. *)
LEMMA SettledReports ==
    ASSUME IInv, NEW r \in ReplicaId, NEW w, NEW b, NEW x, NEW y,
           WarmReplica(r, w, b, x) \/ ReportHealth(r, w, b, x, y) \/ ReportReadiness(r, w, b, x)
    PROVE  \A q \in ReplicaId : Settled(q)
<1>1. replicas[r] \in Replica
  BY DEF IInv, TypeOK
<1>2. CASE WarmReplica(r, w, b, x)
  BY <1>1, <1>2, SettledOne DEF WarmReplica, Replica
<1>3. CASE ReportHealth(r, w, b, x, y)
  <2> DEFINE rec == [replicas[r] EXCEPT !.health = y]
  <2>1. /\ rec.generation = replicas[r].generation /\ rec.lifecycle = replicas[r].lifecycle
        /\ Demoted(rec).generation = replicas[r].generation /\ Demoted(rec).lifecycle = replicas[r].lifecycle
    BY <1>1 DEF Replica, Demoted
  <2>2. replicas' = [replicas EXCEPT ![r] = rec] \/ replicas' = [replicas EXCEPT ![r] = Demoted(rec)]
    BY <1>3 DEF ReportHealth
  <2> HIDE DEF rec
  <2>3. QED
    BY <2>1, <2>2, SettledOne
<1>4. CASE ReportReadiness(r, w, b, x)
  BY <1>1, <1>4, SettledOne DEF ReportReadiness, Replica
<1>5. QED
  BY <1>2, <1>3, <1>4

(* So do those of the commands, *)
LEMMA SettledCommands ==
    ASSUME IInv, NEW r \in ReplicaId, NEW w, NEW b, NEW x \in PromotionState,
           DrainReplica(r, w, b) \/ PromotePrimary(r, w, b) \/ PromoteOther(r, w, b, x) \/ SetStarting(r)
    PROVE  \A q \in ReplicaId : Settled(q)
<1>1. replicas[r] \in Replica
  BY DEF IInv, TypeOK
<1>2. CASE DrainReplica(r, w, b)
  <2>1. Demoted(replicas[r]) \in Replica /\ Demoted(replicas[r]).generation = replicas[r].generation
    BY <1>1, DemotedFacts DEF SameIdentity
  <2>2. QED
    BY <1>2, <2>1, SettledOne DEF DrainReplica, Replica
<1>3. CASE PromotePrimary(r, w, b)
  <2>1. Granted(replicas[r]) \in Replica /\ Granted(replicas[r]).generation = replicas[r].generation
        /\ Granted(replicas[r]).lifecycle = "SERVING"
    BY <1>1, GrantedFacts DEF SameIdentity
  <2>2. PICK h : replicas' = [replicas EXCEPT ![r] = [Granted(replicas[r]) EXCEPT !.health = h]]
    BY <1>3 DEF PromotePrimary
  <2>3. QED
    BY <2>1, <2>2, SettledOne DEF Replica
<1>4. CASE PromoteOther(r, w, b, x)
  BY <1>1, <1>4, AssignedFacts, SettledOne DEF PromoteOther, SameIdentity
<1>5. CASE SetStarting(r)
  BY <1>1, <1>5, SettledOne DEF SetStarting, Replica
<1>6. QED
  BY <1>2, <1>3, <1>4, <1>5

(* those that several replicas may fail by, *)
LEMMA SettledLosses ==
    ASSUME IInv, NEW w, NEW b, RegisterWorker(w, b) \/ UnregisterWorker(w)
    PROVE  \A q \in ReplicaId : Settled(q)
<1>1. \A q \in ReplicaId : /\ Failed(replicas[q]).generation = replicas[q].generation
                           /\ Failed(replicas[q]).lifecycle = "FAILED"
  BY FailedFacts DEF IInv, TypeOK, SameIdentity
<1>2. QED
  BY <1>1 DEF RegisterWorker, UnregisterWorker, Settled

(* and failovers. *)
LEMMA SettledFailovers ==
    ASSUME IInv, NEW s, NEW f \in ReplicaId, NEW c \in ReplicaId,
           TriggerFailover(s, f, c) \/ TriggerFailoverRejected(s, f)
    PROVE  \A q \in ReplicaId : Settled(q)
<1>1. replicas \in [ReplicaId -> Replica]
  BY DEF IInv, TypeOK
<1>2. /\ MarkedFailed(replicas[f]).generation = replicas[f].generation
      /\ MarkedFailed(replicas[f]).lifecycle \in {"FAILED", replicas[f].lifecycle}
      /\ Granted(replicas[c]).generation = replicas[c].generation
      /\ Granted(replicas[c]).lifecycle = "SERVING"
  BY <1>1, MarkedFailedFacts, GrantedFacts DEF SameIdentity
<1>3. CASE TriggerFailover(s, f, c)
  <2>1. c # f /\ replicas' = [replicas EXCEPT ![f] = MarkedFailed(@), ![c] = Granted(@)]
    BY <1>3 DEF TriggerFailover, Candidates
  <2>2. QED
    BY <1>1, <1>2, <2>1 DEF Settled
<1>4. CASE TriggerFailoverRejected(s, f)
  BY <1>2, <1>4, SettledOne DEF TriggerFailoverRejected
<1>5. QED
  BY <1>3, <1>4

(* Nothing enters start-up and no starter moves: StartupIsDriven is kept. *)
LEMMA DrivenKept ==
    ASSUME StartupIsDriven, \A q \in ReplicaId : Settled(q), StartersWait
    PROVE  StartupIsDriven'
<1> SUFFICES ASSUME NEW r \in ReplicaId, Known(r)'
             PROVE  /\ replicas'[r].lifecycle = "DECLARED" => Pending(r, {"ALLOCATE"})'
                    /\ replicas'[r].lifecycle = "ALLOCATING" => Pending(r, {"ALLOCATE", "START"})'
  BY DEF StartupIsDriven
<1>1. Known(r) /\ Settled(r)
  BY DEF Known, Settled
<1>2. ASSUME NEW steps \in SUBSET {"ALLOCATE", "START"}, Pending(r, steps)
      PROVE  Pending(r, steps)'
  BY <1>2 DEF Pending, StartersWait
<1>3. QED
  BY <1>1, <1>2 DEF StartupIsDriven, Settled

(* Connection threads and worker processes start nothing. *)
LEMMA DrivenByConnections ==
    ASSUME CInv, StartupIsDriven, NEW c \in Conn,
           Connect(c) \/ Crash(c) \/ WorkerProcess(c) \/ ConnectionThread(c)
    PROVE  StartupIsDriven'
<1>1. IInv
  BY DEF CInv, HInv
<1>2. StartersWait
  BY DEF StartersWait, Connect, Crash, WorkerProcess, Handshake, Serve, ConnectionThread, Register, List,
         Acknowledge, WarmDone, DateEvidence, Health, Readiness, ExecuteResult, NeverRegistered,
         Unregister, Erase
<1>3. ASSUME UNCHANGED vars
      PROVE  \A q \in ReplicaId : Settled(q)
  BY <1>3 DEF vars, Settled
<1>4. CASE Register(c) \/ Unregister(c)
  <2>1. UNCHANGED vars \/ RegisterWorker(WorkerOf[c], BootOf[c]) \/ UnregisterWorker(WorkerOf[c])
    BY <1>4 DEF Register, Unregister, LeaveWorker
  <2>2. QED
    BY <1>1, <1>2, <1>3, <2>1, SettledLosses, DrivenKept
<1>5. CASE WarmDone(c) \/ Readiness(c)
  <2> DEFINE r == Head(up[c]).replica
  <2>1. r \in ReplicaId
    BY <1>5, HeadOfUp DEF CInv, WarmDone, Readiness
  <2>2. \/ UNCHANGED vars
        \/ WarmReplica(r, WorkerOf[c], BootOf[c], FALSE) \/ ReportReadiness(r, WorkerOf[c], BootOf[c], TRUE)
    BY <1>5 DEF WarmDone, Readiness
  <2> HIDE DEF r
  <2>3. QED
    BY <1>1, <1>2, <1>3, <2>1, <2>2, SettledReports, DrivenKept
<1>6. CASE Health(c)
  <2> DEFINE r == evidence[c].replica
  <2>1. r \in ReplicaId
    BY <1>6 DEF CInv, CoordTypeOK, Health, At
  <2>2. UNCHANGED vars \/ ReportHealth(r, WorkerOf[c], BootOf[c], evidence[c].generation, "HEALTHY")
    BY <1>6 DEF Health
  <2> HIDE DEF r
  <2>3. QED
    BY <1>1, <1>2, <1>3, <2>1, <2>2, SettledReports, DrivenKept
<1>7. CASE \/ Connect(c) \/ Crash(c) \/ WorkerProcess(c) \/ List(c) \/ Acknowledge(c) \/ DateEvidence(c)
           \/ ExecuteResult(c) \/ NeverRegistered(c) \/ Erase(c)
  <2>1. UNCHANGED vars
    BY <1>7 DEF Connect, Crash, WorkerProcess, Handshake, Serve, List, Acknowledge, DateEvidence,
                ExecuteResult, NeverRegistered, Erase
  <2>2. QED
    BY <1>2, <1>3, <2>1, DrivenKept
<1>8. QED
  BY <1>4, <1>5, <1>6, <1>7 DEF ConnectionThread

(* Nor do requests, except a provision, whose thread starts the replica, *)
LEMMA DrivenByRequests ==
    ASSUME CInv, StartupIsDriven, NEW k \in Client, Request(k)
    PROVE  StartupIsDriven'
<1>1. IInv /\ job \in [Client -> {Idle} \cup ProvisionJobs \cup CommandJobs \cup ForwardJobs]
  BY DEF CInv, HInv, CoordTypeOK
<1>2. job[k].step = "IDLE"
  BY DEF Request, Waits, CreateSet, Provision, LookUpWorker, TakeAddress, Failover, Execute
<1>3. ASSUME UNCHANGED replicas, \E j : job' = [job EXCEPT ![k] = j]
      PROVE  StartupIsDriven'
  <2>1. \A q \in ReplicaId : Settled(q)
    BY <1>3 DEF Settled
  <2>2. StartersWait
    BY <1>1, <1>2, <1>3 DEF StartersWait
  <2>3. QED
    BY <2>1, <2>2, DrivenKept
<1>4. ASSUME NEW s \in SetId, NEW n \in Counts, CreateSet(k, s, n)
      PROVE  StartupIsDriven'
  <2>1. UNCHANGED <<replicas, job>>
    BY <1>4 DEF CreateSet, CreateReplicaSet, netvars
  <2>2. job' = [job EXCEPT ![k] = job[k]]
    BY <1>1, <2>1
  <2>3. QED
    BY <1>3, <2>1, <2>2
<1>5. ASSUME NEW r \in ReplicaId, NEW s \in SetId, NEW w \in WorkerId,
             NEW compatible \in Compat, NEW capacity \in Capacities,
             Provision(k, r, s, w, compatible, capacity)
      PROVE  StartupIsDriven'
  <2>1. /\ replicas'[r].lifecycle = "DECLARED"
        /\ \A q \in ReplicaId \ {r} : replicas'[q] = replicas[q]
    BY <1>1, <1>5, BornFacts DEF Provision, Born
  <2>2. job'[k].op = "PROVISION" /\ job'[k].replica = r /\ job'[k].step = "ALLOCATE"
    BY <1>1, <1>5 DEF Provision, Idle
  <2>3. \A j \in Client \ {k} : job'[j] = job[j]
    BY <1>1, <1>5 DEF Provision
  <2>4. ASSUME NEW q \in ReplicaId, NEW steps \in SUBSET {"ALLOCATE", "START"}, Pending(q, steps)
        PROVE  Pending(q, steps)'
    BY <1>2, <2>3, <2>4 DEF Pending
  <2>5. ASSUME NEW q \in ReplicaId, Known(q)'
        PROVE  /\ replicas'[q].lifecycle = "DECLARED" => Pending(q, {"ALLOCATE"})'
               /\ replicas'[q].lifecycle = "ALLOCATING" => Pending(q, {"ALLOCATE", "START"})'
    <3>1. CASE q = r
      BY <2>1, <2>2, <3>1 DEF Pending
    <3>2. CASE q # r
      BY <2>1, <2>4, <2>5, <3>2 DEF StartupIsDriven, Known
    <3>3. QED
      BY <3>1, <3>2
  <2>6. QED
    BY <2>5 DEF StartupIsDriven
<1>6. ASSUME NEW s \in SetId, NEW failed \in ReplicaId, Failover(k, s, failed)
      PROVE  StartupIsDriven'
  <2>1. PICK c \in ReplicaId : TriggerFailover(s, failed, c) \/ TriggerFailoverRejected(s, failed)
    BY <1>6 DEF Failover
  <2>2. \A q \in ReplicaId : Settled(q)
    BY <1>1, <2>1, SettledFailovers
  <2>3. StartersWait
    BY <1>6 DEF Failover, netvars, StartersWait
  <2>4. QED
    BY <2>2, <2>3, DrivenKept
<1>7. ASSUME NEW op \in Ops, NEW r \in ReplicaId, LookUpWorker(k, op, r)
      PROVE  StartupIsDriven'
  BY <1>3, <1>7 DEF LookUpWorker, vars
<1>8. ASSUME NEW op \in Ops, NEW r \in ReplicaId, NEW w \in WorkerId, NEW b \in BootId \cup {NullId},
             TakeAddress(k, op, r, w, b)
      PROVE  StartupIsDriven'
  BY <1>3, <1>8 DEF TakeAddress, vars
<1>9. ASSUME NEW r \in ReplicaId, Execute(k, r)
      PROVE  StartupIsDriven'
  BY <1>3, <1>9 DEF Execute, vars
<1>10. QED
  BY <1>4, <1>5, <1>6, <1>7, <1>8, <1>9 DEF Request

(* and a control thread leaves start-up to no one else: the table lets a    *)
(* DECLARED replica be allocated and one before STARTING be started.        *)
LEMMA DrivenByControl ==
    ASSUME CInv, StartupIsDriven, NEW k \in Client, ControlThread(k)
    PROVE  StartupIsDriven'
<1>1. IInv /\ job \in [Client -> {Idle} \cup ProvisionJobs \cup CommandJobs \cup ForwardJobs]
      /\ replicas \in [ReplicaId -> Replica]
  BY DEF CInv, HInv, CoordTypeOK, IInv, TypeOK
<1>2. ASSUME job[k].step \notin {"ALLOCATE", "START"}, \E j : job' = [job EXCEPT ![k] = j]
      PROVE  StartersWait
  BY <1>1, <1>2 DEF StartersWait
<1>3. ASSUME NEW q \in ReplicaId, NEW steps \in SUBSET {"ALLOCATE", "START"}, Pending(q, steps),
             q # job[k].replica, \E j : job' = [job EXCEPT ![k] = j]
      PROVE  Pending(q, steps)'
  BY <1>1, <1>3 DEF Pending
<1>4. /\ CanTransition("DECLARED", "ALLOCATING") /\ CanTransition("DECLARED", "STARTING")
      /\ CanTransition("ALLOCATING", "STARTING")
  BY DEF CanTransition, ReplicaEdges
<1>5. CASE Allocate(k)
  <2> DEFINE r == job[k].replica
  <2>1. r \in ReplicaId /\ job[k].op = "PROVISION"
    BY <1>5, JobTypes DEF Allocate, Waits, CInv, ProvisionJobs
  <2>2. job' = [job EXCEPT ![k].step = "START"]
    BY <1>5 DEF Allocate, Then
  <2>3. job'[k].step = "START" /\ job'[k].op = "PROVISION" /\ job'[k].replica = r
    BY <1>1, <2>1, <2>2 DEF Idle, ProvisionJobs, CommandJobs, ForwardJobs
  <2>4. /\ \A q \in ReplicaId \ {r} : replicas'[q] = replicas[q]
        /\ replicas'[r].generation = replicas[r].generation
        /\ Known(r) => replicas'[r].lifecycle # "DECLARED"
    <3>1. CASE MayEnter(r, "ALLOCATING")
      <4>1. SetAllocating(r, TRUE)
        BY <1>5, <3>1 DEF Allocate
      <4> HIDE DEF r
      <4>2. replicas[r] \in Replica
        BY <1>1, <2>1
      <4>3. QED
        BY <1>1, <2>1, <4>1, <4>2 DEF SetAllocating, Replica
    <3>2. CASE ~MayEnter(r, "ALLOCATING")
      BY <1>4, <1>5, <3>2 DEF Allocate, MayEnter, vars
    <3>3. QED
      BY <3>1, <3>2
  <2>5. ASSUME NEW q \in ReplicaId, Known(q)'
        PROVE  /\ replicas'[q].lifecycle = "DECLARED" => Pending(q, {"ALLOCATE"})'
               /\ replicas'[q].lifecycle = "ALLOCATING" => Pending(q, {"ALLOCATE", "START"})'
    <3>1. CASE q = r
      BY <2>3, <2>4, <2>5, <3>1 DEF Pending, Known
    <3>2. CASE q # r
      BY <1>3, <2>2, <2>4, <2>5, <3>2 DEF StartupIsDriven, Known
    <3>3. QED
      BY <3>1, <3>2
  <2>6. QED
    BY <2>5 DEF StartupIsDriven
<1>6. CASE Start(k)
  <2> DEFINE r == job[k].replica
  <2>1. r \in ReplicaId
    BY <1>6, JobTypes DEF Start, Waits, CInv, ProvisionJobs
  <2>2. job' = [job EXCEPT ![k].step = "WARM"]
    BY <1>6 DEF Start, Then
  <2>3. /\ \A q \in ReplicaId \ {r} : replicas'[q] = replicas[q]
        /\ replicas'[r].generation = replicas[r].generation
        /\ Known(r) => replicas'[r].lifecycle \notin {"DECLARED", "ALLOCATING"}
    <3>1. CASE MayEnter(r, "STARTING")
      <4>1. SetStarting(r)
        BY <1>6, <3>1 DEF Start
      <4> HIDE DEF r
      <4>2. replicas[r] \in Replica
        BY <1>1, <2>1
      <4>3. QED
        BY <1>1, <2>1, <4>1, <4>2 DEF SetStarting, Replica
    <3>2. CASE ~MayEnter(r, "STARTING")
      BY <1>4, <1>6, <3>2 DEF Start, MayEnter, vars
    <3>3. QED
      BY <3>1, <3>2
  <2>4. ASSUME NEW q \in ReplicaId, Known(q)'
        PROVE  /\ replicas'[q].lifecycle = "DECLARED" => Pending(q, {"ALLOCATE"})'
               /\ replicas'[q].lifecycle = "ALLOCATING" => Pending(q, {"ALLOCATE", "START"})'
    <3>1. CASE q = r
      BY <2>3, <2>4, <3>1 DEF Known
    <3>2. CASE q # r
      BY <1>3, <2>2, <2>3, <2>4, <3>2 DEF StartupIsDriven, Known
    <3>3. QED
      BY <3>1, <3>2
  <2>5. QED
    BY <2>4 DEF StartupIsDriven
<1>7. CASE SendWarm(k) \/ LookUpBoot(k) \/ Forward(k)
  <2>1. UNCHANGED vars
    BY <1>7 DEF SendWarm, LookUpBoot, Forward
  <2>2. \A q \in ReplicaId : Settled(q)
    BY <2>1 DEF vars, Settled
  <2>3. StartersWait
    BY <1>1, <1>7 DEF SendWarm, LookUpBoot, Forward, Waits, Done, StartersWait
  <2>4. QED
    BY <2>2, <2>3, DrivenKept
<1>8. CASE CallController(k)
  <2> DEFINE r == job[k].replica
             w == job[k].worker
             b == job[k].boot
             op == job[k].op
  <2>1. r \in ReplicaId /\ op \in Ops
    BY <1>8, JobTypes DEF CallController, Waits, CInv, CommandJobs
  <2>2. \/ UNCHANGED vars \/ DrainReplica(r, w, b) \/ PromotePrimary(r, w, b)
        \/ op # "DRAIN" /\ PromoteOther(r, w, b, op)
    BY <1>8 DEF CallController
  <2>3. StartersWait
    BY <1>1, <1>8 DEF CallController, Waits, Done, StartersWait
  <2> HIDE DEF r, w, b, op
  <2>4. op # "DRAIN" => op \in PromotionState
    BY <2>1, CoordinatorAssumption, InputAssumption
  <2>5. "PRIMARY" \in PromotionState
    BY DEF PromotionState
  <2>6. \A q \in ReplicaId : Settled(q)
    <3>1. CASE UNCHANGED vars
      BY <3>1 DEF vars, Settled
    <3>2. QED
      BY <1>1, <2>1, <2>2, <2>4, <2>5, <3>1, SettledCommands
  <2>7. QED
    BY <2>3, <2>6, DrivenKept
<1>9. QED
  BY <1>5, <1>6, <1>7, <1>8 DEF ControlThread

-----------------------------------------------------------------------------
(* The specification *)

(* The invariant holds initially, and every step keeps it. *)
LEMMA CoordInductive == CoordSpec => []CInv
<1>1. CoordInit => CInv
  <2> SUFFICES ASSUME CoordInit PROVE CInv
    OBVIOUS
  <2>1. HInv
    BY HealthInit DEF CoordInit
  <2>2. CoordTypeOK
    <3>1. <<>> \in Seq(Upward) /\ <<>> \in Seq(Downward)
      OBVIOUS
    <3>2. QED
      BY <3>1 DEF CoordInit, CoordTypeOK
  <2>3. Fence
    BY IdAssumption, CoordinatorAssumption DEF CoordInit, Init, Fence
  <2>4. RoutesAreLive
    BY DEF CoordInit, RoutesAreLive
  <2>5. QED
    BY <2>1, <2>2, <2>3, <2>4 DEF CInv
<1>2. CInv /\ [CoordNext]_cvars => CInv'
  <2> SUFFICES ASSUME CInv, [CoordNext]_cvars PROVE CInv'
    OBVIOUS
  <2>1. HInv'
    BY ControllerStep, HealthKeptByNext DEF CInv
  <2>2. QED
    BY <2>1, TypeStep, FenceStep, RoutesStep DEF CInv
<1>3. QED
  BY <1>1, <1>2, PTL DEF CoordSpec

(* CoordTypeOK: in particular every report names a replica and a boot, and  *)
(* no control thread calls the controller without having looked both up.    *)
THEOREM CoordTypeCorrect == CoordSpec => []CoordTypeOK
<1>1. CInv => CoordTypeOK
  BY DEF CInv
<1>2. QED
  BY <1>1, CoordInductive, PTL

(* The coordinator, with its threads, its commands of several calls and any *)
(* number of workers that come and go, only ever makes steps of the         *)
(* controller.                                                              *)
LEMMA CoordinatorIsController == CoordSpec => Spec
<1>1. CoordInit => Init
  BY DEF CoordInit
<1>2. CInv /\ [CoordNext]_cvars => [Next]_vars
  BY ControllerStep
<1>3. QED
  BY <1>1, <1>2, CoordInductive, PTL DEF CoordSpec, Spec

(* What is proved of the controller holds in the coordinator: for any       *)
(* number of clients, worker processes and replicas the sets keep to their  *)
(* limit, authority is coherent and audited, and drains can be completed,   *)
(* although most calls are made with what an earlier call returned.         *)
THEOREM CoordinatorKeepsController ==
    CoordSpec => [](AuthorityCoherent /\ ServableAudited /\ DrainAudited /\ CapacityRespected)
BY CoordinatorIsController, AuthorityIsCoherent, ServableIsAudited, DrainsAreAudited,
   CapacityIsRespected, PTL

(* StartupIsDriven: with any number of clients, some thread is always about *)
(* to make the next call for a replica that is DECLARED or ALLOCATING.      *)
THEOREM StartupAlwaysDriven == CoordSpec => []StartupIsDriven
<1>1. CoordInit => StartupIsDriven
  BY DEF CoordInit, Init, StartupIsDriven, Known, NoReplica
<1>2. ASSUME CInv, StartupIsDriven, [CoordNext]_cvars
      PROVE  StartupIsDriven'
  <2>1. CASE UNCHANGED cvars
    BY <1>2, <2>1 DEF cvars, vars, netvars, StartupIsDriven, Known, Pending
  <2>2. QED
    BY <1>2, <2>1, DrivenByConnections, DrivenByRequests, DrivenByControl DEF CoordNext
<1>3. QED
  BY <1>1, <1>2, CoordInductive, PTL DEF CoordSpec

(* RoutesAreLive: worker_conns never leads to a connection nobody reads,    *)
(* although erase goes by the worker id.                                    *)
THEOREM RoutesAlwaysLive == CoordSpec => []RoutesAreLive
<1>1. CInv => RoutesAreLive
  BY DEF CInv
<1>2. QED
  BY <1>1, CoordInductive, PTL

(* ClosedIsFenced: once the thread of a connection has cleaned up, no       *)
(* replica of its boot passes the gate, whatever other threads, clients and *)
(* later processes of the same worker do.                                   *)
THEOREM ClosedStaysFenced == CoordSpec => []ClosedIsFenced
<1>1. ASSUME CInv
      PROVE  ClosedIsFenced
  <2> SUFFICES ASSUME NEW c \in Conn, thread[c] \in {"UNREGISTERED", "ENDED"},
                      NEW r \in ReplicaId, HostedBy(r, c), Servable(r)
               PROVE  FALSE
    BY DEF ClosedIsFenced
  <2>1. WorkerOf[c] \in WorkerId /\ BootOf[c] # NullId
    BY CoordinatorAssumption
  <2>2. workers[WorkerOf[c]] = BootOf[c]
    BY <2>1 DEF HostedBy, Servable, CurrentBootFor
  <2>3. QED
    BY <1>1, <2>2 DEF CInv, Fence, Active
<1>2. QED
  BY <1>1, CoordInductive, PTL
=============================================================================
