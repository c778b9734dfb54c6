# Replica Fabric in TLA+

Replica Fabric decides which live model replica is current, healthy, ready and
allowed to serve. This directory models that decision: TLA+ modules translated
from the C++ source, TLC runs on small instances, and TLAPS proofs for every
value of the constants. Paths below are relative to the repository root, which
is `src/` in `PROJECT.json`.

## 1. Inventory

| Component | State | Operations | Modelled |
|---|---|---|---|
| Replica-set controller (`src/replica_set_controller.cpp`) | sets, replicas, workers, epoch, promotion/drain/failover records, all under one mutex | 15 mutating calls, `servable` and lookups | yes |
| Serving-authority gate (`authority/serving_authority.hpp`) | none | `evaluate_serving_authority` | yes |
| Lifecycle tables (`authority/transition.hpp`, `core/enums.hpp`) | none | two `can_transition` tables | yes |
| Policies (`core/policies.hpp`) | fields of a set | read by promotion and failover | the fields that are read |
| Health, readiness, warming records (`model/`) | fields of a replica | evidence of workers | as inputs |
| Compatibility (`core/compatibility.hpp`) | none | `check_compatibility` | yes |
| Placement engine (`src/placement.cpp`) | none | `place` | yes |
| Persistence (`src/snapshot.cpp`) | a byte snapshot | make, decode, validate, recover, install | yes, without the encoding |
| Coordinator (`apps/distributed/rf_coordinator.cpp`) | one controller, a map of worker connections, results, one thread per connection | control commands, worker messages, disconnect | yes, without SNAPSHOT and QUERY |
| Worker runtime (`apps/distributed/rf_worker.cpp`) | boot id, hosted replicas | register, warm, report, execute | yes, without the computation |
| Protocol, transport | sockets | framing | as FIFO channels of whole messages |
| CLI (`apps/cli/rf_cli.cpp`) | a snapshot file | load, relink, one command, save | the commands that save |
| Identities, CUDA replica, library, errors, time | none shared | - | no |

**How the parts interact.** The coordinator owns one controller. Each connection
has a thread; a worker's thread registers it, applies its WARM_DONE, HEALTH and
READINESS messages and unregisters it when the connection closes; other
connections carry control commands (create, provision, promote, drain, failover,
execute). Every controller call locks `mu_` for its whole duration, so calls are
atomic and concurrency is the order in which they take effect. The coordinator,
however, often makes two calls for one command (look up a boot id, then promote),
and other threads run in between. The CLI reaches the same controller through a
snapshot: load, recover, relink, one command, save.

**What is hard.** Authority is spread over many fields (serving flag, promotion
state, role, lifecycle, health, boot id, epoch, generations) assigned separately
by ten operations. Worker loss, restart and re-provisioning come at any moment
between them. Records are matched by replica id across incarnations. Some calls
change state and then return REJECTED. `PROJECT.json` lists every hazard with
its line and the properties that watch it.

**What makes each part correct.**
 - controller: authority fields agree; lifecycles move along the table; a lost
   worker takes authority with it; an ended incarnation never serves again; a
   failover's choice is deterministic and diverse; capacity and audit records
   survive re-provisioning;
 - coordinator and workers: whatever the interleaving, a replica that has been
   provisioned is not stranded before it starts; a connection that has been cleaned up leaves nothing servable
   behind; commands go to connections that are read; a lost worker is noticed,
   warm-ups complete and work is answered;
 - persistence: recovery restores no authority, and what is recovered can be
   brought back to service;
 - placement and compatibility: the chosen host is feasible and the best, whatever
   the order of the hosts, and what is placed is compatible.

## 2. Modules

| Module | Role |
|---|---|
| `Lifecycle` | enumerations and both lifecycle tables |
| `ReplicaSetController` | the controller and the gate: state, one action per operation, properties |
| `Persistence` | what a snapshot holds, what recovery accepts and what it installs |
| `CommandLine` | `rf_cli` invocations on one state file, over `Persistence` and the controller |
| `ServingLease` | abstract specification: what serving authority promises |
| `Coordinator` | connection threads, control threads, worker processes and channels, over the controller |
| `Compatibility` | `check_compatibility` |
| `Placement` | `place`, and a caller that places and provisions replica after replica |
| `DocumentedClaims` | a statement about the controller that the code does not keep |
| `ReplicaSetControllerProofs` | theorems about the controller: types, coherence, audit, lifecycle, worker loss |
| `ServingProofs` | theorems about the controller: health evidence, drains, failover, capacity, the lease |
| `FailoverProofs` | theorem about the controller: the choice of a failover |
| `CoordinatorProofs` | theorems about the coordinator |
| `CommandLineProofs` | theorems about the command line and its state file |
| `PlacementProofs` | theorems about placement |
| `NaturalSets` | induction over natural numbers, in the form the proofs use |
| `MCReplicaSetController` | configurations (policies, counts) for TLC |
| `MCFailoverChoice` | initial states for the failover-choice run |
| `MCCommandLine` | the identities `setup` draws, the sizes it is given and the sets the commands create |
| `MCCoordinator` | who runs as which worker, under which boot |
| `MCPlacement` | hosts, sets and earlier replicas |

`Coordinator` and `CommandLine` both extend `ReplicaSetController` and make its
actions part of theirs; they are the two programs of the repository that own a
controller.

### State and actions of `ReplicaSetController`

`replicas`, `sets`, `workers` and `epoch` are the maps `replicas_`, `sets_`,
`workers_` and the field `epoch_`. A map entry that does not exist is a replica
of generation 0, a set whose lifecycle is `"ABSENT"`, or a worker that is
`Unregistered`. `drains` is `drains_`. Of `promotions_` the model keeps the last
record of each replica id, and of `failovers_` the last record: no operation
reads the older ones.

Each public mutating operation is one action with the operation's name. Two
operations are split where the code returns different results:
`promote_replica` into `PromotePrimary` and `PromoteOther`, and
`fail_replica`/`trigger_failover` each into the accepted call and the call that
changes state although it returns REJECTED. A call that returns early without
touching state is a stuttering step. `servable` together with
`evaluate_serving_authority` is the predicate `Servable`.

Data abstraction:
 - identities are model values or small numbers. A random generation becomes the
   next number for that replica id, so equality means what it means in the code
   as long as 128-bit random values do not collide;
 - `set_generation` also stands for the policy and artifact generation and the
   policy fingerprint: provisioning copies all four from the set, the gate
   compares all four, and no operation changes them in a set. (Recovery does not
   change them either.)
 - `compatible` is the result of `check_compatibility` on data that is fixed when
   a replica is provisioned;
 - `create_replica_set` is called with a set in its default lifecycle, CREATED,
   as every caller in the repository does;
 - a warm-up is partial or not (`warm_replica` looks at nothing else), and a
   readiness report has all factors or not;
 - left out: timestamps, texts, `memory_residency`, `health_record`, and
   `active_requests`/`reserved_capacity`. No operation ever makes the last two
   non-zero, so `complete_drain`'s check for active requests never refuses.

### State and actions of `CommandLine`

An `rf_cli` invocation is a process with a controller of its own, so the
controller's variables are the memory of the one process that runs. `file` is the
state file: `NoFile`, `Torn`, or the record `MakeSnapshot` builds. `phase` says
where the process is, `command` what it was asked and `todo` which controller
calls it has still to make.

| Action | Code |
|---|---|
| `StartEmpty`, `LoadState` | `load_state`: without a file, or `recover_into` and `relink_authority` |
| `Begin` | the command is chosen; `Calls` is the sequence of controller calls it makes |
| `Apply` | the next call takes effect: it is the controller's own action |
| `Refuse` | the controller refuses the call (`~Accepts`); `promote` (through `ensure_ready`) and `setup` then end without saving, other commands go on |
| `OpenForWrite`, `WriteAndExit` | `save_state`: `fopen` with "wb" truncates, then the bytes are written |
| `Die` | the process is killed, or ends without saving; its memory is gone |

A command's calls are separate steps although one thread makes them, so that a
kill may fall between any two. Two things are fixed by the code and taken over:
both generators of `rf_cli` are seeded with constants, so `setup` draws the same
identities in every invocation (a second `setup` on the same file is refused);
and every recovered replica has health STARTING and readiness UNKNOWN, so `ensure_ready` never
skips its evidence. Inputs are restricted to invocations that read the file they
write, and to promotion targets of the enumeration. Snapshots are modelled by
their contents: writers and readers in `snapshot.cpp` name the same fields in the
same order, the epoch is read and dropped, and a file cut short fails the length
check or the checksum.

There are two replica ids: `setup` provisions at most two replicas, with the same
ids in every invocation, and no other command provisions. `Accepts` states when
the controller carries out a call, so `Refuse` is a condition on the state; on
the instance of `sessions` TLC confirms that it holds exactly where the call's
action is enabled. The `max` argument is a signed `int`: `MkSet` casts it
(`% UintRange`), while the loop of `setup` counts with it as it is, so a negative
one makes a set with a very large `max_replicas` and no replica.

### State and actions of `Coordinator`

The mutex of the controller covers one call. Every call a thread makes is
therefore a step of its own, and so is every use of `worker_conns` (`conns`),
which has a mutex of its own. What a thread has read and not yet used is state:
`evidence` (the health generation read through `find_replica`) and `job` (the
worker and boot a PROMOTE or DRAIN looked up, the worker an EXECUTE did, and how
far a PROVISION has come).

| Action | Code |
|---|---|
| `Connect`, `Handshake`, `Serve`, `Crash` | `rf_worker`: REGISTER; the first frame, which must be the acknowledgement; the command loop with the reports it writes; a kill at any moment, which loses a suffix of what was written |
| `Register`, `List`, `Acknowledge` | the first frame of a worker connection: `register_worker`, the entry in `worker_conns`, the acknowledgement |
| `WarmDone`, `DateEvidence` then `Health`, `Readiness`, `ExecuteResult` | the loop of a worker connection; the health report is two calls |
| `NeverRegistered`, `Unregister`, `Erase` | the connection closes: nothing to do, or `unregister_worker` and `worker_conns.erase`, both by worker id |
| `CreateSet`; `Provision`, `Allocate`, `Start`, `SendWarm` | `handle_control`: CREATE_SET; PROVISION with its four calls |
| `LookUpWorker`, `LookUpBoot`, `CallController` | PROMOTE and DRAIN: read, read, call |
| `TakeAddress`, `CallController` | PROMOTE and DRAIN of a replica that is unknown when it is looked up: the message's own worker and boot are taken and the controller is called all the same |
| `Failover` | FAILOVER |
| `Execute`, `Forward` | EXECUTE: the worker is read from the replica, then the message goes out on that worker's route of the moment |

A worker process opens one connection in its life, so `Conn` names both. A call
that the controller refuses is a step that leaves the controller alone. The
worker sends HEALTHY and all-factors reports only, as `rf_worker` does. EXECUTE's
result falls through to the PING case in the source, so the model sends the PONG
as well. Health generations are random per incarnation in the code and numbers
here, so evidence carries the incarnation too. The instances start workers with
`--boot`, one boot id per process, as the tests do.

### `Compatibility` and `Placement`

`Issues` is the set of issues `check_compatibility` collects. `Place` translates
`place`: sort by worker and device, filter by the hard constraints, score six
factors, and run the selection loop (`BestOf`, a recursive function that keeps the
`Better` of what it holds and the next candidate). Scores are doubles in the code.
Here a score of 1 is `2 * Half` parts and each factor is rounded down to a whole
number of parts; with `Half = 50` a part is a hundredth, which is exact for the
inputs of the run. `HostAssumption` says of the vectors that they name a device of
a worker once (`std::sort` may leave two hosts of the same name in either order,
so the order of the input would then matter) and that no host has more memory free
than it has; every producer of hosts in the repository sets the two equal. The
accelerators a set requires are a `uint32_t` that `place` casts to `int`: `ToInt`
does the same with `MaxInt`, so in the upper half of the range every host has
enough of them.

Of the programs only `rf_cli explain-placement` (`apps/cli/rf_cli.cpp:347`) calls
the engine, once, with no earlier replicas, and prints the decision. That no
program provisions where the engine says is why the composition is the model's:
`PlaceReplica` and `Provision` follow `tests/advanced/test_advanced.cpp` (place,
then add the placed replica to the list for the next call) and PROVISION of the
coordinator, which derives the compatibility of the new replica.

## 3. Runs

Runs of one module differ only in constants. Deadlock is checked in the runs of the
controller; `choice`, `sessions`, `network`, `progress` and `placement` may stop
(rounds, processes or hosts are used up, or a torn file ends the story).

| Run | Instance | Checks |
|---|---|---|
| `pair` | 2 replicas, 1 set, 1 worker with 2 boot ids, 3 health rounds: 475 000 states | `LifecycleLegal`, `ImplementsLease`, `WorkerLossRevokes`, `DrainAudited` |
| `incarnations` | 1 id, 2 incarnations, 2 sets, 2 epochs, 2 boots, HEALTHY and UNHEALTHY reports: 655 000 states | `TypeOK`, `AuthorityCoherent`, `ServableAudited`, `UnhealthyHoldsNothing`, `DrainAudited` |
| `choice` | 4 replicas in each of the 6 promotion states on 2 interchangeable workers, all failover flags: 309 000 states | `FailoverDeterministic`, `FailoverDiverse` |
| `sessions` | `rf_cli` on one file: 2 replicas, 2 sets, sizes -1, 0 and 2, right and wrong workers and boots, 3 rounds: 831 000 states | `AuthorityCoherent`, `DrainAudited`, `SavedIsLoadable`, `NoResurrection`, `EndedStaysEnded`, `PromoteServes` |
| `network` | coordinator, 1 worker process, 2 replica ids with 2 incarnations each, a set of size 1 or 2, 2 interchangeable clients: 1 140 000 states | `CoordTypeOK`, `CapacityRespected`, `StartupIsDriven` |
| `progress` | coordinator, 2 processes of one worker id, 1 replica, 1 client, fairness: 100 000 states | `ClosedIsFenced`, `RoutesAreLive`, `LossIsNoticed`, `WarmupCompletes`, `WorkIsAnswered` |
| `placement` | 3 hosts of 11 kinds in every order, 3 requirements, up to 2 replicas placed in a row: 161 000 states | `ChosenIsBest`, `OrderIrrelevant`, `DiversityDominates`, `PlacedIsCompatible` |

**Properties.**
 - `AuthorityCoherent`: flag, PRIMARY promotion and PRIMARY role are held
   together, and only while SERVING.
 - `ServableAudited`: what the gate accepts is PRIMARY (the gate itself would
   accept STANDBY) and the promotion trail ends with this incarnation's grant.
 - `UnhealthyHoldsNothing`: where policy requires health, UNHEALTHY evidence and
   authority never meet. The same is not true of FAILED, see section 4.
 - `LifecycleLegal`: within an incarnation every lifecycle change is an edge of
   the table, also where the code writes the field without asking it.
 - `WorkerLossRevokes`: after a disconnect or a registration under another boot
   id nothing on that worker holds authority.
 - `DrainAudited`: a DRAINING replica always has an open record to close, though
   records are matched by id and older incarnations may leave some open.
 - `CapacityRespected`: `max_replicas` bounds the members of a set. Members that
   failed or drained count, and an id in use may be provisioned again while there
   is room. The run has one set; a replica that moves to another one is covered by
   the theorem.
 - `FailoverDeterministic`, `FailoverDiverse`: the comparator has exactly one
   first candidate; a replacement on the failed replica's own worker wins only
   by standing.
 - `ImplementsLease`: the controller refines `ServingLease`. An incarnation is
   ABSENT, IDLE, LEASED or ENDED; it is ENDED from the moment it drains, fails,
   quiesces or retires; ENDED is never left except by a new incarnation, and one
   step leases at most one replica.
 - `SavedIsLoadable`: a file written to its end passes
   `validate_recovered_state`, whatever commands led to it.
 - `NoResurrection`: a replica saved as SERVING does not pass the gate in the
   process that recovers it, not even after fresh evidence and a promotion. It
   comes back COLD and a SERVING replica cannot warm; it serves again only as a
   new incarnation.
 - `EndedStaysEnded`: a drain or failure that reached the file is not undone by
   any later invocation.
 - `PromoteServes`: what relinking makes of the next invocation. A `promote` that
   names the right worker and boot ends with a servable replica exactly when the
   replica was saved STARTING or READY. This describes the code, which serves under
   the saved epoch; the documents ask for a fresh one, see section 4.
 - `StartupIsDriven`: a replica that is DECLARED or ALLOCATING has a control thread
   that will still call `set_allocating` or `set_starting` for it. PROVISION is four
   calls, its results are not looked at, the worker may go between any two and two
   clients may be starting the same id at once.
 - `ClosedIsFenced`: once the thread of a connection has unregistered its worker,
   no replica of that boot passes the gate, ever again, although the thread goes
   by worker id and another process may have registered under it meanwhile.
 - `RoutesAreLive`: `worker_conns` holds only connections of that worker whose
   thread has not ended, although `erase` also goes by worker id. A connection that
   has closed may be listed until its own thread erases it.
 - `LossIsNoticed`: a process that dies is eventually fenced for good; there is
   no heartbeat, so this rests on the reading thread alone.
 - `WarmupCompletes`: a WARM on its way to the process that hosts the replica
   takes the replica out of start-up unless the process dies or the id is
   provisioned anew (and is DECLARED again). The three reports are sent once and
   one that is refused is not repeated.
 - `WorkIsAnswered`: work forwarded to a running process ends with a result of
   that process.
 - `ChosenIsBest`: the engine against a definition of what it should compute, for
   requirements that are an `int`.
 - `OrderIrrelevant`: any permutation of the hosts gives the same decision and
   the same list of candidates.
 - `DiversityDominates`: a host that shares an anti-affinity domain beats one that
   does not only by being ahead in two other factors.
 - `PlacedIsCompatible`: for sets that ask for a major compute version, hard
   constraints and `check_compatibility` agree.

**Fairness** is stated in `Coordinator` only; the controller has no thread of its
own and nothing obliges a caller to call. `Fairness` is weak and per process: a
worker process that has a frame to read reads it, a connection thread that can
take its next step does, a control thread finishes the command it has begun. That
is what an operating system gives a runnable thread; the reads are blocking, the
mutexes are held for one call and their waiters are not starved. Nothing is
assumed of `Connect`, `Crash` or any request: no one has to start a worker, kill
one or send a command. TCP delivers what is written unless the process dies.

**Bounds.** `MaxGeneration` bounds incarnations per id and `MaxRounds` the health
generations per incarnation (each promotion to PRIMARY starts one); both cap
counters that the code never caps. Two incarnations show every leak from one to
the next, because no operation looks further back than the current record and
the drain list. Two or three rounds show a report of an old round, a
re-promotion and a failover onto a former primary. Two replicas are enough for a
failover with and without a candidate; the order of several candidates is the
subject of `choice`. `choice` starts from states that the controller reaches by
provisioning, warming, reporting and promoting each replica, and stops when the
candidates have used up their rounds, hence no deadlock check. `sessions` begins
a promotion or failover only while every replica has a round left; it stops when
a kill falls between truncation and write, since nothing loads a torn file.
In `network` two clients work on the same two ids, so that the calls of one
PROVISION fall between those of another and a drain or a failover between them;
one worker process is enough for a worker that goes in between. `progress` gives
two processes the same worker id, so that the cleanup of one connection meets the
registration of the next. Its replica has one incarnation to keep the liveness
check short; with `MaxGeneration = 2`, 873 000 states, which takes too long for a
regular run, the same properties hold, stated for one of the two processes, which
are interchangeable. `MaxQueue` bounds EXECUTE messages in flight and is 0 in
`network`, where EXECUTE would only add states the controller does not see.
`UintRange` and `MaxInt` are 8 and 3 where the code has 2^32 and 2^31 - 1. Three
hosts are enough for a tie, a loser and an infeasible one in every order.

**Mutants.** Every property of a passing run has a mutant, an operator next to
the one it replaces (`Demoted_KeepsPromotion` beside `Demoted`), that makes TLC
report the property violated.

## 4. Where documents and code disagree

Each row is a run expected to find a counterexample.

| Run | Says | Code |
|---|---|---|
| `claim_single_primary` | `docs/architecture.md:44` one primary per set | `promote_replica` never looks at the set's other replicas; both pass the gate |
| `claim_stale_report` | `README.md:127` stale messages never mark a replica healthy or ready | reports are compared with the boot the replica was provisioned under, not with the worker's registration: the old connection of a restarted worker still delivers reports of health and readiness that make a replica of the old boot READY (the gate then refuses it) |
| `claim_ready` | `tests/multiprocess/test_multiprocess.cpp:125` a provisioned replica becomes READY | a worker is registered before it is listed; a PROVISION in between succeeds, its WARM finds no connection, and no one sends it again |
| `claim_compatible` | `apps/distributed/rf_coordinator.cpp:121` compatible by construction | PROVISION records compute `major.0` while the set's requirement keeps its minor version |
| `claim_fresh_epoch` | `README.md:116` and `persistence/snapshot.hpp:13` live workers re-register and the coordinator draws a fresh epoch before any replica serves again | `relink_authority` (`apps/cli/rf_cli.cpp:46`) takes boots and epoch from the file; the next `promote` or `failover` makes a replica pass the gate under the saved epoch |

The counterexample of `claim_ready` is a temporal one, under `FairCoordSpec`: the
worker runs, all threads have finished, and the replica stays in STARTING.

Smaller disagreements, read in the source while modelling, have no run:

 - `docs/architecture.md:41` says an identity is never silently reused;
   `provision_replica` (`src/replica_set_controller.cpp:200`) overwrites the entry
   of a live id and returns OK;
 - `core/replica_set_controller.hpp:34` says REJECTED is not applied;
   `fail_replica` (`:532`) and `trigger_failover` (`:621`) change state first;
 - `README.md:94`: a failover may choose a READY replica of a boot that has gone
   (`:587`), and the gate then refuses it;
 - `core/policies.hpp:86`: `min_health` is never read, and FAILED evidence does not
   stop a promotion (`:376`);
 - `authority/serving_authority.hpp:105`: an unregistered worker and one started
   without `--boot` share the null boot id (`:752`);
 - `README.md:60`: EXECUTE is forwarded without asking the gate
   (`apps/distributed/rf_coordinator.cpp:189`);
 - `model/placement_policy.hpp:29-39`: a preference is a weighted factor and no
   tie-break; `require_diversity`, the preferred NUMA domain and the tie-break
   strategy are never read; "zone" and "region" match only as labels, and "rack"
   matches any label two hosts share;
 - `create_replica_set` accepts `min_healthy > desired_count` against its own
   message (`:98`), and a promotion in a DRAINING set makes the set AVAILABLE;
 - the comment of `relink_authority` (`apps/cli/rf_cli.cpp:43`) says that it
   re-arms DECLARED replicas, which it does not; `persistence/snapshot.hpp` lists
   impossible transitions and invalid generation relationships among what recovery
   rejects, and `validate_recovered_state` checks null identities, the set of each
   replica and the counts only;
 - `src/placement.cpp:76` casts the required accelerators to `int`: from 2^31 on
   every host has enough. `apps/cli/rf_cli.cpp:87` casts a negative size to a very
   large one.

## 5. Proofs

All theorems hold for every value of the constants that satisfies the named
assumptions. The bounds are constants like any other, so they hold for any number
of incarnations, rounds, replicas, processes, clients, invocations and hosts (the
command line has two replicas, as `rf_cli` does). Every invariant and every
action property of a passing run, and the refinement, are stated by a theorem.

| Module | Theorem | States |
|---|---|---|
| `ReplicaSetControllerProofs` | `TypeCorrect` | `Spec => []TypeOK` |
| | `AuthorityIsCoherent` | `Spec => []AuthorityCoherent` |
| | `ServableIsAudited` | `Spec => []ServableAudited` |
| | `LifecycleIsLegal` | `Spec => LifecycleLegal` |
| | `WorkerLossAlwaysRevokes` | `Spec => WorkerLossRevokes` |
| `ServingProofs` | `UnhealthyNeverHolds` | `Spec => []UnhealthyHoldsNothing` |
| | `DrainsAreAudited` | `Spec => []DrainAudited` |
| | `FailoverIsDiverse` | `Spec => FailoverDiverse` |
| | `CapacityIsRespected` | `Spec => []CapacityRespected` |
| | `ControllerImplementsLease` | `Spec => ImplementsLease` |
| `FailoverProofs` | `FailoverIsDeterministic` | `Spec => []FailoverDeterministic` |
| `CoordinatorProofs` | `CoordTypeCorrect` | `CoordSpec => []CoordTypeOK` |
| | `CoordinatorKeepsController` | `CoordSpec => [](AuthorityCoherent /\ ServableAudited /\ DrainAudited /\ CapacityRespected)` |
| | `StartupAlwaysDriven` | `CoordSpec => []StartupIsDriven` |
| | `RoutesAlwaysLive` | `CoordSpec => []RoutesAreLive` |
| | `ClosedStaysFenced` | `CoordSpec => []ClosedIsFenced` |
| `CommandLineProofs` | `CommandsKeepAuthority` | `CLISpec => [](AuthorityCoherent /\ DrainAudited)` |
| | `SavedAlwaysLoads` | `CLISpec => []SavedIsLoadable` |
| | `NothingIsResurrected` | `CLISpec => []NoResurrection` |
| | `EndedNeverReturns` | `CLISpec => []EndedStaysEnded` |
| | `PromotionServes` | `CLISpec => []PromoteServes` |
| `PlacementProofs` | `PlacementChoosesBest` | `Spec => []ChosenIsBest` |
| | `PlacementIgnoresOrder` | `Spec => []OrderIrrelevant` |
| | `AntiAffinityDominates` | `Spec => []DiversityDominates` |
| | `PlacementIsCompatible` | `Spec => []PlacedIsCompatible` |

**Assumptions.** `IdAssumption`: the null identity and the mark for an
unregistered worker are no one's id, and replica ids are numbers, which the
tie-break of a failover compares. `InputAssumption`: inputs have their C++
types. `BoundAssumption`: the bounds are natural numbers. For the coordinator also
`CoordinatorAssumption`: every process has a worker id and a boot id of its own
that is not null, as workers started with distinct `--boot` have; what the
coordinator and `rf_worker` send is among the inputs of the controller; and
`MaxRounds` is not 0. For the command line `SetupAssumption`: the replica ids are
the two that `setup` draws, its other identities are identities of the model,
sizes are integers, `UintRange` is positive, and what the commands call the
controller with is among its inputs; and
`FileAssumption`: a missing file is not a torn one. For placement
`PrecisionAssumption`: a half has at least one part; `RequirementAssumption` and
`HostAssumption`: amounts and compute versions are numbers, required accelerators
a number a `uint32_t` can hold, and what section 2 says of the vectors of hosts.

**Coherence and audit.** The inductive invariant is `IInv == TypeOK /\
AuthorityCoherent /\ Audited`. `ServableAudited` is not inductive: it speaks only
of replicas the gate accepts, and a replica that is not servable now may be so
after a health report. `Audited` says the same of every replica that holds the
serving flag. Coherence is needed for two more results. `unregister_worker` fails
any replica with the flag, whatever its lifecycle; only because the flag implies
SERVING is that an edge of the table. `register_worker` revokes only from SERVING
replicas; only because nothing else holds the flag does that revoke everything.

Lemmas come in three layers: what each record operator (`Obsolete`, `Failed`,
`MarkedFailed`, `Granted`, `Demoted`, `Assigned`) does to one record; that
replacing records that are typed, coherent, audited and legally moved is a good
step (`InPlace`, `Update`, `QuietUpdate`); and one lemma per action. `NextStep`
combines them.

**Serving.** `StepKinds` sorts the steps: most operations revise the record of a
single replica, within what `Revised` allows; the others register or unregister a
worker, create or move a set, provision, or fail over. `RecordMoves` restates that
per replica (the record stays, is revised, or is born), and the theorems are
proved from these two instead of from the actions. `HInv` adds three
parts to `IInv`: `UnhealthyHoldsNothing` itself; `AbsentIsDefault` (an id
that was never provisioned has the default record, so it belongs to no set and
cannot be counted as a member of one created later); and `Rounds` (health
generations count grants from 1, and every incarnation has the boot of a
registration, so what a thread passes back is a legal argument). `Sized` adds to
`CapacityRespected` that membership is finite, without which cardinalities do not
add up. For the lease each kind of step is mapped: a single revision is `Grant`,
`Revoke`, `End` or a stutter; a lost worker is `End` of what it served; a failover
is a `Grant` with an `End`; provisioning is `Incarnate`.

**Coordinator.** The inductive invariant is `CInv == HInv /\ CoordTypeOK /\ Fence
/\ RoutesAreLive`. `Fence` says that a registered boot belongs to a connection
whose thread is between its registration and its cleanup. It is what makes
`ClosedIsFenced` inductive: the gate compares a replica's boot with the registered
one, and after a cleanup that is no boot, or one of a connection still active.
It survives the cleanup of a connection whose worker id another process has taken
over because `unregister_worker` goes by worker id and removes whatever boot is
registered. `ControllerStep` shows that each thread's step is a step of the
controller or leaves it alone, and carries `HInv` over, so what is proved of the
controller holds in the coordinator (`CoordinatorKeepsController`); `ThreadMoves`
lists the moves of a connection thread with what each does to routes and
registrations.

`StartupIsDriven` is inductive on top of `CInv`. Most steps leave every replica
`Settled` (no new incarnation, not into start-up) and every thread that is about to
start one where it is (`StartersWait`), which `DrivenKept` shows to be enough. What
is left are three steps: `Provision` declares a replica and leaves its own thread at
`set_allocating`; `Allocate` and `Start` take the thread on, and the table lets
`set_allocating` through from DECLARED and `set_starting` from DECLARED and
ALLOCATING, so none of them leaves a replica behind in a state its thread has
passed, even if two threads start the same id.

**Induction.** The library's induction theorems take a predicate as a parameter,
which the provers here cannot instantiate. `NaturalSets` therefore derives from
the well-foundedness of `<` the same facts about sets: a non-empty set of numbers
has a least element, and a set that holds 0 and the successors of its members
holds them all. What is proved by induction is stated as membership in such a set.

**Failover.** `SortsBefore`, translated from the comparator of `trigger_failover`,
is shown to be the lexicographic order of standing, locality and id
(`ComparatorIsLexicographic`). A first candidate is then found in three steps, each
a least number: the best standing, among those the best locality, among those the
least id. That it is the only one follows because ids differ. No finiteness is
needed.

**Command line.** The inductive invariant `LInv` joins what the controller
promises (`HInv`, `DrainAudited`) with statements about the file and the process:
 - `Kept`, `Saved`: what the commands make of sets and replicas, in memory and in a
   file. A file is weaker than memory (nothing need be said of authority, which
   recovery clears) and in one point stronger: no replica is saved WARMING. One
   that were could warm up again and serve, and `PromoteServes`, which names
   STARTING and READY only, would not hold;
 - `ProcessOK` with `Ordered`, `IdleIsEmpty`, `LoadedIsImage`: which calls may still
   be due in which order, and what memory holds before the first;
 - `EpochKept`, `SetupIsFirst`, `StartIsLate`: `setup` gets past its first call only
   where there was no replica, and `create-set` alone moves to another epoch;
 - `WarmingEnds`: a WARMING replica has a readiness report among the calls due, or
   the process will end without saving. A save comes when no call is left, so
   nothing WARMING is saved;
 - `MemoryDescends`: each replica in memory descends from its record in the file.
   From this part `NoResurrection` and `EndedStaysEnded` follow.

The calls are not analysed action by action for each part: `CallEvolves` says once
how a call may change a replica (`Evolves`), `CallMovesSets` and `CallMovesWorkers`
do so for the rest, and every part is carried over from these. The sequence of
calls of a command is composed of blocks with the order inside them (`Block`,
`BlocksJoin`). `Kept` is what lets recovery re-establish the controller's own
invariant: the recovered replicas are relinked to registered workers, so `HInv`
holds after `LoadState` (`LoadedState`) although no action of the controller led
there. For `PromoteServes` the invariant `PromoteAdvances` follows a promotion by
the number of calls it has left: what the replica has by then (`Progress`), that
the next call is accepted (`ScriptAccepted`), and that the last one leaves it
servable.

**Placement.** Vectors of any length are handled in three steps. Sorting: an order
exists (`OrderExists`, by induction on the length: the greatest goes last) and is
unique (`OrderUnique`, at the first place where two orders would differ), so all
permutations of a vector are sorted into the same one (`SortedSame`). Selection:
`LoopDefined` shows that the recursive function computes what its equation says, and
`LoopResult` is the loop invariant, that what is held is the best of what has been
seen. What passes the filter meets the constraints unless the accelerators asked
for exceed an `int` (`FilterFacts`). Scores: no factor contributes more than its weight (`FactorBounds`). Sharing
a domain costs 8 times `Half`, and the largest of the other five factors is worth
less, so a host that shares one wins only by being ahead in two. `PInv` ties the
decision that is acted on to the hosts it was made for.

**Only model-checked.** The three liveness properties of `Coordinator`
(`LossIsNoticed`, `WarmupCompletes`, `WorkIsAnswered`): reasoning about fairness
and `ENABLED` is out of the prover's reach. For the same reason the agreement of
`Accepts` with `ENABLED` was confirmed by TLC only; no theorem uses it. The five
claims of section 4 are refuted by counterexamples and have nothing to prove.

## 6. Plan

1. Recovery into a running controller, as the tests do it, where workers register
   again instead of being relinked. The lemmas on recovered and relinked records
   in `CommandLineProofs` are a start.
2. Safety halves of the liveness properties as theorems: that a warm-up on its way
   stays acceptable to the controller until it is read.
3. Frames as header and body, to bound what mixed writes of two threads can do to
   a worker.

## 7. Not modelled

 - Frames (`src/transport.cpp:146`): header and body are two writes without a
   lock of their own, so frames of two threads on one connection can mix; the
   model sends whole messages.
 - SNAPSHOT of the coordinator (`rf_coordinator.cpp:219`): it reads the maps
   without the controller's mutex while other threads change them. That is a data
   race on the containers, and no property of the result could hold.
 - Byte encodings, checksums, parsing and printing of identities, JSON and text
   output: they keep no state the properties tell apart. Identities are drawn at
   random; collisions are left out, except the fixed seeds of `rf_cli`.
 - The CUDA replica and the reference computation of the worker: numeric code
   whose result the control plane only passes on.
 - Doubles: equal totals summed from different terms can differ in the last bit.
   The inputs of `placement` are exact; the theorems are about factors rounded down
   to parts, for any number of parts.
 - Benchmarks, examples and tests, except where they show how a part is called.
