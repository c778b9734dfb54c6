\* Two replicas of one set on a worker with two boot ids: promotion, failover,
\* drain, failure, retirement, disconnect and restart interleave.
CONSTANTS
    ReplicaId = {1, 2}
    SetId = {s1}
    WorkerId = {w1}
    BootId = {b1, b2}
    Epoch = {e1}
    NullId = NullId
    Unregistered = Unregistered
    SetConfigs <- DefaultConfigs
    Compat = {TRUE}
    Capacities = {1}
    HealthReports = {"HEALTHY"}
    Targets = {"PRIMARY"}
    Placed = {TRUE}
    PartialWarm = {FALSE}
    AllFactorsSet = {TRUE}
    SetTargets = {}
    MaxGeneration = 1
    MaxRounds = 3
SPECIFICATION Spec
INVARIANT DrainAudited
PROPERTY LifecycleLegal
PROPERTY ImplementsLease
PROPERTY WorkerLossRevokes
