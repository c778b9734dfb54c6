\* A worker that restarts under a new boot id while the thread of its old
\* connection is still at work, under fair threads and worker processes.
CONSTANTS
    w1 = w1
    c1 = c1
    c2 = c2
    b1 = b1
    b2 = b2
    Conn = {c1, c2}
    WorkerOf <- SameWorker
    BootOf <- FreshBoots
    NoConn = NoConn
    Client = {k1}
    ProcessEpoch = e1
    Counts <- SetCounts
    Ops = {"PRIMARY"}
    MaxQueue = 1
    ReplicaId = {1}
    SetId = {s1}
    WorkerId = {w1}
    BootId = {b1, b2}
    Epoch = {e1}
    NullId = NullId
    Unregistered = Unregistered
    SetConfigs <- BuiltConfigs
    Compat = {TRUE}
    Capacities = {1}
    HealthReports = {"HEALTHY"}
    Targets = {"PRIMARY"}
    Placed = {TRUE}
    PartialWarm = {FALSE}
    AllFactorsSet = {TRUE}
    SetTargets = {}
    MaxGeneration = 1
    MaxRounds = 2
SPECIFICATION FairCoordSpec
INVARIANT ClosedIsFenced
INVARIANT RoutesAreLive
PROPERTY LossIsNoticed
PROPERTY WarmupCompletes
PROPERTY WorkIsAnswered
CHECK_DEADLOCK FALSE
