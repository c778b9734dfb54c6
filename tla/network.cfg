\* Two clients that provision, drain and fail over the same two replica ids in a
\* set of one or two, while their worker process registers, reports and dies.
CONSTANTS
    w1 = w1
    c1 = c1
    c2 = c2
    b1 = b1
    b2 = b2
    Conn = {c1}
    WorkerOf <- SameWorker
    BootOf <- FreshBoots
    NoConn = NoConn
    Client = {k1, k2}
    ProcessEpoch = e1
    Counts <- SmallCounts
    Ops = {"DRAIN"}
    MaxQueue = 0
    ReplicaId = {1, 2}
    SetId = {s1}
    WorkerId = {w1}
    BootId = {b1}
    Epoch = {e1}
    NullId = NullId
    Unregistered = Unregistered
    SetConfigs <- SmallConfigs
    Compat = {TRUE}
    Capacities = {1}
    HealthReports = {"HEALTHY"}
    Targets = {"PRIMARY"}
    Placed = {TRUE}
    PartialWarm = {FALSE}
    AllFactorsSet = {TRUE}
    SetTargets = {}
    MaxGeneration = 2
    MaxRounds = 2
SPECIFICATION CoordSpec
SYMMETRY ClientSymmetry
INVARIANT CoordTypeOK
INVARIANT CapacityRespected
INVARIANT StartupIsDriven
CHECK_DEADLOCK FALSE
