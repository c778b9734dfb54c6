\* Which replica a failover promotes.  The instance stops when the candidates
\* have used up their health generations (MaxRounds), so it may deadlock.
CONSTANTS
    ReplicaId = {1, 2, 3, 4}
    SetId = {s1}
    WorkerId = {w1, w2}
    BootId = {b1}
    Epoch = {e1}
    NullId = NullId
    Unregistered = Unregistered
    SetConfigs <- ChoiceConfigs
    Compat = {TRUE}
    Capacities = {1}
    HealthReports = {"HEALTHY"}
    Targets = {"NOT_PROMOTED", "STANDBY", "CANARY", "REPLACEMENT", "RECOVERED", "PRIMARY"}
    Placed = {TRUE}
    PartialWarm = {FALSE}
    AllFactorsSet = {TRUE}
    SetTargets = {}
    MaxGeneration = 1
    MaxRounds = 3
SPECIFICATION ChoiceSpec
SYMMETRY WorkerSymmetry
INVARIANT FailoverDeterministic
PROPERTY FailoverDiverse
CHECK_DEADLOCK FALSE
