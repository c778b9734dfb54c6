\* Two replicas of one set are promoted one after the other.
CONSTANTS
    ReplicaId = {1, 2}
    SetId = {s1}
    WorkerId = {w1}
    BootId = {b1}
    Epoch = {e1}
    NullId = NullId
    Unregistered = Unregistered
    SetConfigs <- DefaultConfigs
    Compat = {TRUE}
    Capacities = {1}
    HealthReports = {"HEALTHY"}
    Targets = {"PRIMARY"}
    Placed = {TRUE}
    PartialWarm = {FALSE}
    AllFactorsSet = {TRUE}
    SetTargets = {}
    MaxGeneration = 1
    MaxRounds = 2
SPECIFICATION Spec
INVARIANT SinglePrimary
