\* One replica id through two incarnations, two sets with different epochs and a
\* worker that restarts.
CONSTANTS
    ReplicaId = {1}
    SetId = {s1, s2}
    WorkerId = {w1}
    BootId = {b1, b2}
    Epoch = {e1, e2}
    NullId = NullId
    Unregistered = Unregistered
    SetConfigs <- DefaultConfigs
    Compat = {TRUE}
    Capacities = {1}
    HealthReports = {"HEALTHY", "UNHEALTHY"}
    Targets = {"PRIMARY", "STANDBY"}
    Placed = {TRUE}
    PartialWarm = {FALSE}
    AllFactorsSet = {TRUE}
    SetTargets = {"DRAINING"}
    MaxGeneration = 2
    MaxRounds = 3
SPECIFICATION Spec
INVARIANT TypeOK
INVARIANT AuthorityCoherent
INVARIANT ServableAudited
INVARIANT UnhealthyHoldsNothing
INVARIANT DrainAudited
