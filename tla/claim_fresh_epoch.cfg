\* rf_cli invocations on one state file: the epoch a recovered replica serves under.
CONSTANTS
    w1 = w1
    w2 = w2
    b1 = b1
    b2 = b2
    ReplicaId = {1, 2}
    SetId = {s1, s2}
    WorkerId = {w1, w2}
    BootId = {b1, b2}
    Epoch = {e1, e2}
    NullId = NullId
    Unregistered = Unregistered
    SetConfigs <- CreatedSets
    Compat = {TRUE}
    Capacities = {1}
    HealthReports = {"HEALTHY"}
    Targets = {"PRIMARY", "STANDBY"}
    Placed = {TRUE}
    PartialWarm = {FALSE}
    AllFactorsSet = {TRUE}
    SetTargets = {}
    MaxGeneration = 1
    MaxRounds = 3
    NoFile = NoFile
    Torn = Torn
    SetupSet = s1
    HostOf <- SetupHosts
    BootOf <- SetupBoots
    SetupEpoch = e1
    CreateEpoch = e2
    Sizes <- SetupSizes
    UintRange = 8
SPECIFICATION CLISpec
INVARIANT ServesUnderFreshEpoch
\* A kill between truncation and write leaves a file no later invocation loads.
CHECK_DEADLOCK FALSE
