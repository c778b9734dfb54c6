\* Three hosts of eleven kinds in every order, with and without preferences and
\* earlier replicas.  Placing stops at MaxPlaced or when no host is eligible.
CONSTANTS
    Requirements <- Sets
    HostVectors <- Vectors
    Existing <- Before
    MaxPlaced = 2
    Half = 50
    MaxInt = 3
SPECIFICATION Spec
INVARIANT ChosenIsBest
INVARIANT OrderIrrelevant
INVARIANT DiversityDominates
INVARIANT PlacedIsCompatible
CHECK_DEADLOCK FALSE
