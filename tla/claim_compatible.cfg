\* A set that needs compute 8.6 and a host that has 8.9.
CONSTANTS
    Requirements <- MinorSets
    HostVectors <- MinorVectors
    Existing <- Before
    MaxPlaced = 2
    Half = 50
    MaxInt = 3
SPECIFICATION Spec
INVARIANT ProvisionedIsCompatible
CHECK_DEADLOCK FALSE
