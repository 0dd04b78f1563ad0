SPECIFICATION Spec
CONSTANTS
    NoIface = NoIface
    NoTemplate = NoTemplate
    VM = {v1, v2, v3}
    HostIfaces <- MCHostIfaces
    Templates <- MCTemplates
    MaxPools = 3
    MaxRestarts = 1
CHECK_DEADLOCK FALSE
SYMMETRY MCSymmetry
INVARIANTS
    TypeOK
    UniqueAddresses
    BitsExplained
