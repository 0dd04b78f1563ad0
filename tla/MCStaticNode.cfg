CONSTANTS
    v1 = v1
    v2 = v2
    v3 = v3
    NoVM = NoVM
    VM <- MCVM
    AllCPUs <- MCAllCPUs
    HostCPUs <- MCAllCPUs
    ReservedCPUs <- MCReservedCPUs
    NUMANodes <- MCNUMANodes
    CPUsInNUMANode <- MCCPUsInNUMANode
    NUMAMemory <- MCNUMAMemory
    VMSizes <- MCVMSizes
    TotalMemory = 5
    ReservedMemory = 1
    AffinityOverlap = FALSE
    ShortGrants = TRUE
SPECIFICATION Spec
SYMMETRY Symmetry
INVARIANTS
    TypeOK
    NUMAExact
    PlacedExclusive
PROPERTY
    ImplementsLedger
