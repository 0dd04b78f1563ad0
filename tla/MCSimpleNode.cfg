CONSTANTS
    v1 = v1
    v2 = v2
    v3 = v3
    NoVM = NoVM
    VM <- MCVM
    AllCPUs <- MCAllCPUs
    HostCPUs <- MCHostCPUs
    ReservedCPUs <- MCReservedCPUs
    VMSizes <- MCVMSizes
    TotalMemory = 5
    ReservedMemory = 1
SPECIFICATION Spec
SYMMETRY Symmetry
INVARIANTS
    TypeOK
    MemoryNeverOvercommitted
    PoolsComplement
    FitImpliesAllocate
    NoPhantomPins
PROPERTY
    ImplementsLedger
