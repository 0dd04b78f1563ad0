SPECIFICATION FairSpec
CONSTANTS
    c1 = c1
    c2 = c2
    Claim = {c1, c2}
    SizeOf <- MCFittingSizes
    VMID = {1, 2}
    NoVM = NoVM
    NoPolicy = NoPolicy
    NoClaim = NoClaim
    MaxFaults = 1
    AllCPUs = {0, 1, 2, 3}
    ReservedCPUs = {0}
    TotalMemory = 4
    ReservedMemory = 1
INVARIANTS
    TypeOK
    OwnsItsVM
    CapacityExact
PROPERTY SyncRepairs
