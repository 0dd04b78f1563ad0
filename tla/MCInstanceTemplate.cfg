SPECIFICATION Spec
CONSTANTS
    a = a
    b = b
    z1 = z1
    z2 = z2
    img1 = img1
    img2 = img2
    None = None
    Classes <- MCClasses
    Zones <- MCZones
    ZonesOf <- MCZonesOf
    Store <- MCStore
    Specs <- MCSpecs
    FirstSpec <- MCFirstSpec
    Touched = {a}
    ImportStorages = 1
    IDs = {1, 2, 3}
    Unmanaged = TRUE
    MaxTroubles = 1
CHECK_DEADLOCK FALSE
INVARIANTS
    TypeOK
    
    ImageUnderCreate
    NoWaitingCreateInTheWay
    NoOrphans
PROPERTY CleanUpSparesOthers
