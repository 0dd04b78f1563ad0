SPECIFICATION FairSpec
CONSTANTS
    c1 = c1
    c2 = c2
    r1 = r1
    r2 = r2
    a = a
    b = b
    None = None
    Claims = {c1, c2}
    Locations <- MCLocations
    Types <- MCTypes
    Requests <- MCRequests
    NodeClass <- MCNodeClass
    Capacity = 2
    MaxEvents = 1
INVARIANT PlacedWhereAllowed
PROPERTY EventuallyPlaced
