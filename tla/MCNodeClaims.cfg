CONSTANTS
    Claims = {c1}
    Zones <- MCZones
    TemplateIDs = {101, 102}
    FirstIDs <- MCFirstIDs
    Specs <- MCSpecs
    FirstSpec <- MCFirst
    None = None
    MaxAttempts = 2
    MaxEvents = 3
SPECIFICATION FairSpec
CHECK_DEADLOCK FALSE
INVARIANTS
    TypeOK
    TokenRevoked
    RecordedIsApplied
    DriftTruthful
PROPERTIES
    Settles
