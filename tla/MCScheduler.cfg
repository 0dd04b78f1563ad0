CONSTANTS
    v1 = v1
    v2 = v2
    Early = {v2}
    Files = {v1, v2}
    QueueSize = 1
    MaxRetries = 1
    BaseDelay = 1
    MaxDelay = 1
    HostCPUs = {0, 1, 2}
    TopologyCPUs = {0, 1}
    Configs <- MCConfigs
    BadAffinity = {}
    Passthrough = {v1}
    GovernorBusy = TRUE
    GovernorFree = TRUE
    SignalWrites = 1
    MaxWrites = 2
    MaxSyncs = 1
    MaxFaults = 1
SPECIFICATION FairSpec
INVARIANTS TypeOK BusyExplained TrackerTruthful BoundInTheEnd
PROPERTIES NoSendAfterClose Drains StopTerminates
CHECK_DEADLOCK FALSE
