SPECIFICATION Spec
CONSTANTS
    Settings <- MCSettings
    Requests = {0, 1, 2, 3, 4, 5, 6, 7, 8, 9, 10, 11, 12}
INVARIANTS
    TakesWhatWasAsked
    OneSplitCore
    OneCacheWhenItFits
\* A call ends.
CHECK_DEADLOCK FALSE
