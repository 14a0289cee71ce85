SPECIFICATION FairSpec
CONSTANTS
    N = 3
    Attempts <- MCAttempts
    AbortSources = {"timer", "promise"}
CHECK_DEADLOCK FALSE
INVARIANTS
    ReturnedIsNotDestroyed
    NothingLeftBehind
PROPERTIES
    AbortStopsAsking
    CallEnds
