\* Two launchers at a time, then one alone; one daemon killed.
SPECIFICATION Spec
CONSTANTS
    N = 3
    MaxCrashes = 1
CHECK_DEADLOCK FALSE
INVARIANTS
    RanOnItsOwn
    LoneRepairs
    OneDaemonInTurn
PROPERTIES
    LaunchersEnd
