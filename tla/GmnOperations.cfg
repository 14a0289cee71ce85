\* Two callers of one image, one retry of a command, one reset of the caches; a deadline that
\* with its headroom is within the client's timeout, and one beyond it.
SPECIFICATION Spec
CONSTANTS
    Callers = {c1, c2}
    Runners = {c1}
    None = none
    ExecRetries = 1
    MaxResets = 1
    ClientTimeout = 2
    Deadlines = {1, 2}
    Headroom = 1
CHECK_DEADLOCK FALSE
INVARIANTS
    PreparedOnce
    HandedLastsLongEnough
    ExitIsOfThisCommand
    TimedOutIsOver
PROPERTIES
    CallersEnd
