\* One job, three requests about it, nobody following its events (the bridge's run does).
SPECIFICATION Spec
CONSTANTS
    Jobs = {j1}
    MaxRequests = 3
    Clients = {}
    MaxChunks = 1
    MaxJoins = 1
CHECK_DEADLOCK FALSE
INVARIANTS
    AnsweredOnce
    ExitIsFinal
    TimersMatchJobs
PROPERTIES
    EverythingEnds
