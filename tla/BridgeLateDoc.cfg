\* One streaming command; its stream may join after the command has begun to write.
SPECIFICATION BridgeSpec
CONSTANTS
    Jobs = {a}
    MaxRequests = 1
    Clients = {a}
    Calls = {a}
    MaxChunks = 2
    MaxJoins = 1
    CallbackThrows = FALSE
CHECK_DEADLOCK FALSE
INVARIANTS
    ResolvedHeardAll
