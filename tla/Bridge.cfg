\* A streaming command, and another command on the same daemon.
SPECIFICATION BridgeSpec
CONSTANTS
    Jobs = {a, b}
    MaxRequests = 2
    Clients = {a}
    Calls = {a}
    MaxChunks = 2
    MaxJoins = 1
    CallbackThrows = TRUE
CHECK_DEADLOCK FALSE
PROPERTIES
    CallsAreChannels
    CallsSettle
