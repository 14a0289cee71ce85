SPECIFICATION FairSpec
CONSTANTS
    None = None
    Socks = {k1, k2}
    Worlds <- ResetWorld
PROPERTIES
    AutoReconnects
CHECK_DEADLOCK FALSE
