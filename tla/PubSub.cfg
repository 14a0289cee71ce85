SPECIFICATION FairSpec
CONSTANTS
    None = None
    Socks = {k1, k2, k3}
    Worlds <- AllWorlds
CHECK_DEADLOCK FALSE
INVARIANTS
    ConnectedIsSubscribed
    NoStraySocket
PROPERTIES
    QuietAfterDisconnect
    ReconnectsAfterClose
