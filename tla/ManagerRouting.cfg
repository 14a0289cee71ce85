SPECIFICATION Spec
CONSTANTS
    p1 = p1
    p2 = p2
    p3 = p3
    junk = junk
    None = None
    Providers = {p1, p2}
    Sandboxes = {s1}
    Snapshots = {}
    Masking = {}
    Calls = {c1, c2, c3}
    Methods = {"create", "getById", "list", "destroy"}
    Configs <- RoutingConfigs
    NameOf <- Nameless
    Listing = {p1}
    Snapshotting = {}
    MaxConfigs = 2
SYMMETRY Perms
CHECK_DEADLOCK FALSE
INVARIANTS
    EveryCandidateOnce
    RoutesLeadHome
PROPERTIES
    LiveStaysRouted
    AffinityFirst
