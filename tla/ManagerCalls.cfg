SPECIFICATION FairSpec
CONSTANTS
    p1 = p1
    p2 = p2
    p3 = p3
    junk = junk
    None = None
    Providers = {p1, p2, p3}
    Sandboxes = {s1}
    Snapshots = {n1}
    Masking = {p2}
    Calls = {c1, c2}
    Methods = {"create", "getById", "list", "destroy", "snapshotCreate", "snapshotList", "snapshotDelete"}
    Configs <- CreateConfigs
    NameOf <- ThreeNamed
    Listing = {p1}
    Snapshotting = {p2}
    MaxConfigs = 2
CHECK_DEADLOCK FALSE
INVARIANTS
    FallbackIsConfined
    RoundRobinBalanced
PROPERTIES
    EveryCallSettles
