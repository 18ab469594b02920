SPECIFICATION Spec
CONSTANTS
    t1 = t1
    t2 = t2
    t3 = t3
    p1 = p1
    p2 = p2
    h1 = h1
    h2 = h2
    c1 = c1
    c2 = c2
    Hosts = {h1, h2}
    Channels = {c1, c2}
    ProcessOf <- MCProcessOf
    HostOf <- MCHostOf
    Capacity <- MCCapacity
    MaxSessions = 3
    Processes = {p1, p2}
    Threads = {t1, t2, t3}
    MaxCrashes = 1
    None = None
SYMMETRY Symmetry
INVARIANTS TypeOK CapacityAccounting Balanced BoundIsServed NoZombie
PROPERTY ChannelMapSpec
CHECK_DEADLOCK FALSE
