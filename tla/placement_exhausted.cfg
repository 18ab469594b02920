SPECIFICATION Spec
CONSTANTS
    t1 = t1
    t2 = t2
    t3 = t3
    p1 = p1
    p2 = p2
    h1 = h1
    h2 = h2
    c1 = c1
    c2 = c2
    Processes = {p1}
    Threads = {t1}
    Hosts = {h1}
    Channels = {c1}
    ProcessOf <- OneThreadOf
    HostOf <- OneHostOf
    Capacity <- TwoCapacity
    MaxSessions = 3
    MaxCrashes = 0
    None = None
INVARIANT BoundNeverRefused
CHECK_DEADLOCK FALSE
