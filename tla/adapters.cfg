SPECIFICATION AdaptersSpec
CONSTANTS
    t1 = t1
    t2 = t2
    t3 = t3
    p1 = p1
    p2 = p2
    h1 = h1
    h2 = h2
    c1 = c1
    c2 = c2
    Processes = {p1, p2}
    Threads = {t1, t2, t3}
    Hosts = {h1, h2}
    Channels = {c1, c2}
    ProcessOf <- MCProcessOf
    HostOf <- MCHostOf
    Capacity <- MCCapacity
    Platforms <- MCPlatforms
    MaxSessions = 2
    MaxRequests = 1
    MaxPending = 2
    MaxEvents = 5
    MaxCrashes = 1
    None = None
SYMMETRY Symmetry
INVARIANTS ReplyToOwnChannel AnsweredOnce NoMessageLost
CHECK_DEADLOCK FALSE
