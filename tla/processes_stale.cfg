SPECIFICATION Spec
CONSTANTS
    s1 = s1
    s2 = s2
    t1 = t1
    t2 = t2
    t3 = t3
    p1 = p1
    p2 = p2
    Sessions = {s1, s2}
    Processes = {p1, p2}
    Threads = {t1, t3}
    ProcessOf <- OneThreadOf
    Kinds = {"tool", "badtool"}
    MaxCommands = 2
    MaxCrashes = 0
    None = None
INVARIANT KnownIsRouted
CHECK_DEADLOCK FALSE
