SPECIFICATION Spec
CONSTANTS
    s1 = s1
    s2 = s2
    t1 = t1
    t2 = t2
    t3 = t3
    p1 = p1
    p2 = p2
    Sessions = {s1, s2}
    Processes = {p1, p2}
    Threads = {t1, t2, t3}
    ProcessOf <- MCProcessOf
    Kinds = {"tool", "badtool"}
    MaxCommands = 2
    MaxCrashes = 1
    None = None
SYMMETRY Symmetry
INVARIANTS TypeOK SequencesDense RunOnce LockReleased AnswerDurable
PROPERTY InboxSpec
CHECK_DEADLOCK FALSE
