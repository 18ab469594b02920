SPECIFICATION Spec
CONSTANTS
    Sessions = {s1}
    Threads = {t1, t2}
    Kinds = {"echo"}
    MaxCommands = 3
    MaxPending = 2
    MaxEvents = 7
    MaxCrashes = 1
    Destroyable = {}
    None = None
INVARIANTS CellComplete
CHECK_DEADLOCK FALSE
