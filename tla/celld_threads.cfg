SPECIFICATION FairSpec
CONSTANTS
    Sessions = {s1}
    Threads = {t1, t2}
    Kinds = {"echo", "tool", "malformed"}
    MaxCommands = 3
    MaxPending = 2
    MaxEvents = 7
    MaxCrashes = 0
    Destroyable = {}
    None = None
INVARIANTS CellHasEachEventOnce
PROPERTIES EveryCommandSettled InboxSpec
CHECK_DEADLOCK FALSE
