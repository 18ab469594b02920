SPECIFICATION Spec
CONSTANTS
    Sessions = {s1}
    Threads = {t1, t2}
    Kinds = {"tool", "malformed"}
    MaxCommands = 3
    MaxPending = 2
    MaxEvents = 5
    MaxCrashes = 1
    Destroyable = {s1}
    None = None
SYMMETRY Symmetry
INVARIANTS TypeOK AtMostOnce CompletedMeansLogged BatchInOrder LiveTokenAccepted ResultsAudited Attended
PROPERTIES ClaimIsFinal CellReflectsLog
CHECK_DEADLOCK FALSE
