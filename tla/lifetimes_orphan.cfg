SPECIFICATION Spec
CONSTANTS
    Threads = {t1, t2}
    PerSecond = 2
    Lifetime = 1
    MaxClock = 5
    MaxSends = 2
    MaxCrashes = 0
    None = None
INVARIANT NoOrphan
SYMMETRY Symmetry
CHECK_DEADLOCK FALSE
