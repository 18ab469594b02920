SPECIFICATION Spec
CONSTANTS
    Threads = {t1, t2}
    PerSecond = 2
    Lifetime = 1
    MaxClock = 5
    MaxSends = 3
    MaxCrashes = 1
    None = None
INVARIANTS TypeOK TokenOutlivesLease OrphanOnlyExpired
PROPERTY RevokedRejectedWhileValid
SYMMETRY Symmetry
CHECK_DEADLOCK FALSE
