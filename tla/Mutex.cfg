SPECIFICATION Spec
CONSTANTS
    NULL = NULL
    Threads = {t1, t2, t3}
    Turnstiles = {s1, s2, s3}
    CPUs = {c1, c2, c3}
    Locks = {1}
    Priorities = {1, 2}
    Destroyable = {1}
    DynamicPri = TRUE
SYMMETRY Symmetry
INVARIANTS
    MutualExclusion
    NoMissedWakeup
    FreeWhenDropped
