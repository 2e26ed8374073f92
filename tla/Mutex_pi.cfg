SPECIFICATION Spec
CONSTANTS
    NULL = NULL
    Threads = {t1, t2, t3}
    Turnstiles = {s1, s2, s3}
    CPUs = {c1, c2}
    Locks = {1, 2}
    Priorities = {1, 2}
    Destroyable = {}
    DynamicPri = FALSE
SYMMETRY Symmetry
INVARIANT
    NoPriorityInversion
