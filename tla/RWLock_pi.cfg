SPECIFICATION Spec
CONSTANTS
    NULL = NULL
    Threads = {t1, t2, t3}
    Readers <- Everyone
    Writers <- Everyone
    Turnstiles = {s1, s2, s3}
    Locks = {1, 2}
    Priorities = {1, 2, 3}
    Destroyable = {2}
    DynamicPri = FALSE
SYMMETRY Symmetry
INVARIANTS
    IInv
    NoPriorityInversion
    NoLeakedPriority
