SPECIFICATION Spec
CONSTANTS
    NULL = NULL
    Threads = {t1, t2, t3, t4}
    Readers <- Everyone
    Writers <- Everyone
    Turnstiles = {s1, s2, s3, s4}
    Locks = {1}
    Priorities = {1, 2}
    Destroyable = {1}
    DynamicPri = TRUE
SYMMETRY Symmetry
INVARIANTS
    MutualExclusion
    WordCountsHolds
    WaitersBitsExact
    KpriBalanced
    TurnstileConservation
    QueuesExact
PROPERTY
    Implements
