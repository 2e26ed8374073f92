SPECIFICATION FairSpec
CONSTANTS
    NULL = NULL
    Threads = {t1, t2, t3}
    Readers <- Everyone
    Writers <- Everyone
    Turnstiles = {s1, s2, s3}
    Locks = {1}
    Priorities = {1, 2}
    Destroyable = {}
    DynamicPri = FALSE
PROPERTY
    TopWaiterServed
