SPECIFICATION Spec
CONSTANTS
    c1 = c1
    c2 = c2
    t1 = t1
    t2 = t2
    t3 = t3
    Cpus = {c1, c2}
    Threads = {t1, t2, t3}
    PriOf <- MCPriOf
    Bindings <- MCBindings
    kpqpri = 2
    kpreemptpri = 2
    kpq = kpq
    NULL = NULL
INVARIANTS DispatchedOnce UnboundVisible NoMissedPreemption KpNoticed
