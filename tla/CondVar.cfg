SPECIFICATION Spec
CONSTANTS
    t1 = t1
    t2 = t2
    c1 = c1
    c2 = c2
    NULL = NULL
    Threads = {t1, t2}
    Posters = {p1}
    Cvs = {c1, c2}
    Calls <- MCCalls
    Priorities = {1, 2}
    Deltas = {0, 1}
    CV_MAX_WAITERS = 2
    MaxUnits = 1
INVARIANTS
    WaitersExact
    NoLostWakeup
    CalloutInWait
    ReturnHonest
    SignalEndsWait
    TimedWaitEnds
