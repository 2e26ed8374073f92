SPECIFICATION FairSpec
CONSTANTS
    Threads = {t1, t2, t3}
    Interruptible = {t1, t2}
    Priorities = {1, 2}
    Initial = 1
    MaxCount = 2
INVARIANTS
    NoLostV
    SignalWakes
PROPERTY
    SleeperServed
