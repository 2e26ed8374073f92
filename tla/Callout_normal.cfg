SPECIFICATION FairSpec
CONSTANTS
    ct_type = "NORMAL"
    Clients = {k1, k2}
    Threads = {e1, e2}
    Structs = {p1, p2}
    callout_execute = callout_execute
    CPUs = {}
    Funcs = {callout_execute}
    NSOFTCALLS = 1
    Deltas = {2}
    CprCodes = {TRUE, FALSE}
    MaxLag = 1
    LONGTERM_TICKS = 1
    COUNTER_LOW = 2
    COUNTER_HIGH = 4
INVARIANTS
    UntimeoutFinal
    UntimeoutTruthful
    StructsConserved
PROPERTIES
    DueRuns
    UntimeoutReturns
