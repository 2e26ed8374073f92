SPECIFICATION Spec
CONSTANTS
    ct_type = "REALTIME"
    Clients = {k1}
    Threads = {}
    Structs = {p1, p2}
    callout_execute = callout_execute
    CPUs = {c1, c2}
    Funcs = {callout_execute, other}
    NSOFTCALLS = 2
    Deltas = {0, 2}
    CprCodes = {}
    MaxLag = 2
    LONGTERM_TICKS = 1
    COUNTER_LOW = 2
    COUNTER_HIGH = 4
SYMMETRY Symmetry
INVARIANTS
    TypeOK
    NoLostSoftcall
    NoneSkipped
