SPECIFICATION FairCallbSpec
CONSTANTS
    Daemons = {d1, d2, d3}
    Callbs = {s1, s2, s3}
    NULL = NULL
INVARIANTS
    CallbackValid
    FrozenStopped
    AllResumed
PROPERTY
    CheckpointEnds
