CONSTANTS
    Caller = {c1}
    MaxCalls = 2
    MaxSignals = 2
SPECIFICATION FairSpec
INVARIANTS
    CallSound
PROPERTIES
    CallEnds
CHECK_DEADLOCK FALSE
