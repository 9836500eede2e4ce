SPECIFICATION MissedSpec
CONSTANTS
    Values <- ValuesDef
    Used <- UsedDef
    Settable <- SettableDef
INVARIANTS
    NoLoopMissed
CHECK_DEADLOCK FALSE
