SPECIFICATION Spec
CONSTANTS
    Values <- ValuesDef
    Used <- UsedDef
    Settable <- SettableDef
INVARIANTS
    CacheSound
    ReadsAreDeclared
    AssignableTakesEffect
    ChoiceConsistent
    WithinBounds
    LoopDetection
CHECK_DEADLOCK FALSE
