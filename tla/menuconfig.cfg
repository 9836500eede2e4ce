SPECIFICATION Spec
CONSTANTS
    Scenarios <- ScenariosDef
INVARIANTS
    CursorOnScreen
    NothingUnsaved
    EverythingReachable
PROPERTIES
    CursorsKept
    CrashOnlyThen
CHECK_DEADLOCK FALSE
