CONSTANTS
    s1 = s1
    s2 = s2
    f = f
    ListHead = ListHead
    Poison = Poison
    NoHandler = NoHandler
    Slot <- TwoSlots
    Node <- TwoNodes
    Handler <- OneHandler
    Period <- PeriodsWithZero
    MaxCalls = 3
    MaxThreads = 1
SPECIFICATION FairHSpec
INVARIANTS
    CursorSafe
    VisitsSound
    CallsBounded
PROPERTIES
    ImplementsContract
    NothingStarves
CHECK_DEADLOCK FALSE
