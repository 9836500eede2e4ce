SPECIFICATION Spec
CONSTANTS
    Projects <- ProjectsDef
INVARIANTS
    OneConfiguration
    BuildsJustThat
    VersionReported
    OrderedByPriority
    FlashAsAsked
CHECK_DEADLOCK FALSE
