SPECIFICATION Spec
CONSTANTS
    Files <- FilesDef
    MainFile = "M"
    Glob <- GlobDef
    SymNames <- SymNamesDef
    Projects <- ProjectsDef
    Environment <- EnvironmentDef
    MaxExpansions = 3
INVARIANTS
    TreeMatchesText
    LocationsRight
    ConditionsKept
    MacrosExpand
CHECK_DEADLOCK FALSE
