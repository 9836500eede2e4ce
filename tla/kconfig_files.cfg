SPECIFICATION Spec
CONSTANTS
    Scenarios <- ScenariosDef
INVARIANTS
    RoundTrip
    ReplaceClears
    Recoverable
    NothingStale
    NothingNewLeft
    AsFarAsPossible
CHECK_DEADLOCK FALSE
