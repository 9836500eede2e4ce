CONSTANTS
    d1 = d1
    d2 = d2
    d3 = d3
    Fd <- ThreeFds
    None = None
    MaxAddr = 2
    MaxCalls = 3
SPECIFICATION Spec
SYMMETRY FdSymmetry
INVARIANTS
    CallsSound
CHECK_DEADLOCK FALSE
