CONSTANTS
    Waiter = {w1}
    Sender = {s1, s2, s3}
    MaxSends = 10
SPECIFICATION FairSpec
INVARIANTS
    NoSignalMissed
PROPERTIES
    SendIsHeard
CHECK_DEADLOCK FALSE
