CONSTANTS
    b1 = b1
    b2 = b2
    b3 = b3
    f1 = f1
    f2 = f2
    e1 = e1
    a1 = a1
    ListHead = ListHead
    Poison = Poison
    Poll <- OnePoll
    App <- OneApp
    Block <- ThreeBlocks
    Node <- ThreeNodes
    Fd <- TwoFds
    MAX_EPOLL_SIZE = 2
    MaxAppCalls = 2
    MaxCallbackCalls = 2
SPECIFICATION OneCallSpec
INVARIANTS
    DispatchSafe
    BooksAgree
PROPERTIES
    LoopServes
CHECK_DEADLOCK FALSE
