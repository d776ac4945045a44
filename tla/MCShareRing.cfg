SPECIFICATION FairSpec
CONSTANTS
    t1 = t1
    t2 = t2
    t3 = t3
    Threads <- MCThreads
    Wrappers <- MCWrappers
    WrapperOf <- MCWrapperOf
    N = 2
    MaxShares = 3
INVARIANTS DeliveredIntact WaitIsForAClaim
PROPERTIES AllDelivered DeathNoticed NoneOutlivesStartup
CHECK_DEADLOCK FALSE
