SPECIFICATION Spec
CONSTANTS
    t1 = t1
    t2 = t2
    Threads <- MCThreads
    N = 2
    Window = 1
    Buffer = 2
    MaxJobs = 4
    MaxNonces = 2
    MaxShares = 1
SYMMETRY MCSymmetry
INVARIANTS SharesNameTheirJob HashedOnce
PROPERTY OnlyOldIgnored
