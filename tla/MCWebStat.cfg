SPECIFICATION StatSpec
CONSTANTS
    user = user
    NoPool = NoPool
    NoJob = NoJob
    Gone = Gone
    Dead = Dead
    NoRow = NoRow
    j1 = j1
    j2 = j2
    j3 = j3
    p1 = p1
    p2 = p2
    Workers <- MCThree
    Clients <- MCTwo
    PoolInfos <- MCPoolInfos
    BadPoolInfos <- MCNone
    MaxWorkersCount = 2
    JobIds <- MCJobs
    Pages <- MCNone
    MaxSockets = 0
INVARIANT TablesAgree
SYMMETRY MCJobSymmetry
