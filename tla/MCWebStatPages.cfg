SPECIFICATION StatSpec
CONSTANTS
    user = user
    NoPool = NoPool
    NoJob = NoJob
    Gone = Gone
    Dead = Dead
    NoRow = NoRow
    j1 = j1
    j2 = j2
    j3 = j3
    p1 = p1
    p2 = p2
    Workers <- MCOne
    Clients <- MCTwo
    PoolInfos <- MCPoolInfos
    BadPoolInfos <- MCNone
    MaxWorkersCount = 1
    JobIds <- MCNone
    Pages <- MCPages
    MaxSockets = 3
INVARIANTS PagesAgree PagesAreListed
SYMMETRY MCPageSymmetry
