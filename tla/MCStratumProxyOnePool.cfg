SPECIFICATION Spec
CONSTANTS
    user = user
    dev = dev
    bad = bad
    NoPool = NoPool
    Workers <- MCWorkers
    Clients <- MCClients
    PoolInfos <- MCPoolInfos
    BadPoolInfos <- MCBadPoolInfos
    MaxWorkersCount = 3
INVARIANT NoneWaitsBesidePool
