SPECIFICATION ReachableSpec
CONSTANTS
    user = user
    dev = dev
    bad = bad
    NoPool = NoPool
    Workers <- MCWorkers
    Clients <- MCClients
    PoolInfos <- MCPoolInfos
    BadPoolInfos <- MCBadPoolInfos
    MaxWorkersCount = 1
INVARIANTS HeldIsLive WorkersPlaced CountsAgree ConnectionBound
PROPERTIES KeepsPromise WorkersServed StopCompletes
