SPECIFICATION WebFairSpec
CONSTANTS
    first = first
    second = second
    bad = bad
    dev = dev
    badDev = badDev
    NoPool = NoPool
    Workers <- MCWorkers
    Clients <- MCClients
    PoolInfos <- MCPoolInfos
    BadPoolInfos <- MCBadPoolInfos
    PoolLists <- MCPoolLists
    DevPoolLists <- MCDevPoolLists
    MaxWorkersCount = 1
    RetryCount = 1
    MaxIndex = 3
    MaxDevIndex = 2
    MaxDeferred = 2
    MaxCommands = 3
INVARIANTS OpenCountAgrees FeeInItsTime SelectedAgrees StopHolds
PROPERTIES DevPoolReached FailoverLeaves
