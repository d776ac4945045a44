SPECIFICATION Spec
CONSTANTS
    p1 = p1
    p2 = p2
    p3 = p3
    t1 = t1
    t2 = t2
    t3 = t3
    t4 = t4
    Null = Null
    NoNode = NoNode
    Pids <- MCPids
    Threads <- MCThreads
    PidOf <- MCPidOf
    Denied <- MCDenied
    Nodes <- MCNodes
    Reserved = 1
    MaxBlocks = 2
    MaxRuns = 2
INVARIANTS BlocksExclusive NoBlockLost
