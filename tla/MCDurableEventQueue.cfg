SPECIFICATION HostFairSpec
CONSTANTS
    e1 = e1
    e2 = e2
    g1 = g1
    w1 = w1
    w2 = w2
    Events = {e1, e2}
    Graphs = {g1}
    GraphOf <- MCOneGraph
    Workers = {w1, w2}
    None = None
    Lease = 2
    MaxWait = 1
    BaseRetry = 1
    MaxRetry = 1
    MaxAttempts = 2
    MaxBudget = 2
    MaxCrashes = 1
INVARIANTS OneLiveClaimPerGraph
PROPERTIES EventSettles OnlyHolderSettles
