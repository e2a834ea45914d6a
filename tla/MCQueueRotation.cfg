SPECIFICATION HistorySpec
CONSTANTS
    e1 = e1
    e2 = e2
    e3 = e3
    g1 = g1
    g2 = g2
    w1 = w1
    Events = {e1, e2, e3}
    Graphs = {g1, g2}
    GraphOf <- MCTwoGraphs
    Workers = {w1}
    None = None
    Lease = 2
    MaxWait = 1
    BaseRetry = 1
    MaxRetry = 1
    MaxAttempts = 1
    MaxBudget = 2
    MaxCrashes = 0
INVARIANTS RoundRobin
