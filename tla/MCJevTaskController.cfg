SPECIFICATION FairSpec
CONSTANTS
    e1 = e1
    w1 = w1
    w2 = w2
    v1 = v1
    v2 = v2
    o1 = o1
    closed = closed
    Events = {e1}
    Workers = {w1, w2}
    None = None
    Views = {v1, v2, closed}
    Closed = closed
    Observations = {o1}
    MaxDecisions = 1
    MaxGenerations = 2
INVARIANTS OneCommandPerEvent CommandsOnTheirSnapshot TruthfulReceipt
PROPERTIES SettledIsFinal CommitIsReceipted
