SPECIFICATION FairSpec
CONSTANTS
    d1 = d1
    d2 = d2
    c1 = c1
    s1 = s1
    w1 = w1
    w2 = w2
    Dispatches = {d1, d2}
    Cancels = {c1}
    Sessions = {s1}
    Workers = {w1, w2}
    SessionOf <- MCSessionOf
    TargetOf <- MCTargetOf
    Free = Free
    None = None
    MaxCrashes = 1
INVARIANTS TypeOK TruthfulOutcome NoContradiction OneAttemptPerSession NoLateCancel
PROPERTIES ImplementsOutcome ProvenEffectSettles DrainedSessionIsFreed
CHECK_DEADLOCK FALSE
