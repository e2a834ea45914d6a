SPECIFICATION FairSpec
CONSTANTS
    m1 = m1
    m2 = m2
    m3 = m3
    b1 = b1
    b2 = b2
    r1 = r1
    r2 = r2
    r3 = r3
    r4 = r4
    r5 = r5
    None = None
    Messages = {m1, m2, m3}
    Bodies = {b1, b2}
    Requests = {r1, r2, r3, r4, r5}
    MessageOf <- MCMessageOf
    BodyOf <- MCBodyOf
    RetryOf <- MCRetryOf
    MaxCrashes = 1
INVARIANTS OneTurnPerLineage
PROPERTIES EvidenceIsHeard EvidenceSurvives ImplementsOutcome
CHECK_DEADLOCK FALSE
