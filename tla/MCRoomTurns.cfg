SPECIFICATION FairSpec
CONSTANTS
    u1 = u1
    w1 = w1
    j1 = j1
    n1 = n1
    x1 = x1
    r1 = r1
    r2 = r2
    None = None
    UserDispatches = {u1}
    Wakes = {w1}
    PreparedDispatches = {j1}
    Notices = {n1}
    Directs = {x1}
    Roots = {r1, r2}
    RootOf <- MCRootOf
    MaxEvents <- MCMaxEvents
    MaxThreads = 2
INVARIANTS TypeOK PublicIsFaithful OneAbort NothingLost StopHolds
PROPERTIES SessionComesFree
CHECK_DEADLOCK FALSE
