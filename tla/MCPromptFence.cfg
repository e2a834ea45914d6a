SPECIFICATION Spec
CONSTANTS
    p1 = p1
    p2 = p2
    s1 = s1
    s2 = s2
    q1 = q1
    None = None
    Prompts = {p1, p2}
    Stops = {s1}
    Steers = {q1}
    MaxExits = 0
INVARIANTS TypeOK CancelledNeverRuns NoOrphanTurn StoppedIsNotCompleted
 
SYMMETRY Symmetry
CHECK_DEADLOCK FALSE
