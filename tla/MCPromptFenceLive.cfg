SPECIFICATION FairSpec
CONSTANTS
    p1 = p1
    p2 = p2
    s1 = s1
    s2 = s2
    q1 = q1
    None = None
    Prompts = {p1}
    Stops = {s1, s2}
    Steers = {}
    MaxExits = 1
PROPERTIES StopIsCarriedOut
CHECK_DEADLOCK FALSE
