SPECIFICATION Spec
CONSTANTS
    p1 = p1
    p2 = p2
    s1 = s1
    s2 = s2
    q1 = q1
    None = None
    Prompts = {p1, p2}
    Stops = {}
    Steers = {}
    MaxExits = 0
PROPERTIES OnlyItsEndClearsATurn
CHECK_DEADLOCK FALSE
