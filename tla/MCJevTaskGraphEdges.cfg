SPECIFICATION FairSpec
CONSTANTS
    a = a
    b = b
    Names = {a, b}
    Root = Root
    Kinds = {"requires"}
    MaxRevisions = 1
    MaxRejections = 1
    MaxReports = 1
    MaxVersions = 1
    MaxPatches = 1
    MayStop = TRUE
INVARIANTS
    WorkRestsOnAccepted
    FinalIsTruthful
    StopLeavesNothingPrepared
PROPERTIES
    GraphEnds
CHECK_DEADLOCK FALSE
