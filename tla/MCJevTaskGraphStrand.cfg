SPECIFICATION FairSpec
CONSTANTS
    a = a
    b = b
    Names = {a}
    Root = Root
    Kinds = {"requires"}
    MaxRevisions = 0
    MaxRejections = 1
    MaxReports = 3
    MaxVersions = 2
    MaxPatches = 0
    MayStop = TRUE
PROPERTIES
    RevisionIsNotStranded
CHECK_DEADLOCK FALSE
