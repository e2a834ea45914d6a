SPECIFICATION PlannedSpec
CONSTANTS
    a = a
    b = b
    Names = {a, b}
    Root = Root
    Kinds = {"requires", "context"}
    MaxRevisions = 0
    MaxRejections = 1
    MaxReports = 1
    MaxVersions = 2
    MaxPatches = 0
    MayStop = FALSE
INVARIANTS
    CurrentInputs
    NoOrphanedExecution
PROPERTIES
    RevisionResolves
CHECK_DEADLOCK FALSE
