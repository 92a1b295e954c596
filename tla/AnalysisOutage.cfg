CONSTANTS
    NumUnits = 2
    Workers = {w1}
    Deleters = {d1, d2}
    NoTask = NoTask
    MaxRetries = 3
    MaxRequests = 0
    MaxCrashes = 1
    MaxStalls = 0
    MaxLost = 1
SPECIFICATION Spec
SYMMETRY MCSymmetry
INVARIANTS
    RmRunsAccounted
    DeletedNeverResubmitted
    DeletionLeavesNoOrphan
CHECK_DEADLOCK FALSE
