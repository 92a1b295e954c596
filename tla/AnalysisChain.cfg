CONSTANTS
    NumUnits = 1
    Workers = {w1, w2}
    Deleters = {}
    NoTask = NoTask
    MaxRetries = 2
    MaxRequests = 1
    MaxCrashes = 1
    MaxStalls = 1
    MaxLost = 0
SPECIFICATION FairSpec
INVARIANTS
    TypeOK
PROPERTIES
    EveryAnalysisSettles
CHECK_DEADLOCK FALSE
