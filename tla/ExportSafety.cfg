CONSTANTS
    NumRows = 2
    Workers = {w1, w2}
    Analysts = {a1}
    Nobody = Nobody
    MaxExports = 1
    MaxRequests = 1
    MaxCrashes = 2
    MaxStalls = 0
SPECIFICATION Spec
SYMMETRY MCSymmetry
INVARIANTS
    TypeOK
    LoadsAreComplete
    AnalysisOffersRetry
CHECK_DEADLOCK FALSE
