CONSTANTS
    Jobs = {j1}
    Workers = {w1, w2}
    Analysts = {a1, a2}
    NoWorker = NoWorker
    NoJob = NoJob
    MaxMessages = 2
    MaxRequests = 2
    MaxCrashes = 1
    MaxStalls = 1
    MaxEarly = 1
SPECIFICATION FairSpec
INVARIANTS
    TypeOK
    RunsAccounted
PROPERTIES
    TerminalResultStands
    CancelledLeavesOnlyByRacingRetry
    ImplementsLifecycle
    EveryJobSettles
