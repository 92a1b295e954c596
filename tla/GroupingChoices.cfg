\* One request over many worlds of two analyses, one change from any to any,
\* one failed job resubmitted.
SPECIFICATION Spec
CONSTANTS
    a1 = a1
    a2 = a2
    k1 = k1
    k2 = k2
    Keys = {k1, k2}
    NoKey = NoKey
    Analyses = {a1, a2}
    Worlds <- ManyWorlds
    Requests = {q1}
    SubmissionOf <- OneEach
    Threads = {w1}
    None = None
    MaxNames = 1
    MaxFaults = 0
    MaxResubmits = 1
    MaxChanges = 1
INVARIANTS GroupedAsSeen
CHECK_DEADLOCK FALSE
