\* Two submissions, one group each, two threads, one fault, one failed job
\* resubmitted.
SPECIFICATION Spec
CONSTANTS
    a1 = a1
    a2 = a2
    k1 = k1
    k2 = k2
    Keys = {k1, k2}
    NoKey = NoKey
    Analyses = {a1, a2}
    Worlds <- OneWorld
    Requests = {q1, q2}
    SubmissionOf <- OneEach
    Threads = {w1, w2}
    None = None
    MaxNames = 3
    MaxFaults = 1
    MaxResubmits = 1
    MaxChanges = 0
SYMMETRY Alike
INVARIANTS TypeOK ReadyGroupIsItsOwn GroupsAccounted GroupSettles
\* Groups that are ready or in error and dialogs left open are the end.
CHECK_DEADLOCK FALSE
