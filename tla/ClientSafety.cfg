\* Two threads, two workflows of Risk Modeler's from the start, two ids left to
\* create, pages of one job, at most
\* three pages of two rows of which one comes or goes, one further attempt of a sending.
SPECIFICATION Spec
CONSTANTS
    t1 = t1
    t2 = t2
    Threads = {t1, t2}
    Jobs = {1, 2, 3, 4}
    Running = {1, 2}
    Unlisted = 9
    Names = {n}
    Processes <- AnyProcess
    Retries = 1
    Page = 1
    Limit = 2
    MaxPages = 3
    Rows = {1, 2, 3, 4, 5, 6}
    MaxChanges = 1
    NoOne = NoOne
INVARIANTS
    TypeOK
    CreatedTwiceOnlyByLossOrRace
    ReturnedAfterAllEnded
    SearchMissesOnlyBehindAGap
PROPERTY EveryCallReturns
\* A thread that made its call stops.
CHECK_DEADLOCK FALSE
