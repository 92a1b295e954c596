\* Two administrators, two templates, two suites, one request, four commits, one
\* change in Risk Modeler, one sync.
SPECIFICATION LibrarySpec
CONSTANTS
    p1 = p1
    p2 = p2
    e1 = e1
    e2 = e2
    a1 = a1
    a2 = a2
    Templates = {t1, t2}
    Suites = {s1}
    Profiles = {p1, p2}
    Schemes = {e1, e2}
    Fits <- Pairs
    Catalogues <- Listed
    Drafts <- Posted
    Names = {1, 2}
    Kept = t1
    KeptSuite = s1
    Admins = {a1, a2}
    Requests = {q1}
    None = None
    MaxWrites = 4
    MaxChanges = 1
    MaxSyncs = 1
SYMMETRY Alike
CONSTRAINT Scenarios
INVARIANTS LibraryTypeOK DeletedInSuiteOnlyByOverlap PlanIsWhatWasChecked
\* The bounds end every behaviour.
CHECK_DEADLOCK FALSE
