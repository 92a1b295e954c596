\* An EDM or an RDM with one analysis, two threads, the import and two more
\* requests, one process or answer lost, one change in Risk Modeler.
SPECIFICATION Spec
CONSTANTS
    Kinds = {"edm", "rdm"}
    Analyses = {a1}
    Threads = {w1, w2}
    Requests = {q1, q2, q3}
    First = q1
    NoHead = NoHead
    MaxFaults = 1
    MaxChanges = 1
SYMMETRY Alike
INVARIANTS TypeOK ImportsAccounted StrandedOnlyByRace
\* A finished import with no request under way is the end.
CHECK_DEADLOCK FALSE
