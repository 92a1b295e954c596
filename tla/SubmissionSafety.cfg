CONSTANTS
    Deals = {d1, d2}
    First = d1
    NoDeal = NoDeal
    CrmIds = {c1, c2}
    Requests = {r1, r2, r3}
    Nobody = Nobody
    MaxCrashes = 1
    MaxResubmits = 1
SPECIFICATION Spec
SYMMETRY Alike
INVARIANTS
    TypeOK
    WorkOutlivesOnlyByRace
PROPERTIES
    EditsReplaceWhatTheyShowed
CHECK_DEADLOCK FALSE
