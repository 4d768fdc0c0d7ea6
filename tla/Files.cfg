CONSTANTS
    g1 = g1
    r1 = r1
    r2 = r2
    r3 = r3
    r4 = r4
    Orgs = {g1}
    Names = {n}
    MaxSecond = 1
    Requests = {r1, r2, r3, r4}
    None = None
SPECIFICATION FairSpec
INVARIANTS
    TypeOK
    UploadsSurvive
    NoOrphans
PROPERTIES
    RemovalsFinish
CHECK_DEADLOCK FALSE
