CONSTANTS
    Users = {u1, u2}
    Requests = {r1, r2}
    Mortal = {u1, r1}
    MaxCrashes = 1
    None = None
SPECIFICATION FairSpec
PROPERTIES
    RevocationIsOwn
    OldSessionsEnd
CHECK_DEADLOCK FALSE
