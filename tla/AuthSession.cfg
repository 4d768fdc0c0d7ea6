CONSTANTS
    Users = {u1}
    Requests = {r1, r2, r3, r4}
    Mortal = {u1}
    MaxCrashes = 1
    None = None
SPECIFICATION Spec
SYMMETRY Symmetry
INVARIANTS
    TypeOK
    RotationOrder
    OneLivePerFamily
    PasswordEndsSessions
    BurnEndsFamily
    ResetOnce
    ResetAuthority
    LogoutHolds
CHECK_DEADLOCK FALSE
