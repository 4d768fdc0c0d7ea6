CONSTANTS
    Users = {u1}
    Requests = {r1, r2, r3}
    Mortal = {}
    MaxCrashes = 0
    None = None
SPECIFICATION Spec
SYMMETRY Symmetry
INVARIANT RotatedOnce
CHECK_DEADLOCK FALSE
