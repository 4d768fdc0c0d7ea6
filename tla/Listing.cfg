CONSTANTS
    Rows = {r1, r2, r3, r4}
    Values = {1, 2, 3}
    Limits = {1, 2}
SPECIFICATION Spec
SYMMETRY Symmetry
INVARIANTS
    TypeOK
    PagesCoverTheList
    OfferedPagesHaveRows
CHECK_DEADLOCK FALSE
