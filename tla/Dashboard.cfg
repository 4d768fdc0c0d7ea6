CONSTANTS
    g1 = g1
    g2 = g2
    c1 = c1
    v1 = v1
    v2 = v2
    Orgs = {g1, g2}
    Customers = {c1}
    Requests = {r1}
    CustomerOrg <- MCCustomerOrg
    CreateDtos <- MCCreateDtos
    PatchDtos = {}
    Statuses = {"PENDING", "CANCELLED"}
    Cent = 1
    MaxCrashes = 0
    None = None
    Stages = {"NEW", "ORDERED", "DELIVERED"}
    Looks <- MCLooks
    Viewers = {v1, v2}
    MaxMoves = 1
    MonthLength = 2
    Window = 1
    Start = 1
    Joined <- MCJoined
SPECIFICATION FairSpec
INVARIANTS
    TypeOK
    FiguresWereTrue
PROPERTY ReportsConverge
CHECK_DEADLOCK FALSE
