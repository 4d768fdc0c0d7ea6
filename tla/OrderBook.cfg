CONSTANTS
    g1 = g1
    g2 = g2
    c1 = c1
    c2 = c2
    c3 = c3
    Orgs = {g1, g2}
    Customers = {c1, c2, c3}
    Requests = {r1, r2, r3}
    CustomerOrg <- MCCustomerOrg
    CreateDtos <- MCCreateDtos
    PatchDtos <- MCPatchDtos
    Statuses = {"PENDING", "DELIVERED"}
    Cent = 2
    MaxCrashes = 1
    None = None
SPECIFICATION Spec
SYMMETRY Symmetry
INVARIANTS
    TypeOK
    OrdersStayInTenant
    TotalFollowsColumns
    NumbersAreDense
    AuditTellsTruth
PROPERTIES
    TenantsAreIsolated
    PromiseKept
CHECK_DEADLOCK FALSE
