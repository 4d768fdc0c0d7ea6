CONSTANTS
    g1 = g1
    g2 = g2
    u1 = u1
    u2 = u2
    c1 = c1
    c2 = c2
    t1 = t1
    t2 = t2
    f1 = f1
    Orgs = {g1, g2}
    Users = {u1, u2}
    People = {f1}
    Customers = {c1, c2}
    Tags = {t1, t2}
    UserOrg <- MCUserOrg
    RowOrg <- MCRowOrg
    Bodies <- MCBodies
    Requests = {r1, r2, r3}
    None = None
SPECIFICATION Spec
SYMMETRY Symmetry
INVARIANTS
    TypeOK
    ReferencesStayInTenant
    AuditTellsTruth
    PlaceholdersRace
PROPERTIES
    CrmDataIsOwned
    TenantsAreIsolated
CHECK_DEADLOCK FALSE
