CONSTANTS
    g1 = g1
    g2 = g2
    u1 = u1
    u2 = u2
    u3 = u3
    Orgs = {g1, g2}
    Users = {u1, u2, u3}
    UserOrg <- MCUserOrg
    FirstRole <- MCFirstRole
    Grants = {"OWNER", "ADMIN", "AGENT"}
    Requests = {r1, r2}
    None = None
SPECIFICATION FairSpec
PROPERTIES
    OwnerlessForGood
    DemotionTakesEffect
CHECK_DEADLOCK FALSE
