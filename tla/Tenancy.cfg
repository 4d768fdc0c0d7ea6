CONSTANTS
    Requests = {r1, r2, r3}
    Slugs = {"acme", "acme-1"}
    Names = {"acme"}
    Draws <- MCDraws
    Emails = {e1}
    Passwords = {p1, p2}
    Plans = {"FREE", "PRO"}
    Seats = {5}
    Configs <- MCConfigs
    MaxAttempts = 2
    MaxCrashes = 1
    None = None
SPECIFICATION FairSpec
INVARIANTS
    TypeOK
    TenantsAreWhole
    SettingsAreTheOwners
    SessionsLiveAsAnnounced
PROPERTY EveryRequestAnswers
CHECK_DEADLOCK FALSE
