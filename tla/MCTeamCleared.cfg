SPECIFICATION FairSpec
CONSTANTS
    CRs = {a}
    Ids = {i1, i2}
    Names = {n1, n2}
    Descs = {d1, d2}
    Users = {u1, u2}
    Roles = {admin, user}
    n1 = n1
    n2 = n2
    d1 = d1
    d2 = d2
    u1 = u1
    u2 = u2
    admin = admin
    user = user
    Owners = {}
    None = None
    Gone = Gone
    Unissued = Unissued
    MaxVersions = 2
    RVs <- MCRVs
    Rosters <- MCRosters
    Specs <- ClearingSpecs
    Budget <- EditBudget
PROPERTIES
    Converges
CHECK_DEADLOCK FALSE
