SPECIFICATION FairSpec
CONSTANTS
    CRs = {a}
    Ids = {i1, i2}
    Owners = {o1}
    TeamRefs = {t1}
    Names = {n1, n2}
    Descs = {d1}
    Tags = {x, y}
    n1 = n1
    n2 = n2
    d1 = d1
    x = x
    y = y
    o1 = o1
    o2 = o2
    t1 = t1
    None = None
    Gone = Gone
    Unissued = Unissued
    MaxVersions = 3
    RVs <- MCRVs
    Specs <- RefSpecs
    Budget <- RefBudget
    InitialTeams <- TeamAbsent
PROPERTIES
    UnresolvedTeamIsRetried
CHECK_DEADLOCK FALSE
