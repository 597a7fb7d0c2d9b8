SPECIFICATION FairSpec
CONSTANTS
    CRs = {a}
    Ids = {i1, i2, i3, i4, i5, i6}
    Owners = {o1, o2}
    TeamRefs = {t1}
    Names = {n1, n2}
    Descs = {d1}
    Tags = {x, y}
    n1 = n1
    n2 = n2
    d1 = d1
    x = x
    y = y
    o1 = o1
    o2 = o2
    t1 = t1
    None = None
    Gone = Gone
    Unissued = Unissued
    MaxVersions = 3
    RVs <- MCRVs
    Specs <- LiveSpecs
    Budget <- LiveBudget
    InitialTeams <- TeamUnsynced
INVARIANTS
    DuplicatesBounded
    DupInv
PROPERTIES
    NoStaleOverwrite
    ConvergesUnlessStuck
    QuietUnlessCleared
CHECK_DEADLOCK FALSE
