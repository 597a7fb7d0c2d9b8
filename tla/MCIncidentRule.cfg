SPECIFICATION FairSpec
CONSTANTS
    CRs = {a}
    Ids = {i1, i2, i3, i4, i5, i6, i7, i8, i9, i10, i11}
    Contents = {c1, c2}
    ServiceRefs = {r1, r2}
    ServiceIds = {s1, s2}
    Owners = {}
    c1 = c1
    c2 = c2
    r1 = r1
    r2 = r2
    s1 = s1
    s2 = s2
    None = None
    Gone = Gone
    Unissued = Unissued
    MaxVersions = 2
    RVs <- MCRVs
    Specs <- MCSpecs
    Budget <- MCBudget
    InitialServices <- MCServices
INVARIANTS
    TypeOK
PROPERTIES
    NoSecondRule
    RuleFollowsService
    Converges
CHECK_DEADLOCK FALSE
