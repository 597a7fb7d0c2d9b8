SPECIFICATION Spec
CONSTANTS
    CRs = {a, b}
    Ids = {i1, i2, i3, i4}
    Owners = {o1}
    TeamRefs = {t1}
    Names = {n1, n2}
    Descs = {d1}
    Tags = {x, y}
    n1 = n1
    n2 = n2
    d1 = d1
    x = x
    y = y
    o1 = o1
    o2 = o2
    t1 = t1
    None = None
    Gone = Gone
    Unissued = Unissued
    MaxVersions = 2
    RVs <- MCRVs
    Specs <- SafetySpecs
    Budget <- SafetyBudget
    InitialTeams <- TeamUnsynced
INVARIANTS
    TypeOK
    NoSharedService
PROPERTIES
    OwnsItsService
SYMMETRY CRSymmetry
CHECK_DEADLOCK FALSE
