SPECIFICATION FairSpec
CONSTANTS
    CRs = {a}
    Ids = {i1, i2, i3}
    Names = {n1, n2}
    Descs = {d1}
    Zones = {z1, z2}
    Owners = {o1}
    Plans = {p1, p2}
    Crews = {c1}
    Lists <- MCLists
    n1 = n1
    n2 = n2
    d1 = d1
    z1 = z1
    z2 = z2
    o1 = o1
    o2 = o2
    p1 = p1
    p2 = p2
    c1 = c1
    None = None
    Gone = Gone
    Unissued = Unissued
    MaxVersions = 2
    RVs <- MCRVs
    Specs <- MCSpecs
    Budget <- MCBudget
INVARIANTS
    TypeOK
    UnboundIsScheduled
PROPERTIES
    BindsOnce
    Binds
    ConvergesUnlessImported
    QuietUnlessReordered
CHECK_DEADLOCK FALSE
