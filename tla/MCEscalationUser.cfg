SPECIFICATION FairSpec
CONSTANTS
    CRs = {a}
    Ids = {i1, i2, i3}
    Names = {n1, n2}
    Descs = {d1, d2}
    Terms = {t1, t2}
    People = {ann, ben}
    Refs = {ref}
    Owners = {o1, o2}
    n1 = n1
    n2 = n2
    d1 = d1
    d2 = d2
    t1 = t1
    t2 = t2
    o1 = o1
    o2 = o2
    ann = ann
    ben = ben
    ref = ref
    called = called
    None = None
    Gone = Gone
    Unissued = Unissued
    MaxVersions = 3
    RVs <- MCRVs
    Specs <- UserSpecs
    Budget <- UserBudget
    NameOf <- MCNameOf
    InitialRefs <- Unsynced
PROPERTIES
    RecipientsReceive
CHECK_DEADLOCK FALSE
