SPECIFICATION FairSpec
CONSTANTS
    ServiceCRs = {svc}
    RuleCRs = {rule}
    ServiceIds = {i1, i2, i3, i4, i5, i6}
    RuleIds = {j1, j2, j3, j4, j5, j6, j7, j8}
    Owners = {o1}
    Names = {n1}
    Descs = {d1}
    Tags = {x}
    Contents = {c1}
    n1 = n1
    d1 = d1
    x = x
    o1 = o1
    c1 = c1
    svc = svc
    None = None
    Gone = Gone
    Unissued = Unissued
    MaxVersions = 2
    RVs <- MCRVs
    ServiceSpecs <- MCServiceSpecs
    RuleSpecs <- MCRuleSpecs
    Budget <- MCBudget
INVARIANTS
    RulesInRecordedServices
PROPERTIES
    ChainConverges
CHECK_DEADLOCK FALSE
