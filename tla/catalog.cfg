SPECIFICATION FairSpec
CONSTANTS
    Plans = {p1}
    Orgs = {o1}
    Instances = {i1}
    Other = Other
    MaxName = 1
    MaxFaults = 2
    p1 = p1
    o1 = o1
    i1 = i1
CHECK_DEADLOCK FALSE

INVARIANT TypeOK
INVARIANT ReadyMeansApplied
PROPERTY VisibilityTypeKept
PROPERTY CatalogSettles
