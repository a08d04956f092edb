SPECIFICATION Spec
CONSTANTS
    Plans = {p1}
    Orgs = {o1}
    Instances = {i1}
    Other = Other
    MaxName = 0
    MaxFaults = 2
    p1 = p1
    o1 = o1
    i1 = i1
CHECK_DEADLOCK FALSE

INVARIANT PurgeSparesOthers
