SPECIFICATION Spec
CONSTANTS
    Spaces = {s1, s2}
    Kept = {"runner"}
    RouteIds = {r1, r2}
    Guids = {1, 2}
    MaxEvents = 3
    MaxFaults = 1
CHECK_DEADLOCK FALSE

INVARIANT TypeOK
INVARIANT NamespaceHasOwner
INVARIANT StaleIsQueued
INVARIANT RoutesIntact
 
PROPERTY PlatformSettles
