SPECIFICATION Spec
CONSTANTS
    Droplets = {d1}
    Created <- Started
    Scales = {0, 2}
    Names = {0, 1, 2}
    Hash <- Distinct
    Requests = {r1}
    Kinds = {"start", "stop", "deploy", "scale", "bind", "delete"}
    MaxOps = 2
    MaxCrashes = 1
    None = None
    d1 = d1
CHECK_DEADLOCK FALSE

INVARIANT TypeOK
INVARIANT StopRenamesWorkload
INVARIANT SetsHaveWorkload
INVARIANT RestIsSettled
PROPERTY DeletedOnlyAfterStop
