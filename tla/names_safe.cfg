SPECIFICATION Spec
CONSTANTS
    Objects = {o1, o2, o3}
    Names = {n1, n2}
    Requests = {r1, r2}
    Env <- SafeEnv
    DryRuns <- BOOLEAN
    None = None
INVARIANT UniqueNames
PROPERTY ServesNames
PROPERTY LeakedClaimStays
