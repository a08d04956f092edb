SPECIFICATION Spec
CONSTANTS
    Objects = {o1, o2, o3}
    Names = {n1, n2}
    Requests = {r1, r2}
    Env <- RedeleteEnv
    DryRuns <- WetOnly
    None = None
SYMMETRY Symmetry
INVARIANT UniqueNamesAtRest
