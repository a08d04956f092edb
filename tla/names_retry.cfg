SPECIFICATION FairSpec
CONSTANTS
    Objects = {o1}
    Names = {n1, n2}
    Requests = {r1}
    Env <- RetryEnv
    DryRuns <- BOOLEAN
    None = None
INVARIANT TypeOK
INVARIANT RetryKeepsClaim
PROPERTY LockReleased
