SPECIFICATION FairSpec
CONSTANTS
    Bindings = {b1}
    Types = {"managed", "user-provided"}
    LateBinding = FALSE
    MaxFaults = 2
    b1 = b1
CHECK_DEADLOCK FALSE

INVARIANT TypeOK
INVARIANT NoOrphans
INVARIANT NoBindingOutlivesInstance
INVARIANT ReadyIsProvisioned
PROPERTY DeletionEnds
PROPERTY ServicesSettle
PROPERTY UnboundBeforeDeprovisioned
