SPECIFICATION FairSpec
CONSTANTS
    Lagging = {"job"}
    MaxFaults = 1
CHECK_DEADLOCK FALSE

PROPERTY CancelStopsTheJob
PROPERTY TaskEndsAndExpires
