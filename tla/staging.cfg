SPECIFICATION Spec
CONSTANTS
    MaxBuilds = 3
    MaxPackages = 2
    Retained = 1
    RetainedPackages = 1
    MaxFaults = 1
    Races = {}
    Pushed = TRUE
CHECK_DEADLOCK FALSE

INVARIANT TypeOK
INVARIANT DropletOfOwnPackage
INVARIANT StagedHasImage
PROPERTY KeepsPromise
PROPERTY BuildEnds
