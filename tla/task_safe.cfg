SPECIFICATION Spec
CONSTANTS
    Lagging = {"task", "tw", "job"}
    MaxFaults = 1
CHECK_DEADLOCK FALSE

INVARIANT TypeOK
INVARIANT RunsOnce
INVARIANT OutcomeIsTrue
INVARIANT CanceledHasNoWorkload
