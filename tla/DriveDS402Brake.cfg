SPECIFICATION Spec
CONSTANTS
    HasBrake = TRUE
    OpenDelay = 4
    CloseAhead = 1
    Timeout = 8
INVARIANTS
    StaleStatusIsDisabled
PROPERTIES
    BrakeTimingKept
    EnableResolves
    PowerRemoved
