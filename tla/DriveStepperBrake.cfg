SPECIFICATION Spec
CONSTANTS
    HasBrake = TRUE
    OpenDelay = 1
    CloseAhead = 2
    Timeout = 4
PROPERTIES
    BrakeTimingKept
    EnabledAfterOpenDelay
    EnableResolves
    PowerRemoved
