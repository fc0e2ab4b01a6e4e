SPECIFICATION Spec
CONSTANTS
    HasBrake = FALSE
    OpenDelay = 0
    CloseAhead = 0
    Timeout = 8
PROPERTIES
    InterlockTurnsAmplifierOff
