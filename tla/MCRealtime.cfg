SPECIFICATION MCSpec
CONSTANTS
    LagTime = 1
    MaxVelTrajTime = 2
    MaxVelDriveTime = 1
    VelDiffTrajTime = 1
    VelDiffDriveTime = 0
    AtTargetTime = 1
    Horizon = 2
    Monitors = {"lag", "maxVel", "output", "velocityDiff", "atTarget", "hardware"}
    Varying = {"lag", "diff", "over", "enabled", "stopping", "settled"}
    Events = {"reset", "start", "plcFWD"}
    LimitInputs = {"bwd", "fwd", "vel"}
    LimitEvents = {"reset", "latch", "alarm"}
    Slaves = {"drive", "coupler"}
    Reports <- SlaveReports
    DomainLimit = 1
    OkDelay = 1
    SlowPeriod = 1
    Data = {0, 1}
    MaxRequests = 3
INVARIANTS
    LimitBlocks
    Punctual
    PowerLossExplained
    AtTargetSettled
    BusSafe
PROPERTIES
    BounceStops
    FoundIsObeyed
    BusResolves
