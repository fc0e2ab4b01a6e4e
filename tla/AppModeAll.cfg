SPECIFICATION AppModeSpec
CONSTANTS
    Threads = {t1, t2, t3}
    HasMaster = TRUE
    MayHappen = {"stop", "scan", "validate", "activate", "bus", "plugin"}
INVARIANTS
    OneRealtimeThread
    RtComBlockedInStartup
    RuntimeHasThread
    CycleIsProtected
PROPERTIES
    StopEndsLoop
    ShellServed
    MotorServed
CHECK_DEADLOCK FALSE
