SPECIFICATION AppModeSpec
CONSTANTS
    Threads = {t1, t2}
    HasMaster = TRUE
    MayHappen = {"stop"}
PROPERTIES
    ConfigurationServed
CHECK_DEADLOCK FALSE
