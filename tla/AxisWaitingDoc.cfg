SPECIFICATION Spec
CONSTANTS
    ACC = 1
    DEC = 2
    Emerg = 3
    BwdSwitch = 1
    FwdSwitch = 9
    Start = 4
    Targets = {8}
    Velocities = {2}
    Commands = {"move", "stop", "enable", "waiting"}
    Gap = 1
    AllowSourceChange = FALSE
    First = 9
    Last = 11
    PlcStep = 1
PROPERTY
    SetpointHeld
