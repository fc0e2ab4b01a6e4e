SPECIFICATION Spec
CONSTANTS
    ACC = 1
    DEC = 2
    Emerg = 3
    BwdSwitch = 4
    FwdSwitch = 7
    Start = 5
    Targets = {5, 9}
    Velocities = {3}
    Commands = {"move", "velocity", "stop", "kill", "enable", "execute", "reset", "source", "lost"}
    Gap = 1
    AllowSourceChange = FALSE
    First = 11
    Last = 15
    PlcStep = 5
INVARIANTS
    OverrunBounded
PROPERTIES
    StopSlows
    Smooth
    MoveArrives
