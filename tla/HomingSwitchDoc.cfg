SPECIFICATION Spec
CONSTANTS
    ACC = 1
    DEC = 1
    Emerg = 2
    BwdSwitch = 1
    FwdSwitch = 14
    CamFirst = 6
    CamLast = 8
    Marks = {4, 11}
    AbsRange = 8
    Shift = 9
    HomeEncoders = {1}
    Referenced = {{0, 1}}
    Starts = {7}
    Kinds = {1}
    HomePosition = 5
    LatchCount = 1
    Towards = 2
    Off = 1
    PostMoves = {FALSE}
    PostTarget = 8
    AtTargetTime = 0
    SeqTimeouts = {0}
    Targets = {10}
    Commands = {"home"}
    Most = 1
PROPERTIES
    SwitchBumpless
