SPECIFICATION Spec
CONSTANTS
    ACC = 1
    DEC = 1
    Emerg = 2
    BwdSwitch = 1
    FwdSwitch = 14
    CamFirst = 6
    CamLast = 8
    Marks = {4, 11}
    AbsRange = 8
    Shift = 12
    HomeEncoders = {0, 1}
    Referenced = {{0, 1}, {0}, {1}}
    Starts = {0, 7, 15}
    Kinds = {1, 2, 3, 4, 5, 6, 7, 8, 9, 10, 11, 12, 15, 21, 22}
    HomePosition = 5
    LatchCount = 1
    Towards = 2
    Off = 1
    PostMoves = {FALSE, TRUE}
    PostTarget = 8
    AtTargetTime = 0
    SeqTimeouts = {0, 6}
    Targets = {10}
    Commands = {"home", "stop", "move", "reset"}
    Most = 2
INVARIANTS
    HomingInOrder
PROPERTIES
    HomedRight
    HomingReports
    NoJump
    HomingEnds
