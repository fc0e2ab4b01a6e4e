SPECIFICATION Spec
CONSTANTS
    Size = 4
    Modulo = 0
    MaxStep = 1
    Positions = {0, 3}
    Registers = {1, 3}
    MaxTravel = 4
    SdoTexts <- FewTexts
    MaxConfig = 1
    MaxEncoders = 2
    PlcValues = {0, 1, 2}
    StorageSizes = {2, 3}
    MaxAppends = 6
    ParamKinds <- FewKinds
    ParamLinks <- FewLinks
    TableSize = 2
    DefaultRate = 2
    MaxAge = 4
    MaxLinks = 2
    Round = 2
    MotorKinds = {"abs"}
    Options = {{"create", "cnen"}, {"auto", "window", "cnen"}}
    Tries = 1
    MaxActs = 2
INVARIANTS
    VerifiedIsStored
    InputsSafe
    NoWordIsLost
    EpicsSafe
    PlcSafe
    DataSafe
PROPERTIES
    CommandsKeepRules
    ChangesOnlyWhatItSet
CHECK_DEADLOCK FALSE
