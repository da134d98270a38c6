SPECIFICATION FairSpec
CONSTANTS
    Inputs = {"key"}
    Sessions <- AllSessions
    MaxFrames = 4
INVARIANTS
    TypeOK
    PlayedInTime
    NeverFarApart
    NoFalseAlarm
PROPERTIES
    ImplementsLockStep
    FramesGoOn
    AstrayIsFound
CHECK_DEADLOCK FALSE
