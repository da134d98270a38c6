SPECIFICATION Spec
CONSTANTS
    NumDrives = 1
    CLOCK_MAX = 27
    SubMin = 7
    ClkBase = 2
    One = 2
    Rates = {2, 3}
    Chunk = 5
    SkipAfter = 6
    AwakeClk = 5
    ResetClk = 2
    MaxOp = 2
    Frame = 3
    MaxLag = 9
    LagAtWrap = 6
    SnapClocks = {18}
INVARIANTS
    TypeOK
    LastInPast
PROPERTIES
    TurnedBackByGuard
    ImplementsRate
