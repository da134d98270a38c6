SPECIFICATION FairSpec
CONSTANTS
    Alarms = {a1, a2, a3}
    NoAlarm = NoAlarm
    MaxPending = 3
    ClkMax = 14
    MaxValue = 7
    Sub = 4
    Step = 2
    Lag = 1
    Ahead = 3
    Raster = a1
    Fetch = a2
    Dma = 2
INVARIANTS
    TypeOK
    IndexConsistent
    NextIsEarliest
    DeadlinesInReach
    RoomForEveryAlarm
PROPERTIES
    ImplementsTimers
    DueAlarmIsCalled
