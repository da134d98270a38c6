SPECIFICATION Spec
CONSTANTS
    Alarms = {a1, a2, a3}
    NoAlarm = NoAlarm
    MaxPending = 3
    ClkMax = 12
    MaxValue = 7
    Sub = 5
    Step = 2
    Lag = 2
    Ahead = 3
    Raster = NoAlarm
    Fetch = NoAlarm
    Dma = 0
SYMMETRY Symmetry
INVARIANT
    NextIsEarliest
