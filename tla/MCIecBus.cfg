SPECIFICATION Spec
CONSTANTS
    NumDevs = 2
    NBits = 3
    NameLength = 3
    DATA <- TheData
    CLOSE <- TheClose
    OPEN <- TheOpen
    UNLISTEN <- TheUnlisten
    UNTALK <- TheUntalk
    LISTEN <- TheListen
    TALK <- TheTalk
    T60 = 3
    T80 = 4
    T100 = 4
    T200 = 5
    T1000 = 10
    TEOI = 8
    Sessions <- TheSessions
    BreakAt = {"valid", "ack"}
    MaxBreaks = 1
    Switchable = {2}
    Disks <- TheDisks
    Delays = {1, 3}
    Patience = 14
    Late = 10
    File <- TheFile
    Name <- TheName
    Msg <- TheMsg
INVARIANTS
    TypeOK
    BusIsFree
    AnsweredInTime
PROPERTIES
    ImplementsSerialBus
    NameIsWhole
