SPECIFICATION Spec
CONSTANTS
    IrqSources = {i1, i2}
    NmiSources = {n1, n2}
    Acia = None
    TrapFuncs = {}
    NoTrap = NoTrap
    Requests = {"RESET", "MONITOR"}
    Opcodes = {"plain", "cli", "sei", "rti", "branch", "brk"}
    Cycles = {2, 3}
    Dma = {}
    SnapClocks = {}
    Lag = 1
    Limit = 7
    Sub = 4
    CLOCK_MAX = 40
SYMMETRY Symmetry
INVARIANTS
    TypeOK
    LinesCounted
    PulseEnds
    DatesInReach
    EntryJustified
PROPERTY
    ImplementsPins
