SPECIFICATION Spec
CONSTANTS
    IrqSources = {i1}
    NmiSources = {}
    Acia = None
    TrapFuncs = {"save", "load"}
    NoTrap = NoTrap
    Requests = {"RESET", "DMA"}
    Opcodes = {"cli"}
    Cycles = {2}
    Dma = {}
    SnapClocks = {8}
    Lag = 0
    Limit = 7
    Sub = 4
    CLOCK_MAX = 40
INVARIANTS
    LinesCounted
    NoNullTrap
PROPERTIES
    ImplementsPins
