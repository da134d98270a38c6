SPECIFICATION Spec
CONSTANTS
    IrqSources = {i1}
    NmiSources = {}
    Acia = i1
    TrapFuncs = {"save", "load"}
    NoTrap = NoTrap
    Requests = {}
    Opcodes = {"cli"}
    Cycles = {2}
    Dma = {}
    SnapClocks = {8}
    Lag = 0
    Limit = 7
    Sub = 4
    CLOCK_MAX = 40
INVARIANT
    LinesCounted
