SPECIFICATION FairSpec
CONSTANTS
    IrqSources = {i1}
    NmiSources = {n1}
    Acia = None
    TrapFuncs = {}
    NoTrap = NoTrap
    Requests = {}
    Opcodes = {"plain", "cli", "sei", "branch", "brk"}
    Cycles = {2, 3}
    Dma = {2}
    SnapClocks = {}
    Lag = 1
    Limit = 7
    Sub = 4
    CLOCK_MAX = 40
INVARIANT
    EntryJustified
PROPERTIES
    NmiIsServed
    HeldIrqIsServed
