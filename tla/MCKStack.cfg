SPECIFICATION Spec
CONSTANTS
    PROC_MAX_CNT = 4
    STACK = 72
    DEPTH = 20
    Depths = {20}
    BootSps <- MCBootSps
    LowSp <- MCLow
    StubSp <- MCStub
    DriverSps <- MCDriverSps
    Pops = {3}
    MaxGen = 2
INVARIANTS
    OwnStack
    ContextSaved
    StackFits
    BootRoles
