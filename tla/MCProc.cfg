SPECIFICATION FairSpec
CONSTANTS
    PROC_MAX_CNT = 4
    QUANTUM = 2
    RamFather <- Garbage
INVARIANTS
    TypeOK
    FatherAlive
    NoLostWakeup
    WokenFindsZombie
    InitCanBeWoken
    SchedulerSafe
    DirsExact
    StatMatchesContext
    FathersLeadToInit
PROPERTIES
    ImplementsLife
    ReadyRuns
    SlotReturns
