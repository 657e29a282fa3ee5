SPECIFICATION Spec
SYMMETRY Symm
CONSTANTS
    p0 = p0
    p1 = p1
    p2 = p2
    blank = blank
    a = a
    Procs <- MCProcs
    Init0 = p0
    Pages <- MCPages
    PoolSize = 4
    AddSlots = 8
    DecSlots = 4
    Data <- MCData
    Blank = blank
    Image = {0}
CHECK_DEADLOCK FALSE
INVARIANTS
    PagesFreed
