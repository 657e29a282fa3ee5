SPECIFICATION Spec
SYMMETRY Symm
CONSTANTS
    p0 = p0
    p1 = p1
    p2 = p2
    blank = blank
    a = a
    Procs <- MCProcs
    Init0 = p0
    Pages <- MCPages
    PoolSize = 4
    AddSlots = 3
    DecSlots = 2
    Data <- MCData
    Blank = blank
    Image = {0}
CONSTRAINT InWindow
CHECK_DEADLOCK FALSE
INVARIANTS
    ExclusiveWritable
    SharersCounted
PROPERTIES
    ImplementsSpace
