SPECIFICATION Spec
CONSTANTS
    p0 = p0
    p1 = p1
    p2 = p2
    Procs <- MCProcs
    Init0 = p0
    FD_CNT = 2
    DESC_CNT = 3
    WORD = 4
    MaxForked = 1
    f1 = f1
    f2 = f2
    Files <- MCFiles
SYMMETRY Alike
CHECK_DEADLOCK FALSE
INVARIANTS
    FdKeepsItsFile
    CountsReferences
