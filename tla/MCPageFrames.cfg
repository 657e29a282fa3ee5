SPECIFICATION Spec
CONSTANTS
    p0 = p0
    p1 = p1
    p2 = p2
    Procs <- MCProcs
    Init0 = p0
    Regions = {0, 1}
    Image = {0, 1}
    TableFrames = 7
CHECK_DEADLOCK FALSE
INVARIANTS
    FramesNotShared
    FramesHeld
    FramesReturned
