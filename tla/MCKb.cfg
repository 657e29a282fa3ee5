SPECIFICATION Spec
CONSTANTS
    RING = 2
    PORT = 2
    MaxBytes = 6
CHECK_DEADLOCK FALSE
INVARIANTS
    TakenInOrder
    RingExact
PROPERTIES
    EveryByteTaken
