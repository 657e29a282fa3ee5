SPECIFICATION Spec
CONSTANTS
    PROC_MAX_CNT = 2
    TtyOf <- MCTtyOf
    BUF = 3
    MAX_SIZE = 2
    Letters = {"a"}
CONSTRAINT OneElsewhere
CHECK_DEADLOCK FALSE
INVARIANTS
    RingIsText
    ReadsWhatWasTyped
PROPERTIES
    EnterWakes
