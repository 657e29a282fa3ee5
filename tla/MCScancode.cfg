SPECIFICATION ScancodeSpec
CONSTANTS
    Keys = {"shift_l", "shift_r", "ctrl_l", "alt_r", "caps", "a", "enter", "up", "f2", "prtsc", "pause"}
    ROOM = 6
    LAG = 1
    MaxLost = 2
CHECK_DEADLOCK FALSE
INVARIANTS
    DecodedAsStruck
    ModifiersFollow
