SPECIFICATION ScreenSpec
CONSTANTS
    WIDTH = 4
    HEIGHT = 2
    TAB = 2
    BYTE = 6
    MaxOutput = 3
INVARIANTS
    ScreenShowsOutput
    CursorShown
    StartShown
