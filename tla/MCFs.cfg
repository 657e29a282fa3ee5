SPECIFICATION Spec
CONSTANTS
    SECTOR = 2
    MAX_BLOCKS = 3
    INODES = 4
    PER = 2
    ENTRIES = 1
    SECTORS = 11
    Names <- MCNames
    Stored <- MCStored
    Fds = {1, 2}
    Sizes = {1, 4, 6}
    MaxCalls = 4
INVARIANTS
    SectorsOwned
    ReadBack
    DirectoryAgrees
    EntriesOwnInodes
    MapExact
