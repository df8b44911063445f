SPECIFICATION Spec
CONSTANTS
    Disk <- MCDisk
    TestDisk <- MCTestDisk
    SectorCells = 10
    LAFS_MAGIC = 77
    LAFS_BLOCKS_MAX = 2
    NameLen <- MCNameLen
    Paths <- MCPaths
    Offsets = {0, 12}
    Lens = {2, 60}
    BufSizes = {0, 4}
    WORD = 64
    IDX = 8
    MAX_BLOCK_DEVICES = 2
    MaxInflight = 2
    MaxCalls = 3
    MaxFailures = 2
INVARIANTS
    AnswersOwnRequest
CHECK_DEADLOCK FALSE
