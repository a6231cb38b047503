SPECIFICATION MemSpec
CONSTANTS
    Pids = {1, 2, 3}
    InitProc = 1
    FrameEnd = 14
    StackPages = 1
    ImageSizes = {1, 2}
    ImageTables = 1
    ContextPages = 1
    ContextTables = 1
    MaxBirths = 4
CHECK_DEADLOCK FALSE
INVARIANT MemoryInv
INVARIANT PrivateData
