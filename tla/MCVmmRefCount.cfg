CONSTANTS
    NFrames = 23
    Reserved = 7
    MMaps = {}
    Entries = 4
    PageUnit = 8
    Root = 1
    StartVaddrs = {8}
    MaxPages = 6
    Counts = {1, 2}
    MaxVma = 3
    Boots <- RunBoots
    KernelPage = 2
    UserWord = 6
SPECIFICATION VmmSpec
INVARIANT RefCountExact
CHECK_DEADLOCK FALSE
