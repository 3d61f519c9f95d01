CONSTANTS
    NFrames = 23
    Reserved = 7
    MMaps = {}
    Entries = 4
    PageUnit = 8
    Root = 1
    StartVaddrs = {14, 62}
    MaxPages = 6
    Counts = {1, 2}
    MaxVma = 3
    Boots <- MCBoots
    KernelPage = 2
    UserWord = 6
SPECIFICATION VmmSpec
INVARIANTS VmaListSound RefCountExactApart RegionsBacked NoLeak KernelStaysMapped
PROPERTY VmmImplementsRegionAllocator
CHECK_DEADLOCK FALSE
