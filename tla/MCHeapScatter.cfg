CONSTANTS
    NFrames = 8
    Reserved = 2
    MMaps <- HoleMMaps
    PageSize = 4
    HeaderSize = 1
    Sizes = {3, 4, 8}
    MaxBlocks = 3
    Junk = 1
SPECIFICATION HeapSpec
INVARIANT BlockPagesAllocated
