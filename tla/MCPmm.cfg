CONSTANTS
    NFrames = 10
    Reserved = 2
    MMaps <- MCMMaps
SPECIFICATION PmmSpec
INVARIANTS FrameAccounting NullMeansExhausted
PROPERTIES PmmImplementsFrameAllocator
