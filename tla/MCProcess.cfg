CONSTANTS
    TicksPerSecond = 2
    MaxProcs = 3
    StackPages = 2
    FirstVaddr = 8
    MaxVaddr = 14
    MaxTicks = 4
SPECIFICATION FairProcessSpec
INVARIANTS PidsUnique  RunTimeExact
PROPERTIES SecondsCharged
