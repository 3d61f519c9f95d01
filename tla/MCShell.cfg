CONSTANTS
    TicksPerSecond = 2
    MaxProcs = 2
    StackPages = 1
    FirstVaddr = 8
    MaxVaddr = 10
    MaxTicks = 0
    MaxCmdLen = 12
    MaxLines = 3
    InfoLines = 2
    TestPages = 2
    MaxSectors = 2
    SectorLines = 2
    NumberSpace = 8
    Scripts <- MCScripts
SPECIFICATION ShellSpec
INVARIANTS LineEditorExact  OutputShown
PROPERTY KillsAsTyped
CHECK_DEADLOCK FALSE
