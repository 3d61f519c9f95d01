CONSTANTS
    PageSize = 2
    MaxPhdrs = 3
    Beyond = 2
    Files <- MCFiles
    Slack = 1
    MaxLen = 4
    MaxChanges = 3
SPECIFICATION BootSpec
INVARIANTS ImageExact  KernelGetsCurrentMap OverrunNeedsBurst RetryFailureExplained
PROPERTIES LoaderEnds
CHECK_DEADLOCK FALSE
