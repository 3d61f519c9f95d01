CONSTANTS
    TicksPerSecond = 2
    MaxPit = 6
    MaxKeys = 3
    Rows = 3
SPECIFICATION KernelSpec
INVARIANTS TickCopiesOrdered 
PROPERTIES HandlersFindDevicesReady ScreenKeepsUp TicksServed KeysServed
CHECK_DEADLOCK FALSE
