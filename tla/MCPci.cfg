CONSTANTS
    Buses = 4
    Devices = 2
    Functions = 2
    MaxDevices = 3
    Machines <- MCMachines
SPECIFICATION PciSpec
INVARIANTS ListSound MissingExplained
PROPERTY ScanEnds
CHECK_DEADLOCK FALSE
