SPECIFICATION ServerFairSpec
CONSTANTS
    Clients = {c1, c2}
    Sole = c1
    BuffSize = 2
    BlockSizes = {1}
    ReadSizes = {1}
    DriverResults = {"data", "timeout"}
CHECK_DEADLOCK FALSE
INVARIANTS
    IdleServerIsClean
    OneHandlerJoinsOnce
    StopLeavesNoWait
PROPERTIES
    HandlersEnd
    WorkerWindsDown
    NoBlockBehindStop
