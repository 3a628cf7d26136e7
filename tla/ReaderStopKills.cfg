SPECIFICATION Spec
CONSTANTS
    Clients = {c1}
    BuffSize = 3
    BlockSizes = {1, 2}
    ReadSizes = {1, 2}
    DriverResults = {"data", "timeout"}
CHECK_DEADLOCK FALSE
INVARIANTS
    StopKeepsProcess
