SPECIFICATION FairSpec
CONSTANTS
    Clients = {c1}
    BuffSize = 3
    BlockSizes = {1, 2}
    ReadSizes = {1, 2}
    DriverResults = {"data", "empty", "ragged", "timeout", "failed"}
CHECK_DEADLOCK FALSE
INVARIANTS
    ThreadLostOnlyGivingUp
PROPERTIES
    StopEndsOrRingFull
    ReadersFed
    LeavesWhenCalled
