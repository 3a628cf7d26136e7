SPECIFICATION FairSpec
CONSTANTS
    Buffers = {b1, b2, b3, b4}
    NoBuffer = NoBuffer
    Formats <- OutputTypes
    MaxBlocks = 6
CHECK_DEADLOCK FALSE
INVARIANTS
    NeverShared
    NothingLeaks
    DryOnlyBehindDisk
    TotalsAgree
PROPERTIES
    DeadStreamEndsRecording
    HandsBuffersOn
