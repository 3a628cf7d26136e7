SPECIFICATION FairSpec
CONSTANTS
    MsgSizes = {2, 4}
    MaxReply = 3
    MaxLine = 5
CHECK_DEADLOCK FALSE
INVARIANTS
    TypeOK
    AnswersAreOwn
    RepliesNeverJoin
    OpenMeansUsable
PROPERTIES
    CallsReturn
