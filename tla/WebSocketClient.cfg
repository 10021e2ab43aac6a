SPECIFICATION FairSpec
CONSTANTS
    AssembleFragments = TRUE
    MaxMessageSize = 4
    MaxFrameSize = 2
    Frames <- MCFrames
    MaxConnects = 1
    MaxFrames = 4
INVARIANTS TypeOK OpenIsConnected ClosedOnce QueueIsBounded MessagesAssembled
PROPERTIES AttemptEnds CloseEnds
CHECK_DEADLOCK FALSE
