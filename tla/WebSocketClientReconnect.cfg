SPECIFICATION Spec
CONSTANTS
    AssembleFragments = TRUE
    MaxMessageSize = 4
    MaxFrameSize = 2
    Frames <- MCFrames
    MaxConnects = 2
    MaxFrames = 1
PROPERTY OpenIsRead
CHECK_DEADLOCK FALSE
