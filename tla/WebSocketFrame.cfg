SPECIFICATION Spec
CONSTANTS
    Streams <- MCStreams
    MaxFrameSize = 4
    IntLimit = 8
INVARIANTS TypeOK OneByteBehind RejectedAtHeader
CHECK_DEADLOCK FALSE
