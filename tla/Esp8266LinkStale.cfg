SPECIFICATION Spec
CONSTANTS
    AssembleFragments = TRUE
    MaxMessageSize = 4
    MaxFrameSize = 2
    MaxSockets = 2
    MaxInFlight = 2
PROPERTY ClosedMeansClosed
CHECK_DEADLOCK FALSE
