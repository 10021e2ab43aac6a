SPECIFICATION FairSpec
CONSTANTS
    AssembleFragments = TRUE
    MaxMessageSize = 4
    MaxFrameSize = 2
    MaxSockets = 3
    MaxInFlight = 2
INVARIANTS TypeOK ConnectedIsOpen PingsOnlyWhileConnected ReplacedNeverOpen
PROPERTY AttemptResolved
CHECK_DEADLOCK FALSE
