SPECIFICATION Spec
CONSTANTS
    Pressed <- MCPressed
    MaxPresses = 2
    Nobody = Nobody
INVARIANTS TypeOK LedMeansListening EveryCommandHasItsCause
CHECK_DEADLOCK FALSE
