SPECIFICATION Spec
CONSTANTS
    Codes <- MCCodes
    MaxTyped = 4
INVARIANTS TypeOK RoundTrip
CHECK_DEADLOCK FALSE
