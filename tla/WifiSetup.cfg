SPECIFICATION SetupFairSpec
CONSTANTS
    c1 = c1
    p1 = p1
    p2 = p2
    Credentials <- MCCredentials
    None = None
    Phones <- MCPhones
    Texts <- MCTexts
    MaxTexts = 1
    MaxJoins = 1
    MaxLines = 2
    MaxPlugChanges = 2
    MaxPowerCuts = 0
INVARIANTS SetupTypeOK LinesAreWhole
PROPERTIES ImplementsProvisioning RequestReachesBack
CHECK_DEADLOCK FALSE
