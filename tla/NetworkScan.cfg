SPECIFICATION ScanSpec
CONSTANTS
    Names <- MCNames
    Unnamed <- MCUnnamed
    Levels <- MCLevels
    Dbm <- MCDbm
    None = "none"
    MaxCells = 3
INVARIANTS ScanTypeOK NetworksAreTheCells
CHECK_DEADLOCK FALSE
