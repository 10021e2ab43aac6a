SPECIFICATION FairSpec
CONSTANTS
    Songs <- MCSongs
    Titled <- MCTitled
    EndsInOk <- MCEndsInOk
    InfoLines = 4
    StatusLines = 2
    NameLine = 3
    MaxOutstanding = 2
    MaxCommands = 1
INVARIANTS TypeOK InfosAreOneAnswer DownOnlyAfterFailure PollsWhileConnected
PROPERTIES InfosCatchUp
