\* Adapter changes and a power cut during two requests; no symmetry, because
\* some of the properties are temporal.
SPECIFICATION FairSpec
CONSTANTS
    c1 = c1
    c2 = c2
    Credentials <- MCCredentials
    None = None
    MaxLines = 2
    MaxPlugChanges = 3
    MaxPowerCuts = 1
INVARIANTS TypeOK PortTracksAdapter NoDoubleOpen AtMostOneReply ConfirmedIsKept
PROPERTIES OkMeansApplied RequestAnswered LinesRead PortRecovers
CHECK_DEADLOCK FALSE
