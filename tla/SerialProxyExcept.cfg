\* What the except branch of update_wpa_supplicant prints is not always true.
SPECIFICATION Spec
CONSTANTS
    c1 = c1
    c2 = c2
    Credentials <- MCCredentials
    None = None
    MaxLines = 1
    MaxPlugChanges = 2
    MaxPowerCuts = 0
PROPERTY ExceptMeansNotUpdated
CHECK_DEADLOCK FALSE
