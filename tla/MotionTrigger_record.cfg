\* A trigger with two targets: what is recorded, and that it is closed.
SPECIFICATION FairSpec
CONSTANTS
    NTargets = 2
    Clients = {}
    Parameters <- MCParameters
    WarmUp = 1
    Plugin = FALSE
    Resizes = TRUE
    MaxFrame = 4
INVARIANT RecorderInv
PROPERTY StopClosesRecordings
CHECK_DEADLOCK FALSE
