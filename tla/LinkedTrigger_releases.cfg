\* The linked trigger stops recording when the other one has.
SPECIFICATION LFairSpec
CONSTANTS
    NTargets = 1
    Linked = "linked"
    Clients = {"linked"}
    Parameters <- MCParameters
    WarmUp = 1
    Plugin = FALSE
    Resizes = FALSE
    MaxFrame = 3
    LPreChoices = {0, 1}
    LMaxFrame = 1
PROPERTY LinkedReleases
CHECK_DEADLOCK FALSE
