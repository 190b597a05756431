\* Does the linked trigger record whenever the other one does?
SPECIFICATION LFairSpec
CONSTANTS
    NTargets = 0
    Linked = "linked"
    Clients = {"linked"}
    Parameters <- MCParameters
    WarmUp = 1
    Plugin = FALSE
    Resizes = FALSE
    MaxFrame = 2
    LPreChoices = {1}
    LMaxFrame = 1
PROPERTY LinkedFollows
CHECK_DEADLOCK FALSE
