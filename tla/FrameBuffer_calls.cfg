\* Two consumers of a source with an exec-failure script: every call returns.
SPECIFICATION FairSpec
CONSTANTS
    r1 = r1
    r2 = r2
    None = None
    Readers <- MCReaders
    CopyChoices = {TRUE}
    ExecFailure = TRUE
    ShowsFailure = FALSE
    MaxTime = 1
    MaxImages = 1
PROPERTY CallsReturn
