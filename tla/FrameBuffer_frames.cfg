\* Two consumers, filters or not, a clock that is set back: no lost wake-up, no
\* frame delivered out of order.
SPECIFICATION Spec
CONSTANTS
    r1 = r1
    r2 = r2
    None = None
    Readers <- MCReaders
    CopyChoices = {TRUE, FALSE}
    ExecFailure = FALSE
    ShowsFailure = TRUE
    MaxTime = 2
    MaxImages = 2
SYMMETRY ReaderSymmetry
INVARIANT WakeupInv
PROPERTY FramesAdvance
