\* Safety: on-demand sources and pausable modules under every command, the watchdog, viewers and
\* termination.  Termination while a module is paused blocks for ever
\* (README, section 5), so the system really may stop here.
SPECIFICATION Spec
CONSTANTS
    Main = Main
    Watchdog = Watchdog
    None = None
    v1 = v1  v2 = v2  c1 = c1  c2 = c2  w1 = w1  w2 = w2
    Viewers <- OneViewer
    Controllers <- TwoControllers
    Workers <- TwoWorkers
    OnDemandChoices <- Always
    Kinds <- AllKinds
    Commands <- EveryCommand
    MaxUsers = 4
INVARIANTS OneThreadPerModule JoinKeepsStopFlag DemandRuns PauseGateOwned
PROPERTIES StopFlagHolds ServiceSpec
SYMMETRY Symmetry
CHECK_DEADLOCK FALSE
