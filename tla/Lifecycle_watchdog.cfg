\* Termination announced while the watchdog is inside restart().
SPECIFICATION FairSpec
CONSTANTS
    Main = Main
    Watchdog = Watchdog
    None = None
    v1 = v1  v2 = v2  c1 = c1  c2 = c2  w1 = w1  w2 = w2
    Workers <- TwoWorkers
    Viewers <- NoViewers
    Controllers <- OneController
    OnDemandChoices <- Never
    Kinds = {"unstopped"}
    Commands = {"list"}
    MaxUsers = 3
PROPERTY AnnouncedStopHappens
CHECK_DEADLOCK FALSE
