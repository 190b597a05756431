\* Balanced users of a source with and without watchdog: no operator stops or
\* starts it.  Counting, and liveness under the fairness of FairSpec.
SPECIFICATION FairSpec
CONSTANTS
    Main = Main
    Watchdog = Watchdog
    None = None
    v1 = v1  v2 = v2  c1 = c1  c2 = c2  w1 = w1  w2 = w2
    Workers <- TwoWorkers
    Viewers <- TwoViewers
    Controllers = {}
    OnDemandChoices = {TRUE, FALSE}
    Kinds = {"source", "watched"}
    Commands <- PauseCommands
    MaxUsers = 4
INVARIANT UsersInv
PROPERTY Termination
