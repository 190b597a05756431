----------------------------- MODULE MCLifecycle -----------------------------
(* Small instances of Lifecycle for TLC. *)
EXTENDS Lifecycle, TLC

CONSTANTS v1, v2, c1, c2, w1, w2

OneViewer      == {v1}
TwoViewers     == {v1, v2}
NoViewers      == {}
OneController  == {c1}
TwoControllers == {c1, c2}
TwoWorkers     == {w1, w2}

Always == {TRUE}
Never  == {FALSE}

EveryCommand  == AllCommands
PauseCommands == {"list", "pause", "unpause", "togglepause"}
StopCommands  == {"start", "stop"}

\* Viewers, controllers and workers are interchangeable (safety runs only).
Symmetry == Permutations(TwoViewers) \cup Permutations(TwoControllers)
              \cup Permutations(TwoWorkers)

=============================================================================
