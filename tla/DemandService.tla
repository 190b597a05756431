--------------------------- MODULE DemandService ---------------------------
(***************************************************************************)
(* What the reference count of a module promises its users, without locks, *)
(* threads, joins and restarts: a module serves from the first acquire on; *)
(* unless it is kept running, it serves until the last release.            *)
(***************************************************************************)
EXTENDS Integers

VARIABLES
    demand,     \* acquires minus releases
    serving,    \* the module has a thread
    kept        \* the module runs without demand (it is not "on-demand")

vars == <<demand, serving, kept>>

Init ==
    /\ demand = 0
    /\ serving = FALSE
    /\ kept \in BOOLEAN

Acquire ==
    /\ demand' = demand + 1
    /\ serving' = TRUE
    /\ UNCHANGED kept

\* A release of a module that does not serve has no effect: a stutter.
Release ==
    /\ serving
    /\ demand' = demand - 1
    /\ serving' = (kept \/ demand' # 0)
    /\ UNCHANGED kept

\* The program terminates: the module is no longer kept running.
Retire ==
    /\ kept' = FALSE
    /\ UNCHANGED <<demand, serving>>

Next == Acquire \/ Release \/ Retire

Spec == Init /\ [][Next]_vars

=============================================================================
