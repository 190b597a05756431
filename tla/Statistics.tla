------------------------------ MODULE Statistics ------------------------------
(***************************************************************************)
(* What is counted per second, in a ring of five seconds of which a thread *)
(* clears the one that is in use, about once each second.                  *)
(* Source: stats_tracker.cpp.                                              *)
(*                                                                         *)
(* Followed is one thing that is counted: others are counted likewise.     *)
(***************************************************************************)
EXTENDS Integers

CONSTANTS
    Ticks,         \* parts of a second that are told apart
    MaxTick        \* bound: time (the code: no limit)

ASSUME StatisticsAssumption == Ticks \in Nat \ {0} /\ MaxTick \in Nat

VARIABLES
    now,        \* the clock
    counting    \* the ring, the thread, and when it was counted

statVars == <<now, counting>>

Slots == 5
Second(t) == t \div Ticks
Slot(t) == Second(t) % Slots
Never == -1

\* held: it is in its slot.  cleared: that slot was, after it, in its second.
\* skipped: the thread was not there in a later second of that slot.
StatInit ==
    /\ now = 0
    /\ counting = [tick |-> Never, held |-> FALSE, wake |-> Ticks, stopped |-> FALSE,
                   cleared |-> FALSE, skipped |-> FALSE, woken |-> Never]

\* The thread is asleep for a second, and a tick longer now and then; told to stop,
\* it still does so: then notify_one() came while it was not waiting.
Passes ==
    /\ now < MaxTick
    /\ counting.wake + 1 > now \/ counting.stopped
    /\ now' = now + 1
    /\ counting' = [counting EXCEPT !.skipped = @ \/
         /\ counting.held /\ Slot(now) = Slot(counting.tick) /\ Second(now) # Second(counting.tick)
         /\ Second(now + 1) # Second(now) /\ Second(counting.woken) # Second(now)]

\* track_bw(), track_fps()
Track ==
    /\ counting.tick = Never
    /\ counting' = [counting EXCEPT !.tick = now, !.held = TRUE]
    /\ UNCHANGED now

\* Mutated form of Clear: the slot of the next second.
ClearNext ==
    /\ ~counting.stopped /\ now >= counting.wake
    /\ counting' = [counting EXCEPT
         !.wake = now + Ticks, !.woken = now,
         !.held = @ /\ Slot(now + Ticks) # Slot(counting.tick),
         !.cleared = @ \/ (counting.tick # Never /\ Second(counting.tick) = Second(now))]
    /\ UNCHANGED now
Clear ==
    /\ ~counting.stopped /\ now >= counting.wake
    /\ counting' = [counting EXCEPT
         !.wake = now + Ticks, !.woken = now,
         !.held = @ /\ Slot(now) # Slot(counting.tick),
         !.cleared = @ \/ (counting.tick # Never /\ Second(counting.tick) = Second(now))]
    /\ UNCHANGED now

\* ~stats_tracker()
StatStop == counting' = [counting EXCEPT !.stopped = TRUE] /\ UNCHANGED now

StatNext == Passes \/ Track \/ Clear \/ StatStop
StatSpec == StatInit /\ [][StatNext]_statVars

-----------------------------------------------------------------------------
(* Properties.                                                             *)

\* get_bw(), get_fps(): all slots but that of this second.
Reported == counting.held /\ Slot(now) # Slot(counting.tick)
Age == Second(now) - Second(counting.tick)

\* What is reported was counted in one of the last four seconds, unless the thread
\* overslept a whole second of its slot; and what was counted in one of these is
\* reported, unless the thread cleared the slot after it, in the same second.
StatsSound ==
    counting.tick # Never /\ ~counting.stopped =>
       /\ Reported => Age \in 1 .. Slots - 1 \/ counting.skipped
       /\ Age \in 1 .. Slots - 1 /\ ~counting.cleared => Reported
=============================================================================
