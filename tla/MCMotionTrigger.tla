--------------------------- MODULE MCMotionTrigger ---------------------------
(* Small instances of MotionTrigger for TLC.                               *)
EXTENDS MotionTrigger

\* Two configurations a REST request switches between.
MCParameters == {[pre |-> 2, frames |-> 1, duration |-> 0, mute |-> 1],
                 [pre |-> 1, frames |-> 2, duration |-> 1, mute |-> 0]}

=============================================================================
