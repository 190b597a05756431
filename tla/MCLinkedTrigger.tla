--------------------------- MODULE MCLinkedTrigger ---------------------------
(* Small instances of LinkedTrigger for TLC.                               *)
EXTENDS LinkedTrigger

MCParameters == {[pre |-> 0, frames |-> 1, duration |-> 0, mute |-> 0]}

=============================================================================
