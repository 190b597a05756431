----------------------------- MODULE RestControls -----------------------------
(***************************************************************************)
(* Commands of the REST interface that set or show something of a camera:  *)
(* its controls, and where it looks.  Source: http_server_rest.cpp,        *)
(* controls*.cpp, source_v4l.cpp, motion_trigger_generic.cpp.              *)
(*                                                                         *)
(* A command holds the lock of the configuration, which keeps away other   *)
(* commands but neither the thread of the source, which makes and deletes  *)
(* the controls of a v4l camera, nor the motion trigger, which moves it.   *)
(***************************************************************************)
EXTENDS Integers, FiniteSets

CONSTANTS
    ControlKinds,    \* "none", "software", "v4l"
    ControlValues,   \* values that are asked for
    RangeMin, RangeMax,  \* of the control in the camera
    Directions       \* values of pan and tilt

ASSUME RestAssumption ==
    /\ ControlKinds \subseteq {"none", "software", "v4l"}
    /\ ControlValues \subseteq Nat
    /\ RangeMin \in Int /\ RangeMax \in Int /\ RangeMin < RangeMax

VARIABLES
    camera,     \* its controls, and where it looks
    rest,       \* the command
    tracker     \* the trigger, moving the camera

restVars == <<camera, rest, tracker>>

Full == 65536
Default == 32767
Scaled(hw) == ((hw - RangeMin) * Full) \div (RangeMax - RangeMin)
Unscaled(v) == ((v * (RangeMax - RangeMin)) \div Full) + RangeMin

ShownValue(hw) == IF camera.kind = "software" THEN hw ELSE Scaled(hw)

NoCommand == [at |-> "idle", value |-> 0, ok |-> FALSE, result |-> 0, old |-> 0,
              ended |-> FALSE, moved |-> FALSE, freed |-> FALSE]

\* alive: there are controls, of which the camera has one.  set: what was last asked
\* for and accepted.  ended, moved: the source ended, or the trigger moved the camera,
\* while the command was busy.
RestInit ==
    /\ \E kind \in ControlKinds, has \in BOOLEAN, moves \in BOOLEAN :
          camera = [kind |-> kind, alive |-> kind = "software", has |-> has \/ kind = "software",
                    hw |-> IF kind = "software" THEN Default ELSE RangeMin, set |-> Default,
                    known |-> kind = "software", moves |-> moves, pan |-> 0, tilt |-> 0]
    /\ rest = NoCommand
    /\ tracker = [at |-> "idle", pan |-> 0, tilt |-> 0]

-----------------------------------------------------------------------------
(* The thread of a v4l source.                                             *)

SourceStarts ==
    /\ camera.kind = "v4l" /\ ~camera.alive
    /\ camera' = [camera EXCEPT !.alive = TRUE]
    /\ UNCHANGED <<rest, tracker>>
SourceEnds ==
    /\ camera.kind = "v4l" /\ camera.alive
    /\ camera' = [camera EXCEPT !.alive = FALSE]
    /\ rest' = [rest EXCEPT !.ended = rest.at # "idle"]
    /\ UNCHANGED tracker

-----------------------------------------------------------------------------
(* Controls.                                                               *)

RestBegin(what, value) == rest' = [NoCommand EXCEPT !.at = what, !.value = value]
Reply(what, ok) == rest' = [rest EXCEPT !.at = what, !.ok = ok]

\* get_controls(): the pointer is read without the lock that the source takes.
Controls ==
    /\ rest.at = "idle" /\ camera.alive
    /\ \E what \in {"set", "get", "reset"}, v \in ControlValues : RestBegin(what, v)
    /\ UNCHANGED <<camera, tracker>>
\* No controls, no such key, or a value that misses.
Refused ==
    /\ rest.at = "idle" /\ Reply("refused", FALSE)
    /\ UNCHANGED <<camera, tracker>>
Dangling ==
    /\ rest.at \in {"set", "get", "reset"} /\ ~camera.alive
    /\ rest' = [rest EXCEPT !.at = "failed", !.freed = TRUE]
    /\ UNCHANGED <<camera, tracker>>

\* A control that is not there, and a value that the camera does not take, are
\* logged only: the reply is OK.
\* Mutated form of Takes: a value as it is, not scaled to the range.
TakesUnscaled(v) == IF camera.kind = "software" THEN {v} ELSE {v} \cap RangeMin .. RangeMax
Takes(v) == IF camera.kind = "software" THEN {v} ELSE {Unscaled(v)} \cap RangeMin .. RangeMax
Setting ==
    /\ rest.at = "set" /\ camera.alive
    /\ camera' = IF camera.has /\ Takes(rest.value) # {}
                 THEN [camera EXCEPT !.hw = CHOOSE hw \in Takes(rest.value) : TRUE,
                                     !.set = rest.value, !.known = TRUE]
                 ELSE camera
    /\ Reply("replied", TRUE) /\ UNCHANGED tracker
Getting ==
    /\ rest.at = "get" /\ camera.alive
    /\ rest' = [rest EXCEPT !.at = "shown", !.ok = camera.has, !.result = ShownValue(camera.hw)]
    /\ UNCHANGED <<camera, tracker>>
Resetting ==
    /\ rest.at = "reset" /\ camera.alive
    /\ camera' = IF camera.kind = "software" THEN [camera EXCEPT !.hw = Default, !.set = Default]
                 ELSE IF camera.has THEN [camera EXCEPT !.hw = RangeMin, !.known = FALSE] ELSE camera
    /\ Reply("replied", TRUE) /\ UNCHANGED tracker
RestAnswered ==
    /\ rest.at \in {"replied", "shown", "turned", "failed", "refused"}
    /\ rest' = NoCommand /\ UNCHANGED <<camera, tracker>>

-----------------------------------------------------------------------------
(* Where the camera looks: both are read, and both are written.            *)

ReadPan ==
    /\ rest.at = "idle" /\ camera.moves
    /\ \E v \in Directions :
          rest' = [NoCommand EXCEPT !.at = "pan", !.value = v, !.old = camera.tilt]
    /\ UNCHANGED <<camera, tracker>>
WritePan ==
    /\ rest.at = "pan"
    /\ camera' = [camera EXCEPT !.pan = rest.value]
    /\ Reply("tilt", TRUE) /\ UNCHANGED tracker
WriteTilt ==
    /\ rest.at = "tilt"
    /\ camera' = [camera EXCEPT !.tilt = rest.old]
    /\ Reply("turned", TRUE) /\ UNCHANGED tracker

\* The motion trigger turns it to what moves, or back when that is over.
TrackMotion ==
    /\ tracker.at = "idle" /\ camera.moves
    /\ \E p, t \in Directions : tracker' = [at |-> "pan", pan |-> p, tilt |-> t]
    /\ UNCHANGED <<camera, rest>>
TrackPan ==
    /\ tracker.at = "pan"
    /\ camera' = [camera EXCEPT !.pan = tracker.pan] /\ tracker' = [tracker EXCEPT !.at = "tilt"]
    /\ rest' = [rest EXCEPT !.moved = rest.at # "idle"]
TrackTilt ==
    /\ tracker.at = "tilt"
    /\ camera' = [camera EXCEPT !.tilt = tracker.tilt]
    /\ tracker' = [at |-> "idle", pan |-> 0, tilt |-> 0]
    /\ rest' = [rest EXCEPT !.moved = rest.at # "idle"]

RestNext ==
    \/ SourceStarts \/ SourceEnds \/ TrackMotion \/ TrackPan \/ TrackTilt
    \/ Controls \/ Refused \/ Dangling \/ Setting \/ Getting \/ Resetting \/ RestAnswered
    \/ ReadPan \/ WritePan \/ WriteTilt

RestSpec == RestInit /\ [][RestNext]_restVars

-----------------------------------------------------------------------------
(* Properties.                                                             *)

\* The value that is shown is the one that was accepted last, whatever was asked for
\* meanwhile: less, by less than one step of the camera and one more, as it is rounded
\* down twice.  Controls that are gone are used only when the source ended in the
\* middle of a command.  The camera looks where it was told to, and as far up as
\* before, unless the trigger moved it then.
RestSound ==
    /\ rest.at = "shown" /\ rest.ok /\ camera.known /\ ~rest.ended =>
         /\ rest.result <= camera.set
         /\ IF camera.kind = "software" THEN rest.result = camera.set
            ELSE (camera.set - rest.result) * (RangeMax - RangeMin) < Full + RangeMax - RangeMin
    /\ rest.freed => rest.ended
    /\ rest.at = "turned" /\ ~rest.moved => camera.pan = rest.value /\ camera.tilt = rest.old
=============================================================================
