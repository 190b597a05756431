---------------------------- MODULE MotionTrigger ----------------------------
(***************************************************************************)
(* A motion trigger and the targets it records to.  The trigger analyses   *)
(* one frame after the other; enough frames with motion (or a notice of    *)
(* the audio trigger) start an event: clients are notified, the event is   *)
(* registered, every target is started, and the first one is given the     *)
(* frames of before the motion.  Enough frames without motion end it.      *)
(* Source: motion_trigger_generic.cpp, motion_trigger.cpp, target.cpp,     *)
(* target_avi.cpp.                                                         *)
(*                                                                         *)
(* Frames are the numbers the camera gives them.  Whether a frame shows    *)
(* motion is a choice: detection is pixel arithmetic.  start() and stop()  *)
(* are those of Lifecycle; pauseCheck() is a delay here.                   *)
(***************************************************************************)
EXTENDS Integers, Sequences, FiniteSets

CONSTANTS
    NTargets,       \* the number of targets
    Clients,        \* those who registered as notifier
    Parameters,     \* detection parameters that can be configured (REST)
    WarmUp,         \* camera_warm_up
    Plugin,         \* is an external detection plugin (et) used?
    Resizes,        \* can the camera change its resolution?
    MaxFrame        \* bound on the number of frames the camera delivers

\* pre: pre-motion-record-duration, frames: min-n-frames,
\* duration: min-duration, mute: mute-duration
ASSUME TriggerAssumption ==
    /\ NTargets \in Nat
    /\ Parameters \subseteq [pre : Nat, frames : Nat, duration : Nat, mute : Nat]
    /\ Parameters # {}
    /\ WarmUp \in Nat /\ MaxFrame \in Nat
    /\ Plugin \in BOOLEAN /\ Resizes \in BOOLEAN

VARIABLES
    cur,               \* the last frame of the camera
    parameters,        \* the detection parameters now in force
    at,                \* where the trigger thread is
    local_stop_flag,
    warm,              \* [first, i]: progress of the warm-up
    after,             \* the frame that was current when get_frame() was called
    frame,             \* the frame being analysed (pvf)
    count_frames_changed, stopping, mute,
    motion_triggered,  \* atomic, read by others: check_motion()
    prerecord,
    cv_event_notified, \* [self + clients]: a pending notice
    events,            \* [last, open]: the events in the database
    event_nr,
    nth,               \* the target being started or stopped
    targets            \* the state of each target

counters == <<count_frames_changed, stopping, mute>>
recorder == <<events, event_nr, nth, targets>>
vars     == <<cur, parameters, at, local_stop_flag, warm, after, frame, counters,
              motion_triggered, prerecord, cv_event_notified, recorder>>

Targets   == 1 .. NTargets
Self      == "self"
Listeners == {Self} \cup Clients

\* A target that was never started.  "handed" are the frames of before the
\* motion it was given, "file" is what it recorded since it was started.
IdleTarget == [at |-> "off", users |-> 0, stop |-> FALSE, ts |-> 0,
               pre_record |-> <<>>, file |-> <<>>, handed |-> <<>>]

Init ==
    /\ cur = 0
    /\ parameters \in Parameters
    /\ at = "warmup"
    /\ local_stop_flag = FALSE
    /\ warm = [first |-> TRUE, i |-> 0]
    /\ after = 0
    /\ frame = 0
    /\ count_frames_changed = 0 /\ stopping = 0 /\ mute = 0
    /\ motion_triggered = FALSE
    /\ prerecord = <<>>
    /\ cv_event_notified = [c \in Listeners |-> FALSE]
    /\ events = [last |-> 0, open |-> {}]
    /\ event_nr = 0
    /\ nth = 1
    /\ targets = [i \in Targets |-> IdleTarget]

-----------------------------------------------------------------------------
(* The surroundings: the camera, the audio trigger, REST and main().       *)

Camera ==
    /\ cur < MaxFrame
    /\ cur' = cur + 1
    /\ UNCHANGED <<parameters, at, local_stop_flag, warm, after, frame, counters,
                   motion_triggered, prerecord, cv_event_notified, recorder>>

AudioNotice ==
    /\ cv_event_notified' = [cv_event_notified EXCEPT ![Self] = TRUE]
    /\ UNCHANGED <<cur, parameters, at, local_stop_flag, warm, after, frame, counters,
                   motion_triggered, prerecord, recorder>>

\* rest_set_parameter()
Configure ==
    /\ parameters' \in Parameters
    /\ UNCHANGED <<cur, at, local_stop_flag, warm, after, frame, counters,
                   motion_triggered, prerecord, cv_event_notified, recorder>>

\* The trigger is told to stop.
Terminate ==
    /\ local_stop_flag' = TRUE
    /\ UNCHANGED <<cur, parameters, at, warm, after, frame, counters,
                   motion_triggered, prerecord, cv_event_notified, recorder>>

-----------------------------------------------------------------------------
(* The targets.                                                            *)

SetTarget(i, t) == targets' = [targets EXCEPT ![i] = t]

\* target::start(): the frames and the flag are set before interface::start()
\* looks whether the thread exists.
Started(t, frames) ==
    [t EXCEPT !.pre_record = frames, !.handed = frames, !.stop = FALSE,
              !.users = @ + 1,
              !.at = IF @ = "off" THEN "loop" ELSE @,
              !.ts = IF t.at = "off" THEN 0 ELSE @,
              !.file = IF t.at = "off" THEN <<>> ELSE @]

\* for(;!local_stop_flag;)
TargetLoop(i) ==
    /\ targets[i].at = "loop"
    /\ SetTarget(i, [targets[i] EXCEPT !.at = IF targets[i].stop THEN "flush" ELSE "get"])

\* A new frame goes into the queue, the oldest one of the queue is written.
TargetFrame(i) ==
    /\ targets[i].at = "get"
    /\ cur > targets[i].ts
    /\ LET queue == Append(targets[i].pre_record, cur)
       IN  SetTarget(i, [targets[i] EXCEPT !.at = "loop", !.ts = cur,
                                           !.pre_record = Tail(queue),
                                           !.file = Append(@, Head(queue))])

\* get_frame() timed out.
TargetNoFrame(i) ==
    /\ targets[i].at = "get"
    /\ SetTarget(i, [targets[i] EXCEPT !.at = "loop"])

\* Mutated form of TargetFlush: what is queued is dropped.
TargetDrops(i) ==
    /\ targets[i].at = "flush"
    /\ SetTarget(i, [targets[i] EXCEPT !.at = "ended", !.pre_record = <<>>])

\* "Pushing buffers to avi file"
TargetFlush(i) ==
    /\ targets[i].at = "flush"
    /\ SetTarget(i, [targets[i] EXCEPT !.at = "ended",
                                       !.file = @ \o targets[i].pre_record,
                                       !.pre_record = <<>>])

TargetStep(i) ==
    /\ TargetLoop(i) \/ TargetFrame(i) \/ TargetNoFrame(i) \/ TargetFlush(i)
    /\ UNCHANGED <<cur, parameters, at, local_stop_flag, warm, after, frame, counters,
                   motion_triggered, prerecord, cv_event_notified, events, event_nr, nth>>

-----------------------------------------------------------------------------
(* The thread of the trigger.                                              *)

Goto(from, to) == at = from /\ at' = to

\* The loop of the warm-up goes on until there was a first frame, and then
\* until it is over or the trigger is told to stop.
WarmUpLoop ==
    /\ Goto("warmup", IF warm.first \/ (warm.i < WarmUp /\ ~local_stop_flag)
                      THEN "warmget" ELSE "loop")
    /\ after' = cur
    /\ UNCHANGED <<cur, parameters, local_stop_flag, warm, frame, counters,
                   motion_triggered, prerecord, cv_event_notified, recorder>>

\* get_frame(false, get_us()) of the warm-up, with or without result.
WarmUpFrame ==
    /\ Goto("warmget", "warmup")
    /\ \E got \in {FALSE, cur > after} :
         warm' = [first |-> warm.first /\ ~got, i |-> IF warm.i < WarmUp THEN warm.i + 1 ELSE WarmUp]
    /\ UNCHANGED <<cur, parameters, local_stop_flag, after, frame, counters,
                   motion_triggered, prerecord, cv_event_notified, recorder>>

\* for(;!local_stop_flag;), and the call of get_frame(false, get_us())
Loop ==
    /\ Goto("loop", IF local_stop_flag THEN "exit" ELSE "get")
    /\ after' = cur
    /\ UNCHANGED <<cur, parameters, local_stop_flag, warm, frame, counters,
                   motion_triggered, prerecord, cv_event_notified, recorder>>

\* Mutated form of GetFrame: without a frame it tries again by itself.
GetFrameRetries ==
    /\ \/ Goto("get", "get") /\ UNCHANGED frame
       \/ Goto("get", "analyse") /\ cur > after /\ frame' = cur
    /\ UNCHANGED <<cur, parameters, local_stop_flag, warm, after, counters,
                   motion_triggered, prerecord, cv_event_notified, recorder>>

\* A frame arrives, or it does not; a frame of another size ends the trigger.
GetFrame ==
    /\ \/ Goto("get", "loop") /\ UNCHANGED frame
       \/ Goto("get", "exit") /\ cur > after /\ Resizes /\ UNCHANGED frame
       \/ Goto("get", "analyse") /\ cur > after /\ frame' = cur
    /\ UNCHANGED <<cur, parameters, local_stop_flag, warm, after, counters,
                   motion_triggered, prerecord, cv_event_notified, recorder>>

\* Motion and a schedule that allows triggers are choices.  The notice of the
\* audio trigger is consumed even if it is not used.
Analyse ==
    /\ at = "analyse"
    /\ cv_event_notified' = [cv_event_notified EXCEPT ![Self] = FALSE]
    /\ \E motion \in BOOLEAN, allowed \in BOOLEAN :
         LET triggers == allowed /\ (motion \/ cv_event_notified[Self])
         IN  \/ /\ mute > 0
                /\ mute' = mute - 1
                /\ at' = "keep"
                /\ UNCHANGED <<count_frames_changed, stopping>>
             \/ /\ mute = 0 /\ triggers
                /\ count_frames_changed' = count_frames_changed + 1
                /\ stopping' = 0
                /\ at' = IF count_frames_changed' >= parameters.frames \/ Plugin
                         THEN "notify" ELSE "keep"
                /\ UNCHANGED mute
             \/ /\ mute = 0 /\ ~triggers /\ motion_triggered
                /\ count_frames_changed' = 0
                /\ stopping' = stopping + 1
                /\ at' = IF stopping' > parameters.duration THEN "end" ELSE "keep"
                /\ UNCHANGED mute
             \/ /\ mute = 0 /\ ~triggers /\ ~motion_triggered
                /\ at' = "keep"
                /\ UNCHANGED counters
    /\ UNCHANGED <<cur, parameters, local_stop_flag, warm, after, frame,
                   motion_triggered, prerecord, recorder>>

\* notify_thread_of_event() of every client, with each frame of the event;
\* then the exec-start script is waited for and started.
Notify ==
    /\ Goto("notify", "begin")
    /\ cv_event_notified' = [c \in Listeners |-> cv_event_notified[c] \/ c \in Clients]
    /\ UNCHANGED <<cur, parameters, local_stop_flag, warm, after, frame, counters,
                   motion_triggered, prerecord, recorder>>

BeginWith(starts, frames) ==
    /\ Goto("begin", "keep")
    /\ IF ~starts
       THEN UNCHANGED <<motion_triggered, events, event_nr, targets, prerecord>>
       ELSE /\ motion_triggered' = TRUE
            /\ event_nr' = events.last + 1
            /\ events' = [last |-> event_nr', open |-> events.open \cup {event_nr'}]
            /\ targets' = [i \in Targets |-> Started(targets[i], IF i = 1 THEN frames ELSE <<>>)]
            /\ prerecord' = <<>>
    /\ UNCHANGED <<cur, parameters, local_stop_flag, warm, after, frame, counters,
                   cv_event_notified, nth>>

\* Mutated forms of Begin: the frame with the motion is handed over as well;
\* every frame with motion starts the targets.
BeginTooMuch == BeginWith(~motion_triggered, Append(prerecord, frame))
BeginAgain   == BeginWith(TRUE, prerecord)

\* The event is registered and the targets are started, if they are not yet.
Begin == BeginWith(~motion_triggered, prerecord)

\* register_event_end()
EndEvent ==
    /\ Goto("end", "stop")
    /\ events' = [events EXCEPT !.open = @ \ {event_nr}]
    /\ nth' = 1
    /\ UNCHANGED <<cur, parameters, local_stop_flag, warm, after, frame, counters,
                   motion_triggered, prerecord, cv_event_notified, event_nr, targets>>

\* stop() of the next target; its last user tells it to stop and joins it.
StopTarget(from, joining) ==
    /\ nth \in Targets
    /\ LET t == targets[nth]
       IN  \/ /\ t.at = "off"
              /\ Goto(from, from)
              /\ nth' = nth + 1
              /\ UNCHANGED targets
           \/ /\ t.at # "off" /\ t.users # 1
              /\ Goto(from, from)
              /\ nth' = nth + 1
              /\ SetTarget(nth, [t EXCEPT !.users = @ - 1])
           \/ /\ t.at # "off" /\ t.users = 1
              /\ Goto(from, joining)
              /\ SetTarget(nth, [t EXCEPT !.users = 0, !.stop = TRUE])
              /\ UNCHANGED nth
    /\ UNCHANGED <<cur, parameters, local_stop_flag, warm, after, frame, counters,
                   motion_triggered, prerecord, cv_event_notified, events, event_nr>>

TargetJoined(joining, to) ==
    /\ Goto(joining, to)
    /\ targets[nth].at = "ended"
    /\ SetTarget(nth, [targets[nth] EXCEPT !.at = "off"])
    /\ nth' = nth + 1
    /\ UNCHANGED <<cur, parameters, local_stop_flag, warm, after, frame, counters,
                   motion_triggered, prerecord, cv_event_notified, events, event_nr>>

\* All targets were stopped; the exec-end script is waited for and started.
TargetsStopped ==
    /\ Goto("stop", "keep")
    /\ nth \notin Targets
    /\ motion_triggered' = FALSE
    /\ mute' = parameters.mute
    /\ UNCHANGED <<cur, parameters, local_stop_flag, warm, after, frame,
                   count_frames_changed, stopping, prerecord, cv_event_notified, recorder>>

\* The frame is kept for a next event; only one older frame makes room for it.
Keep ==
    /\ Goto("keep", "loop")
    /\ prerecord' = IF parameters.pre = 0 THEN prerecord
                    ELSE Append(IF Len(prerecord) >= parameters.pre THEN Tail(prerecord)
                                ELSE prerecord, frame)
    /\ UNCHANGED <<cur, parameters, local_stop_flag, warm, after, frame, counters,
                   motion_triggered, cv_event_notified, recorder>>

\* The end of operator()() does not look at motion_triggered.
Exit ==
    /\ Goto("exit", "ended")
    /\ prerecord' = <<>>
    /\ UNCHANGED <<cur, parameters, local_stop_flag, warm, after, frame, counters,
                   motion_triggered, cv_event_notified, recorder>>

\* ~motion_trigger_generic(), at termination: the thread was joined, the
\* targets are deleted one by one; their destructors call stop().
Destroy ==
    /\ Goto("ended", "delete")
    /\ local_stop_flag
    /\ nth' = 1
    /\ UNCHANGED <<cur, parameters, local_stop_flag, warm, after, frame, counters,
                   motion_triggered, prerecord, cv_event_notified, events, event_nr, targets>>

Destroyed ==
    /\ Goto("delete", "gone")
    /\ nth \notin Targets
    /\ UNCHANGED <<cur, parameters, local_stop_flag, warm, after, frame, counters,
                   motion_triggered, prerecord, cv_event_notified, recorder>>

Trigger ==
    \/ WarmUpLoop \/ WarmUpFrame
    \/ Loop \/ GetFrame \/ Analyse
    \/ Notify \/ Begin
    \/ EndEvent \/ StopTarget("stop", "join") \/ TargetJoined("join", "stop") \/ TargetsStopped
    \/ Keep \/ Exit

Deletion ==
    \/ Destroy \/ StopTarget("delete", "deljoin") \/ TargetJoined("deljoin", "delete")
    \/ Destroyed

-----------------------------------------------------------------------------

Surroundings == Camera \/ AudioNotice \/ Configure \/ Terminate

Next ==
    \/ Surroundings
    \/ Trigger
    \/ \E i \in Targets : TargetStep(i)
    \/ Deletion

Spec == Init /\ [][Next]_vars

\* Threads run, and get_frame() returns: with a frame or by timeout.
Fairness ==
    /\ WF_vars(Trigger)
    /\ \A i \in Targets : WF_vars(TargetStep(i))
    /\ WF_vars(Deletion)

FairSpec == Spec /\ Fairness

-----------------------------------------------------------------------------
(* Properties                                                              *)

Ascending(s) == \A i, j \in 1 .. Len(s) : i < j => s[i] < s[j]

\* Every variable keeps its type.
TypeOK ==
    /\ cur \in 0 .. MaxFrame /\ after \in 0 .. MaxFrame /\ frame \in 0 .. MaxFrame
    /\ parameters \in Parameters
    /\ at \in {"warmup", "warmget", "loop", "get", "analyse", "notify", "begin", "end",
              "stop", "join", "keep", "exit", "ended", "delete", "deljoin", "gone"}
    /\ local_stop_flag \in BOOLEAN /\ motion_triggered \in BOOLEAN
    /\ warm \in [first : BOOLEAN, i : 0 .. WarmUp]
    /\ count_frames_changed \in Nat /\ stopping \in Nat /\ mute \in Nat
    /\ prerecord \in Seq(1 .. MaxFrame)
    /\ cv_event_notified \in [Listeners -> BOOLEAN]
    /\ events.last \in Nat /\ events.open \subseteq 1 .. events.last
    /\ event_nr \in 0 .. events.last
    /\ nth \in 1 .. NTargets + 1
    /\ targets \in [Targets -> [at : {"off", "loop", "get", "flush", "ended"},
                                users : Nat, stop : BOOLEAN, ts : 0 .. MaxFrame,
                                pre_record : Seq(1 .. MaxFrame), file : Seq(1 .. MaxFrame),
                                handed : Seq(1 .. MaxFrame)]]

\* Whatever camera, trigger and target do meanwhile, a recording holds the
\* frames of before the motion first, then later frames, each at most once
\* and in the order of the camera; none of them is lost when it is stopped.
RecordingInOrder ==
    \A i \in Targets :
        LET t == targets[i]
            all == t.file \o t.pre_record
        IN  /\ Ascending(all)
            /\ Len(t.handed) <= Len(all) /\ SubSeq(all, 1, Len(t.handed)) = t.handed
            /\ t.at \in {"off", "ended"} => t.pre_record = <<>>

\* Between two frames, the trigger reports motion exactly while its event is
\* open in the database and all its targets record, with one user each.
RecordingFollowsEvent ==
    at \in {"loop", "get", "analyse", "keep"} =>
        /\ events.open = IF motion_triggered THEN {event_nr} ELSE {}
        /\ \A i \in Targets :
               IF motion_triggered
               THEN targets[i].users = 1 /\ ~targets[i].stop /\ targets[i].at \in {"loop", "get"}
               ELSE targets[i].users = 0 /\ targets[i].at = "off"

\* Events, targets and what was recorded fit together, between any two steps.
RecorderInv == TypeOK /\ RecordingFollowsEvent /\ RecordingInOrder

\* A trigger that has seen its first frame and is told to stop ends, and
\* every recording is then closed.
StopClosesRecordings == local_stop_flag /\ ~warm.first ~> at = "gone"

=============================================================================
