---------------------------- MODULE LinkedTrigger ----------------------------
(***************************************************************************)
(* A motion trigger that records its own camera when the trigger of an     *)
(* other instance reports motion ("motion-source"): it registers as a      *)
(* client of that trigger, takes notices, and polls check_motion() to see  *)
(* when to stop.  The other trigger is the one of MotionTrigger, which     *)
(* runs concurrently.  Source: motion_trigger_other_source.cpp,            *)
(* interface.cpp (notify_thread_of_event).                                 *)
(*                                                                         *)
(* The targets of this trigger are those of MotionTrigger; here it matters *)
(* only whether they record.  The trigger has no schedule.                 *)
(***************************************************************************)
EXTENDS MotionTrigger

CONSTANTS
    Linked,        \* this trigger, as a client of the other one
    LPreChoices,   \* the values of its pre-motion-record-duration
    LMaxFrame      \* bound on the number of frames its camera delivers

ASSUME LinkedAssumption ==
    /\ Linked \in Clients
    /\ LPreChoices \subseteq Nat /\ LMaxFrame \in Nat

VARIABLES
    lpre,          \* its pre-motion-record-duration: never changes
    lcur,          \* the last frame of its camera
    lat,           \* where its thread is
    lstop,         \* its local_stop_flag
    recording,
    lprerecord     \* its prerecord: frame numbers, 0 is a failure image

lvars  == <<lpre, lcur, lat, lstop, recording, lprerecord>>
allvars == <<vars, lvars>>

LInit ==
    /\ Init
    /\ lpre \in LPreChoices
    /\ lcur = 0
    /\ lat = "loop"
    /\ lstop = FALSE
    /\ recording = FALSE
    /\ lprerecord = <<>>

LGoto(from, to) == lat = from /\ lat' = to

\* A step of the other trigger; its notify_all() wakes this one if it sleeps.
Observed(step) ==
    /\ step
    /\ lat' = IF at = "notify" /\ at' = "begin" /\ lat = "sleep" THEN "woken" ELSE lat
    /\ UNCHANGED <<lpre, lcur, lstop, recording, lprerecord>>

OtherTrigger == Observed(Next)

LCamera ==
    /\ lcur < LMaxFrame
    /\ lcur' = lcur + 1
    /\ UNCHANGED <<vars, lpre, lat, lstop, recording, lprerecord>>

LTerminate ==
    /\ lstop' = TRUE
    /\ UNCHANGED <<vars, lpre, lcur, lat, recording, lprerecord>>

\* for(;!local_stop_flag;)
LLoop ==
    /\ LGoto("loop", IF lstop THEN "exit" ELSE IF lpre > 0 THEN "get" ELSE "sleep")
    /\ UNCHANGED <<vars, lpre, lcur, lstop, recording, lprerecord>>

\* get_frame(true, prev_ts): prev_ts is never updated, so any frame since the
\* start will do; while there is none, a failure image, or nothing.
LGetFrame ==
    /\ \/ /\ LGoto("get", "test")
          /\ lprerecord' = Append(IF Len(lprerecord) >= lpre THEN Tail(lprerecord)
                                  ELSE lprerecord, lcur)
       \/ /\ lcur = 0
          /\ LGoto("get", "loop")
          /\ UNCHANGED lprerecord
    /\ UNCHANGED <<vars, lpre, lcur, lstop, recording>>

\* Mutated form of LTest: the pending notice is not consumed.
LTestOnly ==
    /\ LGoto("test", "check")
    /\ IF cv_event_notified[Linked] /\ ~recording
       THEN recording' = TRUE /\ lprerecord' = <<>>
       ELSE UNCHANGED <<recording, lprerecord>>
    /\ UNCHANGED <<vars, lpre, lcur, lstop>>

\* cv_event_notified.exchange(false); set_on_demand() and start() of the targets
LTest ==
    /\ LGoto("test", "check")
    /\ cv_event_notified' = [cv_event_notified EXCEPT ![Linked] = FALSE]
    /\ IF cv_event_notified[Linked] /\ ~recording
       THEN recording' = TRUE /\ lprerecord' = <<>>
       ELSE UNCHANGED <<recording, lprerecord>>
    /\ UNCHANGED <<cur, parameters, at, local_stop_flag, warm, after, frame, counters,
                   motion_triggered, prerecord, recorder, lpre, lcur, lstop>>

\* cv_event.wait_for(): 100 ms passed, or a spurious wake-up
LSleep ==
    /\ LGoto("sleep", "check") \/ LGoto("sleep", "woken")
    /\ UNCHANGED <<vars, lpre, lcur, lstop, recording, lprerecord>>

\* no_timeout: start() of the targets
LWoken ==
    /\ LGoto("woken", "check")
    /\ recording' = TRUE
    /\ UNCHANGED <<vars, lpre, lcur, lstop, lprerecord>>

\* While recording: check_motion() of the other trigger; stop() of the targets
LCheck ==
    /\ LGoto("check", "loop")
    /\ recording' = (recording /\ motion_triggered)
    /\ UNCHANGED <<vars, lpre, lcur, lstop, lprerecord>>

\* The end of operator()(), then the destructor, which stops the targets.
LExit ==
    /\ \/ LGoto("exit", "ended") /\ UNCHANGED recording
       \/ LGoto("ended", "gone") /\ recording' = FALSE
    /\ lprerecord' = <<>>
    /\ UNCHANGED <<vars, lpre, lcur, lstop>>

LinkedStep == LLoop \/ LGetFrame \/ LTest \/ LSleep \/ LWoken \/ LCheck \/ LExit

LNext == OtherTrigger \/ LCamera \/ LTerminate \/ LinkedStep

LSpec == LInit /\ [][LNext]_allvars

\* Both threads run, and the camera of this trigger works.
LFairSpec ==
    /\ LSpec
    /\ WF_allvars(LinkedStep) /\ WF_allvars(LCamera)
    /\ WF_allvars(Observed(Trigger))
    /\ \A i \in Targets : WF_allvars(Observed(TargetStep(i)))

-----------------------------------------------------------------------------
(* Properties                                                              *)

\* When the other trigger has no event any more, this one stops recording for
\* good: it is not started again by a notice of an event that is over.  (With
\* pre-recording: without it, every spurious wake-up starts a recording.)
LinkedReleases == lpre > 0 /\ (<>[]~motion_triggered) => <>[]~recording

\* constatus.cfg:640-642: "You can let a motion-trigger also listen to an other
\* motion-trigger.  That way multiple cameras can be triggered to all start
\* recording when one gets notified."
LinkedFollows == motion_triggered ~> recording \/ ~motion_triggered \/ lstop \/ local_stop_flag

=============================================================================
