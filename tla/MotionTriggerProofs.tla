--------------------------- MODULE MotionTriggerProofs ---------------------------
(***************************************************************************)
(* What a motion trigger records, for any number of targets, any detection *)
(* parameters and any camera.                                              *)
(*                                                                         *)
(* RecorderInv speaks of the time between two frames and of what was       *)
(* recorded so far.  Inductive is what also says how far the start and the *)
(* stop of the targets are (StageInv), that a frame is younger than those  *)
(* that were kept before it (FrameInv), and that what a target has is      *)
(* older than what it gets next (TargetInv).                               *)
(***************************************************************************)
EXTENDS MotionTrigger, SequenceTheorems, TLAPS

Frames == 1 .. MaxFrame

TargetStates == [at : {"off", "loop", "get", "flush", "ended"},
                 users : Nat, stop : BOOLEAN, ts : 0 .. MaxFrame,
                 pre_record : Seq(Frames), file : Seq(Frames), handed : Seq(Frames)]

TriggerTypeOK ==
    /\ cur \in 0 .. MaxFrame /\ after \in 0 .. MaxFrame /\ frame \in 0 .. MaxFrame
    /\ parameters \in Parameters
    /\ at \in {"warmup", "warmget", "loop", "get", "analyse", "notify", "begin", "end",
              "stop", "join", "keep", "exit", "ended", "delete", "deljoin", "gone"}
    /\ local_stop_flag \in BOOLEAN /\ motion_triggered \in BOOLEAN
    /\ warm \in [first : BOOLEAN, i : 0 .. WarmUp]
    /\ count_frames_changed \in Nat /\ stopping \in Nat /\ mute \in Nat
    /\ prerecord \in Seq(Frames)
    /\ cv_event_notified \in [Listeners -> BOOLEAN]
    /\ nth \in 1 .. NTargets + 1

EventTypeOK ==
    /\ events \in [last : Nat, open : SUBSET Nat]
    /\ events.open \subseteq 1 .. events.last
    /\ event_nr \in 0 .. events.last

TargetsTypeOK == targets \in [Targets -> TargetStates]

Off(t)     == t.at = "off" /\ t.users = 0
On(t)      == t.at \in {"loop", "get"} /\ t.users = 1 /\ ~t.stop
Closing(t) == t.at \in {"loop", "get", "flush", "ended"} /\ t.users = 0 /\ t.stop

Running == {"warmup", "warmget", "loop", "get", "analyse", "keep", "notify", "begin",
            "end", "exit", "ended"}

\* The event and the targets are there together, but for the time in which the
\* targets are stopped one after the other.
StageInv ==
    /\ at \in {"warmup", "warmget"} => ~motion_triggered
    /\ at = "end" => motion_triggered
    /\ at \in Running =>
         /\ events.open = IF motion_triggered THEN {event_nr} ELSE {}
         /\ \A i \in Targets : IF motion_triggered THEN On(targets[i]) ELSE Off(targets[i])
    /\ at \in {"stop", "join"} =>
         /\ events.open = {}
         /\ \A i \in Targets :
              /\ i < nth => Off(targets[i])
              /\ i = nth => IF at = "stop" THEN On(targets[i]) ELSE Closing(targets[i])
              /\ i > nth => On(targets[i])
    /\ at \in {"join", "deljoin"} => nth \in Targets
    /\ at \in {"delete", "deljoin"} =>
         \A i \in Targets : \/ On(targets[i]) \/ Off(targets[i])
                            \/ i = nth /\ at = "deljoin" /\ Closing(targets[i])

\* What was kept is in the order of the camera and older than the frame of now.
FrameInv ==
    /\ frame <= cur /\ after <= cur
    /\ Ascending(prerecord)
    /\ \A k \in 1 .. Len(prerecord) : prerecord[k] <= frame
    /\ at = "get" => frame <= after
    /\ at \in {"analyse", "notify", "begin", "end", "stop", "join", "keep"} =>
         frame >= 1 /\ \A k \in 1 .. Len(prerecord) : prerecord[k] < frame

All(t) == t.file \o t.pre_record

\* "last" is the last frame of the camera.
Ordered(t, last) ==
    /\ Ascending(All(t))
    /\ \A k \in 1 .. Len(All(t)) : All(t)[k] <= t.ts \/ All(t)[k] < last
    /\ Len(t.handed) <= Len(All(t))
    /\ \A k \in 1 .. Len(t.handed) : All(t)[k] = t.handed[k]
    /\ t.at \in {"off", "ended"} => t.pre_record = <<>>

TargetInv == \A i \in Targets : targets[i].ts <= cur /\ Ordered(targets[i], cur)

TriggerInv ==
    /\ TriggerTypeOK /\ EventTypeOK /\ TargetsTypeOK
    /\ StageInv /\ FrameInv /\ TargetInv

-----------------------------------------------------------------------------
(* Sequences of frames.                                                    *)

\* A later frame at the end keeps the order.
LEMMA AppendAscending ==
  ASSUME NEW s \in Seq(Frames), NEW x \in Frames, Ascending(s),
         \A k \in 1 .. Len(s) : s[k] < x
  PROVE  Ascending(Append(s, x))
  BY DEF Ascending, Frames

\* The oldest frame can be taken away.
LEMMA TailAscending ==
  ASSUME NEW s \in Seq(Frames), s # <<>>, Ascending(s)
  PROVE  /\ Tail(s) \in Seq(Frames)
         /\ Ascending(Tail(s))
         /\ \A k \in 1 .. Len(Tail(s)) : \E l \in 1 .. Len(s) : Tail(s)[k] = s[l]
  <1>1. /\ Tail(s) \in Seq(Frames)
        /\ Len(Tail(s)) = Len(s) - 1
        /\ \A k \in 1 .. Len(Tail(s)) : Tail(s)[k] = s[k + 1]
    BY HeadTailProperties
  <1> QED
    BY <1>1 DEF Ascending

LEMMA ConcatFrames ==
  ASSUME NEW f \in Seq(Frames), NEW g \in Seq(Frames), NEW h \in Seq(Frames)
  PROVE  (f \o g) \o h = f \o (g \o h)
  BY ConcatAssociative, SMTT(30)

\* The oldest frame of the queue goes to the file, a new one into the queue.
LEMMA QueuedFrame ==
  ASSUME NEW f \in Seq(Frames), NEW p \in Seq(Frames), NEW x \in Frames
  PROVE  LET q == Append(p, x)
         IN  /\ Tail(q) \in Seq(Frames)
             /\ Append(f, Head(q)) \in Seq(Frames)
             /\ Append(f, Head(q)) \o Tail(q) = Append(f \o p, x)
  <1> DEFINE q == Append(p, x)
             e == Head(q)
  <1>1. q \in Seq(Frames) /\ q # <<>> /\ q = p \o <<x>> /\ Len(q) \in 1 .. Len(q)
    <2>1. q \in Seq(Frames) /\ q # <<>> /\ Len(q) = Len(p) + 1
      BY AppendProperties
    <2>2. q = p \o <<x>>
      BY AppendIsConcat
    <2> QED
      BY <2>1, <2>2
  <1> HIDE DEF q
  <1>2. e \in Frames /\ Tail(q) \in Seq(Frames)
    BY <1>1, HeadTailProperties
  <1>3. q = <<e>> \o Tail(q)
    <2>1. SubSeq(q, 1, Len(q)) = <<q[1]>> \o SubSeq(q, 2, Len(q))
      <3>1. 1 \in 1 .. Len(q) /\ 1 + 1 = 2
        BY <1>1
      <3> QED
        BY <1>1, <3>1, SubSeqRecursiveFirst
    <2>2. SubSeq(q, 1, Len(q)) = q
      BY <1>1, SubSeqFull
    <2>3. SubSeq(q, 2, Len(q)) = Tail(q)
      BY <1>1, TailIsSubSeq
    <2>4. e = q[1]
      BY <1>1
    <2> QED
      BY <2>1, <2>2, <2>3, <2>4
  <1> DEFINE one == <<e>>
  <1>4. one \in Seq(Frames) /\ <<x>> \in Seq(Frames)
    BY <1>2
  <1>5. Append(f, e) = f \o one /\ Append(f, e) \in Seq(Frames)
    BY <1>2, AppendProperties, AppendIsConcat
  <1>6. Append(f \o p, x) = (f \o p) \o <<x>>
    <2>1. f \o p \in Seq(Frames)
      BY ConcatProperties
    <2> QED
      BY <2>1, AppendIsConcat
  <1> HIDE DEF e, one
  <1>7. (f \o one) \o Tail(q) = f \o (one \o Tail(q))
    BY <1>2, <1>4, ConcatFrames, ZenonT(30)
  <1>8. (f \o p) \o <<x>> = f \o (p \o <<x>>)
    BY <1>4, ConcatFrames, ZenonT(30)
  <1>9. one \o Tail(q) = p \o <<x>>
    BY <1>1, <1>3, Zenon DEF one
  <1>10. Append(f, e) \o Tail(q) = Append(f \o p, x)
    BY <1>5, <1>6, <1>7, <1>8, <1>9, Zenon
  <1> QED
    BY <1>2, <1>5, <1>10, Zenon DEF q, e

-----------------------------------------------------------------------------
(* Init                                                                    *)

LEMMA TriggerInvInit == Init => TriggerInv
  <1> SUFFICES ASSUME Init PROVE TriggerInv
    OBVIOUS
  <1>0. NTargets \in Nat /\ MaxFrame \in Nat /\ WarmUp \in Nat
    BY TriggerAssumption
  <1>1. TriggerTypeOK /\ EventTypeOK
    <2>1. prerecord \in Seq(Frames) /\ cv_event_notified \in [Listeners -> BOOLEAN]
      BY DEF Init
    <2>2. EventTypeOK
      <3>1. events = [last |-> 0, open |-> {}] /\ event_nr = 0
        BY DEF Init
      <3>2. events.last = 0 /\ events.open = {} /\ events \in [last : Nat, open : SUBSET Nat]
        BY <3>1
      <3> QED
        BY <3>1, <3>2 DEF EventTypeOK
    <2>3. warm \in [first : BOOLEAN, i : 0 .. WarmUp] /\ nth \in 1 .. NTargets + 1
      BY <1>0 DEF Init
    <2>4. /\ cur \in 0 .. MaxFrame /\ after \in 0 .. MaxFrame /\ frame \in 0 .. MaxFrame
          /\ parameters \in Parameters /\ at = "warmup"
          /\ local_stop_flag \in BOOLEAN /\ motion_triggered \in BOOLEAN
          /\ count_frames_changed \in Nat /\ stopping \in Nat /\ mute \in Nat
      <3>1. /\ cur = 0 /\ after = 0 /\ frame = 0 /\ local_stop_flag = FALSE
            /\ motion_triggered = FALSE /\ at = "warmup" /\ parameters \in Parameters
            /\ count_frames_changed = 0 /\ stopping = 0 /\ mute = 0
        BY DEF Init
      <3>2. local_stop_flag \in BOOLEAN /\ motion_triggered \in BOOLEAN
        BY <3>1, Zenon
      <3>3. /\ cur \in 0 .. MaxFrame /\ after \in 0 .. MaxFrame /\ frame \in 0 .. MaxFrame
            /\ count_frames_changed \in Nat /\ stopping \in Nat /\ mute \in Nat
        BY <1>0, <3>1
      <3> QED
        BY <3>1, <3>2, <3>3
    <2> QED
      BY <2>1, <2>2, <2>3, <2>4 DEF TriggerTypeOK
  <1>2. TargetsTypeOK
    BY <1>0 DEF Init, TargetsTypeOK, TargetStates, IdleTarget
  <1>3. StageInv /\ FrameInv
    BY <1>0 DEF Init, StageInv, FrameInv, Ascending, Running, Off, On, IdleTarget
  <1>4. TargetInv
    <2> SUFFICES ASSUME NEW i \in Targets PROVE targets[i].ts <= cur /\ Ordered(targets[i], cur)
      BY DEF TargetInv
    <2>1. targets[i] = IdleTarget /\ cur = 0
      BY DEF Init
    <2>2. All(IdleTarget) = <<>>
      BY DEF All, IdleTarget
    <2> QED
      BY <2>1, <2>2 DEF Ordered, Ascending, IdleTarget
  <1> QED
    BY <1>1, <1>2, <1>3, <1>4 DEF TriggerInv

-----------------------------------------------------------------------------
(* The targets                                                             *)

LEMMA AllFrames ==
  ASSUME NEW t \in TargetStates
  PROVE  All(t) \in Seq(Frames)
  <1>1. t.file \in Seq(Frames) /\ t.pre_record \in Seq(Frames)
    BY DEF TargetStates
  <1> QED
    BY <1>1, ConcatProperties DEF All

\* What is older than one frame is older than the next one.
LEMMA OrderedLater ==
  ASSUME NEW t \in TargetStates, NEW a \in Int, NEW b \in Int, a <= b, Ordered(t, a)
  PROVE  Ordered(t, b)
  <1>1. \A k \in 1 .. Len(All(t)) : All(t)[k] \in Int
    <2>1. All(t) \in Seq(Frames)
      BY AllFrames
    <2>2. \A k \in 1 .. Len(All(t)) : All(t)[k] \in Frames
      BY <2>1, ElementOfSeq
    <2> QED
      BY <2>2 DEF Frames
  <1> QED
    BY <1>1 DEF Ordered

LEMMA TargetsAlone ==
  ASSUME TriggerInv, cur' \in Int, cur <= cur', UNCHANGED targets
  PROVE  TargetsTypeOK' /\ TargetInv'
  <1>1. TargetsTypeOK'
    BY DEF TriggerInv, TargetsTypeOK
  <1>2. ASSUME NEW i \in Targets PROVE targets[i].ts <= cur' /\ Ordered(targets[i], cur')
    <2>1. targets[i] \in TargetStates /\ cur \in Int /\ targets[i].ts \in Int
      BY DEF TriggerInv, TargetsTypeOK, TriggerTypeOK, TargetStates
    <2>2. targets[i].ts <= cur /\ Ordered(targets[i], cur)
      BY DEF TriggerInv, TargetInv
    <2>3. Ordered(targets[i], cur')
      BY <2>1, <2>2, OrderedLater
    <2> QED
      BY <2>1, <2>2, <2>3
  <1> QED
    BY <1>1, <1>2 DEF TargetInv

LEMMA OneTarget ==
  ASSUME TriggerInv, NEW i \in Targets, NEW t \in TargetStates, SetTarget(i, t),
         UNCHANGED cur, t.ts <= cur, Ordered(t, cur)
  PROVE  /\ TargetsTypeOK' /\ TargetInv'
         /\ targets'[i] = t
         /\ \A j \in Targets \ {i} : targets'[j] = targets[j]
  <1>1. /\ targets \in [Targets -> TargetStates]
        /\ targets' = [targets EXCEPT ![i] = t]
    BY DEF TriggerInv, TargetsTypeOK, SetTarget
  <1>2. targets' \in [Targets -> TargetStates]
    BY <1>1
  <1>3. targets'[i] = t /\ \A j \in Targets \ {i} : targets'[j] = targets[j]
    BY <1>1
  <1>4. \A j \in Targets : targets[j].ts <= cur /\ Ordered(targets[j], cur)
    BY DEF TriggerInv, TargetInv
  <1> QED
    BY <1>2, <1>3, <1>4 DEF TargetsTypeOK, TargetInv

\* A target goes on in its loop, or what it does is no concern of its frames.
LEMMA SameFrames ==
  ASSUME NEW t \in TargetStates, NEW u \in TargetStates, NEW last, Ordered(t, last),
         u.file = t.file, u.pre_record = t.pre_record, u.handed = t.handed, u.ts = t.ts,
         u.at \in {"off", "ended"} => t.at \in {"off", "ended"}
  PROVE  Ordered(u, last)
  BY DEF Ordered, All

\* The thread of a target keeps the order of what is recorded, whatever the
\* trigger does meanwhile.
LEMMA TargetStepKeeps ==
  ASSUME TriggerInv, NEW i \in Targets, TargetStep(i)
  PROVE  /\ TargetsTypeOK' /\ TargetInv'
         /\ \A j \in Targets \ {i} : targets'[j] = targets[j]
         /\ On(targets[i]) => On(targets'[i])
         /\ Closing(targets[i]) => Closing(targets'[i])
         /\ ~Off(targets[i])
  <1> DEFINE t == targets[i]
  <1>0. /\ t \in TargetStates /\ t.ts <= cur /\ Ordered(t, cur)
        /\ cur \in Int /\ cur \in 0 .. MaxFrame /\ cur' = cur
    BY DEF TriggerInv, TriggerTypeOK, TargetsTypeOK, TargetInv, TargetStep
  <1>1. CASE TargetLoop(i)
    <2> DEFINE u == [t EXCEPT !.at = IF t.stop THEN "flush" ELSE "get"]
    <2>1. u \in TargetStates /\ SetTarget(i, u) /\ t.at = "loop"
      BY <1>0, <1>1 DEF TargetLoop, TargetStates
    <2>2. Ordered(u, cur) /\ u.ts <= cur
      BY <2>1, <1>0, SameFrames DEF TargetStates
    <2>3. /\ TargetsTypeOK' /\ TargetInv' /\ targets'[i] = u
          /\ \A j \in Targets \ {i} : targets'[j] = targets[j]
      BY <1>0, <2>1, <2>2, OneTarget
    <2> QED
      BY <2>1, <2>3, <1>0 DEF On, Closing, Off, TargetStates
  <1>2. CASE TargetNoFrame(i)
    <2> DEFINE u == [t EXCEPT !.at = "loop"]
    <2>1. u \in TargetStates /\ SetTarget(i, u) /\ t.at = "get"
      BY <1>0, <1>2 DEF TargetNoFrame, TargetStates
    <2>2. Ordered(u, cur) /\ u.ts <= cur
      BY <2>1, <1>0, SameFrames DEF TargetStates
    <2>3. /\ TargetsTypeOK' /\ TargetInv' /\ targets'[i] = u
          /\ \A j \in Targets \ {i} : targets'[j] = targets[j]
      BY <1>0, <2>1, <2>2, OneTarget
    <2> QED
      BY <2>1, <2>3, <1>0 DEF On, Closing, Off, TargetStates
  <1>3. CASE TargetFrame(i)
    <2> DEFINE q == Append(t.pre_record, cur)
               u == [t EXCEPT !.at = "loop", !.ts = cur, !.pre_record = Tail(q),
                              !.file = Append(t.file, Head(q))]
    <2>0. /\ SetTarget(i, u) /\ t.at = "get" /\ cur > t.ts
          /\ t.file \in Seq(Frames) /\ t.pre_record \in Seq(Frames) /\ t.handed \in Seq(Frames)
          /\ t.ts \in Nat
      <3>1. SetTarget(i, u) /\ t.at = "get" /\ cur > t.ts
        BY <1>3, Zenon DEF TargetFrame
      <3> HIDE DEF u
      <3> QED
        BY <1>0, <3>1 DEF TargetStates
    <2>1. cur \in Frames
      <3> HIDE DEF t, u, q
      <3>1. cur \in 0 .. MaxFrame /\ MaxFrame \in Nat
        BY <1>0, TriggerAssumption
      <3>2. cur > t.ts /\ t.ts \in Nat
        BY <2>0
      <3> QED
        BY <3>1, <3>2, SMTT(30) DEF Frames
    <2>2. /\ Tail(q) \in Seq(Frames)
          /\ Append(t.file, Head(q)) \in Seq(Frames)
          /\ Append(t.file, Head(q)) \o Tail(q) = Append(All(t), cur)
      BY <2>0, <2>1, QueuedFrame DEF All
    <2> HIDE DEF q
    <2>3. u \in TargetStates
      BY <1>0, <2>0, <2>2 DEF TargetStates
    <2>4. /\ u.ts = cur /\ u.at = "loop" /\ u.handed = t.handed
          /\ u.users = t.users /\ u.stop = t.stop
          /\ All(u) = Append(All(t), cur)
      BY <1>0, <2>2 DEF TargetStates, All
    <2> DEFINE a == All(t)
               b == All(u)
    <2>5. a \in Seq(Frames) /\ Len(a) \in Nat
      BY <1>0, AllFrames
    <2>6. /\ Len(b) = Len(a) + 1 /\ b[Len(a) + 1] = cur
          /\ \A k \in 1 .. Len(a) : b[k] = a[k]
      BY <2>1, <2>4, <2>5, AppendProperties
    <2>7. /\ Ascending(a) /\ \A k \in 1 .. Len(a) : a[k] <= t.ts \/ a[k] < cur
          /\ Len(t.handed) <= Len(a) /\ \A k \in 1 .. Len(t.handed) : a[k] = t.handed[k]
      BY <1>0 DEF Ordered
    <2>8. \A k \in 1 .. Len(a) : a[k] \in Int /\ a[k] < cur
      <3>1. \A k \in 1 .. Len(a) : a[k] \in Frames
        BY <2>5, ElementOfSeq
      <3> QED
        BY <3>1, <2>7, <2>0, <1>0 DEF Frames
    <2>9. Ascending(b)
      BY <2>1, <2>4, <2>5, <2>7, <2>8, AppendAscending
    <2> HIDE DEF a, b
    <2>10. \A k \in 1 .. Len(b) : b[k] <= cur
      BY <2>5, <2>6, <2>8, <1>0
    <2>11. Len(t.handed) \in Nat
      BY <2>0, LenProperties
    <2>12. Len(t.handed) <= Len(b) /\ \A k \in 1 .. Len(t.handed) : b[k] = t.handed[k]
      BY <2>5, <2>6, <2>7, <2>11
    <2> HIDE DEF u
    <2>13. Ordered(u, cur) /\ u.ts <= cur
      BY <2>4, <2>9, <2>10, <2>12, <1>0 DEF Ordered, b
    <2>14. /\ TargetsTypeOK' /\ TargetInv' /\ targets'[i] = u
           /\ \A j \in Targets \ {i} : targets'[j] = targets[j]
      BY <1>0, <2>0, <2>3, <2>13, OneTarget
    <2> QED
      BY <2>0, <2>4, <2>14 DEF On, Closing, Off
  <1>4. CASE TargetFlush(i)
    <2> DEFINE u == [t EXCEPT !.at = "ended", !.file = t.file \o t.pre_record,
                              !.pre_record = <<>>]
    <2>0. /\ SetTarget(i, u) /\ t.at = "flush"
          /\ t.file \in Seq(Frames) /\ t.pre_record \in Seq(Frames)
          /\ t.file \o t.pre_record \in Seq(Frames)
      BY <1>0, <1>4, ConcatProperties DEF TargetFlush, TargetStates
    <2>1. <<>> \in Seq(Frames)
      OBVIOUS
    <2>2. u \in TargetStates
      BY <1>0, <2>0, <2>1 DEF TargetStates
    <2>3. /\ u.ts = t.ts /\ u.at = "ended" /\ u.handed = t.handed /\ u.pre_record = <<>>
          /\ u.users = t.users /\ u.stop = t.stop /\ u.file = t.file \o t.pre_record
      BY <1>0 DEF TargetStates
    <2> HIDE DEF u
    <2>4. All(u) = All(t)
      BY <2>0, <2>3, ConcatEmptySeq DEF All
    <2>5. Ordered(u, cur) /\ u.ts <= cur
      BY <2>3, <2>4, <1>0 DEF Ordered
    <2>6. /\ TargetsTypeOK' /\ TargetInv' /\ targets'[i] = u
          /\ \A j \in Targets \ {i} : targets'[j] = targets[j]
      BY <1>0, <2>0, <2>2, <2>5, OneTarget
    <2> QED
      BY <2>0, <2>3, <2>6 DEF On, Closing, Off
  <1> QED
    BY <1>1, <1>2, <1>3, <1>4 DEF TargetStep

-----------------------------------------------------------------------------
(* The steps that leave targets and events alone: those of the             *)
(* surroundings, and most of the trigger and of its destruction.           *)

Quiet ==
    \/ Surroundings
    \/ WarmUpLoop \/ WarmUpFrame \/ Loop \/ GetFrame \/ Analyse \/ Notify
    \/ TargetsStopped \/ Keep \/ Exit \/ Destroy \/ Destroyed
    \/ UNCHANGED vars

LEMMA QuietIsQuiet == Quiet => UNCHANGED <<events, event_nr, targets>>
  BY DEF Quiet, Surroundings, Camera, AudioNotice, Configure, Terminate, WarmUpLoop,
         WarmUpFrame, Loop, GetFrame, Analyse, Notify, TargetsStopped, Keep, Exit,
         Destroy, Destroyed, vars, recorder

LEMMA QuietTypes ==
  ASSUME TriggerInv, Quiet
  PROVE  TriggerTypeOK'
  <1> USE DEF TriggerInv
  <1>0. /\ NTargets \in Nat /\ MaxFrame \in Nat /\ WarmUp \in Nat
        /\ parameters \in [pre : Nat, frames : Nat, duration : Nat, mute : Nat]
    BY TriggerAssumption DEF TriggerTypeOK
  <1> USE <1>0 DEF TriggerTypeOK, Goto, counters, recorder
  <1>1. CASE Camera
    BY <1>1 DEF Camera
  <1>2. CASE AudioNotice
    BY <1>2 DEF AudioNotice
  <1>3. CASE Configure
    BY <1>3 DEF Configure
  <1>4. CASE Terminate
    BY <1>4 DEF Terminate
  <1>5. CASE WarmUpLoop
    BY <1>5 DEF WarmUpLoop
  <1>6. CASE WarmUpFrame
    <2>1. warm' \in [first : BOOLEAN, i : 0 .. WarmUp]
      BY <1>6 DEF WarmUpFrame
    <2> QED
      BY <1>6, <2>1 DEF WarmUpFrame
  <1>7. CASE Loop
    BY <1>7 DEF Loop
  <1>8. CASE GetFrame
    BY <1>8 DEF GetFrame
  <1>9. CASE Analyse
    <2>1. cv_event_notified' \in [Listeners -> BOOLEAN]
      BY <1>9, Zenon DEF Analyse
    <2>2. at' \in {"keep", "notify", "end"}
      BY <1>9 DEF Analyse
    <2>3. count_frames_changed' \in Nat /\ stopping' \in Nat /\ mute' \in Nat
      <3> HIDE DEF TriggerInv
      <3>1. /\ count_frames_changed \in Nat /\ stopping \in Nat /\ mute \in Nat
            /\ parameters.mute \in Nat
        BY <1>0 DEF TriggerInv, TriggerTypeOK
      <3> HIDE DEF TriggerTypeOK
      <3> QED
        BY <1>9, <3>1 DEF Analyse
    <2>4. UNCHANGED <<cur, parameters, local_stop_flag, warm, after, frame,
                      motion_triggered, prerecord, nth>>
      BY <1>9 DEF Analyse
    <2> QED
      BY <2>1, <2>2, <2>3, <2>4
  <1>10. CASE Notify
    BY <1>10 DEF Notify
  <1>11. CASE TargetsStopped
    BY <1>11 DEF TargetsStopped
  <1>12. CASE Keep
    <2>1. prerecord' \in Seq(Frames)
      <3>1. frame \in Frames /\ parameters.pre \in Nat
        BY <1>12 DEF Keep, FrameInv, Frames
      <3> QED
        BY <1>12, <3>1, AppendProperties, HeadTailProperties DEF Keep
    <2> QED
      BY <1>12, <2>1 DEF Keep
  <1>13. CASE Exit
    BY <1>13 DEF Exit
  <1>14. CASE Destroy
    BY <1>14 DEF Destroy
  <1>15. CASE Destroyed
    BY <1>15 DEF Destroyed
  <1>16. CASE UNCHANGED vars
    BY <1>16 DEF vars
  <1> QED
    BY <1>1, <1>2, <1>3, <1>4, <1>5, <1>6, <1>7, <1>8, <1>9, <1>10, <1>11, <1>12, <1>13, <1>14, <1>15, <1>16 DEF Quiet, Surroundings

LEMMA QuietFrames ==
  ASSUME TriggerInv, Quiet
  PROVE  FrameInv' /\ cur' \in Int /\ cur <= cur'
  <1> USE DEF TriggerInv
  <1>0. /\ cur \in Nat /\ after \in Nat /\ frame \in Nat /\ prerecord \in Seq(Frames)
        /\ parameters.pre \in Nat
        /\ \A k \in 1 .. Len(prerecord) : prerecord[k] \in Int
    <2>1. prerecord \in Seq(Frames)
      BY DEF TriggerTypeOK
    <2>2. \A k \in 1 .. Len(prerecord) : prerecord[k] \in Frames
      BY <2>1, ElementOfSeq
    <2>3. \A k \in 1 .. Len(prerecord) : prerecord[k] \in Int
      BY <2>2 DEF Frames
    <2>4. parameters.pre \in Nat
      BY TriggerAssumption DEF TriggerTypeOK
    <2>5. cur \in Nat /\ after \in Nat /\ frame \in Nat
      BY TriggerAssumption DEF TriggerTypeOK
    <2> QED
      BY <2>1, <2>3, <2>4, <2>5
  <1> USE <1>0 DEF FrameInv, Goto, counters, recorder
  <1>1. CASE Camera
    BY <1>1 DEF Camera
  <1>2. CASE AudioNotice
    BY <1>2 DEF AudioNotice
  <1>3. CASE Configure
    BY <1>3 DEF Configure
  <1>4. CASE Terminate
    BY <1>4 DEF Terminate
  <1>5. CASE WarmUpLoop
    BY <1>5 DEF WarmUpLoop
  <1>6. CASE WarmUpFrame
    BY <1>6 DEF WarmUpFrame
  <1>7. CASE Loop
    BY <1>7 DEF Loop
  <1>8. CASE GetFrame
    BY <1>8 DEF GetFrame
  <1>9. CASE Analyse
    BY <1>9 DEF Analyse
  <1>10. CASE Notify
    BY <1>10 DEF Notify
  <1>11. CASE TargetsStopped
    BY <1>11 DEF TargetsStopped
  <1>12. CASE Keep
    <2> DEFINE kept == IF Len(prerecord) >= parameters.pre THEN Tail(prerecord) ELSE prerecord
    <2>1. CASE parameters.pre = 0
      BY <1>12, <2>1 DEF Keep
    <2>2. CASE parameters.pre # 0
      <3>1. frame \in Frames /\ \A k \in 1 .. Len(prerecord) : prerecord[k] < frame
        BY <1>12 DEF Keep, Frames, TriggerTypeOK
      <3>2. /\ kept \in Seq(Frames) /\ Ascending(kept)
            /\ \A k \in 1 .. Len(kept) : kept[k] < frame
        <4>1. CASE Len(prerecord) >= parameters.pre
          <5>1. prerecord # <<>>
            BY <2>2, <4>1
          <5> QED
            BY <3>1, <4>1, <5>1, TailAscending
        <4>2. CASE ~(Len(prerecord) >= parameters.pre)
          BY <3>1, <4>2
        <4> QED
          BY <4>1, <4>2
      <3>3. prerecord' = Append(kept, frame)
        BY <1>12, <2>2 DEF Keep
      <3> HIDE DEF kept
      <3>4. Ascending(prerecord')
        BY <3>1, <3>2, <3>3, AppendAscending
      <3>5. \A k \in 1 .. Len(prerecord') : prerecord'[k] <= frame
        <4>1. /\ Len(prerecord') = Len(kept) + 1 /\ prerecord'[Len(kept) + 1] = frame
              /\ \A k \in 1 .. Len(kept) : prerecord'[k] = kept[k]
          BY <3>1, <3>2, <3>3, AppendProperties
        <4>2. Len(kept) \in Nat /\ \A k \in 1 .. Len(kept) : kept[k] \in Frames
          BY <3>2, ElementOfSeq, LenProperties
        <4>3. \A k \in 1 .. Len(kept) : kept[k] < frame /\ kept[k] \in Nat
          BY <3>2, <4>2 DEF Frames
        <4>4. frame \in Nat /\ Len(kept) \in Nat
          BY <3>1, <4>2 DEF Frames
        <4> HIDE DEF TriggerInv, Quiet
        <4>5. ASSUME NEW k \in 1 .. Len(kept) + 1 PROVE prerecord'[k] <= frame
          <5>1. CASE k = Len(kept) + 1
            BY <4>1, <4>4, <5>1
          <5>2. CASE k \in 1 .. Len(kept)
            BY <4>1, <4>3, <4>4, <5>2
          <5> QED
            BY <4>4, <4>5, <5>1, <5>2
        <4> QED
          BY <4>1, <4>5
      <3> QED
        BY <1>12, <3>4, <3>5 DEF Keep
    <2> QED
      BY <2>1, <2>2
  <1>13. CASE Exit
    <2>1. prerecord' = <<>>
      BY <1>13 DEF Exit
    <2>2. Ascending(prerecord') /\ Len(prerecord') = 0
      BY <2>1 DEF Ascending
    <2> QED
      BY <1>13, <2>2 DEF Exit
  <1>14. CASE Destroy
    BY <1>14 DEF Destroy
  <1>15. CASE Destroyed
    BY <1>15 DEF Destroyed
  <1>16. CASE UNCHANGED vars
    BY <1>16 DEF vars
  <1> QED
    BY <1>1, <1>2, <1>3, <1>4, <1>5, <1>6, <1>7, <1>8, <1>9, <1>10, <1>11, <1>12, <1>13, <1>14, <1>15, <1>16 DEF Quiet, Surroundings

LEMMA QuietStage ==
  ASSUME TriggerInv, Quiet
  PROVE  StageInv'
  <1> USE DEF TriggerInv
  <1>0. UNCHANGED <<events, event_nr, targets>> /\ nth \in 1 .. NTargets + 1
    BY QuietIsQuiet DEF TriggerTypeOK
  <1> USE <1>0 DEF StageInv, Goto, counters, recorder, Running
  <1>1. CASE Camera
    BY <1>1 DEF Camera
  <1>2. CASE AudioNotice
    BY <1>2 DEF AudioNotice
  <1>3. CASE Configure
    BY <1>3 DEF Configure
  <1>4. CASE Terminate
    BY <1>4 DEF Terminate
  <1>5. CASE WarmUpLoop
    BY <1>5 DEF WarmUpLoop
  <1>6. CASE WarmUpFrame
    BY <1>6 DEF WarmUpFrame
  <1>7. CASE Loop
    BY <1>7 DEF Loop
  <1>8. CASE GetFrame
    BY <1>8 DEF GetFrame
  <1>9. CASE Analyse
    BY <1>9 DEF Analyse
  <1>10. CASE Notify
    BY <1>10 DEF Notify
  <1>11. CASE TargetsStopped
    <2>1. \A i \in Targets : Off(targets[i])
      BY <1>11, TriggerAssumption DEF TargetsStopped, Targets
    <2> QED
      BY <1>11, <2>1 DEF TargetsStopped
  <1>12. CASE Keep
    BY <1>12 DEF Keep
  <1>13. CASE Exit
    BY <1>13 DEF Exit
  <1>14. CASE Destroy
    BY <1>14 DEF Destroy
  <1>15. CASE Destroyed
    BY <1>15 DEF Destroyed
  <1>16. CASE UNCHANGED vars
    BY <1>16 DEF vars
  <1> QED
    BY <1>1, <1>2, <1>3, <1>4, <1>5, <1>6, <1>7, <1>8, <1>9, <1>10, <1>11, <1>12, <1>13, <1>14, <1>15, <1>16 DEF Quiet, Surroundings

LEMMA QuietKeeps == TriggerInv /\ Quiet => TriggerInv'
  <1> SUFFICES ASSUME TriggerInv, Quiet PROVE TriggerInv'
    OBVIOUS
  <1>1. TriggerTypeOK' /\ StageInv' /\ FrameInv'
    BY QuietTypes, QuietStage, QuietFrames
  <1>2. EventTypeOK'
    BY QuietIsQuiet DEF TriggerInv, EventTypeOK
  <1>3. TargetsTypeOK' /\ TargetInv'
    BY QuietIsQuiet, QuietFrames, TargetsAlone
  <1> QED
    BY <1>1, <1>2, <1>3 DEF TriggerInv

-----------------------------------------------------------------------------
(* The steps that start and stop targets                                   *)

\* A target records on while the trigger is at work.
LEMMA TargetStepInv ==
  ASSUME TriggerInv, NEW i \in Targets, TargetStep(i)
  PROVE  TriggerInv'
  <1>1. UNCHANGED <<cur, parameters, at, local_stop_flag, warm, after, frame,
                    count_frames_changed, stopping, mute, motion_triggered, prerecord,
                    cv_event_notified, events, event_nr, nth>>
    BY DEF TargetStep, counters
  <1>2. TriggerTypeOK' /\ EventTypeOK' /\ FrameInv'
    BY <1>1 DEF TriggerInv, TriggerTypeOK, EventTypeOK, FrameInv
  <1>3. /\ TargetsTypeOK' /\ TargetInv'
        /\ \A j \in Targets \ {i} : targets'[j] = targets[j]
        /\ On(targets[i]) => On(targets'[i])
        /\ Closing(targets[i]) => Closing(targets'[i])
        /\ ~Off(targets[i])
    BY TargetStepKeeps
  <1>4. \A j \in Targets : /\ On(targets[j]) => On(targets'[j])
                           /\ Closing(targets[j]) => Closing(targets'[j])
                           /\ Off(targets[j]) => Off(targets'[j])
    BY <1>3, Zenon
  <1>5. StageInv
    BY DEF TriggerInv
  <1> HIDE DEF On, Off, Closing
  <1>6. StageInv'
    BY <1>1, <1>4, <1>5 DEF StageInv
  <1> QED
    BY <1>2, <1>3, <1>6 DEF TriggerInv

\* A started target has the frames of before the motion, and no others.
LEMMA StartedTarget ==
  ASSUME NEW t \in TargetStates, Off(t), NEW s \in Seq(Frames), Ascending(s),
         NEW last \in Nat, \A k \in 1 .. Len(s) : s[k] < last
  PROVE  /\ Started(t, s) \in TargetStates
         /\ On(Started(t, s))
         /\ Started(t, s).ts = 0
         /\ Ordered(Started(t, s), last)
  <1> DEFINE u == Started(t, s)
  <1>1. <<>> \in Seq(Frames) /\ 0 \in 0 .. MaxFrame
    BY TriggerAssumption
  <1>2. u = [t EXCEPT !.pre_record = s, !.handed = s, !.stop = FALSE, !.users = 1,
                      !.at = "loop", !.ts = 0, !.file = <<>>]
    BY DEF Started, Off, TargetStates
  <1>3. /\ u \in TargetStates
        /\ u.pre_record = s /\ u.handed = s /\ u.stop = FALSE /\ u.users = 1
        /\ u.at = "loop" /\ u.ts = 0 /\ u.file = <<>>
    <2> HIDE DEF u
    <2>1. t \in [at : {"off", "loop", "get", "flush", "ended"},
                 users : Nat, stop : BOOLEAN, ts : 0 .. MaxFrame,
                 pre_record : Seq(Frames), file : Seq(Frames), handed : Seq(Frames)]
      BY DEF TargetStates
    <2>2. u \in TargetStates
      BY <1>1, <1>2, <2>1 DEF TargetStates
    <2>3. /\ u.pre_record = s /\ u.handed = s /\ u.stop = FALSE /\ u.users = 1
          /\ u.at = "loop" /\ u.ts = 0 /\ u.file = <<>>
      BY <1>2, <2>1
    <2> QED
      BY <2>2, <2>3
  <1> HIDE DEF u
  <1>4. All(u) = s
    BY <1>3, ConcatEmptySeq DEF All
  <1>5. Len(s) \in Nat
    BY LenProperties
  <1>6. Ordered(u, last) /\ On(u)
    BY <1>3, <1>4, <1>5 DEF Ordered, On
  <1> QED
    BY <1>3, <1>6 DEF u

LEMMA BeginInv ==
  ASSUME TriggerInv, Begin
  PROVE  TriggerInv'
  <1> USE DEF TriggerInv
  <1>1. /\ at = "begin" /\ at' = "keep"
        /\ UNCHANGED <<cur, parameters, local_stop_flag, warm, after, frame,
                       count_frames_changed, stopping, mute, cv_event_notified, nth>>
    BY DEF Begin, BeginWith, Goto, counters
  <1>2. CASE motion_triggered
    <2>1. UNCHANGED <<motion_triggered, events, event_nr, targets, prerecord>>
      BY <1>2 DEF Begin, BeginWith
    <2>2. TriggerTypeOK' /\ EventTypeOK'
      BY <1>1, <2>1 DEF TriggerTypeOK, EventTypeOK
    <2>3. StageInv' /\ FrameInv'
      BY <1>1, <2>1 DEF StageInv, FrameInv, Running
    <2>4. cur' \in Int /\ cur <= cur'
      BY <1>1 DEF TriggerTypeOK
    <2>5. TargetsTypeOK' /\ TargetInv'
      BY <2>1, <2>4, TargetsAlone
    <2> QED
      BY <2>2, <2>3, <2>5
  <1>3. CASE ~motion_triggered
    <2>1. /\ motion_triggered' = TRUE /\ prerecord' = <<>>
          /\ event_nr' = events.last + 1
          /\ events' = [last |-> event_nr', open |-> events.open \cup {event_nr'}]
          /\ targets' = [i \in Targets |-> Started(targets[i], IF i = 1 THEN prerecord ELSE <<>>)]
      BY <1>3 DEF Begin, BeginWith
    <2>2. events.open = {} /\ \A i \in Targets : Off(targets[i])
      BY <1>1, <1>3 DEF StageInv, Running
    <2>3. <<>> \in Seq(Frames) /\ Len(<<>>) = 0
      OBVIOUS
    <2>4. TriggerTypeOK'
      BY <1>1, <2>1, <2>3 DEF TriggerTypeOK
    <2>5. EventTypeOK'
      <3>1. event_nr' \in Nat /\ event_nr' >= 1
        BY <2>1 DEF EventTypeOK
      <3>2. events' = [last |-> event_nr', open |-> {event_nr'}]
        BY <2>1, <2>2
      <3>3. events'.last = event_nr' /\ events'.open = {event_nr'}
        BY <3>2
      <3> QED
        BY <3>1, <3>2, <3>3 DEF EventTypeOK
    <2>6. FrameInv'
      BY <1>1, <2>1, <2>3 DEF FrameInv, Ascending
    <2>7. ASSUME NEW i \in Targets
          PROVE  /\ targets'[i] \in TargetStates /\ On(targets'[i])
                 /\ targets'[i].ts <= cur /\ Ordered(targets'[i], cur)
      <3> DEFINE s == IF i = 1 THEN prerecord ELSE <<>>
      <3>1. prerecord \in Seq(Frames) /\ cur \in Nat /\ frame \in Nat
        BY DEF TriggerTypeOK
      <3>2. \A k \in 1 .. Len(prerecord) : prerecord[k] \in Frames
        BY <3>1, ElementOfSeq
      <3>3. \A k \in 1 .. Len(prerecord) : prerecord[k] < cur
        BY <1>1, <3>1, <3>2 DEF FrameInv, Frames
      <3>4. s \in Seq(Frames) /\ Ascending(s) /\ \A k \in 1 .. Len(s) : s[k] < cur
        BY <2>3, <3>1, <3>3 DEF FrameInv, Ascending
      <3>5. targets[i] \in TargetStates /\ Off(targets[i])
        BY <2>2 DEF TargetsTypeOK
      <3>6. targets'[i] = Started(targets[i], s)
        BY <2>1
      <3> DEFINE u == Started(targets[i], s)
      <3> HIDE DEF s
      <3>7. u \in TargetStates /\ On(u) /\ u.ts = 0 /\ Ordered(u, cur)
        BY <3>1, <3>4, <3>5, StartedTarget
      <3> HIDE DEF u
      <3>8. targets'[i] = u
        BY <3>6 DEF u
      <3> QED
        BY <3>1, <3>7, <3>8
    <2>8. TargetsTypeOK' /\ TargetInv'
      BY <1>1, <2>1, <2>7 DEF TargetsTypeOK, TargetInv
    <2>9. StageInv'
      <3>1. events'.open = {event_nr'}
        BY <2>1, <2>2
      <3> QED
        BY <1>1, <2>1, <2>7, <3>1 DEF StageInv
    <2> QED
      BY <2>4, <2>5, <2>6, <2>8, <2>9
  <1> QED
    BY <1>2, <1>3

LEMMA EndEventInv ==
  ASSUME TriggerInv, EndEvent
  PROVE  TriggerInv'
  <1> USE DEF TriggerInv
  <1>1. /\ at = "end" /\ at' = "stop" /\ nth' = 1
        /\ events' = [events EXCEPT !.open = @ \ {event_nr}]
        /\ UNCHANGED <<cur, parameters, local_stop_flag, warm, after, frame,
                       count_frames_changed, stopping, mute, motion_triggered, prerecord,
                       cv_event_notified, event_nr, targets>>
    BY DEF EndEvent, Goto, counters
  <1>2. TriggerTypeOK'
    <2>1. 1 \in 1 .. NTargets + 1 /\ at' = "stop" /\ nth' = 1
      BY <1>1, TriggerAssumption
    <2> QED
      BY <1>1, <2>1 DEF TriggerTypeOK
  <1>3. events'.open = {} /\ events'.last = events.last /\ events' \in [last : Nat, open : SUBSET Nat]
    BY <1>1 DEF StageInv, Running, EventTypeOK
  <1>4. EventTypeOK'
    BY <1>1, <1>3 DEF EventTypeOK
  <1>5. FrameInv'
    BY <1>1 DEF FrameInv
  <1>6. cur' \in Int /\ cur <= cur'
    BY <1>1 DEF TriggerTypeOK
  <1>7. TargetsTypeOK' /\ TargetInv'
    BY <1>1, <1>6, TargetsAlone
  <1>8. \A i \in Targets : i >= 1 /\ On(targets[i])
    BY <1>1 DEF StageInv, Running, Targets
  <1>9. StageInv'
    BY <1>1, <1>3, <1>8 DEF StageInv, Running, Targets
  <1> QED
    BY <1>2, <1>4, <1>5, <1>7, <1>9

\* stop() of the next target, with an event that ended or at termination.
LEMMA StopTargetInv ==
  ASSUME TriggerInv,
         NEW from, NEW joining,
         <<from, joining>> \in {<<"stop", "join">>, <<"delete", "deljoin">>},
         StopTarget(from, joining)
  PROVE  TriggerInv'
  <1> USE DEF TriggerInv
  <1> DEFINE t == targets[nth]
  <1>1. /\ nth \in Targets /\ at = from
        /\ UNCHANGED <<cur, parameters, local_stop_flag, warm, after, frame,
                       count_frames_changed, stopping, mute, motion_triggered, prerecord,
                       cv_event_notified, events, event_nr>>
    BY DEF StopTarget, Goto, counters
  <1>2. t \in TargetStates /\ t.ts <= cur /\ Ordered(t, cur) /\ (On(t) \/ Off(t))
    BY <1>1 DEF TargetsTypeOK, TargetInv, StageInv
  <1>3. EventTypeOK' /\ FrameInv'
    <2>1. at' \in {from, joining}
      BY DEF StopTarget, Goto
    <2> QED
      BY <1>1, <2>1 DEF EventTypeOK, FrameInv
  <1>4. CASE Off(t)
    <2>1. at' = from /\ nth' = nth + 1 /\ UNCHANGED targets
      BY <1>4 DEF StopTarget, Goto, Off
    <2>2. TriggerTypeOK'
      BY <1>1, <2>1, TriggerAssumption DEF TriggerTypeOK, Targets
    <2>3. cur' \in Int /\ cur <= cur'
      BY <1>1 DEF TriggerTypeOK
    <2>4. TargetsTypeOK' /\ TargetInv'
      BY <2>1, <2>3, TargetsAlone
    <2>5. StageInv'
      BY <1>1, <1>4, <2>1, TriggerAssumption DEF StageInv, Running, Targets, On, Off
    <2> QED
      BY <1>3, <2>2, <2>4, <2>5
  <1>5. CASE On(t)
    <2> DEFINE u == [t EXCEPT !.users = 0, !.stop = TRUE]
    <2>1. at' = joining /\ SetTarget(nth, u) /\ UNCHANGED nth
      BY <1>5 DEF StopTarget, Goto, On
    <2>2. TriggerTypeOK'
      BY <1>1, <2>1 DEF TriggerTypeOK
    <2>3. u \in TargetStates /\ u.ts = t.ts /\ Closing(u)
      BY <1>2, <1>5 DEF TargetStates, On, Closing
    <2>4. Ordered(u, cur)
      BY <1>2, <2>3, SameFrames DEF TargetStates
    <2>5. /\ TargetsTypeOK' /\ TargetInv' /\ targets'[nth] = u
          /\ \A j \in Targets \ {nth} : targets'[j] = targets[j]
      BY <1>1, <1>2, <2>1, <2>3, <2>4, OneTarget
    <2> HIDE DEF u
    <2>6. StageInv'
      <3> HIDE DEF On, Off, Closing
      <3>0. nth' = nth /\ Targets \subseteq Int
        BY <2>1 DEF Targets
      <3>1. CASE from = "stop" /\ joining = "join"
        BY <1>1, <2>1, <2>3, <2>5, <3>0, <3>1 DEF StageInv, Running
      <3>2. CASE from = "delete" /\ joining = "deljoin"
        BY <1>1, <2>1, <2>3, <2>5, <3>0, <3>2 DEF StageInv, Running
      <3> QED
        BY <3>1, <3>2
    <2> QED
      BY <1>3, <2>2, <2>5, <2>6
  <1> QED
    BY <1>2, <1>4, <1>5

\* The target that was told to stop has ended.
LEMMA TargetJoinedInv ==
  ASSUME TriggerInv,
         NEW joining, NEW to,
         <<joining, to>> \in {<<"join", "stop">>, <<"deljoin", "delete">>},
         TargetJoined(joining, to)
  PROVE  TriggerInv'
  <1> USE DEF TriggerInv
  <1> DEFINE t == targets[nth]
             u == [t EXCEPT !.at = "off"]
  <1>1. /\ nth \in Targets /\ at = joining /\ at' = to /\ nth' = nth + 1
        /\ t.at = "ended" /\ SetTarget(nth, u)
        /\ UNCHANGED <<cur, parameters, local_stop_flag, warm, after, frame,
                       count_frames_changed, stopping, mute, motion_triggered, prerecord,
                       cv_event_notified, events, event_nr>>
    BY DEF TargetJoined, Goto, counters, StageInv
  <1>2. t \in TargetStates /\ t.ts <= cur /\ Ordered(t, cur) /\ Closing(t)
    BY <1>1 DEF TargetsTypeOK, TargetInv, StageInv, On, Off
  <1>3. EventTypeOK' /\ FrameInv'
    BY <1>1 DEF EventTypeOK, FrameInv
  <1>4. TriggerTypeOK'
    <2> HIDE DEF u
    <2>1. nth' \in 1 .. NTargets + 1 /\ to \in {"stop", "delete"}
      BY <1>1, TriggerAssumption DEF Targets
    <2> QED
      BY <1>1, <2>1 DEF TriggerTypeOK
  <1>5. u \in TargetStates /\ u.ts = t.ts /\ Off(u)
    BY <1>2 DEF TargetStates, Off, Closing
  <1>6. Ordered(u, cur)
    BY <1>1, <1>2, <1>5, SameFrames DEF TargetStates
  <1>7. /\ TargetsTypeOK' /\ TargetInv' /\ targets'[nth] = u
        /\ \A j \in Targets \ {nth} : targets'[j] = targets[j]
    BY <1>1, <1>2, <1>5, <1>6, OneTarget
  <1> HIDE DEF u
  <1>8. StageInv'
    BY <1>1, <1>5, <1>7, TriggerAssumption DEF StageInv, Running, Targets
  <1> QED
    BY <1>3, <1>4, <1>7, <1>8

-----------------------------------------------------------------------------
(* The theorems                                                            *)

LEMMA TriggerInvStep == TriggerInv /\ [Next]_vars => TriggerInv'
  <1> SUFFICES ASSUME TriggerInv, [Next]_vars PROVE TriggerInv'
    OBVIOUS
  <1>1. CASE Quiet
    BY <1>1, QuietKeeps
  <1>2. CASE Begin
    BY <1>2, BeginInv
  <1>3. CASE EndEvent
    BY <1>3, EndEventInv
  <1>4. CASE StopTarget("stop", "join") \/ StopTarget("delete", "deljoin")
    BY <1>4, StopTargetInv
  <1>5. CASE TargetJoined("join", "stop") \/ TargetJoined("deljoin", "delete")
    BY <1>5, TargetJoinedInv
  <1>6. CASE \E i \in Targets : TargetStep(i)
    BY <1>6, TargetStepInv
  <1> QED
    BY <1>1, <1>2, <1>3, <1>4, <1>5, <1>6, Zenon DEF Next, Trigger, Deletion, Quiet

\* Events, targets and frames stay together, whatever camera, trigger and
\* targets do meanwhile.
THEOREM TriggerInvHolds == Spec => []TriggerInv
  BY TriggerInvInit, TriggerInvStep, PTL DEF Spec

LEMMA TriggerInvRecords == TriggerInv => RecorderInv
  <1> SUFFICES ASSUME TriggerInv PROVE RecorderInv
    OBVIOUS
  <1> USE DEF TriggerInv
  <1>1. TypeOK
    BY DEF TriggerTypeOK, EventTypeOK, TargetsTypeOK, TargetStates, TypeOK, Frames
  <1>2. RecordingFollowsEvent
    BY DEF StageInv, Running, On, Off, RecordingFollowsEvent
  <1>3. RecordingInOrder
    <2> SUFFICES ASSUME NEW i \in Targets
                 PROVE  LET t == targets[i]
                            all == t.file \o t.pre_record
                        IN  /\ Ascending(all)
                            /\ Len(t.handed) <= Len(all) /\ SubSeq(all, 1, Len(t.handed)) = t.handed
                            /\ t.at \in {"off", "ended"} => t.pre_record = <<>>
      BY DEF RecordingInOrder
    <2> DEFINE t == targets[i]
               all == All(t)
               h == t.handed
               s == SubSeq(all, 1, Len(h))
    <2>1. /\ t \in TargetStates /\ Ordered(t, cur)
      BY DEF TargetsTypeOK, TargetInv
    <2>2. all \in Seq(Frames) /\ h \in Seq(Frames)
      BY <2>1, AllFrames DEF TargetStates
    <2>3. /\ Ascending(all) /\ Len(h) <= Len(all)
          /\ \A k \in 1 .. Len(h) : all[k] = h[k]
          /\ t.at \in {"off", "ended"} => t.pre_record = <<>>
      BY <2>1 DEF Ordered
    <2>4. Len(h) \in Nat /\ Len(all) \in Nat
      BY <2>2, LenProperties
    <2> HIDE DEF all, h
    <2>5. \A k \in 1 .. Len(h) : all[k] \in Frames
      BY <2>2, <2>3, <2>4, ElementOfSeq
    <2>6. /\ s \in Seq(Frames) /\ Len(s) = Len(h)
          /\ \A k \in 1 .. Len(h) : s[k] = all[k]
      <3>1. /\ s \in Seq(Frames)
            /\ Len(s) = IF 1 <= Len(h) THEN Len(h) - 1 + 1 ELSE 0
            /\ \A k \in 1 .. Len(h) - 1 + 1 : s[k] = all[1 + k - 1]
        BY <2>4, <2>5, SubSeqProperties
      <3> QED
        BY <2>4, <3>1
    <2> HIDE DEF s
    <2>7. s = h
      BY <2>2, <2>3, <2>6, SeqEqual
    <2> QED
      BY <2>3, <2>7 DEF s, all, h, All
  <1> QED
    BY <1>1, <1>2, <1>3 DEF RecorderInv

\* What is recorded holds the frames of before the motion first and then later
\* ones, in the order of the camera and without loss; the event is open exactly
\* while the targets record: for any number of targets and any parameters.
THEOREM RecorderHolds == Spec => []RecorderInv
  BY TriggerInvHolds, TriggerInvRecords, PTL

================================================================================
