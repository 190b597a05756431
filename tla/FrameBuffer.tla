----------------------------- MODULE FrameBuffer -----------------------------
(***************************************************************************)
(* The frame a source hands to its consumers.  One thread captures images  *)
(* and stores the last one (set_frame, set_scaled_frame, fake_frame); any  *)
(* number of consumers (streams, triggers, targets, views) ask for a frame *)
(* newer than a time stamp and wait for it with a timeout (get_frame,      *)
(* get_frame_to, wait_for_meta); a missing frame runs the exec-failure     *)
(* script and may be replaced by a failure image.  Source: source.cpp,     *)
(* exec.cpp (check_thread).                                                *)
(*                                                                         *)
(* The mutex of the frame is released only where the code waits or         *)
(* unlocks, so a critical section is one step, save for the replacement of *)
(* the frame, which consumers that already unlocked can see half done.     *)
(***************************************************************************)
EXTENDS Integers, FiniteSets

CONSTANTS
    Readers,       \* the consumer threads
    None,          \* null pointer
    CopyChoices,   \* may a consumer have to copy, for filters or controls?
    ExecFailure,   \* is an exec-failure script configured?
    ShowsFailure,  \* failure handling: "message", "simple" (TRUE) or "nothing" (FALSE)
    MaxTime,       \* the clock shows 1 .. MaxTime
    MaxImages      \* bound on the number of images captured

Times  == 0 .. MaxTime
Frames == [img : 1 .. MaxImages, ts : Times]

ASSUME FrameAssumption ==
    /\ None \notin Frames
    /\ CopyChoices \subseteq BOOLEAN
    /\ ExecFailure \in BOOLEAN /\ ShowsFailure \in BOOLEAN
    /\ MaxTime \in Nat /\ MaxImages \in Nat

VARIABLES
    now,           \* get_us(): CLOCK_REALTIME, which can be set back
    captured,      \* number of images captured
    vf,            \* the last frame: [img, ts], or None
    producer,      \* where the capturing thread is: [at, ts]
    at,            \* where each consumer is
    ask,           \* what each consumer asked for: [op, image, after]
    work,          \* the image and time stamp a consumer copied before it unlocked
    got,           \* what the last call of each consumer returned
    prev,          \* the time stamp each consumer remembers (prev_ts)
    exec_th,       \* exec_failure_th: None, or the state of the script
    crashed        \* the program was terminated by an uncaught exception

reading == <<at, ask, work, got, prev>>
script  == <<exec_th, crashed>>
vars    == <<now, captured, vf, producer, reading, script>>

\* What a call returns besides a stored frame: nullptr, or a failure image.
Nothing == [kind |-> "null",    img |-> 0, ts |-> 0]
Failure == [kind |-> "failure", img |-> 0, ts |-> 0]
Stored(img, ts) == [kind |-> "stored", img |-> img, ts |-> ts]

Init ==
    /\ now \in 1 .. MaxTime
    /\ captured = 0
    /\ vf = None
    /\ producer = [at |-> "capture", ts |-> 0]
    /\ at = [r \in Readers |-> "idle"]
    /\ ask = [r \in Readers |-> [op |-> "get_frame", image |-> FALSE, after |-> 0]]
    /\ work = [r \in Readers |-> None]
    /\ got = [r \in Readers |-> Nothing]
    /\ prev = [r \in Readers |-> 0]
    /\ exec_th = None
    /\ crashed = FALSE

\* The wall clock advances or is set, back as well as forward.
Tick ==
    /\ now' \in 1 .. MaxTime
    /\ UNCHANGED <<captured, vf, producer, reading, script>>

-----------------------------------------------------------------------------
(* The capturing thread.                                                   *)

\* cond.notify_all(): everybody who waits will contend for the lock again.
NotifyAll == at' = [r \in Readers |-> IF at[r] = "waiting" THEN "woken" ELSE at[r]]

Locked == producer.at \in {"replace", "replace_scaled"}

\* The time stamp is taken before the image is duplicated or scaled.
Capture ==
    /\ producer.at = "capture"
    /\ captured < MaxImages
    /\ captured' = captured + 1
    /\ producer' \in [at : {"delete", "delete_scaled"}, ts : {now}]
    /\ UNCHANGED <<now, vf, reading, script>>

\* lock; delete vf
DeleteFrame ==
    /\ \/ producer.at = "delete" /\ producer' = [producer EXCEPT !.at = "replace"]
       \/ producer.at = "delete_scaled" /\ producer' = [producer EXCEPT !.at = "replace_scaled"]
    /\ UNCHANGED <<now, captured, vf, reading, script>>

NewFrame == [img |-> captured, ts |-> producer.ts]

\* Mutated form of set_frame: it does not notify.
SetFrameSilently ==
    /\ producer.at = "replace"
    /\ vf' = NewFrame
    /\ producer' = [at |-> "capture", ts |-> 0]
    /\ UNCHANGED <<now, captured, reading, script>>

\* set_frame(): vf = new video_frame; notify; unlock
SetFrame ==
    /\ producer.at = "replace"
    /\ vf' = NewFrame
    /\ NotifyAll
    /\ producer' = [at |-> "capture", ts |-> 0]
    /\ UNCHANGED <<now, captured, ask, work, got, prev, script>>

\* set_scaled_frame(): vf = new video_frame; unlock
SetScaledFrame ==
    /\ producer.at = "replace_scaled"
    /\ vf' = NewFrame
    /\ producer' = [at |-> "notify", ts |-> 0]
    /\ UNCHANGED <<now, captured, reading, script>>

\* ... and notifies when it has unlocked.
ScaledNotify ==
    /\ producer.at = "notify"
    /\ NotifyAll
    /\ producer' = [at |-> "capture", ts |-> 0]
    /\ UNCHANGED <<now, captured, vf, ask, work, got, prev, script>>

\* fake_frame(): the picture did not change, but counts as new.
FakeFrame ==
    /\ producer.at = "capture"
    /\ vf' = IF vf = None THEN None ELSE [vf EXCEPT !.ts = now]
    /\ NotifyAll
    /\ UNCHANGED <<now, captured, producer, ask, work, got, prev, script>>

Produce == DeleteFrame \/ SetFrame \/ SetScaledFrame \/ ScaledNotify

-----------------------------------------------------------------------------
(* A consumer.                                                             *)

Goto(r, place) == at' = [at EXCEPT ![r] = place]

\* Callers wait for a frame newer than the last one they got, or than now;
\* "image" is set when handle_failure is and failures are shown at all.
Ask(r) ==
    /\ at[r] = "idle"
    /\ \/ ask' \in {[ask EXCEPT ![r] = [op |-> op, image |-> h, after |-> a]] :
                        op \in {"get_frame", "get_frame_to"}, h \in {FALSE, ShowsFailure}, a \in {prev[r], now}}
       \/ ask' = [ask EXCEPT ![r] = [op |-> "wait_for_meta", image |-> FALSE, after |-> 0]]
    /\ Goto(r, "test")
    /\ UNCHANGED <<now, captured, vf, producer, work, got, prev, script>>

\* The condition the waiting loops test, with the lock held.
Newer(r) == vf # None /\ vf.ts > ask[r].after

\* A call returns f; callers remember the time stamp of any frame, also of
\* a failure image, and keep the previous one when there is none.
Give(r, f) ==
    /\ Goto(r, "idle")
    /\ got' = [got EXCEPT ![r] = f]
    /\ prev' = [prev EXCEPT ![r] = IF f = Nothing THEN @ ELSE f.ts]

\* Mutated form of TakeFrame: the condition is not tested again after a wake-up.
TakeFrameUntested(r) ==
    /\ at[r] \in {"test", "woken"}
    /\ ~Locked
    /\ vf # None /\ (at[r] = "test" => Newer(r))
    /\ \/ FALSE \in CopyChoices /\ Give(r, Stored(vf.img, vf.ts)) /\ UNCHANGED work
       \/ /\ TRUE \in CopyChoices
          /\ work' = [work EXCEPT ![r] = vf]
          /\ Goto(r, "copied")
          /\ UNCHANGED <<got, prev>>
    /\ UNCHANGED <<now, captured, vf, producer, ask, script>>

\* There is a newer frame: it is duplicated under the lock; when filters or
\* controls apply, its pixels are copied and the lock is released.
TakeFrame(r) ==
    /\ at[r] \in {"test", "woken"}
    /\ ~Locked
    /\ Newer(r)
    /\ \/ /\ ask[r].op = "wait_for_meta"
          /\ Goto(r, "idle")
          /\ UNCHANGED <<work, got, prev>>
       \/ /\ ask[r].op # "wait_for_meta" /\ FALSE \in CopyChoices
          /\ Give(r, Stored(vf.img, vf.ts))
          /\ UNCHANGED work
       \/ /\ ask[r].op # "wait_for_meta" /\ TRUE \in CopyChoices
          /\ work' = [work EXCEPT ![r] = vf]
          /\ Goto(r, "copied")
          /\ UNCHANGED <<got, prev>>
    /\ UNCHANGED <<now, captured, vf, producer, ask, script>>

\* The filters have run without the lock; the time stamp is then read from
\* the frame vf points to by now: a deleted one, while it is being replaced.
ReturnCopy(r) ==
    /\ at[r] = "copied"
    /\ \E ts \in IF Locked THEN Times ELSE {vf.ts} : Give(r, Stored(work[r].img, ts))
    /\ work' = [work EXCEPT ![r] = None]
    /\ UNCHANGED <<now, captured, vf, producer, ask, script>>

\* No newer frame and time left: wait_for() releases the lock.
Wait(r) ==
    /\ at[r] \in {"test", "woken"}
    /\ ~Locked
    /\ ~Newer(r)
    /\ Goto(r, "waiting")
    /\ UNCHANGED <<now, captured, vf, producer, ask, work, got, prev, script>>

\* Condition variables wake up spuriously.
Spurious(r) ==
    /\ at[r] = "waiting"
    /\ Goto(r, "woken")
    /\ UNCHANGED <<now, captured, vf, producer, ask, work, got, prev, script>>

\* Mutated form of TimedOut: the wait itself has no time limit.
TimedOutAwake(r) ==
    /\ ~Locked
    /\ at[r] \in {"test", "woken"} /\ ~Newer(r)
    /\ IF ask[r].op = "get_frame"
       THEN Goto(r, "failed") /\ UNCHANGED <<got, prev>>
       ELSE Give(r, Nothing)
    /\ UNCHANGED <<now, captured, vf, producer, ask, work, script>>

\* The time is up: before a wait, or reported by wait_for(), which does not
\* look at the frame again, even when it was notified meanwhile.  The script
\* is run unless the source is being stopped.
TimedOut(r) ==
    /\ ~Locked
    /\ at[r] \in {"waiting", "woken"} \/ (at[r] = "test" /\ ~Newer(r))
    /\ IF ask[r].op = "get_frame"
       THEN /\ Goto(r, "failed") \/ (ExecFailure /\ Goto(r, "check"))
            /\ UNCHANGED <<got, prev>>
       ELSE Give(r, Nothing)
    /\ UNCHANGED <<now, captured, vf, producer, ask, work, script>>

\* check_thread(): a previous script is waited for.  No lock is held.
ExecCheck(r) ==
    /\ at[r] = "check"
    /\ Goto(r, IF exec_th = None THEN "spawn" ELSE "join")
    /\ UNCHANGED <<now, captured, vf, producer, ask, work, got, prev, script>>

\* Two consumers that join the same thread: one of them throws.
ExecJoin(r) ==
    /\ at[r] = "join"
    /\ exec_th # "running"
    /\ Goto(r, "spawn")
    /\ exec_th' = None
    /\ crashed' = \E q \in Readers \ {r} : at[q] = "join"
    /\ UNCHANGED <<now, captured, vf, producer, ask, work, got, prev>>

\* A handle another consumer has just stored is overwritten.
ExecSpawn(r) ==
    /\ at[r] = "spawn"
    /\ Goto(r, "failed")
    /\ exec_th' = "running"
    /\ UNCHANGED <<now, captured, vf, producer, ask, work, got, prev, crashed>>

\* The script ends by itself.
ScriptEnds ==
    /\ exec_th = "running"
    /\ exec_th' = "ended"
    /\ UNCHANGED <<now, captured, vf, producer, reading, crashed>>

\* get_failure_frame() (time stamp 0), or nullptr.
ReturnFailure(r) ==
    /\ at[r] = "failed"
    /\ ~Locked \/ ~ask[r].image
    /\ Give(r, IF ask[r].image THEN Failure ELSE Nothing)
    /\ UNCHANGED <<now, captured, vf, producer, ask, work, script>>

Read(r) ==
    \/ TakeFrame(r) \/ ReturnCopy(r) \/ Wait(r) \/ TimedOut(r)
    \/ ExecCheck(r) \/ ExecJoin(r) \/ ExecSpawn(r) \/ ReturnFailure(r)

-----------------------------------------------------------------------------

Running ==
    \/ Tick
    \/ Capture \/ FakeFrame \/ Produce
    \/ \E r \in Readers : Ask(r) \/ Spurious(r) \/ Read(r)
    \/ ScriptEnds

Next == \/ ~crashed /\ Running
        \/ crashed /\ UNCHANGED vars

Spec == Init /\ [][Next]_vars

\* The mutex is obtained again and again; a timeout expires, and so does one
\* that is started anew after every wake-up; the script ends.
Fairness ==
    /\ WF_vars(Produce)
    /\ WF_vars(ScriptEnds)
    /\ \A r \in Readers : SF_vars(Read(r)) /\ SF_vars(TimedOut(r))

FairSpec == Spec /\ Fairness

-----------------------------------------------------------------------------
(* Properties                                                              *)

ProducerPlaces == {"capture", "delete", "delete_scaled", "replace", "replace_scaled", "notify"}
ReaderPlaces   == {"idle", "test", "waiting", "woken", "copied",
                   "check", "join", "spawn", "failed"}
Requests == [op : {"get_frame", "get_frame_to", "wait_for_meta"}, image : BOOLEAN, after : Times]
Results  == [kind : {"null", "failure", "stored"}, img : 0 .. MaxImages, ts : Times]

\* Every variable keeps its type.
TypeOK ==
    /\ now \in 1 .. MaxTime
    /\ captured \in 0 .. MaxImages
    /\ vf \in Frames \cup {None}
    /\ producer \in [at : ProducerPlaces, ts : Times]
    /\ at \in [Readers -> ReaderPlaces]
    /\ ask \in [Readers -> Requests]
    /\ work \in [Readers -> Frames \cup {None}]
    /\ got \in [Readers -> Results]
    /\ prev \in [Readers -> Times]
    /\ exec_th \in {None, "running", "ended"}
    /\ crashed \in BOOLEAN

\* No consumer sleeps through a frame: while it waits there is no frame
\* newer than it asked for, except when set_scaled_frame() has stored one
\* and is about to notify, outside the lock.
NoLostWakeup ==
    \A r \in Readers : at[r] = "waiting" /\ Newer(r) => producer.at = "notify"

CopiedHasFrame == \A r \in Readers : at[r] = "copied" => vf # None /\ work[r] # None

StoredIsCaptured ==
    producer.at \in {"delete", "delete_scaled", "replace", "replace_scaled"} => captured > 0

\* The inductive invariant: a consumer that copied a frame has it, and there
\* still is a frame; an image is stored only after it was captured.
WakeupInv == TypeOK /\ NoLostWakeup /\ CopiedHasFrame /\ StoredIsCaptured

\* A consumer that passes the time stamp of its last frame is never shown an
\* older image than that, and the same image only when fake_frame() gave it
\* a new time stamp; also when the clock was set back, when it was woken
\* without reason, and when filters ran on a frame that was replaced.
FramesAdvance ==
    [][\A r \in Readers :
         LET returns == ask[r].op # "wait_for_meta" /\ at[r] # "idle" /\ at'[r] = "idle"
         IN  returns /\ got[r].kind = "stored" /\ got'[r].kind = "stored"
               /\ ask[r].after = got[r].ts
             => \/ got'[r].img > got[r].img
                \/ got'[r].img = got[r].img /\ (work[r] = None => got'[r].ts > got[r].ts)]_vars

\* Every call returns: within its timeout when no frame arrives, and when
\* the script of an earlier failure has ended.
CallsReturn == \A r \in Readers : at[r] # "idle" ~> at[r] = "idle" \/ crashed

=============================================================================
