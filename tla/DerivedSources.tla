---------------------------- MODULE DerivedSources ----------------------------
(***************************************************************************)
(* Sources that are made of another source: the same, some frames late     *)
(* (source_delay), or cut, turned and scaled (source_other).               *)
(* Source: source_delay.cpp, source_other.cpp.                             *)
(*                                                                         *)
(* The other source is FrameBuffer; here a call of its get_frame() gives a *)
(* picture, the failure image (whose time stamp is 0), or none.            *)
(***************************************************************************)
EXTENDS Integers, FiniteSets, Sequences

CONSTANTS
    DelayViewers,    \* the threads that call get_frame() of the delayed source
    DelayLengths,    \* values of n-frames in the configuration, also 0 and below
    MaxDelayFrame    \* bound: frames that are made; their number is their time

ASSUME DerivedAssumption ==
    /\ DelayLengths \subseteq Int
    /\ MaxDelayFrame \in Nat \ {0}

VARIABLES
    delay,    \* source_delay: its thread, its frames and those it has deleted
    late,     \* by viewer: its place in get_frame(), and what that gave last
    other     \* source_other: its thread and what it handed on

delayVars == <<delay, late>>
derivedVars == <<delayVars, other>>

\* gray: the frames that are failure images.  ended: the thread did end once.
DelayInit ==
    /\ \E n \in DelayLengths, filtered \in BOOLEAN :
          delay = [n |-> n, filtered |-> filtered, th |-> "off", stop |-> FALSE,
                   queue |-> <<>>, prev |-> 0, last |-> 0, made |-> 0, gray |-> {},
                   freed |-> {}, users |-> 0, ended |-> FALSE, fault |-> FALSE]
    /\ late = [v \in DelayViewers |-> [at |-> "out", of |-> 0, with |-> 0, pic |-> 0,
                                       label |-> 0]]

-----------------------------------------------------------------------------
(* source_delay: the thread.                                               *)

Ts(f) == IF f \in delay.gray THEN 0 ELSE f

DelayStart ==
    /\ delay.th = "off"
    /\ delay' = [delay EXCEPT !.th = "get", !.stop = FALSE, !.users = @ + 1]
    /\ UNCHANGED late

DelayStop ==
    /\ delay.th # "off" /\ delay' = [delay EXCEPT !.stop = TRUE]
    /\ UNCHANGED late

\* The call takes its time, and the flag is not looked at before the frame is kept.
DelayCall ==
    /\ delay.th = "get" /\ ~delay.stop
    /\ delay' = [delay EXCEPT !.th = "wait"]
    /\ UNCHANGED late
DelayNothing ==
    /\ delay.th = "wait" /\ delay' = [delay EXCEPT !.th = "get"]
    /\ UNCHANGED late

\* With the lock.  At most one frame is one too many; with a length of 0 the
\* first of none is asked for, which ends the program; below 0 none ever is.
MayWait == delay.n < 0 \/ Len(delay.queue) < delay.n
Reading == \E v \in DelayViewers : late[v].at = "copy"
Discard(f) == [delay EXCEPT !.freed = @ \cup ({f} \ {0}), !.fault = @ \/ f \in delay.freed]

Queued(d) ==
    \E gray \in BOOLEAN :
        delay' = [d EXCEPT !.th = "get", !.made = @ + 1, !.queue = Append(@, delay.made + 1),
                           !.gray = IF gray THEN @ \cup {delay.made + 1} ELSE @,
                           !.last = IF gray THEN 0 ELSE delay.made + 1]

\* Mutated form of DelayKeep: the frame before is replaced, then deleted.
DelayKeepFreesNew ==
    /\ delay.th = "wait" /\ ~Reading /\ delay.made < MaxDelayFrame
    /\ \/ MayWait /\ Queued(delay)
       \/ ~MayWait /\ delay.n # 0
          /\ Queued([Discard(Head(delay.queue)) EXCEPT !.prev = Head(delay.queue),
                                                      !.queue = Tail(@)])
       \/ delay.n = 0 /\ delay' = [delay EXCEPT !.th = "exit"]
    /\ UNCHANGED late
DelayKeep ==
    /\ delay.th = "wait" /\ ~Reading /\ delay.made < MaxDelayFrame
    /\ \/ MayWait /\ Queued(delay)
       \/ ~MayWait /\ delay.n # 0
          /\ Queued([Discard(delay.prev) EXCEPT !.prev = Head(delay.queue), !.queue = Tail(@)])
       \/ delay.n = 0 /\ delay' = [delay EXCEPT !.th = "exit"]
    /\ UNCHANGED late

\* Without the lock, and the deleted frames stay in the queue.
DelayEnd ==
    /\ delay.th = "get" /\ delay.stop
    /\ LET dead == ({delay.queue[i] : i \in DOMAIN delay.queue} \cup {delay.prev}) \ {0}
       IN delay' = [delay EXCEPT !.th = "off", !.freed = @ \cup dead, !.prev = 0, !.ended = TRUE,
                                 !.users = @ - 1, !.fault = @ \/ dead \cap delay.freed # {}]
    /\ UNCHANGED late

(* source_delay: a viewer in get_frame().                                  *)

\* There is no frame: the script for failures is run.
LateNothing(v) ==
    /\ late[v].at = "out" /\ delay.queue = <<>>
    /\ UNCHANGED delayVars

LateFrame(v) ==
    /\ late[v].at = "out" /\ delay.queue # <<>>
    /\ late' = [late EXCEPT ![v].at = "copy", ![v].of = Head(delay.queue),
                            ![v].with = IF delay.filtered THEN delay.prev ELSE 0]
    /\ UNCHANGED delay

Given(v) == [late EXCEPT ![v] = [@ EXCEPT !.at = "out", !.pic = late[v].of, !.label = delay.last]]

\* A plain copy gets its time stamp with the lock, a filtered one without.
LateCopy(v) ==
    /\ late[v].at = "copy"
    /\ delay' = [delay EXCEPT !.fault = @ \/ {late[v].of, late[v].with} \cap delay.freed # {}]
    /\ late' = IF delay.filtered THEN [late EXCEPT ![v].at = "label"]
               ELSE Given(v)
LateLabel(v) ==
    /\ late[v].at = "label"
    /\ late' = Given(v)
    /\ UNCHANGED delay

DelayNext ==
    \/ DelayStart \/ DelayStop \/ DelayCall \/ DelayNothing \/ DelayKeep \/ DelayEnd
    \/ \E v \in DelayViewers : LateNothing(v) \/ LateFrame(v) \/ LateCopy(v) \/ LateLabel(v)

-----------------------------------------------------------------------------
(* source_other.                                                           *)

\* now: the newest frame of the other source.  shows: it has an image for failures.
\* failed: there was a failure since the picture that was handed on last.
OtherInit ==
    \E shows \in BOOLEAN :
        other = [th |-> "off", stop |-> FALSE, paused |-> FALSE, shows |-> shows, users |-> 0,
                 now |-> 0, after |-> 0, got |-> 0, failed |-> FALSE, handed |-> <<>>]

OtherStart ==
    /\ other.th = "off"
    /\ other' = [other EXCEPT !.th = "get", !.stop = FALSE, !.users = @ + 1, !.after = 0,
                              !.failed = FALSE, !.handed = <<>>]
OtherStop == other.th # "off" /\ other' = [other EXCEPT !.stop = TRUE]
OtherPause == other' = [other EXCEPT !.paused = ~@]

\* A frame that is newer than the last one, or a failure; there it is a null
\* pointer when the other source has no image for it.  Nothing is done when
\* nobody watches: the loop just goes round.
OtherFails == IF other.shows THEN [other EXCEPT !.th = "hand", !.got = 0, !.after = 0,
                                                 !.failed = TRUE]
                             ELSE [other EXCEPT !.th = "crash"]
OtherGet ==
    /\ other.th = "get" /\ ~other.stop
    /\ other' \in {OtherFails}
          \cup {[other EXCEPT !.th = "hand", !.got = t, !.after = t] :
                   t \in {other.now} \cap (other.after + 1)..MaxDelayFrame}

\* Turned, cut or scaled, it is a frame of this source, unless that is paused.
OtherHand ==
    /\ other.th = "hand"
    /\ Len(other.handed) <= MaxDelayFrame
    /\ other' = IF other.paused THEN [other EXCEPT !.th = "get"]
                ELSE [other EXCEPT !.th = "get", !.failed = other.got = 0,
                         !.handed = Append(@, [ts |-> other.got, failed |-> other.failed])]

OtherEnd ==
    /\ other.th = "get" /\ other.stop
    /\ other' = [other EXCEPT !.th = "off", !.users = @ - 1]

OtherFrame == other.now < MaxDelayFrame /\ other' = [other EXCEPT !.now = @ + 1]

OtherNext ==
    \/ OtherStart \/ OtherStop \/ OtherPause \/ OtherGet \/ OtherHand \/ OtherEnd \/ OtherFrame

DerivedInit == DelayInit /\ OtherInit
DerivedNext ==
    \/ DelayNext /\ UNCHANGED other
    \/ OtherNext /\ UNCHANGED delayVars
DerivedSpec == DerivedInit /\ [][DerivedNext]_derivedVars

-----------------------------------------------------------------------------
(* Properties.                                                             *)

\* The last frames that were made, the one before these for the filters, and no
\* other frame in memory.  What a viewer gets is labelled with the time of a
\* frame that was made at most length - 1 frames later, if that is not a failure;
\* with filters it can be any later one.
DelayWhole ==
    /\ delay.queue = [i \in DOMAIN delay.queue |-> delay.made - Len(delay.queue) + i]
    /\ delay.n >= 0 => Len(delay.queue) <= delay.n
    /\ delay.prev = delay.made - Len(delay.queue)
    /\ delay.freed = 1..(delay.prev - 1)
    /\ \A v \in DelayViewers :
          late[v].label # 0 =>
             /\ late[v].label >= late[v].pic
             /\ ~delay.filtered /\ delay.n > 0 => late[v].label < late[v].pic + delay.n

\* As long as the thread has not ended, all of this holds and no deleted frame is
\* used; after that the queue is full of deleted ones, and nothing is promised.
\* The delayed source is used exactly while the thread runs.
DelayedSound ==
    /\ ~delay.ended => DelayWhole /\ ~delay.fault
    /\ delay.users = IF delay.th = "off" THEN 0 ELSE 1

\* A picture is handed on a second time only after a failure, and later ones come
\* later; the thread uses the other source while it runs, and only a source
\* without an image for failures brings it down.
OtherSound ==
    /\ \A i \in 2..Len(other.handed) :
          other.handed[i].failed \/ other.handed[i].ts > other.handed[i - 1].ts
    /\ other.users = IF other.th = "off" THEN 0 ELSE 1
    /\ other.th = "crash" => ~other.shows

DerivedSound == DelayedSound /\ OtherSound
=============================================================================
