----------------------------- MODULE FfmpegTarget ----------------------------
(***************************************************************************)
(* The target that encodes with ffmpeg.  Its loop is not that of the other *)
(* targets (StreamWriter): a file is a round of an outer loop, the time to *)
(* the next frame is computed by itself, and while it sleeps long it lets  *)
(* go of its source.                                                       *)
(* Source: target_ffmpeg.cpp, mysleep() of utils.cpp.                      *)
(*                                                                         *)
(* Encoding is left out; that it may fail is not.                          *)
(***************************************************************************)
EXTENDS Integers, Sequences, FiniteSets

CONSTANTS
    MaxFfFrame,    \* bound: frames of the camera
    MaxFfHanded,   \* bound: frames of before the motion
    MaxFfFiles     \* bound: files

ASSUME FfmpegAssumption == MaxFfFrame \in Nat /\ MaxFfHanded \in Nat /\ MaxFfFiles \in Nat

VARIABLES
    ff,       \* the target
    ff_env    \* the camera and the stop flag

ffVars == <<ff, ff_env>>

Intervals == {"none", "short", "long"}   \* no limit, below a second, above it

\* finish: the file is to be closed; asleep: "no", "short", "released" (the
\* source was let go) or "overslept" (until the stop); unflushed: frames were
\* waiting when the last file was closed.
FfInit ==
    \E i \in Intervals, m \in BOOLEAN, n \in 0 .. MaxFfHanded :
      /\ ff = [at |-> "off", interval |-> i, max_time |-> m, ts |-> 0, uses |-> 0,
               handed |-> [j \in 1 .. n |-> j], pre_record |-> [j \in 1 .. n |-> j],
               written |-> <<>>, files |-> 0, finish |-> FALSE, asleep |-> "no",
               unflushed |-> FALSE, failed |-> FALSE]
      /\ ff_env = [cur |-> n, stop |-> FALSE]

FfCamera ==
    /\ ff_env.cur < MaxFfFrame
    /\ ff_env' = [ff_env EXCEPT !.cur = @ + 1]
    /\ UNCHANGED ff

FfStop ==
    /\ ff_env' = [ff_env EXCEPT !.stop = TRUE]
    /\ UNCHANGED ff

\* s->start(); only frames of after this moment count.
FfStart ==
    /\ ff.at = "off"
    /\ ff' = [ff EXCEPT !.at = "first", !.uses = @ + 1, !.ts = ff_env.cur]
    /\ UNCHANGED ff_env

\* A first frame, for its size; it is not recorded.
FfFirst ==
    /\ ff.at = "first"
    /\ \/ ff_env.stop /\ ff' = [ff EXCEPT !.at = "file"]
       \/ /\ ~ff_env.stop /\ ff_env.cur > ff.ts
          /\ ff' = [ff EXCEPT !.ts = ff_env.cur, !.at = "file"]
    /\ UNCHANGED ff_env

\* A file is opened, and its header written; if that fails the thread ends.
FfOpen ==
    /\ ff.at = "file" /\ ~ff_env.stop /\ ff.files < MaxFfFiles
    /\ \/ ff' = [ff EXCEPT !.at = "frame", !.files = @ + 1, !.unflushed = FALSE]
       \/ ff' = [ff EXCEPT !.at = "end", !.failed = TRUE]
    /\ UNCHANGED ff_env

\* Whether this is the last frame is decided before it is taken.
FfAsk ==
    /\ ff.at = "frame"
    /\ \E cut \in BOOLEAN :
         ff' = [ff EXCEPT !.at = "get", !.finish = (ff.max_time /\ cut) \/ ff_env.stop]
    /\ UNCHANGED ff_env

\* get_video_frame() and write_video_frame(): the frame of the camera goes into
\* the queue, the first one of the queue is encoded, and its time stamp is the
\* one the next frame has to be newer than.
Encode(f, queue, allow, ok) ==
    [f EXCEPT !.pre_record = Tail(queue), !.ts = Head(queue),
              !.written = IF allow /\ ok THEN Append(@, Head(queue)) ELSE @,
              !.at = CASE allow /\ ~ok -> "close"
                       [] f.finish     -> "close"
                       [] OTHER        -> "late?",
              !.failed = @ \/ ~(allow /\ ok)]

FfTake ==
    /\ ff.at = "get"
    /\ LET queue == IF ff_env.cur > ff.ts THEN Append(ff.pre_record, ff_env.cur)
                    ELSE ff.pre_record
       IN IF queue = <<>>
          THEN ff' = [ff EXCEPT !.at = "close"]
          ELSE \E allow, ok \in BOOLEAN : ff' = Encode(ff, queue, allow, ok)
    /\ UNCHANGED ff_env

\* left = interval * 1000000.0 - took, as an unsigned number.  When the frame
\* took longer than the interval (it always does without one) the conversion
\* of a negative number is undefined: 2^64 - x on x86-64, 0 on ARM.
FfLeft ==
    /\ ff.at = "late?"
    /\ \E late \in (IF ff.interval = "none" THEN {TRUE} ELSE BOOLEAN) :
         \/ late /\ ff' = [ff EXCEPT !.at = "frame"]
         \/ /\ ff' = [ff EXCEPT !.at = "sleep",
                                !.asleep = CASE late -> "overslept"
                                             [] ~late /\ ff.interval = "long" -> "released"
                                             [] ~late /\ ff.interval = "short" -> "short",
                                !.uses = IF late \/ ff.interval = "long" THEN @ - 1 ELSE @]
    /\ UNCHANGED ff_env

FfWakeAtStop ==
    /\ ff.at = "sleep" /\ ff_env.stop
    /\ ff' = [ff EXCEPT !.at = "frame", !.asleep = "no",
                        !.uses = IF ff.asleep = "short" THEN @ ELSE @ + 1]
    /\ UNCHANGED ff_env
\* mysleep() returns, and takes its source again if it let go of it.
FfWake ==
    /\ ff.at = "sleep"
    /\ ff.asleep = "overslept" => ff_env.stop
    /\ ff' = [ff EXCEPT !.at = "frame", !.asleep = "no",
                        !.uses = IF ff.asleep = "short" THEN @ ELSE @ + 1]
    /\ UNCHANGED ff_env

FfCloseOnly ==
    /\ ff.at = "close"
    /\ ff' = [ff EXCEPT !.at = "file", !.unflushed = ~ff_env.stop /\ ff.pre_record # <<>>]
    /\ UNCHANGED ff_env
\* The file is closed.  When the target was told to stop the queue is encoded
\* first, until a frame fails.
FfClose ==
    /\ ff.at = "close"
    /\ IF ff_env.stop
       THEN \E n \in 0 .. Len(ff.pre_record), allow \in BOOLEAN :
              ff' = [ff EXCEPT !.at = "file",
                               !.written = IF allow THEN @ \o SubSeq(ff.pre_record, 1, n) ELSE @,
                               !.failed = @ \/ ~allow \/ n < Len(ff.pre_record),
                               !.pre_record = SubSeq(@, n + 1, Len(@))]
       ELSE ff' = [ff EXCEPT !.at = "file", !.unflushed = ff.pre_record # <<>>]
    /\ UNCHANGED ff_env

\* What is left in the queue is deleted.
FfEnd ==
    /\ ff.at = "end" \/ (ff.at = "file" /\ ff_env.stop)
    /\ ff' = [ff EXCEPT !.at = "done", !.pre_record = <<>>, !.uses = @ - 1]
    /\ UNCHANGED ff_env

FfStep == \/ FfStart \/ FfFirst \/ FfOpen \/ FfAsk \/ FfTake
          \/ FfLeft \/ FfWake \/ FfClose \/ FfEnd
FfNext == FfStep \/ FfCamera \/ FfStop

FfSpec == FfInit /\ [][FfNext]_ffVars /\ WF_ffVars(FfStep)

-----------------------------------------------------------------------------
(* Properties.                                                             *)

\* The source is used once while the thread runs and it does not sleep long,
\* and not any more when it ended.
FfUsage ==
    ff.uses = IF ff.at \in {"off", "done"} \/ ff.asleep \in {"released", "overslept"}
              THEN 0 ELSE 1

\* If nothing failed, a recording starts with all the frames of before the
\* motion, and then has frames of the camera in their order, with none twice
\* when there were none of before.  Nothing is recorded when the target is
\* told to stop before the camera delivered; when it is told to right after a
\* file was full, the queue is lost.
FfRecording ==
    /\ \A i, j \in DOMAIN ff.written :
         i < j => IF ff.handed = <<>> THEN ff.written[i] < ff.written[j]
                                      ELSE ff.written[i] <= ff.written[j]
    /\ ff.at = "done" /\ ~ff.failed /\ ff.files > 0 /\ ~ff.unflushed =>
         \E n \in 0 .. Len(ff.written) : SubSeq(ff.written, 1, n) = ff.handed

FfSafe == FfUsage /\ FfRecording

\* The target follows the camera: a frame that is there is taken, or the
\* target oversleeps until its end.
FfCatchesUp ==
    \A n \in 1 .. MaxFfFrame :
      (ff.at = "frame" /\ ff_env.cur >= n)
        ~> (ff.ts >= n \/ ff.asleep = "overslept" \/ ff_env.stop
              \/ ff.failed \/ ff.files = MaxFfFiles)
=============================================================================
