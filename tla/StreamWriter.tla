---------------------------- MODULE StreamWriter ----------------------------
(***************************************************************************)
(* The targets that write a stream: ten programs of one shape.  A thread   *)
(* takes frames of its source, filters them, sends them through the queue  *)
(* of frames of before the motion (pre_record), and stores what comes out. *)
(* They differ in who deletes which frame, in when a file is opened and    *)
(* closed, and in what happens to the queue at the end.                    *)
(* Source: target_jpeg.cpp, target_extpipe.cpp, target_plugin.cpp,         *)
(* target_gwavi.cpp, target_avi.cpp, target_gstreamer.cpp,                 *)
(* target_new_source.cpp, target_pixelflood.cpp, target_pipewire.cpp,      *)
(* v4l2_loopback.cpp.                                                      *)
(*                                                                         *)
(* A video_frame in memory is a pair: the number the camera gave it, and   *)
(* whether it came from the trigger, from get_frame(), from the filters or *)
(* from duplicate().  Scripts, encoders and pictures are left out.         *)
(***************************************************************************)
EXTENDS Integers, Sequences, FiniteSets, Functions

CONSTANTS
    WriterKinds,     \* which targets
    MaxWriterFrame,  \* bound: frames of the camera
    MaxHanded        \* bound: frames of before the motion

ASSUME WriterAssumption ==
    /\ WriterKinds \subseteq {"jpeg", "extpipe", "plugin", "gwavi", "avi",
                              "gstreamer", "newsource", "pixelflood", "pipewire",
                              "loopback"}
    /\ WriterKinds # {}
    /\ MaxWriterFrame \in Nat /\ MaxHanded \in Nat

VARIABLES
    writer,       \* the target: its configuration and what its thread holds
    writer_env    \* the camera, the stop flag, and whether the sink is ready

writerVars == <<writer, writer_env>>

Null == <<0, "null">>
Buffer(n, origin) == <<n, origin>>

\* kind, filtered (has filters) and max_time are configuration; handed is what
\* the trigger gave, taken what get_frame() gave, written what was stored.
\* live are the frames in memory; fault: a frame was used or deleted that was
\* not there.  unstored: the schedule was off for a frame.  empty: a file was
\* closed without a frame in it.
NewWriter(k, f, m, pre) ==
    [kind |-> k, filtered |-> f, max_time |-> m, at |-> "off", ts |-> 0, uses |-> 0,
     handed |-> [i \in DOMAIN pre |-> pre[i][1]], taken |-> <<>>, written |-> <<>>,
     pre_record |-> pre, prev |-> Null, live |-> Range(pre), fault |-> FALSE,
     open |-> FALSE, rotates |-> m, in_file |-> 0, empty |-> FALSE,
     unstored |-> FALSE]

WriterInit ==
    /\ \E k \in WriterKinds, f \in BOOLEAN, m \in BOOLEAN, n \in 0 .. MaxHanded :
         /\ k = "loopback" => n = 0     \* it is not a target
         /\ writer = NewWriter(k, f, m, [i \in 1 .. n |-> Buffer(i, "trigger")])
         /\ writer_env = [cur |-> n, stop |-> FALSE,
                          ready |-> k \notin {"newsource", "pipewire"}]

-----------------------------------------------------------------------------
(* Memory, queue and file.                                                 *)

New(v, b)    == [v EXCEPT !.live = @ \cup {b}]
Use(v, b)    == [v EXCEPT !.fault = @ \/ b \notin v.live]
Delete(v, b) == IF b = Null THEN v ELSE [Use(v, b) EXCEPT !.live = @ \ {b}]
SetPrev(v, b) == [v EXCEPT !.prev = b]
Push(v, b)   == [v EXCEPT !.pre_record = Append(@, b)]
First(v)     == Head(v.pre_record)
Pop(v)       == [v EXCEPT !.pre_record = Tail(@)]

\* What is stored: frame b, in the file that is open.
Store(v, b, allow) ==
    IF allow
    THEN [Use(v, b) EXCEPT !.written = Append(@, b[1]), !.in_file = @ + 1]
    ELSE [v EXCEPT !.unstored = TRUE]

OpenFile(v)  == IF v.open THEN v ELSE [v EXCEPT !.open = TRUE, !.in_file = 0]
CloseFile(v) ==
    IF v.open THEN [v EXCEPT !.open = FALSE, !.empty = @ \/ v.in_file = 0] ELSE v
CutFile(v, cut) == OpenFile(IF v.max_time /\ cut THEN CloseFile(v) ELSE v)

\* The frame get_frame() returned, and after it went through the filters.
Got(v)  == Buffer(v.ts, "camera")
Kept(v) == IF v.filtered THEN Buffer(v.ts, "filtered") ELSE Got(v)

UsePrev(v) == IF v.prev = Null THEN v ELSE Use(v, v.prev)

\* apply_filtering() makes a new frame of pvf (and looks at the previous one);
\* pvf is deleted.
Filtered(v) ==
    IF v.filtered
    THEN Delete(New(UsePrev(v), Kept(v)), Got(v))
    ELSE v

\* for(auto f : pre_record) { store f; delete f; }  pre_record.clear();
Flushed(v, allow) ==
    LET flush[i \in 0 .. Len(v.pre_record)] ==
          IF i = 0 THEN v
          ELSE Delete(Store(flush[i - 1], v.pre_record[i], allow), v.pre_record[i])
    IN [flush[Len(v.pre_record)] EXCEPT !.pre_record = <<>>]

-----------------------------------------------------------------------------
(* One round of the loop with a frame: allow is what the schedule says,    *)
(* cut whether the time of the file is over.                               *)

\* A copy of the filtered frame becomes the previous frame; pvf stays.
JpegFrame(v, allow) ==
    LET copy == Buffer(v.ts, "copy")
        w == IF v.filtered
             THEN SetPrev(New(Delete(New(UsePrev(v), Kept(v)), v.prev), copy), copy)
             ELSE v
        x == Push(w, Kept(v))
        put_f == First(x)
    IN IF allow THEN Delete(Store(Pop(x), put_f, TRUE), put_f)
       ELSE Store(Pop(x), put_f, FALSE)

\* The previous frame is replaced, not deleted.
ExtpipeFrame(v, allow, cut) ==
    LET w == Push(Filtered(CutFile(v, cut)), Kept(v))
    IN SetPrev(Store(Pop(w), First(w), allow), First(w))

\* write_frame() gets the picture of pvf and the size of put_f.  pvf becomes
\* the previous frame, also when it is still in the queue.
PluginFrame(v, allow, cut) ==
    LET w == Push(Filtered(CutFile(v, cut)), Kept(v))
        x == IF allow THEN UsePrev(Use(Pop(w), First(w))) ELSE Pop(w)
    IN SetPrev(Delete(Store(x, Kept(v), allow), v.prev), Kept(v))

\* Filters, with a copy of the filtered frame as the previous frame.
FilteredWithCopyKeepsPrev(v) ==
    LET copy == Buffer(v.ts, "copy") IN
    IF v.filtered THEN SetPrev(New(Filtered(v), copy), copy) ELSE v
FilteredWithCopy(v) ==
    LET copy == Buffer(v.ts, "copy") IN
    IF v.filtered THEN SetPrev(New(Delete(Filtered(v), v.prev), copy), copy) ELSE v

\* A file is closed when its time is over, and with every frame for which the
\* schedule is off; that also sets next_file.
Rotated(v, allow, cut) ==
    IF ~allow \/ (v.rotates /\ cut /\ v.open)
    THEN [CloseFile(v) EXCEPT !.rotates = TRUE]
    ELSE v

GwaviFrame(v, allow, cut) ==
    LET w == Push(FilteredWithCopy(v), Kept(v))
        put_f == First(w)
    IN Delete(Store(OpenFile(Rotated(Pop(w), allow, cut)), put_f, allow), put_f)

AviFrame(v, allow, cut) ==
    LET w == Push(FilteredWithCopy(v), Kept(v))
        put_f == First(w)
    IN Delete(Store(OpenFile(Rotated(Pop(w), allow, cut)), put_f, allow), put_f)

\* The frame that was stored is never deleted; prev_frame is always null.
GstreamerFrame(v, allow) ==
    LET w == Push(Filtered(v), Kept(v))
    IN Store(Delete(Pop(w), v.prev), First(w), allow)

\* No queue: the frame is handed on, and kept as the previous one.
NewSourceFrame(v, allow) ==
    SetPrev(Delete(Store(Filtered(v), Kept(v), allow), v.prev), Kept(v))

\* The same, for a frame that may have been scaled.
PixelfloodFrame(v, allow) ==
    LET scaled == Buffer(v.ts, "scaled")
        w == Delete(New(Filtered(v), scaled), Kept(v))
    IN SetPrev(Delete(Store(w, scaled, allow), v.prev), scaled)

\* As the JPEG writer, but put_frame() does not delete the frame.
PipewireFrame(v, allow) ==
    LET copy == Buffer(v.ts, "copy")
        w == IF v.filtered
             THEN SetPrev(New(Delete(New(UsePrev(v), Kept(v)), v.prev), copy), copy)
             ELSE v
        x == Push(w, Kept(v))
    IN Store(Pop(x), First(x), allow)

\* A video device, fed more than once a second.  It may refuse the format of
\* the first frame, or a picture: the loop is left.
LoopbackFrame(v, allow, cut) ==
    LET w == Filtered(v)
        leave == [v EXCEPT !.at = "leave"]
    IN IF ~allow /\ Len(v.taken) = 1 THEN [leave EXCEPT !.unstored = TRUE]
       ELSE IF cut THEN [Delete(w, Kept(v)) EXCEPT !.at = "leave", !.unstored = TRUE]
       ELSE SetPrev(Delete(Store(w, Kept(v), TRUE), v.prev), Kept(v))

FrameOf(v, allow, cut) ==
    CASE v.kind = "jpeg"       -> JpegFrame(v, allow)
      [] v.kind = "extpipe"    -> ExtpipeFrame(v, allow, cut)
      [] v.kind = "plugin"     -> PluginFrame(v, allow, cut)
      [] v.kind = "gwavi"      -> GwaviFrame(v, allow, cut)
      [] v.kind = "avi"        -> AviFrame(v, allow, cut)
      [] v.kind = "gstreamer"  -> GstreamerFrame(v, allow)
      [] v.kind = "newsource"  -> NewSourceFrame(v, allow)
      [] v.kind = "pixelflood" -> PixelfloodFrame(v, allow)
      [] v.kind = "pipewire"   -> PipewireFrame(v, allow)
      [] v.kind = "loopback"   -> LoopbackFrame(v, allow, cut)

-----------------------------------------------------------------------------
(* After the loop.                                                         *)

StopSource(v) == [v EXCEPT !.uses = @ - 1]

JpegEnd(v, allow) ==
    StopSource(SetPrev(Delete(Flushed(v, allow), v.prev), Null))

ExtpipeEnd(v, allow) ==
    LET w == SetPrev(Delete(v, v.prev), Null)
    IN [StopSource(CloseFile(Flushed(w, allow /\ v.open)))
          EXCEPT !.unstored = v.unstored \/ ~allow]

\* Opens the plugin's file if it is not open.  write_frame() is given the
\* data of the previous frame, for every frame left.
PluginEnd(v, allow) ==
    LET w == OpenFile(v)
        x == IF allow /\ v.pre_record # <<>> THEN Use(w, v.prev) ELSE w
    IN StopSource(SetPrev(Delete(CloseFile(Flushed(x, allow)), v.prev), Null))

GwaviEnd(v, allow) ==
    LET w == StopSource(SetPrev(Delete(v, v.prev), Null)) IN
    IF v.pre_record = <<>> THEN CloseFile(w)
    ELSE CloseFile(Flushed(OpenFile(w), allow))

AviEndUnflushed(v, allow) ==
    CloseFile(StopSource(SetPrev(Delete([v EXCEPT !.live = {v.prev}, !.pre_record = <<>>],
                                        v.prev), Null)))
AviEnd(v, allow) ==
    LET w == StopSource(SetPrev(Delete(v, v.prev), Null)) IN
    IF v.pre_record = <<>> THEN CloseFile(w)
    ELSE CloseFile(Flushed(OpenFile(w), allow))

GstreamerEnd(v, allow) == Flushed(StopSource(v), allow)

NewSourceEnd(v) == StopSource(SetPrev(Delete(v, v.prev), Null))

PixelfloodEnd(v) == StopSource(SetPrev(Delete(v, v.prev), Null))

\* The queue is deleted, not stored; s->stop() is called twice.
PipewireEnd(v) ==
    LET w == [v EXCEPT !.live = @ \ Range(v.pre_record), !.pre_record = <<>>]
    IN StopSource(StopSource(SetPrev(Delete(w, v.prev), Null)))

LoopbackEnd(v) == StopSource(SetPrev(Delete(v, v.prev), Null))

EndOf(v, allow) ==
    CASE v.kind = "jpeg"       -> JpegEnd(v, allow)
      [] v.kind = "extpipe"    -> ExtpipeEnd(v, allow)
      [] v.kind = "plugin"     -> PluginEnd(v, allow)
      [] v.kind = "gwavi"      -> GwaviEnd(v, allow)
      [] v.kind = "avi"        -> AviEnd(v, allow)
      [] v.kind = "gstreamer"  -> GstreamerEnd(v, allow)
      [] v.kind = "newsource"  -> NewSourceEnd(v)
      [] v.kind = "pixelflood" -> PixelfloodEnd(v)
      [] v.kind = "pipewire"   -> PipewireEnd(v)
      [] v.kind = "loopback"   -> LoopbackEnd(v)

-----------------------------------------------------------------------------
(* The thread and its surroundings.                                        *)

\* s->start(), in the thread.
WriterStart ==
    /\ writer.at = "off"
    /\ writer' = [writer EXCEPT !.at = "loop", !.uses = @ + 1]
    /\ UNCHANGED writer_env

\* The video device cannot be opened: the thread ends, its source keeps a user.
LoopbackUnopened ==
    /\ writer.at = "off" /\ writer.kind = "loopback"
    /\ writer' = [writer EXCEPT !.at = "failed", !.uses = @ + 1]
    /\ UNCHANGED writer_env

\* for(;!local_stop_flag;): without a sink (no new source was asked for, or
\* PipeWire does not play) no frame is taken.
WriterLoop ==
    /\ writer.at = "loop"
    /\ ~writer_env.stop /\ writer_env.ready
    /\ writer' = [writer EXCEPT !.at = "get"]
    /\ UNCHANGED writer_env

\* get_frame() returns a frame that is newer than the previous one.
WriterFrame ==
    /\ writer.at = "get"
    /\ writer_env.cur > writer.ts
    /\ LET n == writer_env.cur
           v == New([writer EXCEPT !.ts = n, !.taken = Append(@, n), !.at = "loop"],
                    Buffer(n, "camera"))
       IN \E allow, cut \in BOOLEAN : writer' = FrameOf(v, allow, cut)
    /\ UNCHANGED writer_env

\* get_frame() gave up.
WriterNoFrame ==
    /\ writer.at = "get"
    /\ writer' = [writer EXCEPT !.at = "loop"]
    /\ UNCHANGED writer_env

WriterEnd ==
    /\ writer.at = "leave" \/ (writer.at = "loop" /\ writer_env.stop)
    /\ \E allow \in BOOLEAN : writer' = [EndOf(writer, allow) EXCEPT !.at = "done"]
    /\ UNCHANGED writer_env

WriterCamera ==
    /\ writer_env.cur < MaxWriterFrame
    /\ writer_env' = [writer_env EXCEPT !.cur = @ + 1]
    /\ UNCHANGED writer

\* interface::stop()
WriterStop ==
    /\ writer_env' = [writer_env EXCEPT !.stop = TRUE]
    /\ UNCHANGED writer

\* get_new_source() of another thread; PipeWire starts and stops playing.
WriterSink ==
    /\ \/ writer.kind = "newsource" /\ writer_env' = [writer_env EXCEPT !.ready = TRUE]
       \/ writer.kind = "pipewire" /\ writer_env' = [writer_env EXCEPT !.ready = ~@]
    /\ UNCHANGED writer

WriterStep ==
    WriterStart \/ LoopbackUnopened \/ WriterLoop \/ WriterFrame \/ WriterNoFrame \/ WriterEnd
WriterNext == WriterStep \/ WriterCamera \/ WriterStop \/ WriterSink

WriterSpec == WriterInit /\ [][WriterNext]_writerVars

-----------------------------------------------------------------------------
(* Properties.                                                             *)

Reachable(v) == Range(v.pre_record) \cup {v.prev}

\* The targets that lose frames they took: without a schedule already, and
\* with one.
LosesFrames(v) ==
    \/ v.kind \in {"extpipe", "gstreamer", "pipewire"}
    \/ v.kind = "jpeg" /\ (v.filtered \/ v.unstored)
    \/ v.kind = "plugin" /\ v.handed # <<>>
    \/ v.kind = "loopback" /\ v.at \in {"leave", "done"} /\ Len(v.taken) = 1

\* No frame is used, or deleted, after it was deleted; the only target that
\* does is the plugin's when it is given frames of before the motion.
\* Everything in memory can still be deleted, but for the targets LosesFrames
\* names.  When the thread ended its source has as many users as before;
\* PipeWire's target takes away one that was somebody else's.
WriterMemory ==
    /\ writer.fault => writer.kind = "plugin" /\ writer.handed # <<>>
    /\ LosesFrames(writer) \/ writer.live \subseteq Reachable(writer)
    /\ writer.at = "done" =>
         /\ writer.uses = IF writer.kind = "pipewire" THEN -1 ELSE 0
         /\ writer.live = {} \/ LosesFrames(writer) \/ writer.kind \in {"newsource", "pixelflood"}

\* While the schedule is on the recording is what the trigger handed and then
\* every frame taken, in that order: not with the plugin's target, which does
\* not store the frames of before, those that have no queue, and PipeWire's,
\* which does not store what is left in it.  Every file is closed, and has a
\* frame in it, unless it is the plugin's.
WriterOutput ==
    /\ writer.at = "done" /\ ~writer.unstored =>
         LET all == writer.handed \o writer.taken IN
         CASE writer.kind \in {"jpeg", "extpipe", "gwavi", "avi", "gstreamer"} ->
                  \/ writer.written = all
                  \/ writer.kind = "extpipe" /\ writer.taken = <<>>
           [] writer.kind \in {"newsource", "pixelflood", "loopback"} -> writer.written = writer.taken
           [] writer.kind = "pipewire" -> writer.written = SubSeq(all, 1, Len(writer.taken))
           [] writer.kind = "plugin" -> writer.handed = <<>> => writer.written = writer.taken
    /\ writer.at = "done" => ~writer.open
    /\ writer.empty /\ ~writer.unstored => writer.kind = "plugin" /\ writer.taken = <<>>

\* The safety of the writers: their memory and their output.
WriterSound == WriterMemory /\ WriterOutput
=============================================================================
