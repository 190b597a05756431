------------------------------- MODULE Grabber -------------------------------
(***************************************************************************)
(* The threads that get pictures out of a camera, one per kind of source:  *)
(* what they do when the camera is away, when it sends something that is   *)
(* not a picture, and when they are told to stop; and what they report as  *)
(* the error state of the source (get_last_error(), read by the monitoring *)
(* interface).                                                             *)
(* Source: source_http_jpeg.cpp, source_http_png.cpp, source_http_bmp.cpp, *)
(* source_filesystem_jpeg.cpp, source_ffmpeg.cpp, source_gstreamer.cpp,    *)
(* source_v4l.cpp, source_http_mjpeg.cpp, source_libcamera.cpp,            *)
(* source_pipewire.cpp, source_plugin.cpp, http_client.cpp.                *)
(*                                                                         *)
(* One round of a loop is one step.  Frames reach their users through      *)
(* FrameBuffer; here only that one was handed on counts.                   *)
(***************************************************************************)
EXTENDS Integers

CONSTANTS GrabKinds     \* which sources

ASSUME GrabAssumption ==
    GrabKinds \subseteq {"jpeg", "png", "bmp", "filesystem", "ffmpeg", "gstreamer",
                         "v4l", "mjpeg", "libcamera", "pipewire", "plugin"}

VARIABLES
    grab,       \* the thread
    grab_env    \* the camera, and what others set

grabVars == <<grab, grab_env>>

\* The camera is "away", sends "pictures" or "garbage".
Cameras == {"away", "pictures", "garbage"}

\* error: the error state; fresh: a frame was handed on since it was set.
\* first: no picture was decoded yet.  last: what the last round did.  lost:
\* memory of a round that nothing points at any more.  How long a thread waits
\* after a failure is left out.
GrabInit ==
    \E k \in GrabKinds, r \in BOOLEAN :
      /\ grab = [kind |-> k, resize |-> r, at |-> "open", error |-> "none",
                 fresh |-> FALSE, first |-> TRUE, last |-> "none", lost |-> FALSE]
      /\ grab_env = [camera |-> "away", users |-> FALSE, paused |-> FALSE, stop |-> FALSE]

-----------------------------------------------------------------------------
(* The surroundings.                                                       *)

GrabCamera ==
    /\ grab_env' \in {[grab_env EXCEPT !.camera = c] : c \in Cameras}
    /\ UNCHANGED grab

GrabUsers ==
    /\ grab_env' \in {[grab_env EXCEPT !.users = ~@], [grab_env EXCEPT !.paused = ~@]}
    /\ UNCHANGED grab

GrabStop ==
    /\ grab_env' = [grab_env EXCEPT !.stop = TRUE]
    /\ UNCHANGED grab

-----------------------------------------------------------------------------
(* What a round does to the source.                                        *)

SetError(g, e)  == [g EXCEPT !.error = e, !.fresh = FALSE, !.last = "error"]
KeepError(g)    == g
ClearError(g)   == [g EXCEPT !.error = "none"]
HandOn(g)       == [g EXCEPT !.fresh = TRUE, !.last = "frame"]
Idle(g)         == [g EXCEPT !.last = "idle"]
Lose(g)         == [g EXCEPT !.lost = TRUE]

\* register_thread_end()
ThreadEnd(g) ==
    [g EXCEPT !.at = "ended",
              !.error = IF ~grab_env.stop /\ @ = "none" THEN "ended" ELSE @]

Delivering  == grab_env.users /\ ~grab_env.paused
In(kind, at) == grab.kind = kind /\ grab.at = at
Running(kind) == In(kind, "loop") /\ ~grab_env.stop

\* http_get(): what the server sends is not looked at, not its status either.
HttpFails == grab_env.camera = "away"

\* The loop is entered.
GrabOpen ==
    /\ grab.at = "open" /\ grab.kind \notin {"ffmpeg", "v4l", "libcamera"}
    /\ grab' = [grab EXCEPT !.at = "loop"]
    /\ UNCHANGED grab_env

\* A picture that cannot be decoded is only noticed for the first frame, or
\* when the source scales; the round then starts over without waiting, and
\* without giving back what was received.
JpegRound ==
    /\ Running("jpeg")
    /\ grab' = CASE ~grab_env.users -> Idle(grab)
                 [] grab_env.users /\ HttpFails -> SetError(grab, "warning")
                 [] grab_env.users /\ ~HttpFails ->
                      IF grab_env.paused THEN Idle(grab)
                      ELSE IF (grab.first \/ grab.resize) /\ grab_env.camera = "garbage"
                           THEN Lose(SetError(grab, "warning"))
                           ELSE ClearError(HandOn([grab EXCEPT !.first = FALSE]))
    /\ UNCHANGED grab_env

\* The result of the decoder is not tested: without a picture the program
\* copies from a null pointer.
PngRound ==
    /\ Running("png")
    /\ grab' = CASE ~grab_env.users -> Idle(grab)
                 [] grab_env.users /\ HttpFails -> SetError(grab, "warning")
                 [] grab_env.users /\ ~HttpFails ->
                      IF grab_env.paused THEN Idle(grab)
                      ELSE IF grab_env.camera = "garbage"
                           THEN [grab EXCEPT !.at = "crashed"]
                           ELSE ClearError(HandOn(grab))
    /\ UNCHANGED grab_env

\* A picture that is the one of before, or that the server says is, makes the
\* current frame new again (fake_frame()); the error state stays as it is.
BmpRound ==
    /\ Running("bmp")
    /\ \/ ~grab_env.users /\ grab' = Idle(grab)
       \/ grab_env.users /\ HttpFails /\ grab' = SetError(grab, "warning")
       \/ /\ grab_env.users /\ ~HttpFails
          /\ IF grab_env.paused THEN grab' = Idle(grab)
             ELSE \/ ~grab.first /\ grab' = HandOn(grab)
                  \/ /\ grab_env.camera = "garbage"
                     /\ grab' = Lose([grab EXCEPT !.last = "error"])
                  \/ /\ grab_env.camera = "pictures"
                     /\ grab' = ClearError(HandOn([grab EXCEPT !.first = FALSE]))
    /\ UNCHANGED grab_env

\* Waits in read(inotify) until the file is touched: nothing else wakes it.
FilesystemWait ==
    /\ Running("filesystem")
    /\ grab' = IF grab_env.users THEN [grab EXCEPT !.at = "read"] ELSE Idle(grab)
    /\ UNCHANGED grab_env

\* The file was touched.  It may be gone again, or not be accessible; that
\* ends the thread.
FilesystemRead ==
    /\ In("filesystem", "read") /\ grab_env.camera # "away"
    /\ LET g == [grab EXCEPT !.at = "loop"] IN
       \/ grab_env.paused /\ grab' = Idle(g)
       \/ grab_env.camera = "garbage" /\ grab' \in {Idle(g), ThreadEnd(g)}
       \/ /\ ~grab_env.paused
          /\ grab' = IF grab_env.camera = "garbage" /\ (g.first \/ g.resize)
                     THEN Lose([g EXCEPT !.last = "error"])
                     ELSE HandOn([g EXCEPT !.first = FALSE])
    /\ UNCHANGED grab_env

\* A session: opening it may fail in many ways, each sets an error.
FfmpegOpen ==
    /\ In("ffmpeg", "open")
    /\ grab' \in IF grab_env.camera = "pictures"
                 THEN {[grab EXCEPT !.at = "loop"]}
                 ELSE {[SetError(grab, e) EXCEPT !.at = "fail"] : e \in {"warning", "critical"}}
    /\ UNCHANGED grab_env

FfmpegRead ==
    /\ Running("ffmpeg")
    /\ grab' \in CASE grab_env.camera = "away"     -> {[grab EXCEPT !.at = "fail"]}
                   [] grab_env.camera = "garbage"  ->
                        {[SetError(grab, "warning") EXCEPT !.at = "fail"]}
                   [] grab_env.camera = "pictures" ->
                        IF Delivering THEN {ClearError(HandOn(grab))} ELSE {Idle(grab)}
    /\ UNCHANGED grab_env

\* Another session, after a while.
ReopenNever(g) == ThreadEnd(g)
Reopen(g) == [g EXCEPT !.at = "open"]

\* The session ends.
FfmpegFail ==
    /\ grab.kind = "ffmpeg"
    /\ grab.at = "fail" \/ (grab.at = "loop" /\ grab_env.stop)
    /\ grab' = IF grab_env.stop THEN ThreadEnd(grab) ELSE Reopen(grab)
    /\ UNCHANGED grab_env

\* pull_sample() blocks.  At the end of the stream it returns nothing, from
\* then on at once: a pipeline is never made again.  Users and pause are not
\* looked at.
GstreamerRound ==
    /\ Running("gstreamer")
    /\ \/ grab_env.camera = "away" /\ grab' = [grab EXCEPT !.at = "eos", !.last = "error"]
       \/ grab_env.camera = "garbage" /\ grab' = ThreadEnd(grab)
       \/ grab_env.camera = "pictures" /\ grab' = HandOn([grab EXCEPT !.first = FALSE])
    /\ UNCHANGED grab_env

\* A device that cannot be opened ends the thread, as does one whose buffers
\* cannot be mapped.
V4lOpen ==
    /\ In("v4l", "open")
    /\ grab' \in IF grab_env.camera = "away"
                 THEN {[SetError(grab, "critical") EXCEPT !.at = "ended"]}
                 ELSE {[grab EXCEPT !.at = "loop"], ThreadEnd(SetError(grab, "critical"))}
    /\ UNCHANGED grab_env

\* A device that fails ends the thread as well.
V4lRound ==
    /\ Running("v4l")
    /\ grab' = CASE grab_env.camera = "away" -> ThreadEnd(SetError(grab, "critical"))
                 [] grab_env.camera # "away" /\ Delivering ->
                      IF grab.resize /\ grab_env.camera = "garbage"
                      THEN ClearError([grab EXCEPT !.last = "error"])
                      ELSE ClearError(HandOn(grab))
                 [] grab_env.camera # "away" /\ ~Delivering -> Idle(grab)
    /\ UNCHANGED grab_env

\* curl_easy_perform(): the frames of a connection, see MjpegStream.
MjpegFrames ==
    /\ Running("mjpeg") /\ grab_env.camera = "pictures" /\ Delivering
    /\ grab' = HandOn([grab EXCEPT !.first = FALSE])
    /\ UNCHANGED grab_env

\* The connection ended, or there was none.  Only now the error state is set,
\* or cleared, after the status of the server.
MjpegEnd ==
    /\ In("mjpeg", "loop")
    /\ grab_env.stop \/ grab_env.camera # "pictures"
    /\ \E ok \in BOOLEAN :
         LET g == IF ok THEN ClearError(grab) ELSE SetError(grab, "warning")
         IN grab' = IF grab_env.stop THEN ThreadEnd(g) ELSE g
    /\ UNCHANGED grab_env

\* The camera is acquired and a format negotiated; a missing one ends the program.
LibcameraOpen ==
    /\ In("libcamera", "open")
    /\ grab' = [grab EXCEPT !.at = IF grab_env.camera = "away" THEN "exit" ELSE "start"]
    /\ UNCHANGED grab_env

\* Buffers and requests are made and the camera is started.  Without buffers, or
\* when it does not start, the thread ends; when it cannot be configured, the
\* thread frees what was not allocated.
LibcameraStart ==
    /\ In("libcamera", "start")
    /\ grab' \in {[grab EXCEPT !.at = a] : a \in {"loop", "exit", "crashed"}}
                   \cup {ThreadEnd(grab)}
    /\ UNCHANGED grab_env

\* The callback of libcamera, in a thread of its own.
LibcameraFrame ==
    /\ Running("libcamera") /\ grab_env.camera = "pictures"
    /\ grab' = HandOn(grab)
    /\ UNCHANGED grab_env

\* The callback of PipeWire.
GrabPipewire ==
    /\ Running("pipewire") /\ grab_env.camera = "pictures"
    /\ grab' = HandOn(grab)
    /\ UNCHANGED grab_env

\* A plugin calls set_frame() itself, from a thread of its own.
GrabPlugin ==
    /\ Running("plugin") /\ grab_env.camera = "pictures"
    /\ grab' = HandOn(grab)
    /\ UNCHANGED grab_env

\* for(;!local_stop_flag;): the loop is left.
GrabEnd ==
    /\ grab_env.stop /\ grab.kind \notin {"ffmpeg", "mjpeg"}
    /\ grab.at \in {"loop", "eos"}
    /\ grab' = ThreadEnd(grab)
    /\ UNCHANGED grab_env

GrabStep ==
    \/ GrabOpen \/ GrabEnd
    \/ JpegRound \/ PngRound \/ BmpRound \/ FilesystemWait \/ FilesystemRead
    \/ FfmpegOpen \/ FfmpegRead \/ FfmpegFail \/ GstreamerRound
    \/ V4lOpen \/ V4lRound \/ MjpegFrames \/ MjpegEnd
    \/ LibcameraOpen \/ LibcameraStart \/ LibcameraFrame \/ GrabPipewire \/ GrabPlugin

GrabNext == GrabStep \/ GrabCamera \/ GrabUsers \/ GrabStop

GrabSpec == GrabInit /\ [][GrabNext]_grabVars /\ WF_grabVars(GrabStep)

-----------------------------------------------------------------------------
(* Properties.                                                             *)

\* A source that hands on frames does not report an error of before, except
\* the one for BMP files while the picture stays the same, and the one for
\* MJPEG, whose error is that of the previous connection.  No round loses
\* memory, except where a picture cannot be decoded; only the PNG source
\* brings the program down then.
GrabInv ==
    /\ grab.error # "none" /\ grab.fresh => grab.kind \in {"bmp", "mjpeg"} \/ grab.at = "ended"
    /\ grab.lost => grab.kind \in {"jpeg", "bmp", "filesystem"}
    /\ grab.at \in {"crashed", "exit"} => grab.kind \in {"png", "libcamera"}

\* When the camera works for good, somebody looks, and nobody stops it, frames
\* keep coming, except from the sources that a failure of the camera ends, and
\* from a gstreamer pipeline that was at its end.
EndedByFailure == {"png", "filesystem", "gstreamer", "v4l", "libcamera"}
GrabRecovers ==
    <>[](grab_env = [camera |-> "pictures", users |-> TRUE, paused |-> FALSE, stop |-> FALSE])
      => \/ /\ grab.kind \in EndedByFailure
            /\ <>(grab.at \in {"ended", "crashed", "exit", "eos"})
         \/ []<>(grab.last = "frame")

\* Told to stop, a source ends, except one that waits for its file.
GrabStops ==
    grab_env.stop ~> \/ grab.at \in {"ended", "crashed", "exit"}
                     \/ grab.at = "read" /\ grab.kind = "filesystem"

GrabLive == GrabRecovers /\ GrabStops
=============================================================================
