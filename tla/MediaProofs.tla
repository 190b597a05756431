----------------------------- MODULE MediaProofs -----------------------------
(***************************************************************************)
(* Proofs about the threads between a camera and a file or a viewer:       *)
(* Grabber, FrameData, Views, DerivedSources and FfmpegTarget.             *)
(***************************************************************************)
EXTENDS Grabber, FrameData, Views, DerivedSources, FfmpegTarget, FiniteSetTheorems, SequenceTheorems, TLAPS

-----------------------------------------------------------------------------
(***************************************************************************)
(* Grabber: the error state of a source, for any set of kinds of sources.  *)
(*                                                                         *)
(* That a source that hands on frames reports no earlier error needs which *)
(* sources report one at all before they end: the others never clear it.   *)
(***************************************************************************)

GrabPlaces == {"open", "loop", "read", "fail", "eos", "start", "ended", "crashed", "exit"}

GrabStates == [kind : GrabKinds, resize : BOOLEAN, at : GrabPlaces,
               error : {"none", "warning", "critical", "ended"}, fresh : BOOLEAN,
               first : BOOLEAN, last : {"none", "error", "frame", "idle"}, lost : BOOLEAN]

EnvStates == [camera : Cameras, users : BOOLEAN, paused : BOOLEAN, stop : BOOLEAN]

\* The sources that set an error before they end.
Reporting == {"jpeg", "png", "bmp", "ffmpeg", "v4l", "mjpeg"}

\* GrabInv, of a thread as a step leaves it.  A source that does not report has no
\* error to clear when it hands on a frame.
Honest(g) ==
    /\ g.error # "none" /\ g.fresh => g.kind \in {"bmp", "mjpeg"} \/ g.at = "ended"
    /\ g.error # "none" => g.kind \in Reporting \/ g.at = "ended"
    /\ g.lost => g.kind \in {"jpeg", "bmp", "filesystem"}
    /\ g.at \in {"crashed", "exit"} => g.kind \in {"png", "libcamera"}

Honests == {g \in GrabStates : Honest(g)}

GrabIndInv == grab \in Honests /\ grab_env \in EnvStates

(* A thread of which some fields are set is a thread still.                *)
LEMMA GrabFields ==
    ASSUME NEW g \in GrabStates, NEW place \in GrabPlaces,
           NEW e \in {"none", "warning", "critical", "ended"}
    PROVE  /\ [g EXCEPT !.at = place] \in GrabStates
           /\ [g EXCEPT !.at = place, !.error = e] \in GrabStates
           /\ [g EXCEPT !.error = e, !.fresh = FALSE, !.last = "error"] \in GrabStates
           /\ ClearError(g) \in GrabStates
           /\ HandOn(g) \in GrabStates
           /\ Idle(g) \in GrabStates
           /\ [g EXCEPT !.last = "error"] \in GrabStates
           /\ [g EXCEPT !.first = FALSE] \in GrabStates
           /\ Lose(g) \in GrabStates
  <1>1. [g EXCEPT !.at = place] \in GrabStates
    BY DEF GrabStates
  <1>2. [g EXCEPT !.at = place, !.error = e] \in GrabStates
    BY DEF GrabStates
  <1>3. [g EXCEPT !.error = e, !.fresh = FALSE, !.last = "error"] \in GrabStates
    BY DEF GrabStates
  <1>4. ClearError(g) \in GrabStates
    BY DEF GrabStates, ClearError
  <1>5. HandOn(g) \in GrabStates
    BY DEF GrabStates, HandOn
  <1>6. Idle(g) \in GrabStates
    BY DEF GrabStates, Idle
  <1>7. [g EXCEPT !.last = "error"] \in GrabStates
    BY DEF GrabStates
  <1>8. [g EXCEPT !.first = FALSE] \in GrabStates /\ Lose(g) \in GrabStates
    BY DEF GrabStates, Lose
  <1> QED
    BY <1>1, <1>2, <1>3, <1>4, <1>5, <1>6, <1>7, <1>8

(* What a round is made of keeps a thread honest.                          *)
LEMMA Moved ==
    ASSUME NEW g \in Honests, g.at # "ended",
           NEW place \in GrabPlaces \ {"crashed", "exit"}
    PROVE  [g EXCEPT !.at = place] \in Honests
  <1>1. g \in GrabStates /\ Honest(g)
    BY DEF Honests
  <1> DEFINE h == [g EXCEPT !.at = place]
  <1>2. h \in GrabStates
    BY <1>1, GrabFields
  <1>3. /\ h.error = g.error /\ h.fresh = g.fresh /\ h.kind = g.kind /\ h.lost = g.lost
        /\ h.at = place
    BY <1>1 DEF GrabStates
  <1> HIDE DEF h
  <1>4. Honest(h)
    BY <1>1, <1>3 DEF Honest
  <1> QED
    BY <1>2, <1>4 DEF Honests, h

LEMMA EndedHonest == ASSUME NEW g \in Honests PROVE ThreadEnd(g) \in Honests
  <1>1. g \in GrabStates /\ Honest(g)
    BY DEF Honests
  <1> DEFINE e == IF ~grab_env.stop /\ g.error = "none" THEN "ended" ELSE g.error
             h == [g EXCEPT !.at = "ended", !.error = e]
  <1>2. g.error \in {"none", "warning", "critical", "ended"}
    BY <1>1 DEF GrabStates
  <1>3. h \in GrabStates
    BY <1>1, <1>2, GrabFields DEF GrabPlaces
  <1>4. h.at = "ended" /\ h.kind = g.kind /\ h.lost = g.lost
    BY <1>1 DEF GrabStates
  <1>5. ThreadEnd(g) = h
    BY <1>1 DEF ThreadEnd, GrabStates
  <1> HIDE DEF h
  <1>6. Honest(h)
    BY <1>1, <1>4 DEF Honest
  <1> QED
    BY <1>3, <1>5, <1>6 DEF Honests

LEMMA EndsProgram ==
    ASSUME NEW g \in Honests, g.at # "ended", g.kind \in {"png", "libcamera"},
           NEW place \in {"crashed", "exit"}
    PROVE  [g EXCEPT !.at = place] \in Honests
  <1>1. g \in GrabStates /\ Honest(g)
    BY DEF Honests
  <1> DEFINE h == [g EXCEPT !.at = place]
  <1>2. h \in GrabStates
    BY <1>1, GrabFields DEF GrabPlaces
  <1>3. /\ h.error = g.error /\ h.fresh = g.fresh /\ h.kind = g.kind /\ h.lost = g.lost
    BY <1>1 DEF GrabStates
  <1> HIDE DEF h
  <1>4. Honest(h)
    BY <1>1, <1>3 DEF Honest
  <1> QED
    BY <1>2, <1>4 DEF Honests, h

LEMMA SetErrorHonest ==
    ASSUME NEW g \in Honests, g.kind \in Reporting, NEW e \in {"warning", "critical"}
    PROVE  /\ SetError(g, e) \in Honests
           /\ SetError(g, e).kind = g.kind /\ SetError(g, e).at = g.at
  <1>1. g \in GrabStates /\ Honest(g)
    BY DEF Honests
  <1> DEFINE h == SetError(g, e)
  <1>2. h \in GrabStates
    BY <1>1, GrabFields DEF SetError, GrabPlaces
  <1>3. h.error = e /\ ~h.fresh /\ h.kind = g.kind /\ h.lost = g.lost /\ h.at = g.at
    BY <1>1 DEF GrabStates, SetError
  <1> HIDE DEF h
  <1>4. Honest(h)
    BY <1>1, <1>3 DEF Honest
  <1> QED
    BY <1>2, <1>3, <1>4 DEF Honests, h

LEMMA HandOnHonest ==
    ASSUME NEW g \in Honests, g.kind \in {"bmp", "mjpeg"} \/ g.error = "none"
    PROVE  HandOn(g) \in Honests
  <1>1. g \in GrabStates /\ Honest(g)
    BY DEF Honests
  <1> DEFINE h == HandOn(g)
  <1>2. h \in GrabStates
    BY <1>1, GrabFields DEF GrabPlaces
  <1>3. h.error = g.error /\ h.kind = g.kind /\ h.lost = g.lost /\ h.at = g.at
    BY <1>1 DEF GrabStates, HandOn
  <1> HIDE DEF h
  <1>4. Honest(h)
    BY <1>1, <1>3 DEF Honest
  <1> QED
    BY <1>2, <1>4 DEF Honests, h

(* A thread without an error, whatever it handed on.                       *)
LEMMA ClearErrorHonest ==
    ASSUME NEW g \in GrabStates, NEW f \in Honests,
           f.kind = g.kind, f.at = g.at, f.lost = g.lost
    PROVE  ClearError(g) \in Honests
  <1>1. Honest(f)
    BY DEF Honests
  <1> DEFINE h == ClearError(g)
  <1>2. h \in GrabStates
    BY GrabFields DEF GrabPlaces
  <1>3. h.error = "none" /\ h.kind = g.kind /\ h.lost = g.lost /\ h.at = g.at
    BY DEF GrabStates, ClearError
  <1> HIDE DEF h
  <1>4. Honest(h)
    BY <1>1, <1>3 DEF Honest
  <1> QED
    BY <1>2, <1>4 DEF Honests, h

LEMMA ClearHonest ==
    ASSUME NEW g \in Honests
    PROVE  /\ ClearError(g) \in Honests /\ ClearError(HandOn(g)) \in Honests
           /\ ClearError([g EXCEPT !.last = "error"]) \in Honests
  <1>1. g \in GrabStates
    BY DEF Honests
  <1>2. HandOn(g) \in GrabStates /\ [g EXCEPT !.last = "error"] \in GrabStates
    BY <1>1, GrabFields DEF GrabPlaces
  <1>3. /\ HandOn(g).kind = g.kind /\ HandOn(g).at = g.at /\ HandOn(g).lost = g.lost
        /\ LET h == [g EXCEPT !.last = "error"]
           IN h.kind = g.kind /\ h.at = g.at /\ h.lost = g.lost
    BY <1>1 DEF GrabStates, HandOn
  <1> QED
    BY <1>1, <1>2, <1>3, ClearErrorHonest

(* Fields that no promise speaks of.                                       *)
LEMMA SameHonest ==
    ASSUME NEW g \in Honests
    PROVE  /\ Idle(g) \in Honests /\ [g EXCEPT !.last = "error"] \in Honests
           /\ [g EXCEPT !.first = FALSE] \in Honests
  <1>1. g \in GrabStates /\ Honest(g)
    BY DEF Honests
  <1>2. /\ Idle(g) \in GrabStates /\ [g EXCEPT !.last = "error"] \in GrabStates
        /\ [g EXCEPT !.first = FALSE] \in GrabStates
    BY <1>1, GrabFields DEF GrabPlaces
  <1>3. ASSUME NEW h \in {Idle(g), [g EXCEPT !.last = "error"], [g EXCEPT !.first = FALSE]}
        PROVE  Honest(h)
    <2>1. h.error = g.error /\ h.fresh = g.fresh /\ h.kind = g.kind /\ h.lost = g.lost /\ h.at = g.at
      BY <1>1, <1>3 DEF GrabStates, Idle
    <2> QED
      BY <1>1, <2>1 DEF Honest
  <1> QED
    BY <1>2, <1>3 DEF Honests

LEMMA LoseHonest ==
    ASSUME NEW g \in Honests, g.kind \in {"jpeg", "bmp", "filesystem"}
    PROVE  Lose(g) \in Honests
  <1>1. g \in GrabStates /\ Honest(g)
    BY DEF Honests
  <1> DEFINE h == Lose(g)
  <1>2. h \in GrabStates
    BY <1>1, GrabFields DEF GrabPlaces
  <1>3. h.error = g.error /\ h.fresh = g.fresh /\ h.kind = g.kind /\ h.at = g.at
    BY <1>1 DEF GrabStates, Lose
  <1> HIDE DEF h
  <1>4. Honest(h)
    BY <1>1, <1>3 DEF Honest
  <1> QED
    BY <1>2, <1>4 DEF Honests, h

(* What a step asks of the thread is not changed by what it set before.    *)
LEMMA SameKind ==
    ASSUME NEW g \in GrabStates, NEW place
    PROVE  /\ [g EXCEPT !.first = FALSE].kind = g.kind
           /\ [g EXCEPT !.first = FALSE].error = g.error
           /\ [g EXCEPT !.last = "error"].kind = g.kind
           /\ [g EXCEPT !.at = place].kind = g.kind
           /\ [g EXCEPT !.at = place].at = place
           /\ [g EXCEPT !.at = place].error = g.error
  BY DEF GrabStates

LEMMA NoError ==
    ASSUME NEW g \in Honests, g.kind \notin Reporting, g.at # "ended"
    PROVE  g.error = "none"
  BY DEF Honests, Honest

-----------------------------------------------------------------------------
(* Sources that ask for one picture after the other.                       *)

LEMMA JpegHonest == GrabIndInv /\ JpegRound => grab' \in Honests
  <1> SUFFICES ASSUME GrabIndInv, JpegRound PROVE grab' \in Honests
    OBVIOUS
  <1>1. grab \in Honests /\ grab.kind = "jpeg" /\ "jpeg" \in Reporting
    BY DEF GrabIndInv, JpegRound, Running, In, Reporting
  <1>2. Idle(grab) \in Honests
    BY <1>1, SameHonest
  <1>3. SetError(grab, "warning") \in Honests /\ SetError(grab, "warning").kind = "jpeg"
    BY <1>1, SetErrorHonest
  <1>4. Lose(SetError(grab, "warning")) \in Honests
    BY <1>3, LoseHonest
  <1>5. ClearError(HandOn([grab EXCEPT !.first = FALSE])) \in Honests
    BY <1>1, SameHonest, ClearHonest
  <1> QED
    BY <1>2, <1>3, <1>4, <1>5, Zenon DEF JpegRound

LEMMA PngHonest == GrabIndInv /\ PngRound => grab' \in Honests
  <1> SUFFICES ASSUME GrabIndInv, PngRound PROVE grab' \in Honests
    OBVIOUS
  <1>1. /\ grab \in Honests /\ grab.kind = "png" /\ "png" \in Reporting
        /\ grab.at = "loop"
    BY DEF GrabIndInv, PngRound, Running, In, Reporting
  <1>2. Idle(grab) \in Honests
    BY <1>1, SameHonest
  <1>3. SetError(grab, "warning") \in Honests
    BY <1>1, SetErrorHonest
  <1>4. [grab EXCEPT !.at = "crashed"] \in Honests
    BY <1>1, EndsProgram
  <1>5. ClearError(HandOn(grab)) \in Honests
    BY <1>1, ClearHonest
  <1> QED
    BY <1>2, <1>3, <1>4, <1>5, Zenon DEF PngRound

LEMMA BmpHonest == GrabIndInv /\ BmpRound => grab' \in Honests
  <1> SUFFICES ASSUME GrabIndInv, BmpRound PROVE grab' \in Honests
    OBVIOUS
  <1>1. grab \in Honests /\ grab.kind = "bmp" /\ "bmp" \in Reporting /\ grab \in GrabStates
    BY DEF GrabIndInv, BmpRound, Running, In, Reporting, Honests
  <1>2. Idle(grab) \in Honests
    BY <1>1, SameHonest
  <1>3. SetError(grab, "warning") \in Honests
    BY <1>1, SetErrorHonest
  <1>4. HandOn(grab) \in Honests
    BY <1>1, HandOnHonest
  <1>5. Lose([grab EXCEPT !.last = "error"]) \in Honests
    BY <1>1, SameHonest, SameKind, LoseHonest
  <1>6. ClearError(HandOn([grab EXCEPT !.first = FALSE])) \in Honests
    BY <1>1, SameHonest, ClearHonest
  <1> QED
    BY <1>2, <1>3, <1>4, <1>5, <1>6, Zenon DEF BmpRound

LEMMA FilesystemHonest == GrabIndInv /\ (FilesystemWait \/ FilesystemRead) => grab' \in Honests
  <1> SUFFICES ASSUME GrabIndInv, FilesystemWait \/ FilesystemRead PROVE grab' \in Honests
    OBVIOUS
  <1>1. /\ grab \in Honests /\ grab \in GrabStates /\ grab.kind = "filesystem" /\ grab.at # "ended"
        /\ "filesystem" \notin Reporting
    BY DEF GrabIndInv, FilesystemWait, FilesystemRead, Running, In, Reporting, Honests
  <1> DEFINE g == [grab EXCEPT !.at = "loop"]
             h == [g EXCEPT !.first = FALSE]
  <1>2. grab.error = "none"
    BY <1>1, NoError
  <1>3. g \in Honests /\ [grab EXCEPT !.at = "read"] \in Honests
    BY <1>1, Moved DEF GrabPlaces
  <1>4. g \in GrabStates /\ g.kind = "filesystem" /\ g.error = "none"
    BY <1>1, <1>2, <1>3, SameKind DEF Honests
  <1>5. Idle(grab) \in Honests
    BY <1>1, SameHonest
  <1> HIDE DEF g
  <1>6. Idle(g) \in Honests /\ [g EXCEPT !.last = "error"] \in Honests /\ h \in Honests
    BY <1>3, SameHonest
  <1>7. h.error = "none" /\ h.kind = "filesystem" /\ [g EXCEPT !.last = "error"].kind = "filesystem"
    BY <1>4, SameKind
  <1> HIDE DEF h
  <1>8. HandOn(h) \in Honests
    BY <1>6, <1>7, HandOnHonest
  <1>9. Lose([g EXCEPT !.last = "error"]) \in Honests
    BY <1>6, <1>7, LoseHonest
  <1>10. ThreadEnd(g) \in Honests
    BY <1>3, EndedHonest
  <1>11. CASE FilesystemWait
    BY <1>11, <1>3, <1>5, Zenon DEF FilesystemWait
  <1>12. CASE FilesystemRead
    <2>1. \/ grab' = Idle(g)
          \/ grab' \in {Idle(g), ThreadEnd(g)}
          \/ grab' = Lose([g EXCEPT !.last = "error"])
          \/ grab' = HandOn(h)
      BY <1>12, Zenon DEF FilesystemRead, g, h
    <2> QED
      BY <2>1, <1>6, <1>8, <1>9, <1>10, Zenon
  <1> QED
    BY <1>11, <1>12

-----------------------------------------------------------------------------
(* Sources that have a session, a pipeline or a device.                    *)

LEMMA FfmpegHonest ==
    GrabIndInv /\ (FfmpegOpen \/ FfmpegRead \/ FfmpegFail) => grab' \in Honests
  <1> SUFFICES ASSUME GrabIndInv, FfmpegOpen \/ FfmpegRead \/ FfmpegFail PROVE grab' \in Honests
    OBVIOUS
  <1>1. /\ grab \in Honests /\ grab.kind = "ffmpeg" /\ grab.at # "ended"
        /\ "ffmpeg" \in Reporting
    BY DEF GrabIndInv, FfmpegOpen, FfmpegRead, FfmpegFail, Running, In, Reporting
  <1>2. \A place \in {"loop", "fail", "open"} : [grab EXCEPT !.at = place] \in Honests
    BY <1>1, Moved DEF GrabPlaces
  <1>3. ASSUME NEW e \in {"warning", "critical"}
        PROVE  [SetError(grab, e) EXCEPT !.at = "fail"] \in Honests
    <2> DEFINE g == SetError(grab, e)
    <2>1. g \in Honests /\ g.at # "ended"
      BY <1>1, <1>3, SetErrorHonest
    <2> HIDE DEF g
    <2> QED
      BY <2>1, Moved DEF GrabPlaces, g
  <1>4. CASE FfmpegOpen
    <2>1. \/ grab' = [grab EXCEPT !.at = "loop"]
          \/ \E e \in {"warning", "critical"} : grab' = [SetError(grab, e) EXCEPT !.at = "fail"]
      BY <1>4, Zenon DEF FfmpegOpen
    <2> QED
      BY <2>1, <1>2, <1>3, Zenon
  <1>5. CASE FfmpegRead
    <2>1. ClearError(HandOn(grab)) \in Honests /\ Idle(grab) \in Honests
      BY <1>1, ClearHonest, SameHonest
    <2>2. grab_env.camera \in {"away", "garbage", "pictures"}
      BY DEF GrabIndInv, EnvStates, Cameras
    <2>3. \/ grab' = [grab EXCEPT !.at = "fail"]
          \/ grab' = [SetError(grab, "warning") EXCEPT !.at = "fail"]
          \/ grab' = ClearError(HandOn(grab)) \/ grab' = Idle(grab)
      BY <1>5, <2>2, Zenon DEF FfmpegRead
    <2> QED
      BY <2>1, <2>3, <1>2, <1>3, Zenon
  <1>6. CASE FfmpegFail
    BY <1>6, <1>1, <1>2, EndedHonest, Zenon DEF FfmpegFail, Reopen
  <1> QED
    BY <1>4, <1>5, <1>6

LEMMA GstreamerHonest == GrabIndInv /\ GstreamerRound => grab' \in Honests
  <1> SUFFICES ASSUME GrabIndInv, GstreamerRound PROVE grab' \in Honests
    OBVIOUS
  <1>1. /\ grab \in Honests /\ grab \in GrabStates /\ grab.kind = "gstreamer" /\ grab.at # "ended"
        /\ "gstreamer" \notin Reporting
    BY DEF GrabIndInv, GstreamerRound, Running, In, Reporting, Honests
  <1>2. grab.error = "none"
    BY <1>1, NoError
  <1> DEFINE g == [grab EXCEPT !.at = "eos"]
             h == [grab EXCEPT !.first = FALSE]
  <1>3. g \in Honests /\ h \in Honests
    BY <1>1, Moved, SameHonest DEF GrabPlaces
  <1>4. [grab EXCEPT !.at = "eos", !.last = "error"] = [g EXCEPT !.last = "error"]
    BY <1>1 DEF GrabStates
  <1>5. h.error = "none"
    BY <1>1, <1>2, SameKind
  <1> HIDE DEF g, h
  <1>6. [g EXCEPT !.last = "error"] \in Honests /\ HandOn(h) \in Honests
    BY <1>3, <1>5, SameHonest, HandOnHonest
  <1>7. ThreadEnd(grab) \in Honests
    BY <1>1, EndedHonest
  <1> QED
    BY <1>4, <1>6, <1>7, Zenon DEF GstreamerRound, h

LEMMA V4lHonest == GrabIndInv /\ (V4lOpen \/ V4lRound) => grab' \in Honests
  <1> SUFFICES ASSUME GrabIndInv, V4lOpen \/ V4lRound PROVE grab' \in Honests
    OBVIOUS
  <1>1. /\ grab \in Honests /\ grab \in GrabStates /\ grab.kind = "v4l" /\ grab.at # "ended"
        /\ "v4l" \in Reporting
    BY DEF GrabIndInv, V4lOpen, V4lRound, Running, In, Reporting, Honests
  <1> DEFINE g == SetError(grab, "critical")
  <1>2. g \in Honests
    BY <1>1, SetErrorHonest
  <1>3. ThreadEnd(g) \in Honests
    BY <1>2, EndedHonest
  <1>4. [g EXCEPT !.at = "ended"] \in Honests
    <2>1. [g EXCEPT !.at = "ended"] \in GrabStates
      BY <1>2, GrabFields DEF GrabPlaces, Honests
    <2>2. /\ [g EXCEPT !.at = "ended"].at = "ended"
          /\ [g EXCEPT !.at = "ended"].kind = g.kind
          /\ [g EXCEPT !.at = "ended"].lost = g.lost
      BY <1>2 DEF Honests, GrabStates
    <2> DEFINE h == [g EXCEPT !.at = "ended"]
    <2> HIDE DEF g, h
    <2>3. Honest(h)
      BY <1>2, <2>2 DEF Honests, Honest, h
    <2> QED
      BY <2>1, <2>3 DEF Honests, h
  <1>5. [grab EXCEPT !.at = "loop"] \in Honests
    BY <1>1, Moved DEF GrabPlaces
  <1>6. /\ ClearError(HandOn(grab)) \in Honests /\ Idle(grab) \in Honests
        /\ ClearError([grab EXCEPT !.last = "error"]) \in Honests
    BY <1>1, ClearHonest, SameHonest
  <1>7. CASE V4lOpen
    BY <1>7, <1>3, <1>4, <1>5, Zenon DEF V4lOpen
  <1>8. CASE V4lRound
    BY <1>8, <1>3, <1>6, Zenon DEF V4lRound
  <1> QED
    BY <1>7, <1>8

LEMMA MjpegHonest == GrabIndInv /\ (MjpegFrames \/ MjpegEnd) => grab' \in Honests
  <1> SUFFICES ASSUME GrabIndInv, MjpegFrames \/ MjpegEnd PROVE grab' \in Honests
    OBVIOUS
  <1>1. /\ grab \in Honests /\ grab \in GrabStates /\ grab.kind = "mjpeg"
        /\ "mjpeg" \in Reporting
    BY DEF GrabIndInv, MjpegFrames, MjpegEnd, Running, In, Reporting, Honests
  <1>2. [grab EXCEPT !.first = FALSE] \in Honests /\ [grab EXCEPT !.first = FALSE].kind = "mjpeg"
    BY <1>1, SameHonest, SameKind
  <1>3. HandOn([grab EXCEPT !.first = FALSE]) \in Honests
    BY <1>2, HandOnHonest
  <1>4. ClearError(grab) \in Honests /\ SetError(grab, "warning") \in Honests
    BY <1>1, ClearHonest, SetErrorHonest
  <1>5. ThreadEnd(ClearError(grab)) \in Honests /\ ThreadEnd(SetError(grab, "warning")) \in Honests
    BY <1>4, EndedHonest
  <1> QED
    BY <1>3, <1>4, <1>5, Zenon DEF MjpegFrames, MjpegEnd

LEMMA LibcameraHonest == GrabIndInv /\ (LibcameraOpen \/ LibcameraStart) => grab' \in Honests
  <1> SUFFICES ASSUME GrabIndInv, LibcameraOpen \/ LibcameraStart PROVE grab' \in Honests
    OBVIOUS
  <1>1. grab \in Honests /\ grab.kind = "libcamera" /\ grab.at # "ended"
    BY DEF GrabIndInv, LibcameraOpen, LibcameraStart, In
  <1>2. \A place \in {"start", "loop"} : [grab EXCEPT !.at = place] \in Honests
    BY <1>1, Moved DEF GrabPlaces
  <1>3. \A place \in {"crashed", "exit"} : [grab EXCEPT !.at = place] \in Honests
    BY <1>1, EndsProgram
  <1>4. ThreadEnd(grab) \in Honests
    BY <1>1, EndedHonest
  <1>5. CASE LibcameraOpen
    BY <1>5, <1>2, <1>3, Zenon DEF LibcameraOpen
  <1>6. CASE LibcameraStart
    <2>1. \/ grab' = ThreadEnd(grab)
          \/ \E a \in {"loop", "exit", "crashed"} : grab' = [grab EXCEPT !.at = a]
      BY <1>6, Zenon DEF LibcameraStart
    <2> QED
      BY <2>1, <1>2, <1>3, <1>4, Zenon
  <1> QED
    BY <1>5, <1>6

(* The callback of a library, or of a plugin: these report nothing.        *)
LEMMA CallbackHonest ==
    GrabIndInv /\ (LibcameraFrame \/ GrabPipewire \/ GrabPlugin) => grab' \in Honests
  <1> SUFFICES ASSUME GrabIndInv, LibcameraFrame \/ GrabPipewire \/ GrabPlugin PROVE grab' \in Honests
    OBVIOUS
  <1>1. /\ grab \in Honests /\ grab.kind \notin Reporting /\ grab.at # "ended"
        /\ grab' = HandOn(grab)
    BY DEF GrabIndInv, LibcameraFrame, GrabPipewire, GrabPlugin, Running, In, Reporting
  <1> QED
    BY <1>1, NoError, HandOnHonest

-----------------------------------------------------------------------------
LEMMA GrabIndInvInit == GrabInit => GrabIndInv
  <1> SUFFICES ASSUME GrabInit PROVE GrabIndInv
    OBVIOUS
  <1>1. PICK k \in GrabKinds, r \in BOOLEAN :
          /\ grab = [kind |-> k, resize |-> r, at |-> "open", error |-> "none",
                     fresh |-> FALSE, first |-> TRUE, last |-> "none", lost |-> FALSE]
          /\ grab_env = [camera |-> "away", users |-> FALSE, paused |-> FALSE, stop |-> FALSE]
    BY DEF GrabInit
  <1>2. grab \in GrabStates
    BY <1>1 DEF GrabStates, GrabPlaces
  <1>3. Honest(grab)
    BY <1>1 DEF Honest
  <1>4. grab_env \in EnvStates
    BY <1>1 DEF EnvStates, Cameras
  <1> QED
    BY <1>2, <1>3, <1>4 DEF GrabIndInv, Honests

LEMMA GrabIndInvStep == GrabIndInv /\ [GrabNext]_grabVars => GrabIndInv'
  <1> SUFFICES ASSUME GrabIndInv, [GrabNext]_grabVars PROVE GrabIndInv'
    OBVIOUS
  <1>1. CASE UNCHANGED grabVars
    BY <1>1 DEF grabVars, GrabIndInv
  <1>2. CASE GrabCamera \/ GrabUsers \/ GrabStop
    <2>1. grab' = grab
      BY <1>2 DEF GrabCamera, GrabUsers, GrabStop
    <2>2. grab_env' \in EnvStates
      <3>1. grab_env \in EnvStates
        BY DEF GrabIndInv
      <3>2. CASE GrabCamera
        BY <3>1, <3>2 DEF GrabCamera, EnvStates
      <3>3. CASE GrabUsers
        BY <3>1, <3>3 DEF GrabUsers, EnvStates
      <3>4. CASE GrabStop
        BY <3>1, <3>4 DEF GrabStop, EnvStates
      <3> QED
        BY <1>2, <3>2, <3>3, <3>4
    <2> QED
      BY <2>1, <2>2 DEF GrabIndInv
  <1>3. CASE GrabStep
    <2>1. CASE GrabOpen
      BY <2>1, Moved DEF GrabOpen, GrabIndInv, GrabPlaces
    <2>2. CASE GrabEnd
      BY <2>2, EndedHonest DEF GrabEnd, GrabIndInv
    <2>3. grab' \in Honests
      BY <1>3, <2>1, <2>2, JpegHonest, PngHonest, BmpHonest, FilesystemHonest, FfmpegHonest,
         GstreamerHonest, V4lHonest, MjpegHonest, LibcameraHonest, CallbackHonest
         DEF GrabStep, GrabIndInv
    <2>4. grab_env' = grab_env
      BY <1>3 DEF GrabStep, GrabOpen, GrabEnd, JpegRound, PngRound, BmpRound, FilesystemWait,
         FilesystemRead, FfmpegOpen, FfmpegRead, FfmpegFail, GstreamerRound, V4lOpen, V4lRound,
         MjpegFrames, MjpegEnd, LibcameraOpen, LibcameraStart, LibcameraFrame, GrabPipewire,
         GrabPlugin
    <2> QED
      BY <2>3, <2>4 DEF GrabIndInv
  <1> QED
    BY <1>1, <1>2, <1>3 DEF GrabNext

(* A source that hands on frames reports no error of before, no round      *)
(* loses memory but one whose picture cannot be decoded, and only two      *)
(* kinds of sources bring the program down, whichever kinds there are.     *)
THEOREM GrabInvHolds == GrabSpec => []GrabInv
  <1>1. GrabIndInv => GrabInv
    BY DEF GrabIndInv, Honests, Honest, GrabInv
  <1> QED
    BY <1>1, GrabIndInvInit, GrabIndInvStep, PTL DEF GrabSpec

-----------------------------------------------------------------------------
(***************************************************************************)
(* FrameData: the encodings in a frame, for any number of threads and of   *)
(* frames, and any camera.                                                 *)
(*                                                                         *)
(* All frames are of one shape, a picture in a set of encodings, which     *)
(* each operation on frames keeps; which set it can be says what can be    *)
(* asked for, and of what size the frame is, what fits in memory.          *)
(***************************************************************************)

Encodings == {"jpeg", "rgb", "raw"}
Pictures == [scene : Int, size : Int, filtered : Int, adjusted : Int]

\* A frame whose encodings D are all of picture p.
FrameWith(s, D, p) == [size |-> s, held |-> [e \in D |-> p]]
FramesOfOne == {FrameWith(s, D, p) : s \in Int, D \in SUBSET Encodings, p \in Pictures}

LEMMA FrameFields ==
    ASSUME NEW s, NEW D, NEW p
    PROVE  FrameWith(s, D, p).size = s /\ DOMAIN FrameWith(s, D, p).held = D
BY DEF FrameWith

LEMMA HeldPicture ==
    ASSUME NEW s, NEW D, NEW p, NEW e \in D
    PROVE  FrameWith(s, D, p).held[e] = p
BY DEF FrameWith

LEMMA HasEncoding ==
    ASSUME NEW s, NEW D, NEW p, NEW e
    PROVE  Has(FrameWith(s, D, p), e) <=> e \in D
BY DEF FrameWith, Has

LEMMA HeldReplaced ==
    ASSUME NEW s, NEW D, NEW p, NEW h
    PROVE  [FrameWith(s, D, p) EXCEPT !.held = h] = [size |-> s, held |-> h]
BY DEF FrameWith

LEMMA PutSame ==
    ASSUME NEW s, NEW D, NEW p, NEW e
    PROVE  Put(FrameWith(s, D, p), e, p) = FrameWith(s, D \cup {e}, p)
<1> DEFINE f == FrameWith(s, D, p)
           h == [d \in D \cup {e} |-> IF d = e THEN p ELSE f.held[d]]
<1>1. h = [d \in D \cup {e} |-> p]
    <2>1. \A d \in D : f.held[d] = p
        BY FrameFields, HeldPicture, HasEncoding
    <2> HIDE DEF f
    <2> QED
        BY <2>1
<1>2. Put(f, e, p) = [f EXCEPT !.held = h]
    BY FrameFields DEF Put
<1> HIDE DEF h
<1>3. [f EXCEPT !.held = h] = [size |-> s, held |-> h]
    BY HeldReplaced
<1> QED
    BY <1>1, <1>2, <1>3 DEF FrameWith

LEMMA OnlyRgb ==
    ASSUME NEW s, NEW p
    PROVE  Only(p, s) = FrameWith(s, {"rgb"}, p)
BY DEF Only, FrameWith

LEMMA KeptRgb ==
    ASSUME NEW s, NEW D, NEW p
    PROVE  KeepOnlyRgb(FrameWith(s, D, p)) = FrameWith(s, D \ {"jpeg"}, p)
<1> DEFINE f == FrameWith(s, D, p)
           h == [e \in D \ {"jpeg"} |-> f.held[e]]
<1>1. h = [e \in D \ {"jpeg"} |-> p]
    <2>1. \A e \in D : f.held[e] = p
        BY FrameFields, HeldPicture, HasEncoding
    <2> HIDE DEF f
    <2> QED
        BY <2>1
<1>2. KeepOnlyRgb(f) = [f EXCEPT !.held = h]
    BY FrameFields DEF KeepOnlyRgb
<1> HIDE DEF h
<1>3. [f EXCEPT !.held = h] = [size |-> s, held |-> h]
    BY HeldReplaced
<1> QED
    BY <1>1, <1>2, <1>3 DEF FrameWith

\* What comes of a frame when an encoding is asked for.
AnswerFrames(s, D, p) ==
    {FrameWith(s, d, p) : d \in {D, D \cup {"rgb"}, D \cup {"rgb", "jpeg"}}}
NoData == "no data"
Faults == {"none", NoData, "null"}
AnswersOf(s, D, p) ==
    [frame : AnswerFrames(s, D, p), pic : {p, GrayPicture(s)}, fault : Faults]

LEMMA AnswerMade ==
    ASSUME NEW s, NEW D, NEW p, NEW h \in AnswerFrames(s, D, p),
           NEW a \in {p, GrayPicture(s)}, NEW w \in Faults
    PROVE  /\ Answer(h, a, w) \in AnswersOf(s, D, p)
           /\ Answer(h, a, w).pic = a /\ Answer(h, a, w).fault = w
BY DEF Answer, AnswersOf

LEMMA ConvertedWith ==
    ASSUME NEW s, NEW D \in SUBSET Encodings, NEW p
    PROVE  \E d \in {D, D \cup {"rgb"}} :
              /\ Converted(FrameWith(s, D, p)) = FrameWith(s, d, p)
              /\ "rgb" \in d <=> ("rgb" \in D \/ "raw" \in D)
<1>1. CASE "rgb" \notin D /\ "raw" \in D
    <2>1. ~Has(FrameWith(s, D, p), "rgb") /\ Has(FrameWith(s, D, p), "raw")
        BY <1>1, HeldPicture, HasEncoding
    <2>2. FrameWith(s, D, p).held["raw"] = p
        BY <1>1, HeldPicture, HasEncoding
    <2>3. Converted(FrameWith(s, D, p)) = Put(FrameWith(s, D, p), "rgb", p)
        BY <2>1, <2>2 DEF Converted
    <2> QED
        BY <1>1, <2>3, PutSame
<1>2. CASE ~("rgb" \notin D /\ "raw" \in D)
    <2>1. Converted(FrameWith(s, D, p)) = FrameWith(s, D, p)
        BY <1>2, HasEncoding DEF Converted
    <2> QED
        BY <1>2, <2>1
<1> QED
    BY <1>1, <1>2

\* RGB: the picture, unless there is only a JPEG that cannot be decoded, or nothing.
LEMMA AskRgbWith ==
    ASSUME NEW s, NEW D \in SUBSET Encodings, NEW p
    PROVE  LET a == AskRgb(FrameWith(s, D, p)) IN
           /\ a \in AnswersOf(s, D, p)
           /\ a.pic = p \/ (a.pic = GrayPicture(s) /\ D \subseteq {"jpeg"})
           /\ a.fault # "null" /\ (a.fault = NoData => D = {})
<1> DEFINE f == FrameWith(s, D, p)
<1>1. PICK d \in {D, D \cup {"rgb"}} :
         /\ Converted(f) = FrameWith(s, d, p)
         /\ "rgb" \in d <=> ("rgb" \in D \/ "raw" \in D)
    BY ConvertedWith
<1> DEFINE g == FrameWith(s, d, p)
<1>2. /\ Converted(f) = g /\ g.size = s
      /\ Has(g, "rgb") <=> "rgb" \in d
      /\ Has(g, "jpeg") <=> "jpeg" \in d
      /\ \A e \in d : g.held[e] = p
    BY <1>1, FrameFields, HeldPicture, HasEncoding
<1>3. g \in AnswerFrames(s, D, p) /\ Put(g, "rgb", p) \in AnswerFrames(s, D, p)
    <2>1. Put(g, "rgb", p) = FrameWith(s, d \cup {"rgb"}, p) /\ d \cup {"rgb"} = D \cup {"rgb"}
        BY PutSame
    <2> QED
        BY <2>1 DEF AnswerFrames
<1>4. "rgb" \notin d => D \subseteq {"jpeg"} /\ ("jpeg" \notin d => D = {})
    BY <1>1 DEF Encodings
<1> HIDE DEF f, g
<1>5. "none" \in Faults /\ NoData \in Faults /\ "none" # "null" /\ NoData # "null"
      /\ NoData # "none"
    BY DEF Faults, NoData
<1>6. CASE "rgb" \in d
    <2>1. AskRgb(f) = Answer(g, p, "none")
        BY <1>2, <1>6 DEF AskRgb
    <2> QED
        BY <1>3, <1>5, <2>1, AnswerMade DEF f
<1>7. CASE "rgb" \notin d /\ "jpeg" \notin d
    <2>1. AskRgb(f) = Answer(g, GrayPicture(s), NoData)
        BY <1>2, <1>7 DEF AskRgb, NoData
    <2> QED
        BY <1>3, <1>4, <1>5, <1>7, <2>1, AnswerMade DEF f
<1>8. CASE "rgb" \notin d /\ "jpeg" \in d
    <2>1. \/ AskRgb(f) = Answer(Put(g, "rgb", p), p, "none")
          \/ AskRgb(f) = Answer(g, GrayPicture(s), "none")
        BY <1>2, <1>8 DEF AskRgb
    <2> QED
        BY <1>3, <1>4, <1>5, <1>8, <2>1, AnswerMade DEF f
<1> QED
    BY <1>6, <1>7, <1>8

LEMMA AskRgbFrame ==
    ASSUME NEW s, NEW D \in SUBSET Encodings, NEW p
    PROVE  \E d \in {D, D \cup {"rgb"}} : AskRgb(FrameWith(s, D, p)).frame = FrameWith(s, d, p)
<1> DEFINE f == FrameWith(s, D, p)
<1>1. PICK d \in {D, D \cup {"rgb"}} : Converted(f) = FrameWith(s, d, p)
    BY ConvertedWith
<1> DEFINE g == FrameWith(s, d, p)
<1>2. /\ Converted(f) = g
      /\ Has(g, "jpeg") => g.held["jpeg"] = p
    BY <1>1, HeldPicture, HasEncoding
<1>3. AskRgb(f).frame \in {g, Put(g, "rgb", p)}
    <2> HIDE DEF f, g
    <2> QED
        BY <1>2 DEF AskRgb, Answer
<1>4. Put(g, "rgb", p) = FrameWith(s, d \cup {"rgb"}, p) /\ d \cup {"rgb"} = D \cup {"rgb"}
    BY PutSame
<1> QED
    BY <1>3, <1>4

\* JPEG: the picture, unless there is none and nothing can be encoded.
LEMMA AskJpegWith ==
    ASSUME NEW s, NEW D \in SUBSET Encodings, NEW p, D # {}
    PROVE  LET a == AskJpeg(FrameWith(s, D, p)) IN
           /\ a \in AnswersOf(s, D, p)
           /\ \/ a.pic = p /\ a.fault = "none"
              \/ a.pic = GrayPicture(s) /\ a.fault = "null" /\ ~set_up.encodes
<1> DEFINE f == FrameWith(s, D, p)
<1>1. PICK d \in {D, D \cup {"rgb"}} :
         /\ Converted(f) = FrameWith(s, d, p)
         /\ "rgb" \in d <=> ("rgb" \in D \/ "raw" \in D)
    BY ConvertedWith
<1> DEFINE g == FrameWith(s, d, p)
<1>2. /\ Converted(f) = g /\ g.size = s
      /\ Has(g, "rgb") <=> "rgb" \in d
      /\ Has(f, "jpeg") <=> "jpeg" \in D
      /\ "rgb" \in d => g.held["rgb"] = p
      /\ "jpeg" \in D => f.held["jpeg"] = p
    BY <1>1, FrameFields, HeldPicture, HasEncoding
<1>3. /\ g \in AnswerFrames(s, D, p) /\ f \in AnswerFrames(s, D, p)
      /\ "rgb" \in d => Put(g, "jpeg", p) \in AnswerFrames(s, D, p)
    <2>1. Put(g, "jpeg", p) = FrameWith(s, d \cup {"jpeg"}, p)
        BY PutSame
    <2>2. "rgb" \in d => d \cup {"jpeg"} = D \cup {"rgb", "jpeg"}
        OBVIOUS
    <2> QED
        BY <2>1, <2>2 DEF AnswerFrames
<1>4. "jpeg" \notin D => "rgb" \in d
    BY <1>1 DEF Encodings
<1> HIDE DEF f, g
<1>5. "none" \in Faults /\ "null" \in Faults
    BY DEF Faults
<1>6. CASE "jpeg" \in D
    <2>1. AskJpeg(f) = Answer(f, p, "none")
        BY <1>2, <1>6 DEF AskJpeg
    <2> QED
        BY <1>3, <1>5, <2>1, AnswerMade DEF f
<1>7. CASE "jpeg" \notin D /\ set_up.encodes
    <2>1. AskJpeg(f) = Answer(Put(g, "jpeg", p), p, "none")
        BY <1>2, <1>4, <1>7 DEF AskJpeg
    <2> QED
        BY <1>3, <1>4, <1>5, <1>7, <2>1, AnswerMade DEF f
<1>8. CASE "jpeg" \notin D /\ ~set_up.encodes
    <2>1. AskJpeg(f) = Answer(g, GrayPicture(s), "null")
        BY <1>2, <1>4, <1>8 DEF AskJpeg
    <2> QED
        BY <1>3, <1>5, <1>8, <2>1, AnswerMade DEF f
<1> QED
    BY <1>6, <1>7, <1>8

\* The pictures, and how often they were filtered and adjusted.
Counted(b) == IF b THEN 1 ELSE 0
IsPicture(p, filtered, adjusted) == p \in Pictures /\ p.filtered = filtered /\ p.adjusted = adjusted

LEMMA PicturesChanged ==
    ASSUME NEW p \in Pictures, NEW filters \in BOOLEAN, NEW controls \in BOOLEAN
    PROVE  LET q == IF filters THEN FilteredOnce(p) ELSE p
               r == IF controls THEN Adjusted(q) ELSE q
           IN /\ IsPicture(r, p.filtered + Counted(filters), p.adjusted + Counted(controls))
              /\ r.scene = p.scene
BY DEF Pictures, FilteredOnce, Adjusted, Counted, IsPicture

LEMMA GrayIsPicture ==
    ASSUME NEW s \in Int
    PROVE  IsPicture(GrayPicture(s), 0, 0) /\ GrayPicture(s).scene = 0
BY DEF GrayPicture, Pictures, IsPicture

LEMMA AnswersAreFrames ==
    ASSUME NEW s \in Int, NEW D \in SUBSET Encodings, NEW p \in Pictures,
           NEW a \in AnswersOf(s, D, p)
    PROVE  a.frame \in FramesOfOne /\ a.pic \in Pictures /\ a.fault \in Faults
<1>1. a.frame \in AnswerFrames(s, D, p) /\ a.pic \in {p, GrayPicture(s)} /\ a.fault \in Faults
    BY DEF AnswersOf
<1>2. AnswerFrames(s, D, p) \subseteq FramesOfOne
    BY DEF AnswerFrames, FramesOfOne, Encodings
<1> QED
    BY <1>1, <1>2, GrayIsPicture DEF IsPicture

\* A picture of scene got, or gray in place of a JPEG.
Fits(u, p, got, filtered, adjusted) ==
    /\ p \in Pictures
    /\ \/ p.scene \in {got, Unreadable} /\ p.filtered = filtered /\ p.adjusted = adjusted
       \/ p.scene = 0 /\ u.camera = "jpeg"

\* A frame that a thread has taken; in which it can be without RGB.
TakenFrame(u, w, f, filtered) ==
    \E s \in Int, D \in SUBSET Encodings, p \in Pictures :
       /\ f = FrameWith(s, D, p) /\ D # {}
       /\ Fits(u, p, w.got, filtered, Counted(u.controls))
       /\ "jpeg" \in D => u.camera = "jpeg"
       /\ D \subseteq {"jpeg"} => w.plain
CopiedFrame(u, w) ==
    \E s \in Int, p \in Pictures :
       /\ w.frame = FrameWith(s, {"rgb"}, p) /\ Fits(u, p, w.got, 0, 0)
       /\ u.varied \/ s = u.size

\* What a thread was given: FrameSound, of its record.
Twice(w) == IF w.own /\ w.kind = "delayed" THEN 2 ELSE 0
AnswerFits(u, w, a) ==
    /\ a.frame \in FramesOfOne /\ a.pic \in Pictures /\ a.fault \in Faults
    /\ a.fault = NoData => w.kind = "trigger" /\ w.plain /\ u.camera = "jpeg"
    /\ a.fault = "null" => ~u.encodes
    /\ \/ Fits(u, a.pic, w.got, Counted(u.filters) + Counted(w.own),
               Counted(u.controls) + Twice(w))
       \/ a.pic.scene = 0 /\ ~u.encodes

TakerPlaces == {"out", "filtering", "taken"}
TakerRecords ==
    [kind : TakerKinds, own : BOOLEAN, at : TakerPlaces, frame : FramesOfOne, got : Int,
     plain : BOOLEAN, shows : Pictures, fault : Faults]
SetUps ==
    [camera : Encodings, filters : BOOLEAN, controls : BOOLEAN, encodes : BOOLEAN, prev : Int,
     size : Int, scenes : Int, varied : BOOLEAN, overflow : BOOLEAN]

TakerInv(u, w) ==
    /\ w.at = "filtering" => w.got # 0 /\ CopiedFrame(u, w)
    /\ w.at = "taken" => w.got # 0 /\ TakenFrame(u, w, w.frame, Counted(u.filters))
    /\ w.at = "out" /\ w.got # 0 =>
          AnswerFits(u, w, [frame |-> w.frame, pic |-> w.shows, fault |-> w.fault])

StoredNone ==
    /\ stored = NoFrameYet /\ set_up.scenes = 0 /\ set_up.size = 0 /\ set_up.prev = 0
    /\ \A t \in Takers : taker[t].at = "out" /\ taker[t].got = 0
StoredOne ==
    /\ set_up.scenes > 0 /\ set_up.size # 0
    /\ \E s \in Int, D \in SUBSET Encodings, p \in Pictures :
          /\ stored = FrameWith(s, D, p)
          /\ set_up.camera \in D /\ D \subseteq {set_up.camera, "rgb"}
          /\ p.scene \in {set_up.scenes, Unreadable} /\ p.filtered = 0 /\ p.adjusted = 0
          /\ set_up.varied \/ s = set_up.size

FrameInv ==
    /\ set_up \in SetUps /\ taker \in [Takers -> TakerRecords]
    /\ StoredNone \/ StoredOne
    /\ \A t \in Takers : TakerInv(set_up, taker[t])
    /\ set_up.varied \/ (~set_up.overflow /\ set_up.prev \in {0, set_up.size})

LEMMA PicturesFit ==
    ASSUME NEW p, NEW got, NEW n \in Int, NEW m \in Int, Fits(set_up, p, got, n, m)
    PROVE  Fits(set_up, FilteredOnce(p), got, n + 1, m) /\ Fits(set_up, Adjusted(p), got, n, m + 1)
<1>1. p \in Pictures
    BY DEF Fits
<1> DEFINE q == FilteredOnce(p)
           r == Adjusted(p)
<1>2. /\ q \in Pictures /\ q.scene = p.scene /\ q.filtered = p.filtered + 1
      /\ q.adjusted = p.adjusted
      /\ r \in Pictures /\ r.scene = p.scene /\ r.filtered = p.filtered
      /\ r.adjusted = p.adjusted + 1
    BY <1>1 DEF FilteredOnce, Adjusted, Pictures
<1> HIDE DEF q, r
<1>3. Fits(set_up, q, got, n + 1, m) /\ Fits(set_up, r, got, n, m + 1)
    BY <1>2 DEF Fits
<1> QED
    BY <1>3 DEF q, r

LEMMA PutOnly ==
    ASSUME NEW s, NEW p, NEW q
    PROVE  Put(FrameWith(s, {"rgb"}, p), "rgb", q) = FrameWith(s, {"rgb"}, q)
<1> DEFINE f == FrameWith(s, {"rgb"}, p)
           h == [d \in {"rgb"} \cup {"rgb"} |-> IF d = "rgb" THEN q ELSE f.held[d]]
<1>1. h = [d \in {"rgb"} |-> q]
    OBVIOUS
<1>2. Put(f, "rgb", q) = [f EXCEPT !.held = h]
    BY FrameFields DEF Put
<1> HIDE DEF h
<1>3. [f EXCEPT !.held = h] = [size |-> s, held |-> h]
    BY HeldReplaced
<1> QED
    BY <1>1, <1>2, <1>3 DEF FrameWith

\* RGB of a frame that was taken.
LEMMA RgbTaken ==
    ASSUME NEW w, NEW f, NEW n \in Int, TakenFrame(set_up, w, f, n)
    PROVE  \E s \in Int :
              /\ f.size = s
              /\ Fits(set_up, AskRgb(f).pic, w.got, n, Counted(set_up.controls))
              /\ AskRgb(f).frame \in FramesOfOne /\ AskRgb(f).fault = "none"
<1>1. PICK s \in Int, D \in SUBSET Encodings, p \in Pictures :
         /\ f = FrameWith(s, D, p) /\ D # {}
         /\ Fits(set_up, p, w.got, n, Counted(set_up.controls))
         /\ "jpeg" \in D => set_up.camera = "jpeg"
    BY DEF TakenFrame
<1>2. /\ AskRgb(f) \in AnswersOf(s, D, p) /\ f.size = s
      /\ AskRgb(f).pic = p \/ (AskRgb(f).pic = GrayPicture(s) /\ D \subseteq {"jpeg"})
      /\ AskRgb(f).fault # "null" /\ AskRgb(f).fault # NoData
    BY <1>1, AskRgbWith, FrameFields
<1>3. AskRgb(f).frame \in FramesOfOne /\ AskRgb(f).fault = "none"
    BY <1>2, AnswersAreFrames DEF Faults
<1>4. D \subseteq {"jpeg"} => Fits(set_up, GrayPicture(s), w.got, n, Counted(set_up.controls))
    <2>1. D \subseteq {"jpeg"} => set_up.camera = "jpeg"
        BY <1>1
    <2>2. GrayPicture(s) \in Pictures /\ GrayPicture(s).scene = 0
        BY GrayIsPicture DEF IsPicture
    <2> QED
        BY <2>1, <2>2 DEF Fits
<1> QED
    BY <1>1, <1>2, <1>3, <1>4

\* The frame after the filters of its thread.
LEMMA FilteredFits ==
    ASSUME NEW w, NEW f, NEW n \in Int, TakenFrame(set_up, w, f, n)
    PROVE  TakenFrame(set_up, w, ApplyFiltering(f, TRUE, FALSE), n + 1)
<1>1. PICK s \in Int :
         /\ f.size = s
         /\ Fits(set_up, AskRgb(f).pic, w.got, n, Counted(set_up.controls))
    BY RgbTaken
<1> DEFINE p == FilteredOnce(AskRgb(f).pic)
<1>2. ApplyFiltering(f, TRUE, FALSE) = FrameWith(s, {"rgb"}, p)
    BY <1>1, OnlyRgb DEF ApplyFiltering
<1>3. Fits(set_up, p, w.got, n + 1, Counted(set_up.controls))
    BY <1>1, PicturesFit DEF Counted
<1>4. /\ {"rgb"} \in SUBSET Encodings /\ {"rgb"} # {} /\ "jpeg" \notin {"rgb"}
      /\ ~({"rgb"} \subseteq {"jpeg"}) /\ p \in Pictures
    BY <1>3 DEF Encodings, Fits
<1> HIDE DEF p
<1> QED
    BY <1>2, <1>3, <1>4 DEF TakenFrame

LEMMA OwnTaken ==
    ASSUME NEW t \in Takers, taker[t].own \in BOOLEAN,
           TakenFrame(set_up, taker[t], taker[t].frame, Counted(set_up.filters))
    PROVE  TakenFrame(set_up, taker[t], OwnFrame(t),
                      Counted(set_up.filters) + Counted(taker[t].own))
<1>1. Counted(set_up.filters) \in Int /\ Counted(TRUE) = 1 /\ Counted(FALSE) = 0
    BY DEF Counted
<1>2. CASE taker[t].own
    <2>1. OwnFrame(t) = ApplyFiltering(taker[t].frame, TRUE, FALSE)
        BY <1>2 DEF OwnFrame
    <2> QED
        BY <1>1, <1>2, <2>1, FilteredFits
<1>3. CASE ~taker[t].own
    <2>1. OwnFrame(t) = taker[t].frame
        BY <1>3 DEF OwnFrame
    <2>2. Counted(set_up.filters) + Counted(taker[t].own) = Counted(set_up.filters)
        BY <1>3 DEF Counted
    <2> QED
        BY <2>1, <2>2
<1> QED
    BY <1>2, <1>3

\* JPEG of a frame, for a viewer, and RGB, for a recorder.
LEMMA JpegFits ==
    ASSUME NEW w, NEW s \in Int, NEW D \in SUBSET Encodings, NEW p, D # {},
           Fits(set_up, p, w.got, Counted(set_up.filters) + Counted(w.own),
                Counted(set_up.controls) + Twice(w))
    PROVE  AnswerFits(set_up, w, AskJpeg(FrameWith(s, D, p)))
<1> DEFINE a == AskJpeg(FrameWith(s, D, p))
<1>1. /\ a \in AnswersOf(s, D, p)
      /\ \/ a.pic = p /\ a.fault = "none"
         \/ a.pic = GrayPicture(s) /\ a.fault = "null" /\ ~set_up.encodes
    BY AskJpegWith
<1>2. a.frame \in FramesOfOne /\ a.pic \in Pictures /\ a.fault \in Faults
    BY <1>1, AnswersAreFrames DEF Fits
<1>3. GrayPicture(s).scene = 0 /\ "none" # "null" /\ "none" # NoData /\ "null" # NoData
    BY GrayIsPicture DEF NoData
<1> HIDE DEF a
<1>4. AnswerFits(set_up, w, a)
    BY <1>1, <1>2, <1>3 DEF AnswerFits
<1> QED
    BY <1>4 DEF a

LEMMA ViewerFits ==
    ASSUME FrameInv, NEW t \in Takers,
           Viewer(t) \/ Recorder(t) \/ Trigger(t) \/ Turned(t) \/ Delayed(t)
    PROVE  taker[t].at = "taken" /\ \E a : AnswerFits(set_up, taker[t], a) /\ ShownTo(t, a)
<1> DEFINE w == taker[t]
           n == Counted(set_up.filters) + Counted(w.own)
           m == Counted(set_up.controls)
           f == OwnFrame(t)
<1>1. taker[t].at = "taken"
    BY DEF Viewer, Recorder, Trigger, Turned, Delayed, HasTaken
<1>2. /\ w.own \in BOOLEAN /\ set_up.filters \in BOOLEAN /\ set_up.controls \in BOOLEAN
      /\ TakenFrame(set_up, w, w.frame, Counted(set_up.filters))
    BY <1>1 DEF FrameInv, TakerRecords, SetUps, TakerInv
<1>3. n \in Int /\ m \in Int /\ Counted(set_up.filters) \in Int /\ m + 0 = m
    BY <1>2 DEF Counted
<1>4. TakenFrame(set_up, w, f, n)
    BY <1>2, OwnTaken
<1>5. PICK s \in Int, D \in SUBSET Encodings, p \in Pictures :
         /\ f = FrameWith(s, D, p) /\ D # {}
         /\ Fits(set_up, p, w.got, n, m)
         /\ "jpeg" \in D => set_up.camera = "jpeg"
         /\ D \subseteq {"jpeg"} => w.plain
    BY <1>4 DEF TakenFrame
<1>6. /\ f.size = s /\ Fits(set_up, AskRgb(f).pic, w.got, n, m)
      /\ AskRgb(f).frame \in FramesOfOne /\ AskRgb(f).fault = "none"
    <2>1. f.size = s
        BY <1>5, FrameFields
    <2>2. \E r \in Int : /\ f.size = r /\ Fits(set_up, AskRgb(f).pic, w.got, n, m)
                         /\ AskRgb(f).frame \in FramesOfOne /\ AskRgb(f).fault = "none"
        BY <1>3, <1>4, RgbTaken
    <2> QED
        BY <2>1, <2>2
<1>7. CASE Viewer(t)
    <2>1. ShownTo(t, AskJpeg(f)) /\ Twice(w) = 0
        BY <1>7 DEF Viewer, HasTaken, Twice
    <2>2. AnswerFits(set_up, w, AskJpeg(f))
        BY <1>3, <1>5, <2>1, JpegFits
    <2> QED
        BY <1>1, <2>1, <2>2
<1>8. CASE Recorder(t)
    <2>1. ShownTo(t, AskRgb(f)) /\ Twice(w) = 0
        BY <1>8 DEF Recorder, HasTaken, Twice
    <2>2. "none" \in Faults /\ "none" # NoData /\ "none" # "null"
        BY DEF Faults, NoData
    <2>3. AskRgb(f).pic \in Pictures
        BY <1>6 DEF Fits
    <2>4. AnswerFits(set_up, w, AskRgb(f))
        BY <1>3, <1>6, <2>1, <2>2, <2>3 DEF AnswerFits
    <2> QED
        BY <1>1, <2>1, <2>4
<1>9. CASE Trigger(t)
    <2> DEFINE g == FrameWith(s, D \ {"jpeg"}, p)
               a == AskRgb(g)
    <2>1. KeepOnlyRgb(f) = g
        BY <1>5, KeptRgb
    <2>2. ShownTo(t, a) /\ Twice(w) = 0 /\ w.kind = "trigger"
        BY <1>9, <2>1 DEF Trigger, HasTaken, Twice
    <2>3. /\ a \in AnswersOf(s, D \ {"jpeg"}, p)
          /\ a.pic = p \/ (a.pic = GrayPicture(s) /\ D \ {"jpeg"} \subseteq {"jpeg"})
          /\ a.fault # "null" /\ (a.fault = NoData => D \ {"jpeg"} = {})
        BY AskRgbWith
    <2>4. a.frame \in FramesOfOne /\ a.pic \in Pictures /\ a.fault \in Faults
        BY <2>3, AnswersAreFrames
    <2>5. D \ {"jpeg"} \subseteq {"jpeg"} => w.plain /\ set_up.camera = "jpeg"
        BY <1>5
    <2>6. GrayPicture(s).scene = 0
        BY GrayIsPicture
    <2>7. Fits(set_up, a.pic, w.got, n, m + Twice(w))
        <3>1. CASE a.pic = p
            BY <1>3, <1>5, <2>2, <3>1
        <3>2. CASE a.pic # p
            BY <2>3, <2>4, <2>5, <2>6, <3>2 DEF Fits
        <3> QED
            BY <3>1, <3>2
    <2> HIDE DEF a
    <2>8. AnswerFits(set_up, w, a)
        BY <2>2, <2>3, <2>4, <2>5, <2>7 DEF AnswerFits
    <2> QED
        BY <1>1, <2>2, <2>8
<1>10. CASE Turned(t)
    <2> DEFINE q == AskRgb(f).pic
    <2>1. RgbOf(f) = FrameWith(s, {"rgb"}, q)
        BY <1>6, OnlyRgb DEF RgbOf
    <2>2. ShownTo(t, AskJpeg(FrameWith(s, {"rgb"}, q))) /\ Twice(w) = 0
        BY <1>10, <2>1 DEF Turned, HasTaken, Twice
    <2>3. {"rgb"} \in SUBSET Encodings /\ {"rgb"} # {}
        BY DEF Encodings
    <2>4. AnswerFits(set_up, w, AskJpeg(FrameWith(s, {"rgb"}, q)))
        BY <1>3, <1>6, <2>2, <2>3, JpegFits
    <2> QED
        BY <1>1, <2>2, <2>4
<1>11. CASE Delayed(t) /\ ~w.own
    <2>1. ShownTo(t, AskJpeg(f)) /\ Twice(w) = 0
        BY <1>11 DEF Delayed, HasTaken, Twice, OwnFrame
    <2>2. AnswerFits(set_up, w, AskJpeg(f))
        BY <1>3, <1>5, <2>1, JpegFits
    <2> QED
        BY <1>1, <2>1, <2>2
<1>12. CASE Delayed(t) /\ w.own
    <2>1. \E r \in Int :
             /\ w.frame.size = r
             /\ Fits(set_up, AskRgb(w.frame).pic, w.got, Counted(set_up.filters), m)
        BY <1>2, <1>3, RgbTaken
    <2>2. PICK r \in Int :
             /\ w.frame.size = r
             /\ Fits(set_up, AskRgb(w.frame).pic, w.got, Counted(set_up.filters), m)
        BY <2>1
    <2> DEFINE q == Adjusted(FilteredOnce(AskRgb(w.frame).pic))
               z == Adjusted(q)
    <2>3. ApplyFiltering(w.frame, TRUE, TRUE) = FrameWith(r, {"rgb"}, q)
        BY <2>2, OnlyRgb DEF ApplyFiltering
    <2>4. Fits(set_up, q, w.got, n, m + 1)
        <3>1. Fits(set_up, FilteredOnce(AskRgb(w.frame).pic), w.got, Counted(set_up.filters) + 1, m)
            BY <1>3, <2>2, PicturesFit
        <3>2. n = Counted(set_up.filters) + 1
            BY <1>12 DEF Counted
        <3> QED
            BY <1>3, <3>1, <3>2, PicturesFit
    <2> HIDE DEF q
    <2>5. Fits(set_up, z, w.got, n, m + Twice(w))
        <3>1. Twice(w) = 2
            BY <1>12 DEF Twice, Delayed, HasTaken
        <3>2. m + 1 \in Int /\ (m + 1) + 1 = m + Twice(w)
            BY <1>3, <3>1
        <3>3. Fits(set_up, z, w.got, n, (m + 1) + 1)
            BY <1>3, <2>4, <3>2, PicturesFit
        <3> QED
            BY <3>2, <3>3
    <2> HIDE DEF z
    <2>6. KeepOnlyRgb(Put(FrameWith(r, {"rgb"}, q), "rgb", z)) = FrameWith(r, {"rgb"}, z)
        <3>1. Put(FrameWith(r, {"rgb"}, q), "rgb", z) = FrameWith(r, {"rgb"}, z)
            BY PutOnly
        <3>2. KeepOnlyRgb(FrameWith(r, {"rgb"}, z)) = FrameWith(r, {"rgb"} \ {"jpeg"}, z)
            BY KeptRgb
        <3>3. {"rgb"} \ {"jpeg"} = {"rgb"}
            OBVIOUS
        <3> QED
            BY <3>1, <3>2, <3>3
    <2>7. FrameWith(r, {"rgb"}, q).held["rgb"] = q
        BY HeldPicture
    <2>8. ShownTo(t, AskJpeg(FrameWith(r, {"rgb"}, z)))
        BY <1>12, <2>3, <2>6, <2>7 DEF Delayed, z
    <2>9. {"rgb"} \in SUBSET Encodings /\ {"rgb"} # {}
        BY DEF Encodings
    <2>10. AnswerFits(set_up, w, AskJpeg(FrameWith(r, {"rgb"}, z)))
        BY <1>3, <2>5, <2>9, JpegFits
    <2> QED
        BY <1>1, <2>8, <2>10
<1> QED
    BY <1>7, <1>8, <1>9, <1>10, <1>11, <1>12

-----------------------------------------------------------------------------
SameSetUp(u, v) ==
    /\ v.camera = u.camera /\ v.filters = u.filters
    /\ v.controls = u.controls /\ v.encodes = u.encodes

\* What holds of a thread goes on to hold when the source changes nothing but its
\* scene, and its size only when the pictures vary.
LEMMA ThreadGoesOn ==
    ASSUME NEW u, NEW v, NEW w, TakerInv(u, w), SameSetUp(u, v),
           w.at = "filtering" => v.varied \/ (~u.varied /\ v.size = u.size)
    PROVE  TakerInv(v, w)
<1>1. \A p, got, n, m : Fits(u, p, got, n, m) => Fits(v, p, got, n, m)
    BY DEF Fits, SameSetUp
<1>2. Counted(v.filters) = Counted(u.filters) /\ Counted(v.controls) = Counted(u.controls)
    BY DEF SameSetUp
<1>3. w.at = "filtering" /\ CopiedFrame(u, w) => CopiedFrame(v, w)
    BY <1>1 DEF CopiedFrame
<1>4. ASSUME NEW n, TakenFrame(u, w, w.frame, n) PROVE TakenFrame(v, w, w.frame, n)
    BY <1>1, <1>2, <1>4 DEF TakenFrame, SameSetUp
<1>5. ASSUME NEW a, AnswerFits(u, w, a) PROVE AnswerFits(v, w, a)
    BY <1>1, <1>2, <1>5 DEF AnswerFits, SameSetUp
<1>6. TakenFrame(u, w, w.frame, Counted(u.filters)) => TakenFrame(v, w, w.frame, Counted(v.filters))
    BY <1>2, <1>4
<1> QED
    BY <1>3, <1>5, <1>6 DEF TakerInv

LEMMA ThreadsGoOn ==
    ASSUME FrameInv, NEW t \in Takers, NEW e \in TakerRecords,
           taker' = [taker EXCEPT ![t] = e], TakerInv(set_up', e), SameSetUp(set_up, set_up'),
           set_up'.varied = set_up.varied, set_up'.size = set_up.size
    PROVE  taker' \in [Takers -> TakerRecords] /\ \A d \in Takers : TakerInv(set_up', taker'[d])
<1>1. set_up.varied \in BOOLEAN /\ taker \in [Takers -> TakerRecords]
    BY DEF FrameInv, SetUps
<1>2. taker' \in [Takers -> TakerRecords]
    BY <1>1
<1>3. ASSUME NEW d \in Takers PROVE TakerInv(set_up', taker'[d])
    <2>1. CASE d = t
        BY <1>1, <2>1
    <2>2. CASE d # t
        <3>1. taker'[d] = taker[d] /\ TakerInv(set_up, taker[d])
            BY <1>1, <2>2 DEF FrameInv
        <3>2. TakerInv(set_up', taker[d])
            BY <1>1, <3>1, ThreadGoesOn
        <3> QED
            BY <3>1, <3>2
    <2> QED
        BY <2>1, <2>2
<1> QED
    BY <1>2, <1>3

LEMMA SameIsSame ==
    ASSUME NEW u
    PROVE  SameSetUp(u, u)
BY DEF SameSetUp

LEMMA ShownInv ==
    ASSUME FrameInv, NEW t \in Takers, taker[t].at = "taken",
           NEW a, AnswerFits(set_up, taker[t], a), ShownTo(t, a)
    PROVE  FrameInv'
<1> DEFINE w == taker[t]
           e == [w EXCEPT !.at = "out", !.frame = a.frame, !.shows = a.pic, !.fault = a.fault]
           b == [frame |-> e.frame, pic |-> e.shows, fault |-> e.fault]
<1>1. w \in TakerRecords /\ taker \in [Takers -> TakerRecords]
    BY DEF FrameInv
<1>2. a.frame \in FramesOfOne /\ a.pic \in Pictures /\ a.fault \in Faults
    BY DEF AnswerFits
<1>3. taker' = [taker EXCEPT ![t] = e] /\ set_up' = set_up /\ stored' = stored
    BY <1>1 DEF ShownTo
<1>4. /\ e \in TakerRecords /\ e.at = "out" /\ e.frame = a.frame /\ e.got = w.got
      /\ e.plain = w.plain /\ e.own = w.own /\ e.kind = w.kind /\ e.shows = a.pic
      /\ e.fault = a.fault
    <2> HIDE DEF w
    <2> QED
        BY <1>1, <1>2 DEF TakerRecords, TakerPlaces
<1> HIDE DEF e
<1>5. b.frame = a.frame /\ b.pic = a.pic /\ b.fault = a.fault
    BY <1>4
<1> HIDE DEF b
<1>6. AnswerFits(set_up, e, b)
    BY <1>4, <1>5 DEF AnswerFits, Twice
<1>7. TakerInv(set_up, e)
    BY <1>4, <1>6 DEF TakerInv, b
<1>8. taker' \in [Takers -> TakerRecords] /\ \A d \in Takers : TakerInv(set_up', taker'[d])
    BY <1>3, <1>4, <1>7, ThreadsGoOn, SameIsSame
<1>9. StoredOne
    <2>1. ~StoredNone
        BY DEF StoredNone
    <2> QED
        BY <2>1 DEF FrameInv
<1> QED
    BY <1>3, <1>8, <1>9 DEF FrameInv, StoredOne

LEMMA TakePlainInv ==
    ASSUME FrameInv, NEW t \in Takers, TakePlain(t)
    PROVE  FrameInv'
<1> DEFINE w == taker[t]
           plain == ~Has(stored, "rgb")
           e == [w EXCEPT !.at = "taken", !.frame = stored, !.got = set_up.scenes, !.plain = plain]
<1>1. /\ w \in TakerRecords /\ taker \in [Takers -> TakerRecords] /\ set_up \in SetUps
      /\ StoredOne
    BY DEF FrameInv, TakePlain, StoredNone
<1>2. PICK s \in Int, D \in SUBSET Encodings, p \in Pictures :
         /\ stored = FrameWith(s, D, p)
         /\ set_up.camera \in D /\ D \subseteq {set_up.camera, "rgb"}
         /\ p.scene \in {set_up.scenes, Unreadable} /\ p.filtered = 0 /\ p.adjusted = 0
    BY <1>1 DEF StoredOne
<1>3. stored \in FramesOfOne /\ (plain <=> "rgb" \notin D)
    BY <1>2, HasEncoding DEF FramesOfOne
<1>4. taker' = [taker EXCEPT ![t] = e] /\ set_up' = set_up /\ stored' = stored
    BY <1>1 DEF TakePlain
<1>5. /\ e \in TakerRecords /\ e.at = "taken" /\ e.frame = stored /\ e.got = set_up.scenes
      /\ e.plain = plain
    <2>1. plain \in BOOLEAN /\ set_up.scenes \in Int
        BY <1>1 DEF SetUps
    <2> HIDE DEF w, plain
    <2> QED
        BY <1>1, <1>3, <2>1 DEF TakerRecords, TakerPlaces
<1> HIDE DEF e, plain
<1>6. Counted(set_up.filters) = 0 /\ Counted(set_up.controls) = 0
    BY DEF Counted, TakePlain
<1>7. Fits(set_up, p, e.got, Counted(set_up.filters), Counted(set_up.controls))
    BY <1>2, <1>5, <1>6 DEF Fits
<1>8. /\ D # {} /\ "jpeg" \in D => set_up.camera = "jpeg"
      /\ D \subseteq {"jpeg"} => e.plain
    BY <1>2, <1>3, <1>5
<1>9. TakerInv(set_up, e)
    <2>1. TakenFrame(set_up, e, e.frame, Counted(set_up.filters))
        BY <1>2, <1>5, <1>7, <1>8 DEF TakenFrame
    <2>2. e.got # 0
        BY <1>1, <1>5 DEF StoredOne, SetUps
    <2> QED
        BY <1>5, <2>1, <2>2 DEF TakerInv
<1>10. taker' \in [Takers -> TakerRecords] /\ \A d \in Takers : TakerInv(set_up', taker'[d])
    BY <1>4, <1>5, <1>9, ThreadsGoOn, SameIsSame
<1> QED
    BY <1>1, <1>4, <1>10 DEF FrameInv, StoredOne

LEMMA TakeCopyInv ==
    ASSUME FrameInv, NEW t \in Takers, TakeCopy(t)
    PROVE  FrameInv'
<1> DEFINE w == taker[t]
           q == AskRgb(stored).pic
           f == Only(q, stored.size)
           e == [w EXCEPT !.at = "filtering", !.frame = f, !.got = set_up.scenes, !.plain = FALSE]
<1>1. /\ w \in TakerRecords /\ taker \in [Takers -> TakerRecords] /\ set_up \in SetUps
      /\ StoredOne
    BY DEF FrameInv, TakeCopy, StoredNone
<1>2. PICK s \in Int, D \in SUBSET Encodings, p \in Pictures :
         /\ stored = FrameWith(s, D, p)
         /\ set_up.camera \in D /\ D \subseteq {set_up.camera, "rgb"}
         /\ p.scene \in {set_up.scenes, Unreadable} /\ p.filtered = 0 /\ p.adjusted = 0
         /\ set_up.varied \/ s = set_up.size
    BY <1>1 DEF StoredOne
<1>3. q = p \/ (q = GrayPicture(s) /\ D \subseteq {"jpeg"})
    BY <1>2, AskRgbWith
<1>4. /\ q \in Pictures
      /\ Fits(set_up, q, set_up.scenes, 0, 0)
    <2>1. GrayPicture(s) \in Pictures /\ GrayPicture(s).scene = 0
        BY GrayIsPicture DEF IsPicture
    <2>2. q \in Pictures
        BY <1>3, <2>1
    <2>3. q # p => set_up.camera = "jpeg" /\ q.scene = 0
        BY <1>2, <1>3, <2>1
    <2> HIDE DEF q
    <2> QED
        BY <1>2, <2>2, <2>3 DEF Fits
<1>5. f = FrameWith(s, {"rgb"}, q) /\ f \in FramesOfOne
    <2>1. f = FrameWith(s, {"rgb"}, q) /\ {"rgb"} \in SUBSET Encodings
        BY <1>2, FrameFields, OnlyRgb DEF Encodings
    <2> HIDE DEF f, q
    <2> QED
        BY <1>4, <2>1 DEF FramesOfOne
<1>6. PICK d \in {D, D \cup {"rgb"}} : stored' = FrameWith(s, d, p)
    BY <1>2, AskRgbFrame DEF TakeCopy
<1>7. taker' = [taker EXCEPT ![t] = e] /\ set_up' = set_up
    BY <1>1 DEF TakeCopy
<1>8. /\ e \in TakerRecords /\ e.at = "filtering" /\ e.frame = f /\ e.got = set_up.scenes
    <2>1. set_up.scenes \in Int
        BY <1>1 DEF SetUps
    <2> HIDE DEF w, f
    <2> QED
        BY <1>1, <1>5, <2>1 DEF TakerRecords, TakerPlaces
<1> HIDE DEF e, f, q
<1>9. TakerInv(set_up, e)
    <2>1. CopiedFrame(set_up, e)
        BY <1>2, <1>4, <1>5, <1>8 DEF CopiedFrame
    <2>2. e.got # 0
        BY <1>1, <1>8 DEF StoredOne, SetUps
    <2> QED
        BY <1>8, <2>1, <2>2 DEF TakerInv
<1>10. taker' \in [Takers -> TakerRecords] /\ \A c \in Takers : TakerInv(set_up', taker'[c])
    BY <1>7, <1>8, <1>9, ThreadsGoOn, SameIsSame
<1>11. StoredOne'
    <2>1. /\ d \in SUBSET Encodings /\ set_up.camera \in d
          /\ d \subseteq {set_up.camera, "rgb"}
        BY <1>2 DEF Encodings
    <2>2. set_up.scenes > 0 /\ set_up.size # 0
        BY <1>1 DEF StoredOne
    <2> QED
        BY <1>2, <1>6, <1>7, <2>1, <2>2 DEF StoredOne
<1> QED
    BY <1>1, <1>7, <1>10, <1>11 DEF FrameInv

LEMMA FinishCopyInv ==
    ASSUME FrameInv, NEW t \in Takers, FinishCopy(t)
    PROVE  FrameInv'
<1> DEFINE w == taker[t]
           p == w.frame.held["rgb"]
           q == IF set_up.filters THEN FilteredOnce(p) ELSE p
           r == IF set_up.controls THEN Adjusted(q) ELSE q
           f == Only(r, stored.size)
           e == [w EXCEPT !.at = "taken", !.frame = f]
<1>1. /\ w \in TakerRecords /\ taker \in [Takers -> TakerRecords] /\ set_up \in SetUps
      /\ w.at = "filtering" /\ StoredOne
    BY DEF FrameInv, FinishCopy, StoredNone
<1>2. PICK s \in Int, o \in Pictures :
         /\ w.frame = FrameWith(s, {"rgb"}, o) /\ Fits(set_up, o, w.got, 0, 0)
         /\ set_up.varied \/ s = set_up.size
    BY <1>1 DEF FrameInv, TakerInv, CopiedFrame
<1>3. p = o /\ w.frame.size = s
    BY <1>2, HeldPicture, FrameFields
<1>4. PICK z \in Int : stored.size = z /\ (set_up.varied \/ z = set_up.size)
    <2>1. PICK z \in Int, D \in SUBSET Encodings, x \in Pictures :
             stored = FrameWith(z, D, x) /\ (set_up.varied \/ z = set_up.size)
        BY <1>1 DEF StoredOne
    <2> QED
        BY <2>1, FrameFields
<1>5. Fits(set_up, r, w.got, Counted(set_up.filters), Counted(set_up.controls))
    <2>1. Fits(set_up, q, w.got, Counted(set_up.filters), 0)
        BY <1>2, <1>3, PicturesFit DEF Counted
    <2>2. Counted(set_up.filters) \in Int
        BY DEF Counted
    <2> HIDE DEF q
    <2> QED
        BY <2>1, <2>2, PicturesFit DEF Counted
<1>6. f = FrameWith(z, {"rgb"}, r) /\ f \in FramesOfOne
    <2>1. f = FrameWith(z, {"rgb"}, r) /\ {"rgb"} \in SUBSET Encodings
        BY <1>4, OnlyRgb DEF Encodings
    <2>2. r \in Pictures
        BY <1>5 DEF Fits
    <2> HIDE DEF f, r
    <2> QED
        BY <2>1, <2>2 DEF FramesOfOne
<1>7. taker' = [taker EXCEPT ![t] = e] /\ stored' = stored
    BY <1>1 DEF FinishCopy
<1>8. /\ set_up' \in SetUps /\ SameSetUp(set_up, set_up')
      /\ set_up'.varied = set_up.varied /\ set_up'.size = set_up.size
      /\ set_up'.scenes = set_up.scenes
      /\ set_up'.varied \/ (~set_up'.overflow /\ set_up'.prev \in {0, set_up'.size})
    <2> DEFINE prev == IF set_up.filters /\ set_up.prev = 0 THEN s ELSE set_up.prev
               over == \/ set_up.overflow \/ z > s
                       \/ set_up.filters /\ set_up.prev # 0 /\ (s > set_up.prev \/ z > set_up.prev)
    <2>1. set_up' = [set_up EXCEPT !.prev = prev, !.overflow = over]
        BY <1>1, <1>3, <1>4 DEF FinishCopy, SetUps
    <2>2. prev \in Int /\ over \in BOOLEAN
        BY <1>1, <1>2 DEF SetUps
    <2>3. set_up.varied \/ (~over /\ prev \in {0, set_up.size})
        <3>1. set_up.varied \/ (~set_up.overflow /\ set_up.prev \in {0, set_up.size})
            BY DEF FrameInv
        <3>2. set_up.size \in Int /\ set_up.prev \in Int
            BY <1>1 DEF SetUps
        <3> QED
            BY <1>2, <1>4, <3>1, <3>2
    <2> HIDE DEF prev, over
    <2> QED
        BY <1>1, <2>1, <2>2, <2>3 DEF SetUps, SameSetUp
<1>9. /\ e \in TakerRecords /\ e.at = "taken" /\ e.frame = f /\ e.got = w.got
    <2> HIDE DEF w, f
    <2> QED
        BY <1>1, <1>6 DEF TakerRecords, TakerPlaces
<1>10. w.got # 0
    BY <1>1 DEF FrameInv, TakerInv
<1> HIDE DEF e, f, r
<1>11. TakerInv(set_up', e)
    <2>1. TakenFrame(set_up, e, e.frame, Counted(set_up.filters))
        <3>1. {"rgb"} \in SUBSET Encodings /\ {"rgb"} # {} /\ "jpeg" \notin {"rgb"}
              /\ ~({"rgb"} \subseteq {"jpeg"}) /\ r \in Pictures
            BY <1>5 DEF Encodings, Fits
        <3> QED
            BY <1>5, <1>6, <1>9, <3>1 DEF TakenFrame
    <2>2. TakerInv(set_up, e)
        BY <1>9, <1>10, <2>1 DEF TakerInv
    <2>3. e.at # "filtering"
        BY <1>9
    <2> QED
        BY <1>8, <2>2, <2>3, ThreadGoesOn
<1>12. taker' \in [Takers -> TakerRecords] /\ \A c \in Takers : TakerInv(set_up', taker'[c])
    BY <1>7, <1>8, <1>9, <1>11, ThreadsGoOn
<1>13. StoredOne'
    BY <1>1, <1>7, <1>8 DEF StoredOne, SameSetUp
<1> QED
    BY <1>8, <1>12, <1>13 DEF FrameInv

LEMMA ShootInv ==
    ASSUME FrameInv, Shoot
    PROVE  FrameInv'
<1>1. PICK size \in {1, 2}, readable \in BOOLEAN :
         LET of == IF set_up.camera = "jpeg" /\ set_up.size # 0 THEN set_up.size ELSE size IN
         /\ stored' = [size |-> of,
                       held |-> [e \in {set_up.camera} |->
                                   [scene |-> IF readable THEN set_up.scenes + 1 ELSE Unreadable,
                                    size |-> size, filtered |-> 0, adjusted |-> 0]]]
         /\ set_up' = [set_up EXCEPT !.scenes = @ + 1, !.size = of,
                                     !.varied = @ \/ set_up.size \notin {0, size}]
    BY DEF Shoot
<1>2. set_up \in SetUps /\ taker \in [Takers -> TakerRecords] /\ taker' = taker
    BY DEF FrameInv, Shoot
<1> DEFINE of == IF set_up.camera = "jpeg" /\ set_up.size # 0 THEN set_up.size ELSE size
           n == set_up.scenes + 1
           p == [scene |-> IF readable THEN n ELSE Unreadable, size |-> size, filtered |-> 0,
                 adjusted |-> 0]
           varied == set_up.varied \/ set_up.size \notin {0, size}
           D == {set_up.camera}
<1>3. stored' = FrameWith(of, D, p)
    BY <1>1 DEF FrameWith
<1>4. set_up' = [set_up EXCEPT !.scenes = n, !.size = of, !.varied = varied]
    BY <1>1, <1>2 DEF SetUps
<1>5. set_up.scenes \in Int /\ set_up.size \in Int /\ set_up.varied \in BOOLEAN
    BY <1>2 DEF SetUps
<1>6. /\ n \in Int /\ of \in Int /\ of # 0 /\ varied \in BOOLEAN
      /\ varied \/ (~set_up.varied /\ of = size /\ set_up.size \in {0, size})
    BY <1>5
<1>7. p \in Pictures /\ p.scene \in {n, Unreadable} /\ p.filtered = 0 /\ p.adjusted = 0
    BY <1>5 DEF Pictures, Unreadable
<1> HIDE DEF of, n, p, varied
<1>8. /\ set_up' \in SetUps /\ SameSetUp(set_up, set_up')
      /\ set_up'.scenes = n /\ set_up'.size = of /\ set_up'.varied = varied
      /\ set_up'.overflow = set_up.overflow /\ set_up'.prev = set_up.prev
    BY <1>2, <1>4, <1>6 DEF SetUps, SameSetUp
<1>9. n > 0
    BY <1>5 DEF FrameInv, StoredNone, StoredOne, n
<1>10. StoredOne'
    <2>1. D \in SUBSET Encodings /\ set_up.camera \in D /\ D \subseteq {set_up.camera, "rgb"}
        BY <1>2 DEF SetUps
    <2>2. set_up'.camera = set_up.camera
        BY <1>8 DEF SameSetUp
    <2> HIDE DEF D
    <2>3. /\ stored' = FrameWith(of, D, p)
          /\ set_up'.camera \in D /\ D \subseteq {set_up'.camera, "rgb"}
          /\ p.scene \in {set_up'.scenes, Unreadable}
          /\ set_up'.varied \/ of = set_up'.size
        BY <1>3, <1>7, <1>8, <2>1, <2>2
    <2> QED
        BY <1>6, <1>7, <1>8, <1>9, <2>1, <2>3 DEF StoredOne
<1>11. ASSUME NEW t \in Takers PROVE TakerInv(set_up', taker'[t])
    <2>1. taker[t].at = "filtering" => set_up.size # 0
        BY DEF FrameInv, StoredNone, StoredOne
    <2>2. taker[t].at = "filtering" =>
             set_up'.varied \/ (~set_up.varied /\ set_up'.size = set_up.size)
        BY <1>6, <1>8, <2>1
    <2>3. TakerInv(set_up, taker[t])
        BY DEF FrameInv
    <2> QED
        BY <1>2, <1>8, <2>2, <2>3, ThreadGoesOn
<1>12. set_up'.varied \/ (~set_up'.overflow /\ set_up'.prev \in {0, set_up'.size})
    <2>1. set_up.size = 0 => set_up.prev = 0
        BY DEF FrameInv, StoredNone, StoredOne
    <2>2. set_up.varied \/ (~set_up.overflow /\ set_up.prev \in {0, set_up.size})
        BY DEF FrameInv
    <2> QED
        BY <1>6, <1>8, <2>1, <2>2
<1> QED
    BY <1>2, <1>8, <1>10, <1>11, <1>12 DEF FrameInv

\* Whatever encodings a camera has and whoever takes its frames: all encodings of a
\* frame are of one picture, a thread is shown the scene it asked for, filtered and
\* adjusted as often as its way says, and nothing is made of data that is not there,
\* but for triggers (video_frame.cpp, source.cpp).
THEOREM FrameSoundHolds == FrameDataSpec => []FrameSound
<1>1. FrameDataInit => FrameInv
    <2> SUFFICES ASSUME FrameDataInit PROVE FrameInv
        OBVIOUS
    <2>1. NoFrameYet \in FramesOfOne
        <3> DEFINE p == GrayPicture(0)
                   D == {}
        <3>1. [e \in {} |-> 0] = [e \in {} |-> p]
            OBVIOUS
        <3>2. NoFrameYet = FrameWith(0, D, p)
            BY <3>1 DEF NoFrameYet, FrameWith
        <3>3. p \in Pictures /\ D \in SUBSET Encodings /\ 0 \in Int
            BY GrayIsPicture DEF IsPicture
        <3> HIDE DEF p, D
        <3> QED
            BY <3>2, <3>3 DEF FramesOfOne
    <2>2. GrayPicture(0) \in Pictures /\ "none" \in Faults /\ "out" \in TakerPlaces
        BY GrayIsPicture DEF IsPicture, Faults, TakerPlaces
    <2>3. PICK kinds \in [Takers -> TakerKinds], own \in [Takers -> BOOLEAN] :
             taker = [t \in Takers |-> [kind |-> kinds[t], own |-> own[t], at |-> "out",
                        frame |-> NoFrameYet, got |-> 0, plain |-> FALSE,
                        shows |-> GrayPicture(0), fault |-> "none"]]
        BY DEF FrameDataInit
    <2>4. /\ taker \in [Takers -> TakerRecords]
          /\ \A t \in Takers : taker[t].at = "out" /\ taker[t].got = 0
        BY <2>1, <2>2, <2>3 DEF TakerRecords
    <2>5. /\ set_up \in SetUps /\ set_up.scenes = 0 /\ set_up.size = 0 /\ set_up.prev = 0
          /\ ~set_up.overflow
        BY FrameDataAssumption DEF FrameDataInit, SetUps, Encodings
    <2>6. StoredNone
        BY <2>4, <2>5 DEF StoredNone, FrameDataInit
    <2>7. \A t \in Takers : TakerInv(set_up, taker[t])
        BY <2>4 DEF TakerInv
    <2> QED
        BY <2>4, <2>5, <2>6, <2>7 DEF FrameInv
<1>2. FrameInv /\ [FrameDataNext]_frameDataVars => FrameInv'
    <2> SUFFICES ASSUME FrameInv, [FrameDataNext]_frameDataVars PROVE FrameInv'
        OBVIOUS
    <2>1. CASE Shoot
        BY <2>1, ShootInv
    <2>2. ASSUME NEW t \in Takers, TakePlain(t) \/ TakeCopy(t) \/ FinishCopy(t) PROVE FrameInv'
        BY <2>2, TakePlainInv, TakeCopyInv, FinishCopyInv
    <2>3. ASSUME NEW t \in Takers,
                 Viewer(t) \/ Recorder(t) \/ Trigger(t) \/ Turned(t) \/ Delayed(t)
          PROVE  FrameInv'
        BY <2>3, ViewerFits, ShownInv
    <2>4. CASE UNCHANGED frameDataVars
        BY <2>4 DEF frameDataVars, FrameInv, StoredNone, StoredOne
    <2> QED
        BY <2>1, <2>2, <2>3, <2>4 DEF FrameDataNext
<1>3. FrameInv => FrameSound
    <2> SUFFICES ASSUME FrameInv PROVE FrameSound
        OBVIOUS
    <2>1. ASSUME NEW f \in FramesOfOne PROVE Coherent(f)
        <3>1. PICK s \in Int, D \in SUBSET Encodings, p \in Pictures : f = FrameWith(s, D, p)
            BY <2>1 DEF FramesOfOne
        <3> QED
            BY <3>1 DEF Coherent, FrameWith
    <2>2. stored \in FramesOfOne \/ stored = NoFrameYet
        BY DEF FrameInv, StoredNone, StoredOne, FramesOfOne
    <2>3. Coherent(NoFrameYet)
        BY DEF Coherent, NoFrameYet
    <2>4. \A t \in Takers : taker[t].frame \in FramesOfOne
        BY DEF FrameInv, TakerRecords
    <2>5. ASSUME NEW t \in Takers, taker[t].at = "out", taker[t].got # 0
          PROVE  /\ taker[t].fault = "no data" =>
                       taker[t].kind = "trigger" /\ taker[t].plain /\ set_up.camera = "jpeg"
                 /\ taker[t].fault = "null" => ~set_up.encodes
                 /\ ShowsIts(t)
        <3> DEFINE w == taker[t]
                   a == [frame |-> w.frame, pic |-> w.shows, fault |-> w.fault]
        <3>1. AnswerFits(set_up, w, a)
            BY <2>5 DEF FrameInv, TakerInv
        <3>2. a.pic = w.shows /\ a.fault = w.fault
            OBVIOUS
        <3> HIDE DEF a
        <3>3. /\ w.fault = NoData =>
                   w.kind = "trigger" /\ w.plain /\ set_up.camera = "jpeg"
              /\ w.fault = "null" => ~set_up.encodes
              /\ \/ Fits(set_up, w.shows, w.got, Counted(set_up.filters) + Counted(w.own),
                         Counted(set_up.controls) + Twice(w))
                 \/ w.shows.scene = 0 /\ ~set_up.encodes
            BY <3>1, <3>2 DEF AnswerFits
        <3>4. ShowsIts(t)
            BY <3>3 DEF ShowsIts, Fits, Counted, Twice
        <3> QED
            BY <3>3, <3>4 DEF NoData
    <2>6. set_up.overflow => set_up.varied
        BY DEF FrameInv
    <2> QED
        BY <2>1, <2>2, <2>3, <2>4, <2>5, <2>6 DEF FrameSound
<1> QED
    BY <1>1, <1>2, <1>3, PTL DEF FrameDataSpec

-----------------------------------------------------------------------------
(***************************************************************************)
(* Views: sources that show other sources, for any number of viewers, of   *)
(* sources and of cells, and any times.                                    *)
(*                                                                         *)
(* That a source has a user for each viewer needs how far each of them is  *)
(* in start() or stop(); that the frame of before is there, that only one  *)
(* viewer is in get_frame(), which is what the property supposes.          *)
(***************************************************************************)

-----------------------------------------------------------------------------
(* view_ss: the users of what it shows, and the frame of before.           *)

LookerPlaces == {"idle", "starting", "in", "stopping"} \cup InCall

SwitchTypeOK ==
    /\ view = [index |-> view.index, cur |-> view.cur, due |-> view.due, prev |-> view.prev,
               filtered |-> view.filtered, fault |-> view.fault, overlap |-> view.overlap]
    /\ view.fault \in BOOLEAN /\ view.overlap \in BOOLEAN
    /\ shown \in [Shown -> [users : Int, on : BOOLEAN, known : BOOLEAN]]
    /\ DOMAIN looker = ViewClients
    /\ \A c \in ViewClients :
          /\ looker[c] = [at |-> looker[c].at, i |-> looker[c].i, from |-> looker[c].from,
                          label |-> looker[c].label]
          /\ looker[c].at \in LookerPlaces
          /\ looker[c].i \in Shown
          /\ looker[c].at \notin {"starting", "stopping"} => looker[c].i = 1

UsersOf(i) == {c \in ViewClients : Uses(c, i)}

UsersCounted ==
    \A i \in Shown : /\ IsFiniteSet(UsersOf(i))
                     /\ shown[i].users = IF shown[i].known THEN Cardinality(UsersOf(i)) ELSE 0

\* What viewers who take turns rely on: there is one in get_frame(), cur_source is
\* that of its call, and the frame of before is gone only while it is replaced.
Turns ==
    ~view.overlap =>
       /\ ~view.fault
       /\ \A c, d \in ViewClients : looker[c].at \in InCall /\ looker[d].at \in InCall => c = d
       /\ view.prev = "freed" => \E c \in ViewClients : At(c, "keep")
       /\ \A c \in ViewClients :
             /\ At(c, "filter") => looker[c].from = view.cur
             /\ At(c, "free") => looker[c].from = looker[c].label

SwitchInv == SwitchTypeOK /\ UsersCounted /\ Turns

LEMMA ClientStep ==
    ASSUME SwitchTypeOK, NEW c \in ViewClients, NEW r,
           looker' = [looker EXCEPT ![c] = r]
    PROVE  DOMAIN looker' = ViewClients /\ looker'[c] = r
           /\ \A d \in ViewClients : d # c => looker'[d] = looker[d]
  BY DEF SwitchTypeOK

LEMMA SwitchInvInit == SwitchInit => SwitchInv
  <1> SUFFICES ASSUME SwitchInit PROVE SwitchInv
    OBVIOUS
  <1> USE DEF SwitchInit
  <1>1. SwitchTypeOK
    BY ViewAssumption DEF SwitchTypeOK, LookerPlaces, InCall, Shown
  <1>2. UsersCounted
    <2>1. \A i \in Shown : UsersOf(i) = {}
      BY DEF UsersOf, Uses, InCall
    <2>2. \A i \in Shown : shown[i].users = 0
      OBVIOUS
    <2> QED
      BY <2>1, <2>2, FS_EmptySet DEF UsersCounted
  <1>3. Turns
    BY DEF Turns, At, InCall
  <1> QED
    BY <1>1, <1>2, <1>3 DEF SwitchInv

\* The users of each source, when each client uses what it used before.
LEMMA SameUsers ==
    ASSUME UsersCounted, \A i \in Shown : UsersOf(i)' = UsersOf(i),
           \A i \in Shown : shown'[i].users = shown[i].users /\ shown'[i].known = shown[i].known
    PROVE  UsersCounted'
  BY DEF UsersCounted

LEMMA SwitchTimeInv == ASSUME SwitchInv, SwitchTime PROVE SwitchInv'
  <1>1. CASE UNCHANGED <<shown, looker>> /\ view' = [view EXCEPT !.due = TRUE]
    <2>1. SwitchTypeOK'
      BY <1>1 DEF SwitchInv, SwitchTypeOK
    <2>2. UsersCounted'
      BY <1>1, SameUsers DEF SwitchInv, UsersOf, Uses
    <2>3. view'.overlap = view.overlap /\ view'.fault = view.fault /\ view'.prev = view.prev
          /\ view'.cur = view.cur
      BY <1>1 DEF SwitchInv, SwitchTypeOK
    <2>4. Turns'
      BY <1>1, <2>3 DEF SwitchInv, Turns, At
    <2> QED
      BY <2>1, <2>2, <2>4 DEF SwitchInv
  <1>2. CASE UNCHANGED <<view, looker>> /\ \E i \in Shown : shown' = [shown EXCEPT ![i].on = ~@]
    <2>1. SwitchTypeOK'
      <3>1. PICK i \in Shown : shown' = [shown EXCEPT ![i].on = ~@]
        BY <1>2
      <3>2. (~shown[i].on) \in BOOLEAN
        BY DEF SwitchInv, SwitchTypeOK
      <3>3. shown' \in [Shown -> [users : Int, on : BOOLEAN, known : BOOLEAN]]
        BY <3>1, <3>2 DEF SwitchInv, SwitchTypeOK
      <3> QED
        BY <1>2, <3>3 DEF SwitchInv, SwitchTypeOK
    <2>2. \A i \in Shown : shown'[i].users = shown[i].users /\ shown'[i].known = shown[i].known
      BY <1>2 DEF SwitchInv, SwitchTypeOK
    <2>3. UsersCounted'
      BY <1>2, <2>2, SameUsers DEF SwitchInv, UsersOf, Uses
    <2>4. Turns'
      BY <1>2 DEF SwitchInv, Turns, At
    <2> QED
      BY <2>1, <2>3, <2>4 DEF SwitchInv
  <1> QED
    BY <1>1, <1>2 DEF SwitchTime

\* start() and stop() of the view.
LEMMA WalkStep ==
    ASSUME SwitchTypeOK, NEW c \in ViewClients, NEW then \in LookerPlaces,
           then \notin {"starting", "stopping"}, looker[c].at \in {"starting", "stopping"},
           Walk(c, then)
    PROVE  /\ DOMAIN looker' = ViewClients
           /\ looker'[c] = [at |-> IF looker[c].i = ViewSources THEN then ELSE looker[c].at,
                            i |-> IF looker[c].i = ViewSources THEN 1 ELSE looker[c].i + 1,
                            from |-> looker[c].from, label |-> looker[c].label]
           /\ looker'[c].i \in Shown
           /\ \A d \in ViewClients : d # c => looker'[d] = looker[d]
  <1>1. /\ looker[c] = [at |-> looker[c].at, i |-> looker[c].i, from |-> looker[c].from,
                        label |-> looker[c].label]
        /\ looker[c].i \in Shown /\ DOMAIN looker = ViewClients
    BY DEF SwitchTypeOK
  <1>2. CASE looker[c].i = ViewSources
    <2>1. looker' = [looker EXCEPT ![c].at = then, ![c].i = 1]
      BY <1>2 DEF Walk
    <2>2. looker'[c] = [at |-> then, i |-> 1, from |-> looker[c].from, label |-> looker[c].label]
      BY <1>1, <2>1
    <2>3. DOMAIN looker' = ViewClients /\ \A d \in ViewClients : d # c => looker'[d] = looker[d]
      BY <1>1, <2>1
    <2> QED
      BY <1>2, <2>2, <2>3, ViewAssumption DEF Shown
  <1>3. CASE looker[c].i # ViewSources
    <2>1. looker' = [looker EXCEPT ![c].i = looker[c].i + 1]
      BY <1>3 DEF Walk
    <2>2. looker'[c] = [at |-> looker[c].at, i |-> looker[c].i + 1, from |-> looker[c].from,
                        label |-> looker[c].label]
      BY <1>1, <2>1
    <2>3. DOMAIN looker' = ViewClients /\ \A d \in ViewClients : d # c => looker'[d] = looker[d]
      BY <1>1, <2>1
    <2>4. looker[c].i + 1 \in Shown
      BY <1>1, <1>3, ViewAssumption DEF Shown
    <2> QED
      BY <1>3, <2>2, <2>3, <2>4
  <1> QED
    BY <1>2, <1>3

\* What each of these steps leaves alone.
LEMMA OutsideCalls ==
    ASSUME SwitchInv, NEW c \in ViewClients, view' = view,
           looker[c].at \notin InCall, looker'[c].at \notin InCall,
           \A d \in ViewClients : d # c => looker'[d] = looker[d]
    PROVE  Turns'
  <1>1. \A d \in ViewClients : looker'[d].at \in InCall => looker'[d] = looker[d]
    OBVIOUS
  <1>2. \A d \in ViewClients : looker[d].at \in InCall => looker'[d] = looker[d]
    OBVIOUS
  <1> QED
    BY <1>1, <1>2 DEF SwitchInv, Turns, At, InCall

LEMMA StartChildInv == ASSUME SwitchInv, NEW c \in ViewClients, StartChild(c) PROVE SwitchInv'
  <1>0. SwitchTypeOK /\ looker[c].i \in Shown
    BY DEF SwitchInv, SwitchTypeOK
  <1> PICK k \in Shown : k = looker[c].i
    BY <1>0
  <1>1. /\ SwitchTypeOK /\ looker[c].at = "starting" /\ view' = view /\ Walk(c, "in")
        /\ shown' = CountUser(k, 1)
    BY DEF StartChild, SwitchInv, At
  <1>2. /\ DOMAIN looker' = ViewClients
        /\ looker'[c] = [at |-> IF k = ViewSources THEN "in" ELSE "starting",
                         i |-> IF k = ViewSources THEN 1 ELSE k + 1,
                         from |-> looker[c].from, label |-> looker[c].label]
        /\ looker'[c].i \in Shown
        /\ \A d \in ViewClients : d # c => looker'[d] = looker[d]
    BY <1>1, WalkStep DEF LookerPlaces
  <1>3. k \in Shown /\ k \in Int /\ ViewSources \in Nat \ {0}
    BY <1>1, ViewAssumption DEF SwitchTypeOK, Shown
  <1>4. /\ shown' \in [Shown -> [users : Int, on : BOOLEAN, known : BOOLEAN]]
        /\ \A i \in Shown : shown'[i].known = shown[i].known
        /\ \A i \in Shown : shown'[i].users = IF i = k /\ shown[i].known THEN shown[i].users + 1
                                              ELSE shown[i].users
    <2>1. shown \in [Shown -> [users : Int, on : BOOLEAN, known : BOOLEAN]]
      BY <1>1 DEF SwitchTypeOK
    <2>2. CASE shown[k].known
      <3>1. shown' = [shown EXCEPT ![k].users = shown[k].users + 1] /\ shown[k].users + 1 \in Int
        BY <1>1, <2>1, <2>2 DEF CountUser
      <3> QED
        BY <2>1, <2>2, <3>1
    <2>3. CASE ~shown[k].known
      BY <1>1, <2>1, <2>3 DEF CountUser
    <2> QED
      BY <2>2, <2>3
  <1>5. SwitchTypeOK'
    <2>1. \A d \in ViewClients :
             /\ looker'[d] = [at |-> looker'[d].at, i |-> looker'[d].i, from |-> looker'[d].from,
                              label |-> looker'[d].label]
             /\ looker'[d].at \in LookerPlaces /\ looker'[d].i \in Shown
             /\ looker'[d].at \notin {"starting", "stopping"} => looker'[d].i = 1
      <3> SUFFICES ASSUME NEW d \in ViewClients
                   PROVE  /\ looker'[d] = [at |-> looker'[d].at, i |-> looker'[d].i,
                                           from |-> looker'[d].from, label |-> looker'[d].label]
                          /\ looker'[d].at \in LookerPlaces /\ looker'[d].i \in Shown
                          /\ looker'[d].at \notin {"starting", "stopping"} => looker'[d].i = 1
        OBVIOUS
      <3>1. CASE d = c
        BY <1>2, <3>1 DEF LookerPlaces
      <3>2. CASE d # c
        BY <1>1, <1>2, <3>2 DEF SwitchTypeOK
      <3> QED
        BY <3>1, <3>2
    <2> QED
      BY <1>1, <1>2, <1>4, <2>1 DEF SwitchTypeOK
  <1>6. UsersCounted'
    <2>1. \A i \in Shown : i # k => UsersOf(i)' = UsersOf(i)
      <3> SUFFICES ASSUME NEW i \in Shown, i # k, NEW d \in ViewClients
                   PROVE  Uses(d, i)' <=> Uses(d, i)
        BY DEF UsersOf
      <3>1. i \in 1 .. ViewSources /\ k \in 1 .. ViewSources
        BY <1>3 DEF Shown
      <3>2. CASE d = c
        BY <1>1, <1>2, <1>3, <3>1, <3>2 DEF Uses, InCall
      <3>3. CASE d # c
        BY <1>2, <3>3 DEF Uses
      <3> QED
        BY <3>2, <3>3
    <2>2. UsersOf(k)' = UsersOf(k) \cup {c} /\ c \notin UsersOf(k)
      <3>1. ~Uses(c, k) /\ Uses(c, k)'
        BY <1>1, <1>2, <1>3 DEF Uses, InCall
      <3>2. \A d \in ViewClients : d # c => (Uses(d, k)' <=> Uses(d, k))
        BY <1>2 DEF Uses
      <3> QED
        BY <3>1, <3>2 DEF UsersOf
    <2>3. IsFiniteSet(UsersOf(k))
      BY <1>3 DEF SwitchInv, UsersCounted
    <2>4. IsFiniteSet(UsersOf(k)') /\ Cardinality(UsersOf(k)') = Cardinality(UsersOf(k)) + 1
      BY <2>2, <2>3, FS_AddElement
    <2> SUFFICES ASSUME NEW i \in Shown
                 PROVE  /\ IsFiniteSet(UsersOf(i)')
                        /\ shown'[i].users = IF shown'[i].known THEN Cardinality(UsersOf(i)') ELSE 0
      BY DEF UsersCounted
    <2>5. IsFiniteSet(UsersOf(i)) /\ Cardinality(UsersOf(i)) \in Nat
          /\ shown[i].users = IF shown[i].known THEN Cardinality(UsersOf(i)) ELSE 0
      BY FS_CardinalityType DEF SwitchInv, UsersCounted
    <2>6. CASE i = k
      BY <1>4, <2>4, <2>5, <2>6
    <2>7. CASE i # k
      BY <1>4, <2>1, <2>5, <2>7
    <2> QED
      BY <2>6, <2>7
  <1>7. Turns'
    BY <1>1, <1>2, OutsideCalls DEF InCall
  <1> QED
    BY <1>5, <1>6, <1>7 DEF SwitchInv

LEMMA StopChildInv == ASSUME SwitchInv, NEW c \in ViewClients, StopChild(c) PROVE SwitchInv'
  <1>0. SwitchTypeOK /\ looker[c].i \in Shown
    BY DEF SwitchInv, SwitchTypeOK
  <1> PICK k \in Shown : k = looker[c].i
    BY <1>0
  <1>1. /\ SwitchTypeOK /\ looker[c].at = "stopping" /\ view' = view /\ Walk(c, "idle")
        /\ shown' = CountUser(k, -1)
    BY DEF StopChild, SwitchInv, At
  <1>2. /\ DOMAIN looker' = ViewClients
        /\ looker'[c] = [at |-> IF k = ViewSources THEN "idle" ELSE "stopping",
                         i |-> IF k = ViewSources THEN 1 ELSE k + 1,
                         from |-> looker[c].from, label |-> looker[c].label]
        /\ looker'[c].i \in Shown
        /\ \A d \in ViewClients : d # c => looker'[d] = looker[d]
    BY <1>1, WalkStep DEF LookerPlaces
  <1>3. k \in Shown /\ k \in Int /\ ViewSources \in Nat \ {0}
    BY <1>1, ViewAssumption DEF SwitchTypeOK, Shown
  <1>4. /\ shown' \in [Shown -> [users : Int, on : BOOLEAN, known : BOOLEAN]]
        /\ \A i \in Shown : shown'[i].known = shown[i].known
        /\ \A i \in Shown : shown'[i].users = IF i = k /\ shown[i].known THEN shown[i].users - 1
                                              ELSE shown[i].users
    <2>1. shown \in [Shown -> [users : Int, on : BOOLEAN, known : BOOLEAN]]
      BY <1>1 DEF SwitchTypeOK
    <2>2. CASE shown[k].known
      <3>1. shown' = [shown EXCEPT ![k].users = shown[k].users + (-1)]
            /\ shown[k].users + (-1) \in Int /\ shown[k].users + (-1) = shown[k].users - 1
        BY <1>1, <2>1, <2>2 DEF CountUser
      <3> QED
        BY <2>1, <2>2, <3>1
    <2>3. CASE ~shown[k].known
      BY <1>1, <2>1, <2>3 DEF CountUser
    <2> QED
      BY <2>2, <2>3
  <1>5. SwitchTypeOK'
    <2>1. \A d \in ViewClients :
             /\ looker'[d] = [at |-> looker'[d].at, i |-> looker'[d].i, from |-> looker'[d].from,
                              label |-> looker'[d].label]
             /\ looker'[d].at \in LookerPlaces /\ looker'[d].i \in Shown
             /\ looker'[d].at \notin {"starting", "stopping"} => looker'[d].i = 1
      <3> SUFFICES ASSUME NEW d \in ViewClients
                   PROVE  /\ looker'[d] = [at |-> looker'[d].at, i |-> looker'[d].i,
                                           from |-> looker'[d].from, label |-> looker'[d].label]
                          /\ looker'[d].at \in LookerPlaces /\ looker'[d].i \in Shown
                          /\ looker'[d].at \notin {"starting", "stopping"} => looker'[d].i = 1
        OBVIOUS
      <3>1. CASE d = c
        BY <1>2, <3>1 DEF LookerPlaces
      <3>2. CASE d # c
        BY <1>1, <1>2, <3>2 DEF SwitchTypeOK
      <3> QED
        BY <3>1, <3>2
    <2> QED
      BY <1>1, <1>2, <1>4, <2>1 DEF SwitchTypeOK
  <1>6. UsersCounted'
    <2>1. \A i \in Shown : i # k => UsersOf(i)' = UsersOf(i)
      <3> SUFFICES ASSUME NEW i \in Shown, i # k, NEW d \in ViewClients
                   PROVE  Uses(d, i)' <=> Uses(d, i)
        BY DEF UsersOf
      <3>1. i \in 1 .. ViewSources /\ k \in 1 .. ViewSources
        BY <1>3 DEF Shown
      <3>2. CASE d = c
        BY <1>1, <1>2, <1>3, <3>1, <3>2 DEF Uses, InCall
      <3>3. CASE d # c
        BY <1>2, <3>3 DEF Uses
      <3> QED
        BY <3>2, <3>3
    <2>2. UsersOf(k)' = UsersOf(k) \ {c} /\ c \in UsersOf(k)
      <3>1. Uses(c, k) /\ ~Uses(c, k)'
        BY <1>1, <1>2, <1>3 DEF Uses, InCall
      <3>2. \A d \in ViewClients : d # c => (Uses(d, k)' <=> Uses(d, k))
        BY <1>2 DEF Uses
      <3> QED
        BY <3>1, <3>2 DEF UsersOf
    <2>3. IsFiniteSet(UsersOf(k))
      BY <1>3 DEF SwitchInv, UsersCounted
    <2>4. IsFiniteSet(UsersOf(k)') /\ Cardinality(UsersOf(k)') = Cardinality(UsersOf(k)) - 1
      BY <2>2, <2>3, FS_RemoveElement
    <2> SUFFICES ASSUME NEW i \in Shown
                 PROVE  /\ IsFiniteSet(UsersOf(i)')
                        /\ shown'[i].users = IF shown'[i].known THEN Cardinality(UsersOf(i)') ELSE 0
      BY DEF UsersCounted
    <2>5. IsFiniteSet(UsersOf(i)) /\ Cardinality(UsersOf(i)) \in Nat
          /\ shown[i].users = IF shown[i].known THEN Cardinality(UsersOf(i)) ELSE 0
      BY FS_CardinalityType DEF SwitchInv, UsersCounted
    <2>6. CASE i = k
      BY <1>4, <2>4, <2>5, <2>6
    <2>7. CASE i # k
      BY <1>4, <2>1, <2>5, <2>7
    <2> QED
      BY <2>6, <2>7
  <1>7. Turns'
    BY <1>1, <1>2, OutsideCalls DEF InCall
  <1> QED
    BY <1>5, <1>6, <1>7 DEF SwitchInv

\* A step of one client that does not begin or end start() or stop(): it uses what it used.
LEMMA LookerMoves ==
    ASSUME SwitchInv, NEW c \in ViewClients, NEW to \in LookerPlaces, NEW from, NEW label,
           looker[c].at \notin {"starting", "stopping"}, to \notin {"starting", "stopping"},
           looker[c].at = "idle" <=> to = "idle",
           DOMAIN looker' = ViewClients,
           looker'[c] = [at |-> to, i |-> looker[c].i, from |-> from, label |-> label],
           \A d \in ViewClients : d # c => looker'[d] = looker[d],
           shown' = shown,
           view' = [index |-> view'.index, cur |-> view'.cur, due |-> view'.due, prev |-> view'.prev,
                    filtered |-> view'.filtered, fault |-> view'.fault, overlap |-> view'.overlap],
           view'.fault \in BOOLEAN, view'.overlap \in BOOLEAN
    PROVE  /\ SwitchTypeOK' /\ UsersCounted'
  <1>1. /\ SwitchTypeOK
        /\ looker[c] = [at |-> looker[c].at, i |-> looker[c].i, from |-> looker[c].from,
                        label |-> looker[c].label]
        /\ looker[c].i = 1 /\ 1 \in Shown
    BY ViewAssumption DEF SwitchInv, SwitchTypeOK
  <1>3. /\ DOMAIN looker' = ViewClients
        /\ looker'[c] = [at |-> to, i |-> 1, from |-> from, label |-> label]
        /\ \A d \in ViewClients : d # c => looker'[d] = looker[d]
    BY <1>1
  <1>4. SwitchTypeOK'
    <2>1. \A d \in ViewClients :
             /\ looker'[d] = [at |-> looker'[d].at, i |-> looker'[d].i, from |-> looker'[d].from,
                              label |-> looker'[d].label]
             /\ looker'[d].at \in LookerPlaces /\ looker'[d].i \in Shown
             /\ looker'[d].at \notin {"starting", "stopping"} => looker'[d].i = 1
      <3> SUFFICES ASSUME NEW d \in ViewClients
                   PROVE  /\ looker'[d] = [at |-> looker'[d].at, i |-> looker'[d].i,
                                           from |-> looker'[d].from, label |-> looker'[d].label]
                          /\ looker'[d].at \in LookerPlaces /\ looker'[d].i \in Shown
                          /\ looker'[d].at \notin {"starting", "stopping"} => looker'[d].i = 1
        OBVIOUS
      <3>1. CASE d = c
        BY <1>1, <1>3, <3>1
      <3>2. CASE d # c
        BY <1>1, <1>3, <3>2 DEF SwitchTypeOK
      <3> QED
        BY <3>1, <3>2
    <2> QED
      BY <1>1, <1>3, <2>1 DEF SwitchTypeOK
  <1>5. UsersCounted'
    <2>1. \A d \in ViewClients : \A i \in Shown : Uses(d, i)' <=> Uses(d, i)
      <3> SUFFICES ASSUME NEW d \in ViewClients, NEW i \in Shown PROVE Uses(d, i)' <=> Uses(d, i)
        OBVIOUS
      <3>1. CASE d = c
        BY <1>1, <1>3, <3>1 DEF SwitchTypeOK, LookerPlaces, Uses
      <3>2. CASE d # c
        BY <1>3, <3>2 DEF Uses
      <3> QED
        BY <3>1, <3>2
    <2>2. \A i \in Shown : UsersOf(i)' = UsersOf(i)
      BY <2>1 DEF UsersOf
    <2> QED
      BY <2>2, SameUsers DEF SwitchInv
  <1> QED
    BY <1>3, <1>4, <1>5


LEMMA LookerPlaced ==
    ASSUME SwitchTypeOK, NEW c \in ViewClients, NEW to, Place(c, to)
    PROVE  /\ DOMAIN looker' = ViewClients
           /\ looker'[c] = [at |-> to, i |-> looker[c].i, from |-> looker[c].from,
                            label |-> looker[c].label]
           /\ \A d \in ViewClients : d # c => looker'[d] = looker[d]
  <1>1. looker[c] = [at |-> looker[c].at, i |-> looker[c].i, from |-> looker[c].from,
                     label |-> looker[c].label]
    BY DEF SwitchTypeOK
  <1> QED
    BY <1>1 DEF Place, SwitchTypeOK

LEMMA SwitchOpenClose ==
    ASSUME SwitchInv, NEW c \in ViewClients, SwitchOpens(c) \/ SwitchCloses(c)
    PROVE  SwitchInv'
  <1> DEFINE to == IF At(c, "idle") THEN "starting" ELSE "stopping"
  <1>1. /\ SwitchTypeOK /\ view' = view /\ shown' = shown
        /\ \/ looker[c].at = "idle" /\ to = "starting"
           \/ looker[c].at = "in" /\ to = "stopping"
        /\ Place(c, to)
    BY DEF SwitchInv, SwitchOpens, SwitchCloses, At
  <1> HIDE DEF to
  <1>2. /\ DOMAIN looker' = ViewClients
        /\ looker'[c] = [at |-> to, i |-> looker[c].i, from |-> looker[c].from,
                         label |-> looker[c].label]
        /\ \A d \in ViewClients : d # c => looker'[d] = looker[d]
    BY <1>1, LookerPlaced
  <1>3. looker[c].i = 1
    BY <1>1 DEF SwitchTypeOK
  <1>4. SwitchTypeOK'
    <2>1. \A d \in ViewClients :
             /\ looker'[d] = [at |-> looker'[d].at, i |-> looker'[d].i, from |-> looker'[d].from,
                              label |-> looker'[d].label]
             /\ looker'[d].at \in LookerPlaces /\ looker'[d].i \in Shown
             /\ looker'[d].at \notin {"starting", "stopping"} => looker'[d].i = 1
      <3> SUFFICES ASSUME NEW d \in ViewClients
                   PROVE  /\ looker'[d] = [at |-> looker'[d].at, i |-> looker'[d].i,
                                           from |-> looker'[d].from, label |-> looker'[d].label]
                          /\ looker'[d].at \in LookerPlaces /\ looker'[d].i \in Shown
                          /\ looker'[d].at \notin {"starting", "stopping"} => looker'[d].i = 1
        OBVIOUS
      <3>1. CASE d = c
        BY <1>1, <1>2, <3>1 DEF SwitchTypeOK, LookerPlaces
      <3>2. CASE d # c
        BY <1>1, <1>2, <3>2 DEF SwitchTypeOK
      <3> QED
        BY <3>1, <3>2
    <2> QED
      BY <1>1, <1>2, <2>1 DEF SwitchTypeOK
  <1>5. UsersCounted'
    <2>1. \A d \in ViewClients : \A i \in Shown : Uses(d, i)' <=> Uses(d, i)
      <3> SUFFICES ASSUME NEW d \in ViewClients, NEW i \in Shown PROVE Uses(d, i)' <=> Uses(d, i)
        OBVIOUS
      <3>0. i \in Int /\ i >= 1
        BY ViewAssumption DEF Shown
      <3>1. CASE d = c
        BY <1>1, <1>2, <1>3, <3>0, <3>1 DEF Uses, InCall
      <3>2. CASE d # c
        BY <1>2, <3>2 DEF Uses
      <3> QED
        BY <3>1, <3>2
    <2>2. \A i \in Shown : UsersOf(i)' = UsersOf(i)
      BY <2>1 DEF UsersOf
    <2> QED
      BY <1>1, <2>2, SameUsers DEF SwitchInv
  <1>6. Turns'
    BY <1>1, <1>2, OutsideCalls DEF InCall
  <1> QED
    BY <1>4, <1>5, <1>6 DEF SwitchInv

\* get_frame(), step by step.
LEMMA FindCurrentInv == ASSUME SwitchInv, NEW c \in ViewClients, FindCurrent(c) PROVE SwitchInv'
  <1>1. /\ SwitchTypeOK /\ shown' = shown /\ looker[c].at = "in" /\ Place(c, "found")
    BY DEF SwitchInv, FindCurrent, At
  <1>2. /\ DOMAIN looker' = ViewClients
        /\ looker'[c] = [at |-> "found", i |-> looker[c].i, from |-> looker[c].from,
                         label |-> looker[c].label]
        /\ \A d \in ViewClients : d # c => looker'[d] = looker[d]
    BY <1>1, LookerPlaced
  <1> DEFINE cur == IF shown[view.index].known THEN view.index ELSE NoSource
             another == \E d \in ViewClients : looker[d].at \in InCall
  <1>3. view' = [view EXCEPT !.cur = cur, !.overlap = view.overlap \/ another]
    BY DEF FindCurrent
  <1>4. another \in BOOLEAN
    OBVIOUS
  <1> HIDE DEF cur, another
  <1>5. /\ view' = [index |-> view'.index, cur |-> view'.cur, due |-> view'.due,
                    prev |-> view'.prev, filtered |-> view'.filtered, fault |-> view'.fault,
                    overlap |-> view'.overlap]
        /\ view'.fault = view.fault /\ view'.prev = view.prev
        /\ view'.overlap = (view.overlap \/ another)
    BY <1>1, <1>3, <1>4 DEF SwitchTypeOK
  <1>6. SwitchTypeOK' /\ UsersCounted'
    <2>1. view'.fault \in BOOLEAN /\ view'.overlap \in BOOLEAN
      BY <1>1, <1>4, <1>5 DEF SwitchTypeOK
    <2>2. "found" \in LookerPlaces /\ "found" \notin {"starting", "stopping", "idle"}
      BY DEF LookerPlaces, InCall
    <2> QED
      BY <1>1, <1>2, <1>5, <2>1, <2>2, LookerMoves
  <1>7. Turns'
    <2> SUFFICES ASSUME ~view'.overlap
                 PROVE  /\ ~view'.fault
                        /\ \A a, d \in ViewClients :
                              looker'[a].at \in InCall /\ looker'[d].at \in InCall => a = d
                        /\ view'.prev = "freed" => \E a \in ViewClients : At(a, "keep")'
                        /\ \A a \in ViewClients :
                              /\ At(a, "filter")' => looker'[a].from = view'.cur
                              /\ At(a, "free")' => looker'[a].from = looker'[a].label
      BY DEF Turns
    <2>1. ~view.overlap /\ ~another
      BY <1>1, <1>4, <1>5 DEF SwitchTypeOK
    <2>2. \A d \in ViewClients : looker[d].at \notin InCall
      BY <2>1 DEF another
    <2>3. \A d \in ViewClients : looker'[d].at \in InCall => d = c
      BY <1>2, <2>2
    <2>4. view'.prev # "freed" /\ ~view'.fault
      BY <1>5, <2>1, <2>2 DEF SwitchInv, Turns, At, InCall
    <2> QED
      BY <1>2, <2>3, <2>4 DEF At, InCall
  <1> QED
    BY <1>6, <1>7 DEF SwitchInv

\* One client moves within get_frame(): what the others rely on.
LEMMA TurnsKept ==
    ASSUME SwitchInv, NEW c \in ViewClients, looker[c].at \in InCall,
           \A d \in ViewClients : d # c => looker'[d] = looker[d],
           view'.overlap = view.overlap, view'.cur = view.cur,
           ~view.overlap =>
              /\ ~view'.fault
              /\ view'.prev = "freed" => looker'[c].at = "keep"
              /\ looker'[c].at = "filter" => looker'[c].from = view.cur
              /\ looker'[c].at = "free" => looker'[c].from = looker'[c].label
    PROVE  Turns'
  <1> SUFFICES ASSUME ~view'.overlap
               PROVE  /\ ~view'.fault
                      /\ \A a, d \in ViewClients :
                            looker'[a].at \in InCall /\ looker'[d].at \in InCall => a = d
                      /\ view'.prev = "freed" => \E a \in ViewClients : At(a, "keep")'
                      /\ \A a \in ViewClients :
                            /\ At(a, "filter")' => looker'[a].from = view'.cur
                            /\ At(a, "free")' => looker'[a].from = looker'[a].label
    BY DEF Turns
  <1>1. \A d \in ViewClients : looker[d].at \in InCall => d = c
    BY DEF SwitchInv, Turns
  <1>2. \A d \in ViewClients : looker'[d].at \in InCall => d = c
    BY <1>1
  <1>3. \A d \in ViewClients : d # c => ~At(d, "filter")' /\ ~At(d, "free")'
    BY <1>2 DEF At, InCall
  <1> QED
    BY <1>2, <1>3 DEF At

LEMMA InCallPlaces ==
    /\ \A to \in InCall \cup {"in"} : to \in LookerPlaces /\ to \notin {"starting", "stopping", "idle"}
    /\ {"found", "chosen", "filter", "free", "keep"} = InCall
  BY DEF LookerPlaces, InCall

LEMMA FetchInv ==
    ASSUME SwitchInv, NEW c \in ViewClients, SwitchSource(c) \/ FetchFrame(c)
    PROVE  SwitchInv'
  <1>1. SwitchTypeOK /\ shown' = shown /\ looker[c].at \in InCall
    BY DEF SwitchInv, SwitchSource, FetchFrame, At, InCall
  <1>2. /\ view' = [index |-> view'.index, cur |-> view'.cur, due |-> view'.due,
                    prev |-> view'.prev, filtered |-> view'.filtered, fault |-> view'.fault,
                    overlap |-> view'.overlap]
        /\ view'.fault = view.fault /\ view'.prev = view.prev
        /\ view'.overlap = view.overlap /\ view'.cur = view.cur
    <2>1. CASE SwitchSource(c)
      <3> DEFINE n == NextIndex
      <3>1. view' = view \/ view' = [view EXCEPT !.index = n, !.due = FALSE]
        BY <2>1 DEF SwitchSource
      <3> HIDE DEF n
      <3> QED
        BY <1>1, <3>1 DEF SwitchTypeOK
    <2>2. CASE FetchFrame(c)
      BY <1>1, <2>2 DEF SwitchTypeOK, FetchFrame
    <2> QED
      BY <2>1, <2>2
  <1>3. PICK to, from :
           /\ to \in InCall \cup {"in"}
           /\ DOMAIN looker' = ViewClients
           /\ looker'[c] = [at |-> to, i |-> looker[c].i, from |-> from, label |-> looker[c].label]
           /\ \A d \in ViewClients : d # c => looker'[d] = looker[d]
           /\ to \in {"chosen", "in"} \/ (to = "filter" /\ from = view.cur)
    <2>1. CASE SwitchSource(c)
      <3>1. Place(c, "chosen") /\ "chosen" \in InCall
        BY <2>1 DEF SwitchSource, InCall
      <3> QED
        BY <1>1, <3>1, LookerPlaced
    <2>2. CASE FetchFrame(c) /\ Place(c, "in")
      BY <1>1, <2>2, LookerPlaced
    <2>3. CASE FetchFrame(c) /\ ~Place(c, "in")
      <3> DEFINE to == IF view.filtered THEN "filter" ELSE "in"
      <3>1. looker' = [looker EXCEPT ![c].at = to, ![c].from = view.cur]
        BY <2>3 DEF FetchFrame
      <3>2. to \in InCall \cup {"in"} /\ (to \in {"chosen", "in"} \/ to = "filter")
        BY DEF InCall
      <3>3. looker[c] = [at |-> looker[c].at, i |-> looker[c].i, from |-> looker[c].from,
                         label |-> looker[c].label]
        BY <1>1 DEF SwitchTypeOK
      <3> HIDE DEF to
      <3>4. looker'[c] = [at |-> to, i |-> looker[c].i, from |-> view.cur,
                          label |-> looker[c].label]
        BY <1>1, <3>1, <3>3 DEF SwitchTypeOK
      <3>5. DOMAIN looker' = ViewClients /\ \A d \in ViewClients : d # c => looker'[d] = looker[d]
        BY <1>1, <3>1 DEF SwitchTypeOK
      <3> QED
        BY <3>2, <3>4, <3>5
    <2> QED
      BY <2>1, <2>2, <2>3
  <1>4. SwitchTypeOK' /\ UsersCounted'
    <2>1. view'.fault \in BOOLEAN /\ view'.overlap \in BOOLEAN
      BY <1>1, <1>2 DEF SwitchTypeOK
    <2>2. looker[c].at \notin {"starting", "stopping", "idle"}
      BY <1>1, InCallPlaces
    <2>3. to \in LookerPlaces /\ to \notin {"starting", "stopping", "idle"}
      BY <1>3, InCallPlaces
    <2> QED
      BY <1>1, <1>2, <1>3, <2>1, <2>2, <2>3, LookerMoves
  <1>5. Turns'
    <2>1. ~view.overlap => ~view.fault /\ view.prev # "freed"
      BY <1>1 DEF SwitchInv, Turns, At, SwitchSource, FetchFrame, InCall
    <2> QED
      BY <1>1, <1>2, <1>3, <2>1, TurnsKept
  <1> QED
    BY <1>4, <1>5 DEF SwitchInv

LEMMA FilterInv ==
    ASSUME SwitchInv, NEW c \in ViewClients,
           FilterFrame(c) \/ FreePrevious(c) \/ KeepFrame(c)
    PROVE  SwitchInv'
  <1>1. SwitchTypeOK /\ shown' = shown /\ looker[c].at \in {"filter", "free", "keep"}
    BY DEF SwitchInv, FilterFrame, FreePrevious, KeepFrame, At
  <1>2. looker[c].at \in InCall
    BY <1>1 DEF InCall
  <1>3. ~view.overlap => /\ ~view.fault
                         /\ looker[c].at # "keep" => view.prev # "freed"
                         /\ looker[c].at = "filter" => looker[c].from = view.cur
    BY <1>2 DEF SwitchInv, Turns, At, InCall
  <1>4. /\ view' = [index |-> view'.index, cur |-> view'.cur, due |-> view'.due,
                    prev |-> view'.prev, filtered |-> view'.filtered, fault |-> view'.fault,
                    overlap |-> view'.overlap]
        /\ view'.fault \in BOOLEAN
        /\ view'.fault => view.fault \/ (view.prev = "freed" /\ looker[c].at # "keep")
        /\ view'.prev = "freed" => view.prev = "freed" \/ looker[c].at = "free"
        /\ view'.prev = "freed" => looker[c].at # "keep"
        /\ view'.overlap = view.overlap /\ view'.cur = view.cur
    <2> DEFINE f == view.fault \/ view.prev = "freed"
               q == IF view.prev = "none" THEN view.prev ELSE "freed"
    <2>1. \/ looker[c].at = "filter" /\ view' = [view EXCEPT !.fault = f]
          \/ looker[c].at = "free" /\ view' = [view EXCEPT !.fault = f, !.prev = q]
          \/ looker[c].at = "keep" /\ view' = [view EXCEPT !.prev = "live"]
      BY DEF FilterFrame, FreePrevious, KeepFrame, At
    <2>2. f \in BOOLEAN /\ (f => view.fault \/ view.prev = "freed")
      BY <1>1 DEF SwitchTypeOK
    <2> HIDE DEF f, q
    <2>3. CASE looker[c].at = "filter"
      BY <1>1, <2>1, <2>2, <2>3 DEF SwitchTypeOK
    <2>4. CASE looker[c].at = "free"
      BY <1>1, <2>1, <2>2, <2>4 DEF SwitchTypeOK
    <2>5. CASE looker[c].at = "keep"
      BY <1>1, <2>1, <2>5 DEF SwitchTypeOK
    <2> QED
      BY <1>1, <2>3, <2>4, <2>5
  <1>5. PICK to, label :
           /\ to \in InCall \cup {"in"}
           /\ DOMAIN looker' = ViewClients
           /\ looker'[c] = [at |-> to, i |-> looker[c].i, from |-> looker[c].from, label |-> label]
           /\ \A d \in ViewClients : d # c => looker'[d] = looker[d]
           /\ \/ to = "free" /\ looker[c].at = "filter" /\ label = view.cur
              \/ to = "keep" /\ looker[c].at = "free"
              \/ to = "in" /\ looker[c].at = "keep"
    <2>1. CASE FilterFrame(c)
      <3>1. looker' = [looker EXCEPT ![c].at = "free", ![c].label = view.cur]
        BY <2>1 DEF FilterFrame
      <3>2. looker[c] = [at |-> looker[c].at, i |-> looker[c].i, from |-> looker[c].from,
                         label |-> looker[c].label]
        BY <1>1 DEF SwitchTypeOK
      <3>3. looker'[c] = [at |-> "free", i |-> looker[c].i, from |-> looker[c].from,
                          label |-> view.cur]
        BY <1>1, <3>1, <3>2 DEF SwitchTypeOK
      <3>4. DOMAIN looker' = ViewClients /\ \A d \in ViewClients : d # c => looker'[d] = looker[d]
        BY <1>1, <3>1 DEF SwitchTypeOK
      <3>5. "free" \in InCall /\ looker[c].at = "filter"
        BY <2>1 DEF InCall, FilterFrame, At
      <3> QED
        BY <3>3, <3>4, <3>5
    <2>2. CASE FreePrevious(c)
      <3>1. Place(c, "keep") /\ "keep" \in InCall /\ looker[c].at = "free"
        BY <2>2 DEF FreePrevious, InCall, At
      <3> QED
        BY <1>1, <3>1, LookerPlaced
    <2>3. CASE KeepFrame(c)
      <3>1. Place(c, "in") /\ looker[c].at = "keep"
        BY <2>3 DEF KeepFrame, At
      <3> QED
        BY <1>1, <3>1, LookerPlaced
    <2> QED
      BY <2>1, <2>2, <2>3
  <1>6. SwitchTypeOK' /\ UsersCounted'
    <2>1. view'.overlap \in BOOLEAN
      BY <1>1, <1>4 DEF SwitchTypeOK
    <2>2. looker[c].at \notin {"starting", "stopping", "idle"}
      BY <1>1
    <2>3. to \in LookerPlaces /\ to \notin {"starting", "stopping", "idle"}
      BY <1>5, InCallPlaces
    <2> QED
      BY <1>1, <1>4, <1>5, <2>1, <2>2, <2>3, LookerMoves
  <1>7. Turns'
    <2>1. looker'[c].at = to /\ looker'[c].from = looker[c].from /\ looker'[c].label = label
      BY <1>5
    <2>2. ~view.overlap =>
             /\ ~view'.fault
             /\ view'.prev = "freed" => looker'[c].at = "keep"
             /\ looker'[c].at = "filter" => looker'[c].from = view.cur
             /\ looker'[c].at = "free" => looker'[c].from = looker'[c].label
      BY <1>3, <1>4, <1>5, <2>1
    <2> QED
      BY <1>2, <1>4, <1>5, <2>2, TurnsKept
  <1> QED
    BY <1>6, <1>7 DEF SwitchInv

LEMMA SwitchStep == ASSUME SwitchInv, SwitchNext \/ UNCHANGED switchVars PROVE SwitchInv'
  <1>1. CASE UNCHANGED switchVars
    <2>1. view' = view /\ shown' = shown /\ looker' = looker
      BY <1>1 DEF switchVars
    <2>2. UsersCounted'
      BY <2>1, SameUsers DEF SwitchInv, UsersOf, Uses
    <2> QED
      BY <2>1, <2>2 DEF SwitchInv, SwitchTypeOK, Turns, At
  <1>2. CASE SwitchNext
    BY <1>2, SwitchTimeInv, SwitchOpenClose, StartChildInv, StopChildInv, FindCurrentInv, FetchInv,
       FilterInv DEF SwitchNext
  <1> QED
    BY <1>1, <1>2

LEMMA SwitchInvSound == SwitchInv => SwitchSound
  <1> SUFFICES ASSUME SwitchInv PROVE SwitchSound
    OBVIOUS
  <1>1. \A i \in Shown :
           shown[i].users = IF shown[i].known
                            THEN Cardinality({c \in ViewClients : Uses(c, i)}) ELSE 0
    BY DEF SwitchInv, UsersCounted, UsersOf
  <1>2. ~view.overlap => ~view.fault
    BY DEF SwitchInv, Turns
  <1>3. ~view.overlap => \A c \in ViewClients : At(c, "free") => looker[c].from = looker[c].label
    BY DEF SwitchInv, Turns
  <1> QED
    BY <1>1, <1>2, <1>3 DEF SwitchSound

-----------------------------------------------------------------------------
(* view_all: which picture a cell has.                                     *)

Cells == 1 .. GridCells

GridTypeOK ==
    grid \in [sources : Nat, index : Nat, due : BOOLEAN, at : {"idle", "cells", "crashed"},
              cells : SUBSET Cells, cell : [Cells -> [of : Nat, zero : BOOLEAN]]]

\* The threads of the cells are those of cells that a source is for.
GridInv ==
    /\ GridTypeOK
    /\ grid.cells \subseteq Filled
    /\ GridSound

LEMMA FilledCells ==
    ASSUME GridTypeOK
    PROVE  /\ Filled \subseteq Cells /\ Cardinality(Filled) \in Nat
           /\ \A i \in Filled : i \in Nat /\ grid.sources \in Nat \ {0}
  <1> DEFINE n == IF grid.sources < GridCells THEN grid.sources ELSE GridCells
  <1>1. n \in Nat /\ n <= GridCells /\ n <= grid.sources /\ grid.sources \in Nat
    BY ViewAssumption DEF GridTypeOK
  <1>2. Filled = 1 .. n
    BY DEF Filled
  <1> HIDE DEF n
  <1>3. IsFiniteSet(Filled) /\ Cardinality(Filled) \in Nat
    BY <1>1, <1>2, FS_Interval, FS_CardinalityType
  <1> QED
    BY <1>1, <1>2, <1>3, ViewAssumption DEF Cells

LEMMA GridInvInit == GridInit => GridInv
  <1> SUFFICES ASSUME GridInit PROVE GridInv
    OBVIOUS
  <1>1. PICK n \in 0..(GridCells + 1) :
           grid = [sources |-> n, index |-> 0, due |-> FALSE, at |-> "idle", cells |-> {},
                   cell |-> [i \in 1..GridCells |-> [of |-> NoSource, zero |-> TRUE]]]
    BY DEF GridInit
  <1>2. n \in Nat /\ NoSource \in Nat
    BY ViewAssumption DEF NoSource
  <1>3. GridTypeOK
    BY <1>1, <1>2 DEF GridTypeOK, Cells
  <1>4. \A i \in Filled : grid.cell[i].zero
    BY <1>1, <1>3, FilledCells DEF Cells
  <1> QED
    BY <1>1, <1>3, <1>4 DEF GridInv, GridSound

\* Whose picture belongs in a cell depends on the index and the list only.
LEMMA SameCells ==
    ASSUME grid'.sources = grid.sources
    PROVE  Filled' = Filled
  BY DEF Filled

LEMMA GridCallInv == ASSUME GridInv, GridCall PROVE GridInv'
  <1>1. /\ grid.at = "idle" /\ GridTypeOK /\ grid.sources \in Nat /\ grid.index \in Nat
        /\ Filled \subseteq Cells /\ Cardinality(Filled) \in Nat
    BY FilledCells DEF GridInv, GridCall, GridTypeOK
  <1>2. CASE grid.due /\ grid.sources = 0
    <2>1. grid' = [grid EXCEPT !.at = "crashed"]
      BY <1>2 DEF GridCall
    <2>2. /\ GridTypeOK' /\ grid'.sources = grid.sources /\ grid'.index = grid.index
          /\ grid'.cell = grid.cell /\ grid'.cells = grid.cells /\ grid'.at = "crashed"
      BY <1>1, <2>1 DEF GridTypeOK
    <2> QED
      BY <1>2, <2>2, SameCells DEF GridInv, GridSound, InCell
  <1>3. CASE grid.due /\ grid.sources # 0
    <2> DEFINE n == (grid.index + Cardinality(Filled)) % grid.sources
               unset == [i \in Cells |-> [grid.cell[i] EXCEPT !.zero = TRUE]]
    <2>1. grid' = [grid EXCEPT !.at = "cells", !.cells = Filled, !.due = FALSE, !.index = n,
                               !.cell = unset]
      BY <1>3 DEF GridCall, Cells
    <2>2. n \in Nat
      BY <1>1, <1>3
    <2>3. grid.cell \in [Cells -> [of : Nat, zero : BOOLEAN]]
      BY <1>1 DEF GridTypeOK
    <2>4. unset \in [Cells -> [of : Nat, zero : BOOLEAN]] /\ \A i \in Cells : unset[i].zero
      BY <2>3
    <2> HIDE DEF n, unset
    <2>5. /\ GridTypeOK' /\ grid'.sources = grid.sources
          /\ grid'.cell = unset /\ grid'.cells = Filled /\ grid'.at = "cells"
      BY <1>1, <2>1, <2>2, <2>4 DEF GridTypeOK
    <2> QED
      BY <1>1, <2>4, <2>5, SameCells DEF GridInv, GridSound
  <1>4. CASE ~grid.due
    <2>1. grid' = [grid EXCEPT !.at = "cells", !.cells = Filled]
      BY <1>4 DEF GridCall
    <2>2. /\ GridTypeOK' /\ grid'.sources = grid.sources /\ grid'.index = grid.index
          /\ grid'.cell = grid.cell /\ grid'.cells = Filled /\ grid'.at = "cells"
      BY <1>1, <2>1 DEF GridTypeOK
    <2> QED
      BY <2>2, SameCells DEF GridInv, GridSound, InCell
  <1> QED
    BY <1>2, <1>3, <1>4

LEMMA GridCellInv == ASSUME GridInv, GridCell PROVE GridInv'
  <1>1. GridTypeOK /\ grid.cells \subseteq Filled /\ Filled \subseteq Cells
    BY FilledCells DEF GridInv
  <1>2. PICK k \in grid.cells, got \in BOOLEAN :
           grid' = [grid EXCEPT !.cells = @ \ {k},
                       !.cell[k] = IF got THEN [of |-> InCell(k), zero |-> FALSE] ELSE @]
    BY DEF GridCell
  <1> DEFINE new == IF got THEN [of |-> InCell(k), zero |-> FALSE] ELSE grid.cell[k]
             rest == grid.cells \ {k}
  <1>3. k \in Filled /\ k \in Cells
    BY <1>1
  <1>4. InCell(k) \in Nat
    <2>1. k \in Nat /\ grid.sources \in Nat \ {0} /\ grid.index \in Nat
      BY <1>1, <1>3, FilledCells DEF GridTypeOK
    <2>2. grid.index + k - 1 \in Int
      BY <2>1
    <2> QED
      BY <2>1, <2>2 DEF InCell
  <1>5. new \in [of : Nat, zero : BOOLEAN] /\ (~new.zero => new.of = InCell(k))
    BY <1>1, <1>3, <1>4 DEF GridTypeOK, GridInv, GridSound
  <1>6. grid' = [grid EXCEPT !.cells = rest, !.cell = [grid.cell EXCEPT ![k] = new]]
    BY <1>1, <1>2, <1>3 DEF GridTypeOK
  <1>7. rest \subseteq grid.cells
    OBVIOUS
  <1> DEFINE cell == [grid.cell EXCEPT ![k] = new]
  <1> HIDE DEF new, rest
  <1>8. /\ cell \in [Cells -> [of : Nat, zero : BOOLEAN]] /\ cell[k] = new
        /\ \A i \in Cells : i # k => cell[i] = grid.cell[i]
    BY <1>1, <1>3, <1>5 DEF GridTypeOK
  <1>9. grid' = [grid EXCEPT !.cells = rest, !.cell = cell]
    BY <1>6
  <1> HIDE DEF cell
  <1>10. /\ GridTypeOK' /\ grid'.sources = grid.sources /\ grid'.index = grid.index
         /\ grid'.at = grid.at /\ grid'.cells = rest /\ grid'.cell = cell
    BY <1>1, <1>7, <1>8, <1>9 DEF GridTypeOK
  <1>11. \A i \in Filled : ~cell[i].zero => cell[i].of = InCell(i)
    BY <1>1, <1>5, <1>8 DEF GridInv, GridSound
  <1> QED
    BY <1>1, <1>7, <1>10, <1>11, SameCells DEF GridInv, GridSound, InCell

LEMMA GridStep == ASSUME GridInv, GridNext \/ UNCHANGED grid PROVE GridInv'
  <1>1. CASE GridReturn \/ GridTime
    <2>1. GridTypeOK
      BY DEF GridInv
    <2>2. /\ GridTypeOK' /\ grid'.sources = grid.sources /\ grid'.index = grid.index
          /\ grid'.cell = grid.cell /\ grid'.cells = grid.cells
          /\ grid'.at = "crashed" => grid.at = "crashed"
      BY <1>1, <2>1 DEF GridTypeOK, GridReturn, GridTime
    <2> QED
      BY <2>2, SameCells DEF GridInv, GridSound, InCell
  <1>2. CASE UNCHANGED grid
    BY <1>2 DEF GridInv, GridTypeOK, GridSound, Filled, InCell
  <1> QED
    BY <1>1, <1>2, GridCallInv, GridCellInv DEF GridNext

-----------------------------------------------------------------------------
(* view_pip: the thread, and who waits for it.                             *)

PipTypeOK ==
    /\ pip \in [th : {"off", "get", "store", "exit"}, stop : BOOLEAN, i : Nat, after : Nat,
                new : Nat, got : Nat, ts : [Framed -> Nat], now : Nat]
    /\ (pip.i \in Framed) /\ pip.now >= 1
    /\ pip_at \in [ViewClients -> [at : {"out", "wait"}, after : Nat, woken : BOOLEAN]]

PipInv == PipTypeOK /\ PipSound

LEMMA TwoFramed == Cardinality(Framed) = 2
  <1>1. Framed = ({} \cup {1}) \cup {2}
    BY DEF Framed
  <1>2. IsFiniteSet({} \cup {1}) /\ Cardinality({} \cup {1}) = 1
    BY FS_EmptySet, FS_AddElement
  <1>3. 2 \notin {} \cup {1}
    OBVIOUS
  <1>4. Cardinality(Framed) = Cardinality({} \cup {1}) + 1
    BY <1>1, <1>2, <1>3, FS_AddElement
  <1> QED
    BY <1>2, <1>4

LEMMA PipInvInit == PipInit => PipInv
  BY DEF PipInit, PipInv, PipTypeOK, PipSound, Framed

LEMMA NextSourceMoves ==
    ASSUME NEW v, v = [th |-> v.th, stop |-> v.stop, i |-> v.i, after |-> v.after, new |-> v.new,
                       got |-> v.got, ts |-> v.ts, now |-> v.now],
           v.i \in Framed
    PROVE  /\ NextSource(v) = [th |-> "get", stop |-> v.stop, i |-> IF v.i = 2 THEN 1 ELSE v.i + 1,
                               after |-> IF v.i = 2 THEN v.new ELSE v.after, new |-> v.new,
                               got |-> v.got, ts |-> v.ts, now |-> v.now]
           /\ (IF v.i = 2 THEN 1 ELSE v.i + 1) \in Framed
  <1>1. CASE v.i = 2
    <2>1. NextSource(v) = [v EXCEPT !.th = "get", !.i = 1, !.after = v.new]
      BY <1>1, TwoFramed DEF NextSource
    <2> QED
      BY <1>1, <2>1 DEF Framed
  <1>2. CASE v.i # 2
    <2>1. NextSource(v) = [v EXCEPT !.th = "get", !.i = v.i + 1]
      BY <1>2, TwoFramed DEF NextSource
    <2>2. v.i + 1 = 2
      BY <1>2 DEF Framed
    <2>3. NextSource(v) = [th |-> "get", stop |-> v.stop, i |-> 2, after |-> v.after,
                           new |-> v.new, got |-> v.got, ts |-> v.ts, now |-> v.now]
      BY <2>1, <2>2
    <2> QED
      BY <1>2, <2>2, <2>3 DEF Framed
  <1> QED
    BY <1>1, <1>2

\* The steps in which nobody's picture gets newer.
LEMMA PipSilentInv ==
    ASSUME PipInv, PipStart \/ PipGet \/ PipMissing \/ PipEnd \/ PipStop \/ PipTime
    PROVE  PipInv'
  <1>1. PipTypeOK /\ pip_at' = pip_at
    BY DEF PipInv, PipStart, PipGet, PipMissing, PipEnd, PipStop, PipTime
  <1>2. pip' \in [th : {"off", "get", "store", "exit"}, stop : BOOLEAN, i : Nat, after : Nat,
                  new : Nat, got : Nat, ts : [Framed -> Nat], now : Nat]
        /\ pip'.i \in Framed /\ pip'.now >= 1 /\ (pip'.new = pip.new \/ pip'.new = 0)
    <2>1. CASE PipStart
      BY <1>1, <2>1 DEF PipTypeOK, PipStart, Framed
    <2>2. CASE PipGet
      <3>1. PICK u \in {0} \cup {u \in 1..pip.now : u > pip.after /\ u >= pip.ts[pip.i]} :
               pip' = [pip EXCEPT !.th = "store", !.got = u]
        BY <2>2 DEF PipGet
      <3>2. u \in Nat
        OBVIOUS
      <3> QED
        BY ONLY <1>1, <3>1, <3>2 DEF PipTypeOK
    <2>3. CASE PipMissing \/ PipEnd \/ PipStop
      BY <1>1, <2>3 DEF PipTypeOK, PipMissing, PipEnd, PipStop
    <2>4. CASE PipTime
      BY <1>1, <2>4 DEF PipTypeOK, PipTime
    <2> QED
      BY <2>1, <2>2, <2>3, <2>4
  <1>3. PipSound'
    <2> SUFFICES ASSUME NEW c \in ViewClients, pip_at[c].at = "wait", ~pip_at[c].woken
                 PROVE  pip'.new <= pip_at[c].after
      BY <1>1 DEF PipSound
    <2>1. pip.new <= pip_at[c].after
      BY DEF PipInv, PipSound
    <2>2. pip_at[c].after \in Nat
      BY <1>1 DEF PipTypeOK
    <2> QED
      BY <1>2, <2>1, <2>2
  <1> QED
    BY <1>1, <1>2, <1>3 DEF PipInv, PipTypeOK

LEMMA PipStoreInv == ASSUME PipInv, PipStore PROVE PipInv'
  <1>1. PipTypeOK
    BY DEF PipInv
  <1>2. CASE pip.got = 0 /\ pip' = NextSource(pip) /\ pip_at' = pip_at
    <2>1. pip = [th |-> pip.th, stop |-> pip.stop, i |-> pip.i, after |-> pip.after,
                 new |-> pip.new, got |-> pip.got, ts |-> pip.ts, now |-> pip.now]
      BY <1>1 DEF PipTypeOK
    <2>2. /\ pip' = [th |-> "get", stop |-> pip.stop, i |-> IF pip.i = 2 THEN 1 ELSE pip.i + 1,
                     after |-> IF pip.i = 2 THEN pip.new ELSE pip.after, new |-> pip.new,
                     got |-> pip.got, ts |-> pip.ts, now |-> pip.now]
          /\ (IF pip.i = 2 THEN 1 ELSE pip.i + 1) \in Framed
      BY <1>1, <1>2, <2>1, NextSourceMoves DEF PipTypeOK
    <2>3. PipTypeOK'
      BY <1>1, <1>2, <2>2 DEF PipTypeOK, Framed
    <2>4. pip'.new = pip.new
      BY <2>2
    <2> QED
      BY <1>2, <2>3, <2>4 DEF PipInv, PipSound
  <1>3. CASE pip.got # 0 /\ pip_at' = Notified
             /\ pip' = NextSource([pip EXCEPT !.ts[pip.i] = pip.got,
                                     !.new = IF @ <= pip.after THEN pip.got ELSE @])
    <2> DEFINE n == IF pip.new <= pip.after THEN pip.got ELSE pip.new
               ts == [pip.ts EXCEPT ![pip.i] = pip.got]
               v == [th |-> pip.th, stop |-> pip.stop, i |-> pip.i, after |-> pip.after,
                     new |-> n, got |-> pip.got, ts |-> ts, now |-> pip.now]
    <2>1. n \in Nat /\ ts \in [Framed -> Nat]
      BY <1>1 DEF PipTypeOK
    <2>2. [pip EXCEPT !.ts[pip.i] = pip.got, !.new = IF @ <= pip.after THEN pip.got ELSE @] = v
      <3>1. [pip EXCEPT !.ts[pip.i] = pip.got, !.new = IF @ <= pip.after THEN pip.got ELSE @]
              = [pip EXCEPT !.ts = ts, !.new = n]
        BY <1>1 DEF PipTypeOK
      <3> HIDE DEF n, ts
      <3>2. pip = [th |-> pip.th, stop |-> pip.stop, i |-> pip.i, after |-> pip.after,
                   new |-> pip.new, got |-> pip.got, ts |-> pip.ts, now |-> pip.now]
        BY <1>1 DEF PipTypeOK
      <3>3. [pip EXCEPT !.ts = ts, !.new = n] = v
        <4> DEFINE w == [pip EXCEPT !.ts = ts]
        <4>1. w = [th |-> pip.th, stop |-> pip.stop, i |-> pip.i, after |-> pip.after,
                   new |-> pip.new, got |-> pip.got, ts |-> ts, now |-> pip.now]
          BY ONLY <3>2
        <4>2. [pip EXCEPT !.ts = ts, !.new = n] = [w EXCEPT !.new = n]
          BY ONLY <3>2
        <4> HIDE DEF w
        <4> QED
          BY ONLY <4>1, <4>2
      <3> QED
        BY <3>1, <3>3
    <2> HIDE DEF n, ts
    <2>3. v.i \in Framed /\ v.i = pip.i
      BY <1>1 DEF PipTypeOK
    <2>4. /\ pip' = [th |-> "get", stop |-> pip.stop, i |-> IF pip.i = 2 THEN 1 ELSE pip.i + 1,
                     after |-> IF pip.i = 2 THEN n ELSE pip.after, new |-> n,
                     got |-> pip.got, ts |-> ts, now |-> pip.now]
          /\ (IF pip.i = 2 THEN 1 ELSE pip.i + 1) \in Framed
      BY <1>3, <2>2, <2>3, NextSourceMoves
    <2>5. /\ pip_at' \in [ViewClients -> [at : {"out", "wait"}, after : Nat, woken : BOOLEAN]]
          /\ \A c \in ViewClients : pip_at'[c].at = "wait" => pip_at'[c].woken
      <3> DEFINE told(c) == [pip_at[c] EXCEPT !.woken = @ \/ pip_at[c].at = "wait"]
      <3>1. \A c \in ViewClients :
               /\ told(c) \in [at : {"out", "wait"}, after : Nat, woken : BOOLEAN]
               /\ told(c).at = "wait" => told(c).woken
        BY <1>1 DEF PipTypeOK
      <3>2. pip_at' = [c \in ViewClients |-> told(c)]
        BY <1>3 DEF Notified
      <3> HIDE DEF told
      <3> QED
        BY <3>1, <3>2
    <2>6. PipTypeOK'
      BY <1>1, <2>1, <2>4, <2>5 DEF PipTypeOK, Framed
    <2> QED
      BY <2>5, <2>6 DEF PipInv, PipSound
  <1> QED
    BY <1>2, <1>3 DEF PipStore

LEMMA PipCallInv == ASSUME PipInv, NEW c \in ViewClients, PipCall(c) PROVE PipInv'
  <1>1. PipTypeOK /\ pip' = pip
    BY DEF PipInv, PipCall
  <1>2. CASE pip.new <= pip_at[c].after /\ ~pip.stop
    <2>1. pip_at' = [pip_at EXCEPT ![c].at = "wait", ![c].woken = FALSE]
      BY <1>2 DEF PipCall
    <2>2. PipTypeOK' /\ pip_at'[c].after = pip_at[c].after
          /\ \A d \in ViewClients : d # c => pip_at'[d] = pip_at[d]
      BY <1>1, <2>1 DEF PipTypeOK
    <2> QED
      BY <1>1, <1>2, <2>2 DEF PipInv, PipSound
  <1>3. CASE ~(pip.new <= pip_at[c].after /\ ~pip.stop)
    <2> DEFINE a == IF pip.ts[1] = 0 THEN pip_at[c].after ELSE pip.ts[1]
    <2>1. pip_at' = [pip_at EXCEPT ![c] = [at |-> "out", woken |-> FALSE, after |-> a]]
      BY <1>3 DEF PipCall
    <2>2. a \in Nat
      BY <1>1 DEF PipTypeOK, Framed
    <2> HIDE DEF a
    <2>3. PipTypeOK' /\ pip_at'[c].at = "out"
          /\ \A d \in ViewClients : d # c => pip_at'[d] = pip_at[d]
      BY <1>1, <2>1, <2>2 DEF PipTypeOK
    <2> QED
      BY <1>1, <2>3 DEF PipInv, PipSound
  <1> QED
    BY <1>2, <1>3

LEMMA PipStep == ASSUME PipInv, PipNext \/ UNCHANGED pipVars PROVE PipInv'
  <1>1. CASE UNCHANGED pipVars
    BY <1>1 DEF pipVars, PipInv, PipTypeOK, PipSound
  <1> QED
    BY <1>1, PipSilentInv, PipStoreInv, PipCallInv DEF PipNext

-----------------------------------------------------------------------------
(* For any number of viewers, of sources that are shown and of cells.      *)
THEOREM ViewsSoundHolds == ViewSpec => []ViewsSound
  <1> DEFINE Inv == SwitchInv /\ GridInv /\ PipInv
  <1>1. ViewInit => Inv
    BY SwitchInvInit, GridInvInit, PipInvInit DEF ViewInit
  <1>2. Inv /\ [ViewNext]_viewVars => Inv'
    <2> SUFFICES ASSUME Inv, [ViewNext]_viewVars PROVE Inv'
      OBVIOUS
    <2>1. SwitchNext \/ UNCHANGED switchVars
      BY DEF ViewNext, viewVars
    <2>2. GridNext \/ UNCHANGED grid
      BY DEF ViewNext, viewVars
    <2>3. PipNext \/ UNCHANGED pipVars
      BY DEF ViewNext, viewVars
    <2> QED
      BY <2>1, <2>2, <2>3, SwitchStep, GridStep, PipStep
  <1>3. Inv => ViewsSound
    BY SwitchInvSound DEF GridInv, PipInv, ViewsSound
  <1> QED
    BY <1>1, <1>2, <1>3, PTL DEF ViewSpec

-----------------------------------------------------------------------------
(***************************************************************************)
(* DerivedSources: a source that is some frames late, and one made of      *)
(* another source, for any length, number of viewers and of frames.        *)
(*                                                                         *)
(* That no deleted frame is copied needs that the queue goes on where the  *)
(* deleted frames and the one before it end, and stays while a viewer      *)
(* copies its first; that pictures grow needs what is asked for next.      *)
(***************************************************************************)

DelayStates == [n : Int, filtered : BOOLEAN, th : {"off", "get", "wait", "exit"}, stop : BOOLEAN,
                queue : Seq(Nat), prev : Nat, last : Nat, made : Nat, gray : SUBSET Nat,
                freed : SUBSET Nat, users : Int, ended : BOOLEAN, fault : BOOLEAN]

LateStates == [at : {"out", "copy", "label"}, of : Nat, with : Nat, pic : Nat, label : Nat]

\* The queue goes on where the frame before it ends, and has the length asked for.
Line(queue, prev, made, n) ==
    /\ made = prev + Len(queue)
    /\ n >= 0 => Len(queue) <= n
    /\ \A i \in 1 .. Len(queue) : queue[i] = prev + i

\* What a viewer copies is the first of the queue: it has the lock.  What it labels
\* afterwards was made already.
Late(l) ==
    /\ l.at = "copy" => l.of = delay.prev + 1 /\ delay.queue # <<>> /\ l.with \in {0, delay.prev}
    /\ l.at = "label" => delay.filtered /\ l.of <= delay.made

Labelled(l, d) ==
    l.label # 0 => /\ l.label >= l.pic
                   /\ ~d.filtered /\ d.n > 0 => l.label < l.pic + d.n

\* Until the thread has ended once.
DelayInOrder ==
    /\ Line(delay.queue, delay.prev, delay.made, delay.n)
    /\ delay.last \in {0, delay.made}
    /\ delay.freed = 1 .. (delay.prev - 1)
    /\ ~delay.fault
    /\ \A v \in DelayViewers : Late(late[v]) /\ Labelled(late[v], delay)

DelayInv ==
    /\ delay \in DelayStates
    /\ late \in [DelayViewers -> LateStates]
    /\ delay.users = IF delay.th = "off" THEN 0 ELSE 1
    /\ ~delay.ended => DelayInOrder

Handed == [ts : Nat, failed : BOOLEAN]
OtherStates == [th : {"off", "get", "hand", "crash"}, stop : BOOLEAN, paused : BOOLEAN,
                shows : BOOLEAN, users : Int, now : Nat, after : Nat, got : Nat,
                failed : BOOLEAN, handed : Seq(Handed)]

\* Later pictures come later, and the last one is not newer than ts.
PicturesGrow(handed) ==
    \A i \in 1 .. Len(handed) :
       i > 1 => handed[i].failed \/ handed[i].ts > handed[i - 1].ts
NotNewer(handed, ts) == \A i \in 1 .. Len(handed) : i = Len(handed) => handed[i].ts <= ts

\* What is asked for is newer than what was handed on, unless there was a failure.
OtherInv ==
    /\ other \in OtherStates
    /\ other.users = IF other.th = "off" THEN 0 ELSE 1
    /\ other.th = "crash" => ~other.shows
    /\ PicturesGrow(other.handed)
    /\ other.th = "get" /\ ~other.failed => NotNewer(other.handed, other.after)
    /\ other.th = "hand" /\ other.got = 0 => other.failed
    /\ other.th = "hand" /\ other.got # 0 =>
         /\ other.got = other.after
         /\ ~other.failed => NotNewer(other.handed, other.got - 1)

DerivedInv == DelayInv /\ OtherInv

-----------------------------------------------------------------------------
(* The queue.                                                              *)

(* A frame more, while the queue is not full.                              *)
LEMMA LineGrows ==
    ASSUME NEW q \in Seq(Nat), NEW prev \in Nat, NEW made \in Nat, NEW n \in Int,
           Line(q, prev, made, n), n < 0 \/ Len(q) < n
    PROVE  /\ Append(q, made + 1) \in Seq(Nat) /\ Append(q, made + 1) # <<>>
           /\ Line(Append(q, made + 1), prev, made + 1, n)
  <1> DEFINE new == Append(q, made + 1)
  <1>1. /\ new \in Seq(Nat) /\ Len(new) = Len(q) + 1 /\ Len(q) \in Nat
        /\ new[Len(q) + 1] = made + 1
    BY AppendProperties
  <1>2. \A i \in 1 .. Len(q) : new[i] = q[i]
    BY AppendProperties
  <1> HIDE DEF new
  <1>3. made = prev + Len(q) /\ \A i \in 1 .. Len(q) : q[i] = prev + i
    BY DEF Line
  <1>4. ASSUME NEW i \in 1 .. Len(new) PROVE new[i] = prev + i
    <2>1. CASE i = Len(q) + 1
      BY <1>1, <1>3, <2>1
    <2>2. CASE i # Len(q) + 1
      <3>1. i \in 1 .. Len(q)
        BY <1>1, <2>2
      <3> QED
        BY <1>2, <1>3, <3>1
    <2> QED
      BY <2>1, <2>2
  <1>5. made + 1 = prev + Len(new)
    BY <1>1, <1>3
  <1>6. n >= 0 => Len(new) <= n
    BY <1>1
  <1>7. new # <<>>
    BY <1>1
  <1> QED
    BY <1>1, <1>4, <1>5, <1>6, <1>7 DEF Line, new

(* The first of the queue leaves it.                                       *)
LEMMA LineMoves ==
    ASSUME NEW q \in Seq(Nat), NEW prev \in Nat, NEW made \in Nat, NEW n \in Int,
           Line(q, prev, made, n), n > 0, q # <<>>
    PROVE  /\ Tail(q) \in Seq(Nat) /\ Head(q) = prev + 1
           /\ Line(Tail(q), prev + 1, made, n) /\ Len(Tail(q)) < n
  <1> DEFINE rest == Tail(q)
  <1>1. /\ rest \in Seq(Nat) /\ Len(rest) = Len(q) - 1 /\ Len(q) \in Nat /\ Len(q) >= 1
        /\ Head(q) = q[1]
    BY EmptySeq, HeadTailProperties
  <1>2. \A i \in 1 .. Len(rest) : rest[i] = q[i + 1]
    BY HeadTailProperties
  <1> HIDE DEF rest
  <1>3. made = prev + Len(q) /\ (\A i \in 1 .. Len(q) : q[i] = prev + i) /\ Len(q) <= n
    BY DEF Line
  <1>4. 1 \in 1 .. Len(q)
    BY <1>1
  <1>5. Head(q) = prev + 1
    BY <1>1, <1>3, <1>4
  <1>6. ASSUME NEW i \in 1 .. Len(rest) PROVE rest[i] = (prev + 1) + i
    <2>1. i + 1 \in 1 .. Len(q)
      BY <1>1
    <2> QED
      BY <1>2, <1>3, <2>1
  <1>7. made = (prev + 1) + Len(rest) /\ Len(rest) < n /\ (n >= 0 => Len(rest) <= n)
    BY <1>1, <1>3
  <1> QED
    BY <1>1, <1>5, <1>6, <1>7 DEF Line, rest

-----------------------------------------------------------------------------
(* source_delay.                                                           *)

LEMMA DelayFields ==
    ASSUME DelayInv
    PROVE  /\ delay \in DelayStates /\ late \in [DelayViewers -> LateStates]
           /\ delay.n \in Int /\ delay.queue \in Seq(Nat) /\ Len(delay.queue) \in Nat
           /\ delay.prev \in Nat /\ delay.last \in Nat /\ delay.made \in Nat
           /\ delay.gray \subseteq Nat /\ delay.freed \subseteq Nat /\ delay.users \in Int
           /\ delay.ended \in BOOLEAN /\ delay.fault \in BOOLEAN /\ delay.filtered \in BOOLEAN
  BY DEF DelayInv, DelayStates

(* Steps of the thread and of main that leave the frames alone.            *)
LEMMA DelayThread ==
    ASSUME DelayInv, UNCHANGED late, delay' \in DelayStates,
           delay'.n = delay.n, delay'.filtered = delay.filtered, delay'.queue = delay.queue,
           delay'.prev = delay.prev, delay'.last = delay.last, delay'.made = delay.made,
           delay'.freed = delay.freed, delay'.ended = delay.ended, delay'.fault = delay.fault,
           delay'.users = IF delay'.th = "off" THEN 0 ELSE 1
    PROVE  DelayInv'
  <1>1. late' \in [DelayViewers -> LateStates]
    BY DEF DelayInv
  <1>2. ASSUME ~delay'.ended PROVE DelayInOrder'
    <2>1. DelayInOrder
      BY <1>2 DEF DelayInv
    <2>2. ASSUME NEW v \in DelayViewers PROVE Late(late[v])' /\ Labelled(late'[v], delay')
      BY <2>1 DEF DelayInOrder, Late, Labelled
    <2> QED
      BY <2>1, <2>2 DEF DelayInOrder
  <1> QED
    BY <1>1, <1>2 DEF DelayInv

LEMMA DelayStartStopInv ==
    ASSUME DelayInv, DelayStart \/ DelayStop \/ DelayCall \/ DelayNothing PROVE DelayInv'
  <1>1. delay \in DelayStates /\ UNCHANGED late /\ delay.users = IF delay.th = "off" THEN 0 ELSE 1
    BY DEF DelayInv, DelayStart, DelayStop, DelayCall, DelayNothing
  <1>2. CASE DelayStart
    <2>0. delay.th = "off" /\ delay' = [delay EXCEPT !.th = "get", !.stop = FALSE,
                                                    !.users = delay.users + 1]
      BY <1>2 DEF DelayStart
    <2> DEFINE users == delay.users + 1
    <2>4. delay.users = 0
      BY <1>1, <2>0
    <2>5. users = 1 /\ users \in Int
      BY <2>4
    <2>1. delay' = [delay EXCEPT !.th = "get", !.stop = FALSE, !.users = users]
      BY <2>0
    <2>6. users \in Int
      BY <2>5
    <2> HIDE DEF users
    <2>7. delay' \in DelayStates /\ delay'.th = "get" /\ delay'.users = users
      BY <1>1, <2>1, <2>6 DEF DelayStates
    <2>2. delay' \in DelayStates /\ delay'.th = "get" /\ delay'.users = 1
      BY <2>5, <2>7
    <2>3. /\ delay'.n = delay.n /\ delay'.filtered = delay.filtered /\ delay'.queue = delay.queue
          /\ delay'.prev = delay.prev /\ delay'.last = delay.last /\ delay'.made = delay.made
          /\ delay'.freed = delay.freed /\ delay'.ended = delay.ended /\ delay'.fault = delay.fault
      BY <1>1, <2>1 DEF DelayStates
    <2> QED
      BY <1>1, <2>2, <2>3, DelayThread
  <1>3. ASSUME DelayStop \/ DelayCall \/ DelayNothing PROVE DelayInv'
    <2>1. PICK th \in {"get", "wait", "exit"}, stop \in BOOLEAN :
             delay.th # "off" /\ delay' = [delay EXCEPT !.th = th, !.stop = stop]
      <3>1. CASE DelayStop
        <4>1. delay' = [delay EXCEPT !.th = delay.th, !.stop = TRUE] /\ delay.th # "off"
          BY <1>1, <3>1 DEF DelayStop, DelayStates
        <4>2. delay.th \in {"get", "wait", "exit"}
          BY <1>1, <4>1 DEF DelayStates
        <4> QED
          BY <4>1, <4>2
      <3>2. CASE DelayCall
        <4>1. delay' = [delay EXCEPT !.th = "wait", !.stop = delay.stop] /\ delay.th # "off"
          BY <1>1, <3>2 DEF DelayCall, DelayStates
        <4>2. delay.stop \in BOOLEAN
          BY <1>1 DEF DelayStates
        <4> QED
          BY <4>1, <4>2
      <3>3. CASE DelayNothing
        <4>1. delay' = [delay EXCEPT !.th = "get", !.stop = delay.stop] /\ delay.th # "off"
          BY <1>1, <3>3 DEF DelayNothing, DelayStates
        <4>2. delay.stop \in BOOLEAN
          BY <1>1 DEF DelayStates
        <4> QED
          BY <4>1, <4>2
      <3> QED
        BY <1>3, <3>1, <3>2, <3>3
    <2>2. delay' \in DelayStates /\ delay'.th # "off" /\ delay'.users = 1
      BY <1>1, <2>1 DEF DelayStates
    <2>3. /\ delay'.n = delay.n /\ delay'.filtered = delay.filtered /\ delay'.queue = delay.queue
          /\ delay'.prev = delay.prev /\ delay'.last = delay.last /\ delay'.made = delay.made
          /\ delay'.freed = delay.freed /\ delay'.ended = delay.ended /\ delay'.fault = delay.fault
      BY <2>1
    <2> QED
      BY <1>1, <2>2, <2>3, DelayThread
  <1> QED
    BY <1>2, <1>3

(* A frame is kept while no viewer copies one: the queue moves as a whole. *)
LEMMA KeptInv ==
    ASSUME DelayInv, UNCHANGED late, ~Reading, delay.th # "off", delay' \in DelayStates,
           NEW q \in Seq(Nat), NEW prev \in Nat, NEW freed \in SUBSET Nat, NEW last \in Nat,
           delay'.th # "off", delay'.users = delay.users, delay'.n = delay.n,
           delay'.filtered = delay.filtered, delay'.ended = delay.ended,
           delay'.made = delay.made + 1, delay'.queue = q, delay'.prev = prev,
           delay'.last = last, delay'.freed = freed,
           ~delay.ended => /\ Line(q, prev, delay.made + 1, delay.n)
                           /\ last \in {0, delay.made + 1}
                           /\ freed = 1 .. (prev - 1)
                           /\ ~delay'.fault
    PROVE  DelayInv'
  <1>1. late' \in [DelayViewers -> LateStates] /\ delay'.users = 1
    BY DEF DelayInv
  <1>2. ASSUME ~delay'.ended PROVE DelayInOrder'
    <2>1. DelayInOrder
      BY <1>2 DEF DelayInv
    <2>2. ASSUME NEW v \in DelayViewers PROVE Late(late[v])' /\ Labelled(late'[v], delay')
      <3>1. Late(late[v]) /\ Labelled(late[v], delay) /\ late[v].at # "copy"
        BY <2>1 DEF DelayInOrder, Reading
      <3>2. late[v].of \in Nat /\ delay.made \in Nat
        BY DelayFields DEF LateStates
      <3>3. late[v].of <= delay.made => late[v].of <= delay.made + 1
        BY <3>2
      <3>4. Late(late[v])'
        BY <3>1, <3>3 DEF Late
      <3>5. Labelled(late'[v], delay')
        BY <3>1 DEF Labelled
      <3> QED
        BY <3>4, <3>5
    <2> QED
      BY <1>2, <2>2 DEF DelayInOrder
  <1> QED
    BY <1>1, <1>2 DEF DelayInv

LEMMA DelayKeepInv == ASSUME DelayInv, DelayKeep PROVE DelayInv'
  <1> DEFINE made == delay.made + 1
  <1>1. delay.th = "wait" /\ ~Reading /\ UNCHANGED late /\ delay.users = 1
    BY DEF DelayKeep, DelayInv
  <1>2. /\ delay \in DelayStates /\ delay.n \in Int /\ delay.queue \in Seq(Nat)
        /\ Len(delay.queue) \in Nat /\ delay.prev \in Nat /\ delay.last \in Nat
        /\ delay.made \in Nat /\ made \in Nat /\ delay.gray \subseteq Nat
        /\ delay.freed \subseteq Nat /\ delay.fault \in BOOLEAN
    BY DelayFields
  <1>3. ~delay.ended =>
           /\ Line(delay.queue, delay.prev, delay.made, delay.n)
           /\ delay.freed = 1 .. (delay.prev - 1) /\ ~delay.fault
    BY DEF DelayInv, DelayInOrder
  <1>4. ASSUME NEW q \in Seq(Nat), NEW prev \in Nat, NEW freed \in SUBSET Nat, NEW fault \in BOOLEAN,
               NEW d, d \in DelayStates,
               d = [delay EXCEPT !.prev = prev, !.freed = freed, !.fault = fault, !.queue = q],
               Queued(d), d.queue = q, Append(q, made) \in Seq(Nat),
               ~delay.ended => /\ Line(Append(q, made), prev, made, delay.n)
                               /\ freed = 1 .. (prev - 1) /\ ~fault
        PROVE  DelayInv'
    <2> DEFINE more == Append(q, made)
    <2>1. PICK gray \in SUBSET Nat, last \in {0, made} :
             delay' = [d EXCEPT !.th = "get", !.made = made, !.queue = more, !.gray = gray,
                                !.last = last]
      <3>1. PICK g \in BOOLEAN :
               delay' = [d EXCEPT !.th = "get", !.made = @ + 1, !.queue = Append(@, delay.made + 1),
                                  !.gray = IF g THEN @ \cup {delay.made + 1} ELSE @,
                                  !.last = IF g THEN 0 ELSE delay.made + 1]
        BY <1>4 DEF Queued
      <3> DEFINE grays == IF g THEN d.gray \cup {made} ELSE d.gray
                 last == IF g THEN 0 ELSE made
      <3>2. d.made = delay.made /\ d.gray = delay.gray /\ d.queue = q
        BY <1>2, <1>4 DEF DelayStates
      <3>3. grays \in SUBSET Nat /\ last \in {0, made}
        BY <1>2, <3>2
      <3>4. delay' = [d EXCEPT !.th = "get", !.made = made, !.queue = more, !.gray = grays,
                               !.last = last]
        BY <3>1, <3>2
      <3> QED
        BY <3>3, <3>4
    <2>2. last \in Nat /\ more \in Seq(Nat)
      BY <1>2, <1>4
    <2> HIDE DEF more, made
    <2>3. /\ delay' \in DelayStates /\ delay'.th = "get" /\ delay'.made = made /\ delay'.queue = more
          /\ delay'.last = last
      BY <1>2, <1>4, <2>1, <2>2 DEF DelayStates
    <2>4. /\ delay'.users = delay.users /\ delay'.n = delay.n /\ delay'.filtered = delay.filtered
          /\ delay'.ended = delay.ended /\ delay'.prev = prev /\ delay'.freed = freed
          /\ delay'.fault = fault
      BY <1>2, <1>4, <2>1 DEF DelayStates
    <2> QED
      BY <1>1, <1>4, <2>1, <2>2, <2>3, <2>4, KeptInv DEF more, made
  <1>5. CASE MayWait /\ Queued(delay)
    <2>1. delay = [delay EXCEPT !.prev = delay.prev, !.freed = delay.freed, !.fault = delay.fault,
                                !.queue = delay.queue]
      BY <1>2 DEF DelayStates
    <2>2. Append(delay.queue, made) \in Seq(Nat)
      BY <1>2, AppendProperties
    <2>3. ~delay.ended => Line(Append(delay.queue, made), delay.prev, made, delay.n)
      BY <1>2, <1>3, <1>5, LineGrows DEF MayWait
    <2> QED
      BY <1>2, <1>3, <1>4, <1>5, <2>1, <2>2, <2>3
  <1>6. CASE /\ ~MayWait /\ delay.n # 0
             /\ Queued([Discard(delay.prev) EXCEPT !.prev = Head(delay.queue), !.queue = Tail(@)])
    <2> DEFINE rest == Tail(delay.queue)
               head == Head(delay.queue)
               freed == delay.freed \cup ({delay.prev} \ {0})
               fault == delay.fault \/ delay.prev \in delay.freed
               d == [delay EXCEPT !.prev = head, !.freed = freed, !.fault = fault, !.queue = rest]
    <2>1. delay.n > 0 /\ delay.queue # <<>>
      <3>1. ~(delay.n < 0) /\ ~(Len(delay.queue) < delay.n) /\ delay.n # 0
        BY <1>6 DEF MayWait
      <3>2. Len(delay.queue) > 0
        BY <1>2, <3>1
      <3> QED
        BY <1>2, <3>1, <3>2
    <2>2. rest \in Seq(Nat) /\ head \in Nat
      BY <1>2, <2>1, HeadTailProperties
    <2>3. freed \in SUBSET Nat /\ fault \in BOOLEAN
      BY <1>2
    <2>4. [Discard(delay.prev) EXCEPT !.prev = Head(delay.queue), !.queue = Tail(@)] = d
      BY <1>2 DEF Discard, DelayStates
    <2> HIDE DEF d
    <2>5. Queued(d)
      BY <1>6, <2>4
    <2>6. ~delay.ended => /\ head = delay.prev + 1 /\ Line(rest, head, delay.made, delay.n)
                          /\ Len(rest) < delay.n
      <3> SUFFICES ASSUME ~delay.ended
                   PROVE  /\ head = delay.prev + 1 /\ Line(rest, head, delay.made, delay.n)
                          /\ Len(rest) < delay.n
        OBVIOUS
      <3> DEFINE next == delay.prev + 1
      <3>1. head = next /\ Line(rest, next, delay.made, delay.n) /\ Len(rest) < delay.n
        BY <1>2, <1>3, <2>1, LineMoves
      <3> HIDE DEF next, head, rest
      <3>2. Line(rest, head, delay.made, delay.n)
        BY <3>1, Zenon
      <3>3. head = delay.prev + 1
        BY <3>1 DEF next
      <3> QED
        BY <3>1, <3>2, <3>3
    <2>7. ~delay.ended => freed = 1 .. (head - 1) /\ ~fault
      <3> SUFFICES ASSUME ~delay.ended PROVE freed = 1 .. (head - 1) /\ ~fault
        OBVIOUS
      <3>1. head - 1 = delay.prev
        BY <1>2, <2>6
      <3>2. delay.prev \notin 1 .. (delay.prev - 1)
        BY <1>2
      <3>3. (1 .. (delay.prev - 1)) \cup ({delay.prev} \ {0}) = 1 .. delay.prev
        BY <1>2
      <3> QED
        BY <1>3, <3>1, <3>2, <3>3
    <2> HIDE DEF rest, head, freed, fault
    <2>8. /\ d \in DelayStates /\ d.queue = rest
          /\ d = [delay EXCEPT !.prev = head, !.freed = freed, !.fault = fault, !.queue = rest]
      BY <1>2, <2>2, <2>3 DEF DelayStates, d
    <2>9. Append(rest, made) \in Seq(Nat)
      BY <1>2, <2>2, AppendProperties
    <2>10. ~delay.ended => Line(Append(rest, made), head, made, delay.n)
      BY <1>2, <2>2, <2>6, LineGrows
    <2> QED
      BY <1>4, <2>2, <2>3, <2>5, <2>7, <2>8, <2>9, <2>10
  <1>7. CASE delay.n = 0 /\ delay' = [delay EXCEPT !.th = "exit"]
    <2>1. delay' \in DelayStates /\ delay'.th = "exit" /\ delay'.users = 1
      BY <1>1, <1>2, <1>7 DEF DelayStates
    <2>2. /\ delay'.n = delay.n /\ delay'.filtered = delay.filtered /\ delay'.queue = delay.queue
          /\ delay'.prev = delay.prev /\ delay'.last = delay.last /\ delay'.made = delay.made
          /\ delay'.freed = delay.freed /\ delay'.ended = delay.ended /\ delay'.fault = delay.fault
      BY <1>7
    <2> QED
      BY <1>1, <2>1, <2>2, DelayThread
  <1> QED
    BY <1>5, <1>6, <1>7 DEF DelayKeep

LEMMA DelayEndInv == ASSUME DelayInv, DelayEnd PROVE DelayInv'
  <1> DEFINE dead == ({delay.queue[i] : i \in DOMAIN delay.queue} \cup {delay.prev}) \ {0}
             freed == delay.freed \cup dead
             fault == delay.fault \/ dead \cap delay.freed # {}
             users == delay.users - 1
  <1>1. /\ delay.th = "get" /\ UNCHANGED late
        /\ delay' = [delay EXCEPT !.th = "off", !.freed = freed, !.prev = 0, !.ended = TRUE,
                                  !.users = users, !.fault = fault]
    BY DEF DelayEnd
  <1>2. /\ delay \in DelayStates /\ delay.queue \in Seq(Nat) /\ delay.prev \in Nat
        /\ delay.freed \subseteq Nat /\ late \in [DelayViewers -> LateStates]
        /\ delay.fault \in BOOLEAN
    BY DelayFields
  <1>3. freed \in SUBSET Nat
    <2>1. \A i \in DOMAIN delay.queue : delay.queue[i] \in Nat
      BY <1>2
    <2> QED
      BY <1>2, <2>1
  <1>4. fault \in BOOLEAN
    BY <1>2
  <1>6. delay.users = 1
    BY <1>1 DEF DelayInv
  <1>5. users = 0
    BY <1>6
  <1>8. users \in Int
    BY <1>5
  <1> HIDE DEF freed, fault, users
  <1>9. delay' \in DelayStates /\ delay'.th = "off" /\ delay'.users = users /\ delay'.ended
    BY <1>1, <1>2, <1>3, <1>4, <1>8 DEF DelayStates
  <1>7. delay' \in DelayStates /\ delay'.th = "off" /\ delay'.users = 0 /\ delay'.ended
    BY <1>5, <1>9
  <1> QED
    BY <1>1, <1>2, <1>7 DEF DelayInv

(* A viewer in get_frame(): what it gets is what it copied.                *)
LEMMA LateStep ==
    ASSUME DelayInv, NEW v \in DelayViewers, NEW l \in LateStates, late' = [late EXCEPT ![v] = l],
           NEW fault \in BOOLEAN, delay' = [delay EXCEPT !.fault = fault],
           ~delay.ended => ~fault /\ Late(l) /\ Labelled(l, delay)
    PROVE  DelayInv'
  <1>1. delay \in DelayStates /\ late \in [DelayViewers -> LateStates]
    BY DelayFields
  <1>2. /\ late' \in [DelayViewers -> LateStates] /\ late'[v] = l
        /\ \A u \in DelayViewers : u # v => late'[u] = late[u]
    BY <1>1
  <1>3. delay' \in DelayStates
    BY <1>1 DEF DelayStates
  <1>4. /\ delay'.n = delay.n /\ delay'.filtered = delay.filtered /\ delay'.queue = delay.queue
        /\ delay'.prev = delay.prev /\ delay'.last = delay.last /\ delay'.made = delay.made
        /\ delay'.freed = delay.freed /\ delay'.ended = delay.ended /\ delay'.fault = fault
        /\ delay'.users = delay.users /\ delay'.th = delay.th
    BY <1>1 DEF DelayStates
  <1>5. ASSUME ~delay'.ended PROVE DelayInOrder'
    <2>1. DelayInOrder /\ ~fault /\ Late(l) /\ Labelled(l, delay)
      BY <1>4, <1>5 DEF DelayInv
    <2>2. ASSUME NEW u \in DelayViewers PROVE Late(late[u])' /\ Labelled(late'[u], delay')
      <3>1. Late(late'[u]) /\ Labelled(late'[u], delay)
        BY <1>2, <2>1 DEF DelayInOrder
      <3> QED
        BY <1>4, <3>1 DEF Late, Labelled
    <2> QED
      BY <1>4, <2>1, <2>2 DEF DelayInOrder
  <1> QED
    BY <1>2, <1>3, <1>4, <1>5 DEF DelayInv

(* The time of a frame that was made at most n - 1 frames later.           *)
LEMMA LabelFits ==
    ASSUME DelayInv, ~delay.ended, NEW v \in DelayViewers, NEW l,
           late[v].of <= delay.made, l.pic = late[v].of, l.label = delay.last,
           ~delay.filtered => late[v].of = delay.prev + 1
    PROVE  Labelled(l, delay)
  <1>1. /\ delay.made \in Nat /\ delay.prev \in Nat /\ delay.n \in Int /\ Len(delay.queue) \in Nat
        /\ late[v].of \in Nat
    BY DelayFields DEF LateStates
  <1>2. /\ delay.last \in {0, delay.made} /\ delay.made = delay.prev + Len(delay.queue)
        /\ delay.n >= 0 => Len(delay.queue) <= delay.n
    BY DEF DelayInv, DelayInOrder, Line
  <1>3. ASSUME l.label # 0 PROVE l.label >= l.pic /\ l.label = delay.made
    BY <1>1, <1>2, <1>3
  <1>4. ASSUME l.label # 0, ~delay.filtered, delay.n > 0 PROVE l.label < l.pic + delay.n
    <2> DEFINE k == Len(delay.queue)
    <2>1. k \in Nat /\ k <= delay.n /\ delay.made = delay.prev + k
      BY <1>1, <1>2, <1>4
    <2> HIDE DEF k
    <2>2. delay.made < (delay.prev + 1) + delay.n
      BY <1>1, <2>1
    <2> QED
      BY <1>3, <1>4, <2>2
  <1> QED
    BY <1>3, <1>4 DEF Labelled

LEMMA LateFrameInv == ASSUME DelayInv, NEW v \in DelayViewers, LateFrame(v) PROVE DelayInv'
  <1> DEFINE with == IF delay.filtered THEN delay.prev ELSE 0
             l == [late[v] EXCEPT !.at = "copy", !.of = Head(delay.queue), !.with = with]
  <1>1. delay.queue # <<>> /\ UNCHANGED delay
    BY DEF LateFrame
  <1>2. /\ delay \in DelayStates /\ late \in [DelayViewers -> LateStates] /\ late[v] \in LateStates
        /\ delay.queue \in Seq(Nat) /\ delay.prev \in Nat /\ delay.fault \in BOOLEAN
    BY DelayFields
  <1>3. Head(delay.queue) \in Nat /\ with \in Nat /\ with \in {0, delay.prev}
    BY <1>1, <1>2, HeadTailProperties
  <1>4. late' = [late EXCEPT ![v] = l]
    BY <1>2 DEF LateFrame
  <1> HIDE DEF with
  <1>5. /\ l \in LateStates /\ l.at = "copy" /\ l.of = Head(delay.queue) /\ l.with = with
        /\ l.pic = late[v].pic /\ l.label = late[v].label
    BY <1>2, <1>3 DEF LateStates
  <1> HIDE DEF l
  <1>6. ~delay.ended => ~delay.fault /\ Late(l) /\ Labelled(l, delay)
    <2> SUFFICES ASSUME ~delay.ended PROVE ~delay.fault /\ Late(l) /\ Labelled(l, delay)
      OBVIOUS
    <2>1. DelayInOrder
      BY DEF DelayInv
    <2>2. Head(delay.queue) = delay.prev + 1
      <3>1. 1 \in 1 .. Len(delay.queue) /\ Head(delay.queue) = delay.queue[1]
        BY <1>1, <1>2, EmptySeq, HeadTailProperties
      <3> QED
        BY <2>1, <3>1 DEF DelayInOrder, Line
    <2>3. Late(l)
      BY <1>1, <1>3, <1>5, <2>2 DEF Late
    <2>4. Labelled(l, delay)
      BY <1>5, <2>1 DEF DelayInOrder, Labelled
    <2> QED
      BY <2>1, <2>3, <2>4 DEF DelayInOrder
  <1>7. delay' = [delay EXCEPT !.fault = delay.fault]
    BY <1>1, <1>2 DEF DelayStates
  <1> QED
    BY <1>2, <1>4, <1>5, <1>6, <1>7, LateStep

LEMMA LateCopyInv == ASSUME DelayInv, NEW v \in DelayViewers, LateCopy(v) PROVE DelayInv'
  <1> DEFINE fault == delay.fault \/ {late[v].of, late[v].with} \cap delay.freed # {}
             l == IF delay.filtered THEN [late[v] EXCEPT !.at = "label"]
                  ELSE [late[v] EXCEPT !.at = "out", !.pic = late[v].of, !.label = delay.last]
  <1>1. late[v].at = "copy" /\ delay' = [delay EXCEPT !.fault = fault]
    BY DEF LateCopy
  <1>2. /\ delay \in DelayStates /\ late \in [DelayViewers -> LateStates] /\ late[v] \in LateStates
        /\ delay.prev \in Nat /\ delay.last \in Nat /\ fault \in BOOLEAN /\ delay.filtered \in BOOLEAN
        /\ Len(delay.queue) \in Nat /\ delay.queue \in Seq(Nat) /\ late[v].of \in Nat
    BY DelayFields DEF LateStates
  <1>3. late' = [late EXCEPT ![v] = l]
    BY <1>2 DEF LateCopy, Given
  <1>4. l \in LateStates
    BY <1>2 DEF LateStates
  <1>5. ~delay.ended => ~fault /\ Late(l) /\ Labelled(l, delay)
    <2> SUFFICES ASSUME ~delay.ended PROVE ~fault /\ Late(l) /\ Labelled(l, delay)
      OBVIOUS
    <2>1. /\ ~delay.fault /\ delay.freed = 1 .. (delay.prev - 1) /\ Late(late[v])
          /\ Labelled(late[v], delay) /\ delay.made = delay.prev + Len(delay.queue)
      BY DEF DelayInv, DelayInOrder, Line
    <2>2. late[v].of = delay.prev + 1 /\ late[v].with \in {0, delay.prev} /\ delay.queue # <<>>
      BY <1>1, <2>1 DEF Late
    <2>3. late[v].of \notin 1 .. (delay.prev - 1) /\ late[v].with \notin 1 .. (delay.prev - 1)
      BY <1>2, <2>2
    <2>4. ~fault
      BY <2>1, <2>3
    <2>5. late[v].of <= delay.made
      <3> DEFINE k == Len(delay.queue)
      <3>1. k \in Nat /\ k > 0 /\ delay.made = delay.prev + k
        BY <1>2, <2>1, <2>2, EmptySeq
      <3> HIDE DEF k
      <3> QED
        BY <1>2, <2>2, <3>1
    <2>6. CASE delay.filtered
      <3>1. /\ l.at = "label" /\ l.of = late[v].of /\ l.pic = late[v].pic
            /\ l.label = late[v].label
        BY <1>2, <2>6 DEF LateStates
      <3> HIDE DEF l
      <3> QED
        BY <2>1, <2>4, <2>5, <2>6, <3>1 DEF Late, Labelled
    <2>7. CASE ~delay.filtered
      <3>1. l.at = "out" /\ l.pic = late[v].of /\ l.label = delay.last
        BY <1>2, <2>7 DEF LateStates
      <3> HIDE DEF l, fault
      <3>2. Labelled(l, delay)
        BY <2>2, <2>5, <2>7, <3>1, LabelFits
      <3> QED
        BY <2>4, <3>1, <3>2 DEF Late
    <2> QED
      BY <2>6, <2>7
  <1> HIDE DEF fault, l
  <1> QED
    BY <1>1, <1>2, <1>3, <1>4, <1>5, LateStep

LEMMA LateLabelInv == ASSUME DelayInv, NEW v \in DelayViewers, LateLabel(v) PROVE DelayInv'
  <1> DEFINE l == [late[v] EXCEPT !.at = "out", !.pic = late[v].of, !.label = delay.last]
  <1>1. late[v].at = "label" /\ UNCHANGED delay
    BY DEF LateLabel
  <1>2. /\ delay \in DelayStates /\ late \in [DelayViewers -> LateStates] /\ late[v] \in LateStates
        /\ delay.last \in Nat /\ late[v].of \in Nat /\ delay.fault \in BOOLEAN
    BY DelayFields DEF LateStates
  <1>3. late' = [late EXCEPT ![v] = l]
    BY <1>2 DEF LateLabel, Given
  <1>4. l \in LateStates /\ l.at = "out" /\ l.pic = late[v].of /\ l.label = delay.last
    BY <1>2 DEF LateStates
  <1> HIDE DEF l
  <1>5. ~delay.ended => ~delay.fault /\ Late(l) /\ Labelled(l, delay)
    <2> SUFFICES ASSUME ~delay.ended PROVE ~delay.fault /\ Late(l) /\ Labelled(l, delay)
      OBVIOUS
    <2>1. ~delay.fault /\ delay.filtered /\ late[v].of <= delay.made
      BY <1>1 DEF DelayInv, DelayInOrder, Late
    <2>2. Labelled(l, delay)
      BY <1>4, <2>1, LabelFits
    <2> QED
      BY <1>4, <2>1, <2>2 DEF Late
  <1>6. delay' = [delay EXCEPT !.fault = delay.fault]
    BY <1>1, <1>2 DEF DelayStates
  <1> QED
    BY <1>2, <1>3, <1>4, <1>5, <1>6, LateStep

LEMMA DelaySameInv == DelayInv /\ UNCHANGED delayVars => DelayInv'
  <1> SUFFICES ASSUME DelayInv, UNCHANGED <<delay, late>> PROVE DelayInv'
    BY DEF delayVars
  <1>1. ASSUME DelayInOrder PROVE DelayInOrder'
    <2>1. \A v \in DelayViewers : Late(late[v])' /\ Labelled(late'[v], delay')
      BY <1>1 DEF DelayInOrder, Late, Labelled
    <2> QED
      BY <1>1, <2>1 DEF DelayInOrder
  <1> QED
    BY <1>1 DEF DelayInv

LEMMA DelayNextInv == DelayInv /\ DelayNext => DelayInv'
  <1> SUFFICES ASSUME DelayInv, DelayNext PROVE DelayInv'
    OBVIOUS
  <1>1. CASE DelayStart \/ DelayStop \/ DelayCall \/ DelayNothing
    BY <1>1, DelayStartStopInv
  <1>2. CASE DelayKeep
    BY <1>2, DelayKeepInv
  <1>3. CASE DelayEnd
    BY <1>3, DelayEndInv
  <1>4. ASSUME NEW v \in DelayViewers,
               LateNothing(v) \/ LateFrame(v) \/ LateCopy(v) \/ LateLabel(v)
        PROVE  DelayInv'
    <2>1. CASE LateNothing(v)
      BY <2>1, DelaySameInv DEF LateNothing
    <2>2. CASE LateFrame(v)
      BY <2>2, LateFrameInv
    <2>3. CASE LateCopy(v)
      BY <2>3, LateCopyInv
    <2>4. CASE LateLabel(v)
      BY <2>4, LateLabelInv
    <2> QED
      BY <1>4, <2>1, <2>2, <2>3, <2>4
  <1> QED
    BY <1>1, <1>2, <1>3, <1>4 DEF DelayNext

-----------------------------------------------------------------------------
(* source_other.                                                           *)

LEMMA OtherFields ==
    ASSUME OtherInv
    PROVE  /\ other \in OtherStates /\ other.handed \in Seq(Handed) /\ other.now \in Nat
           /\ other.after \in Nat /\ other.got \in Nat /\ other.failed \in BOOLEAN
           /\ other.users \in Int /\ other.shows \in BOOLEAN /\ other.paused \in BOOLEAN
  BY DEF OtherInv, OtherStates

LEMMA HandedFields ==
    ASSUME NEW s \in Seq(Handed), NEW i \in 1 .. Len(s) PROVE s[i] \in Handed /\ s[i].ts \in Nat
  <1>1. s[i] \in Handed
    OBVIOUS
  <1> QED
    BY <1>1 DEF Handed

LEMMA NotNewerThan ==
    ASSUME NEW s \in Seq(Handed), NEW x \in Int, NEW y \in Int, NotNewer(s, x), x <= y
    PROVE  NotNewer(s, y)
  <1>1. ASSUME NEW i \in 1 .. Len(s), i = Len(s) PROVE s[i].ts <= y
    <2> DEFINE ts == s[i].ts
    <2>1. ts \in Nat /\ ts <= x
      BY <1>1, HandedFields DEF NotNewer
    <2> HIDE DEF ts
    <2>2. ts <= y
      BY <2>1
    <2> QED
      BY <2>2 DEF ts
  <1> QED
    BY <1>1 DEF NotNewer

(* A picture that is newer than the last, or comes after a failure.        *)
LEMMA HandedGrows ==
    ASSUME NEW s \in Seq(Handed), NEW h \in Handed, PicturesGrow(s),
           h.failed \/ NotNewer(s, h.ts - 1)
    PROVE  /\ Append(s, h) \in Seq(Handed) /\ PicturesGrow(Append(s, h))
           /\ NotNewer(Append(s, h), h.ts)
  <1> DEFINE new == Append(s, h)
  <1>1. /\ new \in Seq(Handed) /\ Len(new) = Len(s) + 1 /\ Len(s) \in Nat
        /\ new[Len(s) + 1] = h
    BY AppendProperties
  <1>2. \A i \in 1 .. Len(s) : new[i] = s[i]
    BY AppendProperties
  <1> HIDE DEF new
  <1>3. \A i \in 1 .. Len(s) : s[i] \in Handed /\ s[i].ts \in Nat
    BY HandedFields
  <1>4. h.ts \in Nat
    BY DEF Handed
  <1>5. ASSUME NEW i \in 1 .. Len(new), i > 1 PROVE new[i].failed \/ new[i].ts > new[i - 1].ts
    <2>1. i - 1 \in 1 .. Len(s) /\ i \in Nat
      BY <1>1, <1>5
    <2>2. CASE i = Len(s) + 1
      <3>1. new[i] = h /\ i - 1 = Len(s)
        BY <1>1, <2>2
      <3>2. new[i - 1] = s[i - 1]
        BY <1>2, <2>1
      <3>3. NotNewer(s, h.ts - 1) => s[i - 1].ts <= h.ts - 1
        BY <2>1, <3>1 DEF NotNewer
      <3>4. s[i - 1].ts \in Nat
        BY <1>3, <2>1
      <3>5. s[i - 1].ts <= h.ts - 1 => h.ts > s[i - 1].ts
        BY <1>4, <3>4
      <3> QED
        BY <3>1, <3>2, <3>3, <3>5
    <2>3. CASE i # Len(s) + 1
      <3>1. i \in 1 .. Len(s)
        BY <1>1, <2>3
      <3>2. new[i] = s[i] /\ new[i - 1] = s[i - 1]
        BY <1>2, <2>1, <3>1
      <3> QED
        BY <1>5, <3>1, <3>2 DEF PicturesGrow
    <2> QED
      BY <2>2, <2>3
  <1>6. ASSUME NEW i \in 1 .. Len(new), i = Len(new) PROVE new[i].ts <= h.ts
    <2>1. new[i] = h
      BY <1>1, <1>6
    <2> QED
      BY <1>4, <2>1
  <1> QED
    BY <1>1, <1>5, <1>6 DEF PicturesGrow, NotNewer, new

LEMMA OtherStartInv == ASSUME OtherInv, OtherStart PROVE OtherInv'
  <1> DEFINE users == other.users + 1
  <1>1. /\ other.th = "off"
        /\ other' = [other EXCEPT !.th = "get", !.stop = FALSE, !.users = users, !.after = 0,
                                  !.failed = FALSE, !.handed = <<>>]
    BY DEF OtherStart
  <1>2. other \in OtherStates /\ other.users = 0
    BY <1>1 DEF OtherInv
  <1>3. users = 1
    BY <1>2
  <1>4. users \in Int
    BY <1>3
  <1>5. <<>> \in Seq(Handed)
    OBVIOUS
  <1> HIDE DEF users
  <1>6. /\ other' \in OtherStates /\ other'.th = "get" /\ other'.users = users
        /\ other'.handed = <<>> /\ other'.after = 0
    BY <1>1, <1>2, <1>4, <1>5 DEF OtherStates
  <1>7. PicturesGrow(<<>>) /\ NotNewer(<<>>, 0)
    BY DEF PicturesGrow, NotNewer
  <1> QED
    BY <1>3, <1>6, <1>7 DEF OtherInv

LEMMA OtherStopInv == ASSUME OtherInv, OtherStop \/ OtherPause \/ OtherFrame PROVE OtherInv'
  <1>1. other \in OtherStates /\ other.now \in Nat /\ other.now + 1 \in Nat /\ other.stop \in BOOLEAN
        /\ other.paused \in BOOLEAN
    BY DEF OtherInv, OtherStates
  <1>2. PICK stop \in BOOLEAN, paused \in BOOLEAN, n \in Nat :
           other' = [other EXCEPT !.stop = stop, !.paused = paused, !.now = n]
    <2>1. CASE OtherStop
      <3>1. other' = [other EXCEPT !.stop = TRUE, !.paused = other.paused, !.now = other.now]
        BY <1>1, <2>1 DEF OtherStop, OtherStates
      <3> QED
        BY <1>1, <3>1
    <2>2. CASE OtherPause
      <3>1. other' = [other EXCEPT !.stop = other.stop, !.paused = ~other.paused, !.now = other.now]
        BY <1>1, <2>2 DEF OtherPause, OtherStates
      <3> QED
        BY <1>1, <3>1
    <2>3. CASE OtherFrame
      <3> DEFINE n == other.now + 1
      <3>0. n \in Nat /\ other' = [other EXCEPT !.now = n]
        BY <1>1, <2>3 DEF OtherFrame
      <3> HIDE DEF n
      <3>1. other' = [other EXCEPT !.stop = other.stop, !.paused = other.paused, !.now = n]
        BY <1>1, <3>0 DEF OtherStates
      <3> QED
        BY <1>1, <3>0, <3>1
    <2> QED
      BY <2>1, <2>2, <2>3
  <1>3. /\ other' \in OtherStates /\ other'.th = other.th /\ other'.users = other.users
        /\ other'.handed = other.handed /\ other'.after = other.after /\ other'.got = other.got
        /\ other'.failed = other.failed /\ other'.shows = other.shows
    BY <1>1, <1>2 DEF OtherStates
  <1> QED
    BY <1>3 DEF OtherInv

LEMMA OtherGetInv == ASSUME OtherInv, OtherGet PROVE OtherInv'
  <1>1. /\ other \in OtherStates /\ other.now \in Nat /\ other.after \in Nat /\ other.th = "get"
        /\ other.users = 1
    BY DEF OtherInv, OtherGet, OtherStates
  <1>2. CASE other' = OtherFails /\ other.shows
    <2>1. other' = [other EXCEPT !.th = "hand", !.got = 0, !.after = 0, !.failed = TRUE]
      BY <1>2 DEF OtherFails
    <2>2. /\ other' \in OtherStates /\ other'.th = "hand" /\ other'.users = 1 /\ other'.got = 0
          /\ other'.failed = TRUE /\ other'.handed = other.handed
      BY <1>1, <2>1 DEF OtherStates
    <2> QED
      BY <2>2 DEF OtherInv
  <1>3. CASE other' = OtherFails /\ ~other.shows
    <2>1. other' = [other EXCEPT !.th = "crash"]
      BY <1>3 DEF OtherFails
    <2>2. /\ other' \in OtherStates /\ other'.th = "crash" /\ other'.users = 1
          /\ other'.handed = other.handed /\ ~other'.shows
      BY <1>1, <1>3, <2>1 DEF OtherStates
    <2> QED
      BY <2>2 DEF OtherInv
  <1>4. ASSUME NEW t \in {other.now} \cap (other.after + 1) .. MaxDelayFrame,
               other' = [other EXCEPT !.th = "hand", !.got = t, !.after = t]
        PROVE  OtherInv'
    <2>1. t \in Nat /\ t # 0 /\ other.after <= t - 1
      BY <1>1, <1>4, DerivedAssumption
    <2>2. /\ other' \in OtherStates /\ other'.th = "hand" /\ other'.users = 1 /\ other'.got = t
          /\ other'.after = t /\ other'.failed = other.failed /\ other'.handed = other.handed
      BY <1>1, <1>4, <2>1 DEF OtherStates
    <2>3. ASSUME ~other.failed PROVE NotNewer(other.handed, t - 1)
      <3>1. NotNewer(other.handed, other.after)
        BY <1>1, <2>3 DEF OtherInv
      <3>2. other.handed \in Seq(Handed) /\ other.after \in Int /\ t - 1 \in Int
        BY <1>1, <2>1, OtherFields
      <3> QED
        BY <2>1, <3>1, <3>2, NotNewerThan
    <2>4. PicturesGrow(other.handed)
      BY DEF OtherInv
    <2> QED
      BY <2>1, <2>2, <2>3, <2>4 DEF OtherInv
  <1> QED
    BY <1>2, <1>3, <1>4 DEF OtherGet

LEMMA OtherHandInv == ASSUME OtherInv, OtherHand PROVE OtherInv'
  <1>1. /\ other \in OtherStates /\ other.handed \in Seq(Handed) /\ other.th = "hand"
        /\ other.users = 1 /\ other.got \in Nat /\ other.failed \in BOOLEAN /\ other.after \in Nat
        /\ PicturesGrow(other.handed)
        /\ other.got = 0 => other.failed
        /\ other.got # 0 =>
             other.got = other.after /\ (~other.failed => NotNewer(other.handed, other.got - 1))
    BY DEF OtherInv, OtherHand, OtherStates
  <1>2. CASE other.paused
    <2>1. other' = [other EXCEPT !.th = "get"]
      BY <1>2 DEF OtherHand
    <2>2. /\ other' \in OtherStates /\ other'.th = "get" /\ other'.users = 1
          /\ other'.after = other.after /\ other'.failed = other.failed
          /\ other'.handed = other.handed
      BY <1>1, <2>1 DEF OtherStates
    <2>3. ASSUME ~other.failed PROVE NotNewer(other.handed, other.after)
      <3>1. other.got = other.after /\ NotNewer(other.handed, other.got - 1)
        BY <1>1, <2>3
      <3>2. other.got - 1 \in Int /\ other.after \in Int /\ other.got - 1 <= other.after
        BY <1>1, <3>1
      <3> QED
        BY <1>1, <3>1, <3>2, NotNewerThan
    <2> QED
      BY <1>1, <2>2, <2>3 DEF OtherInv
  <1>3. CASE ~other.paused
    <2> DEFINE h == [ts |-> other.got, failed |-> other.failed]
               more == Append(other.handed, h)
               failed == other.got = 0
    <2>1. other' = [other EXCEPT !.th = "get", !.failed = failed, !.handed = more]
      BY <1>3 DEF OtherHand
    <2>2. h \in Handed /\ h.ts = other.got /\ h.failed = other.failed
      BY <1>1 DEF Handed
    <2> HIDE DEF h
    <2>3. h.failed \/ NotNewer(other.handed, h.ts - 1)
      BY <1>1, <2>2
    <2>4. more \in Seq(Handed) /\ PicturesGrow(more) /\ NotNewer(more, h.ts)
      BY <1>1, <2>2, <2>3, HandedGrows
    <2>5. failed \in BOOLEAN /\ (~failed => other.got = other.after)
      BY <1>1
    <2> HIDE DEF more, failed
    <2>6. /\ other' \in OtherStates /\ other'.th = "get" /\ other'.users = 1
          /\ other'.after = other.after /\ other'.failed = failed /\ other'.handed = more
      BY <1>1, <2>1, <2>4, <2>5 DEF OtherStates
    <2>7. ~failed => NotNewer(more, other.after)
      BY <2>2, <2>4, <2>5
    <2> QED
      BY <2>4, <2>6, <2>7 DEF OtherInv
  <1> QED
    BY <1>2, <1>3

LEMMA OtherEndInv == ASSUME OtherInv, OtherEnd PROVE OtherInv'
  <1> DEFINE users == other.users - 1
  <1>1. other.th = "get" /\ other' = [other EXCEPT !.th = "off", !.users = users]
    BY DEF OtherEnd
  <1>2. other \in OtherStates /\ other.users = 1
    BY <1>1 DEF OtherInv
  <1>3. users = 0
    BY <1>2
  <1>4. users \in Int
    BY <1>3
  <1> HIDE DEF users
  <1>5. /\ other' \in OtherStates /\ other'.th = "off" /\ other'.users = users
        /\ other'.handed = other.handed
    BY <1>1, <1>2, <1>4 DEF OtherStates
  <1> QED
    BY <1>3, <1>5 DEF OtherInv

LEMMA OtherNextInv == OtherInv /\ OtherNext => OtherInv'
  BY OtherStartInv, OtherStopInv, OtherGetInv, OtherHandInv, OtherEndInv DEF OtherNext

LEMMA OtherSameInv == OtherInv /\ UNCHANGED other => OtherInv'
  BY DEF OtherInv

-----------------------------------------------------------------------------
LEMMA DerivedInvInit == DerivedInit => DerivedInv
  <1> SUFFICES ASSUME DelayInit, OtherInit PROVE DerivedInv
    BY DEF DerivedInit
  <1>1. PICK n \in DelayLengths, filtered \in BOOLEAN :
           delay = [n |-> n, filtered |-> filtered, th |-> "off", stop |-> FALSE,
                    queue |-> <<>>, prev |-> 0, last |-> 0, made |-> 0, gray |-> {},
                    freed |-> {}, users |-> 0, ended |-> FALSE, fault |-> FALSE]
    BY DEF DelayInit
  <1>2. n \in Int /\ <<>> \in Seq(Nat) /\ Len(<<>>) = 0
    BY DerivedAssumption
  <1>3. /\ delay \in DelayStates /\ delay.th = "off" /\ delay.users = 0
    BY <1>1, <1>2 DEF DelayStates
  <1>4. /\ delay.queue = <<>> /\ delay.prev = 0 /\ delay.made = 0 /\ delay.last = 0
        /\ delay.freed = {} /\ ~delay.fault
    BY <1>1
  <1>5. /\ late \in [DelayViewers -> LateStates]
        /\ \A v \in DelayViewers : late[v].at = "out" /\ late[v].label = 0
    BY DEF DelayInit, LateStates
  <1>6. DelayInOrder
    <2>1. Line(<<>>, 0, 0, delay.n)
      BY <1>2 DEF Line
    <2>2. {} = 1 .. (0 - 1)
      OBVIOUS
    <2>3. \A v \in DelayViewers : Late(late[v]) /\ Labelled(late[v], delay)
      BY <1>5 DEF Late, Labelled
    <2> QED
      BY <1>4, <2>1, <2>2, <2>3 DEF DelayInOrder
  <1>7. DelayInv
    BY <1>3, <1>5, <1>6 DEF DelayInv
  <1>8. PICK shows \in BOOLEAN :
           other = [th |-> "off", stop |-> FALSE, paused |-> FALSE, shows |-> shows, users |-> 0,
                    now |-> 0, after |-> 0, got |-> 0, failed |-> FALSE, handed |-> <<>>]
    BY DEF OtherInit
  <1>9. <<>> \in Seq(Handed)
    OBVIOUS
  <1>10. other \in OtherStates /\ other.th = "off" /\ other.users = 0 /\ other.handed = <<>>
    BY <1>8, <1>9 DEF OtherStates
  <1>11. PicturesGrow(<<>>)
    BY DEF PicturesGrow
  <1>12. OtherInv
    BY <1>10, <1>11 DEF OtherInv
  <1> QED
    BY <1>7, <1>12 DEF DerivedInv

LEMMA DerivedInvStep == DerivedInv /\ [DerivedNext]_derivedVars => DerivedInv'
  <1> SUFFICES ASSUME DerivedInv, [DerivedNext]_derivedVars PROVE DerivedInv'
    OBVIOUS
  <1>1. CASE DelayNext /\ UNCHANGED other
    BY <1>1, DelayNextInv, OtherSameInv DEF DerivedInv
  <1>2. CASE OtherNext /\ UNCHANGED delayVars
    BY <1>2, OtherNextInv, DelaySameInv DEF DerivedInv
  <1>3. CASE UNCHANGED derivedVars
    <2>1. UNCHANGED delayVars /\ UNCHANGED other
      BY <1>3 DEF derivedVars
    <2> QED
      BY <2>1, OtherSameInv, DelaySameInv DEF DerivedInv
  <1> QED
    BY <1>1, <1>2, <1>3 DEF DerivedNext

LEMMA DerivedInvSound == DerivedInv => DerivedSound
  <1> SUFFICES ASSUME DerivedInv PROVE DerivedSound
    OBVIOUS
  <1>1. ASSUME ~delay.ended PROVE DelayWhole /\ ~delay.fault
    <2>1. /\ DelayInOrder /\ delay.queue \in Seq(Nat) /\ delay.prev \in Nat /\ delay.made \in Nat
          /\ Len(delay.queue) \in Nat
      BY <1>1, DelayFields DEF DerivedInv, DelayInv
    <2>2. /\ delay.made = delay.prev + Len(delay.queue)
          /\ \A i \in 1 .. Len(delay.queue) : delay.queue[i] = delay.prev + i
          /\ delay.n >= 0 => Len(delay.queue) <= delay.n
      BY <2>1 DEF DelayInOrder, Line
    <2>3. delay.prev = delay.made - Len(delay.queue)
      BY <2>1, <2>2
    <2>4. delay.queue = [i \in DOMAIN delay.queue |-> delay.made - Len(delay.queue) + i]
      <3>1. DOMAIN delay.queue = 1 .. Len(delay.queue)
        BY <2>1
      <3>2. \A i \in DOMAIN delay.queue : delay.queue[i] = delay.made - Len(delay.queue) + i
        BY <2>2, <2>3, <3>1
      <3>3. delay.queue = [i \in DOMAIN delay.queue |-> delay.queue[i]]
        BY <2>1
      <3> QED
        BY <3>2, <3>3
    <2> QED
      BY <2>1, <2>2, <2>3, <2>4 DEF DelayWhole, DelayInOrder, Labelled
  <1>2. DelayedSound
    BY <1>1 DEF DelayedSound, DerivedInv, DelayInv
  <1>3. OtherSound
    <2>1. other.handed \in Seq(Handed) /\ PicturesGrow(other.handed)
      BY OtherFields DEF DerivedInv, OtherInv
    <2>2. ASSUME NEW i \in 2 .. Len(other.handed)
          PROVE  other.handed[i].failed \/ other.handed[i].ts > other.handed[i - 1].ts
      <3>1. i \in 1 .. Len(other.handed) /\ i > 1
        BY <2>1
      <3> QED
        BY <2>1, <3>1 DEF PicturesGrow
    <2> QED
      BY <2>2 DEF OtherSound, DerivedInv, OtherInv
  <1> QED
    BY <1>2, <1>3 DEF DerivedSound

(* For any length of the delay and any number of viewers: until its thread *)
(* has ended once, a delayed source shows the frames in the order in which *)
(* they were made, labelled with a time within that length, and uses no    *)
(* deleted frame; a source made of another one hands on a picture again    *)
(* only after a failure.                                                   *)
THEOREM DerivedSoundHolds == DerivedSpec => []DerivedSound
  <1>1. DerivedInv /\ [DerivedNext]_derivedVars => DerivedInv'
    BY DerivedInvStep
  <1>2. DerivedInit => DerivedInv
    BY DerivedInvInit
  <1> QED
    BY <1>1, <1>2, DerivedInvSound, PTL DEF DerivedSpec

-----------------------------------------------------------------------------
(***************************************************************************)
(* FfmpegTarget: the users of its source and what is recorded, for any     *)
(* number of frames, of files, and of frames of before the motion.         *)
(*                                                                         *)
(* A recording is in order because what was recorded, what waits in the    *)
(* queue and what the camera has are; its start is that of the queue the   *)
(* target got, of which nothing is dropped unnoticed.                      *)
(***************************************************************************)

FfPlaces == {"off", "first", "file", "frame", "get", "late?", "sleep", "close", "end", "done"}

FfTargets == [at : FfPlaces, interval : Intervals, max_time : BOOLEAN, ts : Nat, uses : Int,
              handed : Seq(Nat), pre_record : Seq(Nat), written : Seq(Nat), files : Nat,
              finish : BOOLEAN, asleep : {"no", "short", "released", "overslept"},
              unflushed : BOOLEAN, failed : BOOLEAN]

FfTypeOK == ff \in FfTargets /\ ff_env \in [cur : Nat, stop : BOOLEAN]

AsleepInSleep == ff.asleep # "no" <=> ff.at = "sleep"

\* What was recorded is followed by what waits, and that by what is to come.
Ascending(s) == \A i, j \in 1 .. Len(s) : i < j => s[i] <= s[j]
Ordered(written, queue, cur) ==
    /\ Ascending(written) /\ Ascending(queue)
    /\ \A i \in 1 .. Len(written), j \in 1 .. Len(queue) : written[i] <= queue[j]
    /\ \A i \in 1 .. Len(written) : written[i] <= cur
    /\ \A i \in 1 .. Len(queue) : queue[i] <= cur
InOrder == Ordered(ff.written, ff.pre_record, ff_env.cur)

\* Without frames of before the motion none waits, and the newest recorded one is
\* not newer than the one that was taken last.
Rising(written, ts) ==
    /\ \A i \in 1 .. Len(written) : written[i] <= ts
    /\ \A i, j \in 1 .. Len(written) : i < j => written[i] < written[j]
NoneWaits == ff.handed = <<>> => ff.pre_record = <<>> /\ Rising(ff.written, ff.ts)

\* The frames of before are those recorded first, and then those that wait.
Front(handed, written, queue) ==
    /\ Len(handed) <= Len(written) + Len(queue)
    /\ \A i \in 1 .. Len(handed) :
          handed[i] = IF i <= Len(written) THEN written[i] ELSE queue[i - Len(written)]
HandedFirst == ~ff.failed /\ ff.at # "done" => Front(ff.handed, ff.written, ff.pre_record)

\* The queue is lost at the end of the thread only when that was noted before.
LossNoted ==
    /\ ff.at \in {"off", "first"} => ff.files = 0
    /\ ff.at = "end" => ff.failed
    /\ ff.at = "file" /\ ff.files > 0 /\ ~ff.unflushed /\ ~ff.failed => ff.pre_record = <<>>
    /\ ff.at = "done" /\ ff.files > 0 /\ ~ff.unflushed /\ ~ff.failed =>
         Front(ff.handed, ff.written, <<>>)

FfInv == FfTypeOK /\ FfUsage /\ AsleepInSleep /\ InOrder /\ NoneWaits /\ HandedFirst /\ LossNoted

-----------------------------------------------------------------------------
(* What the steps that take, record or drop frames make of the target.     *)

Queue == IF ff_env.cur > ff.ts THEN Append(ff.pre_record, ff_env.cur) ELSE ff.pre_record

LEMMA FfTyped ==
    ASSUME FfTypeOK
    PROVE  /\ ff.written \in Seq(Nat) /\ ff.pre_record \in Seq(Nat) /\ ff.handed \in Seq(Nat)
           /\ ff.ts \in Nat /\ ff.uses \in Int /\ ff.files \in Nat /\ ff.failed \in BOOLEAN
           /\ ff.at \in FfPlaces /\ ff_env.cur \in Nat /\ ff_env.stop \in BOOLEAN
  BY DEF FfTypeOK, FfTargets

(* A place of the thread that leaves the frames where they are.            *)
FfQuietStep == FfStart \/ FfFirst \/ FfOpen \/ FfAsk \/ FfLeft \/ FfWake

FfKeepsFrames ==
    /\ ff'.written = ff.written /\ ff'.pre_record = ff.pre_record /\ ff'.handed = ff.handed
    /\ ff.failed => ff'.failed
    /\ ff'.ts \in {ff.ts, ff_env.cur}

LEMMA FfQuietEffect ==
    ASSUME FfTypeOK, AsleepInSleep, FfUsage, LossNoted, FfQuietStep
    PROVE  /\ ff' \in FfTargets /\ FfKeepsFrames
           /\ AsleepInSleep' /\ FfUsage' /\ LossNoted'
           /\ ff.at # "done" /\ ff'.at # "done"
  <1> DEFINE Goal == /\ ff' \in FfTargets /\ FfKeepsFrames
                     /\ AsleepInSleep' /\ FfUsage' /\ LossNoted'
                     /\ ff.at # "done" /\ ff'.at # "done"
             Frames(f) == /\ f.written = ff.written /\ f.pre_record = ff.pre_record
                          /\ f.handed = ff.handed
  <1>0. /\ ff \in FfTargets /\ ff_env.cur \in Nat /\ ff_env.stop \in BOOLEAN
        /\ ff.uses \in Int /\ ff.files \in Nat /\ ff.ts \in Nat
        /\ ff.failed \in BOOLEAN /\ ff.max_time \in BOOLEAN
        /\ "first" \in FfPlaces /\ "file" \in FfPlaces /\ "frame" \in FfPlaces
        /\ "get" \in FfPlaces /\ "sleep" \in FfPlaces /\ "end" \in FfPlaces
    BY DEF FfTypeOK, FfTargets, FfPlaces
  <1>01. ff.uses + 1 \in Int /\ ff.uses - 1 \in Int /\ ff.files + 1 \in Nat
    BY <1>0
  <1>1. CASE FfStart
    <2>1. /\ ff.at = "off"
          /\ ff' = [ff EXCEPT !.at = "first", !.uses = ff.uses + 1, !.ts = ff_env.cur]
      BY <1>1 DEF FfStart
    <2>2. ff' \in FfTargets
      BY <1>0, <1>01, <2>1 DEF FfTargets
    <2>3. /\ ff'.at = "first" /\ ff'.uses = ff.uses + 1 /\ ff'.ts = ff_env.cur
          /\ ff'.asleep = ff.asleep /\ ff'.failed = ff.failed /\ ff'.files = ff.files /\ Frames(ff')
      BY <1>0, <2>1 DEF FfTargets
    <2>4. Goal
      BY <1>0, <2>1, <2>2, <2>3 DEF FfKeepsFrames, AsleepInSleep, FfUsage, LossNoted
    <2> QED
      BY <2>4
  <1>2. CASE FfFirst
    <2>1. /\ ff.at = "first"
          /\ \E ts \in {ff.ts, ff_env.cur} : ff' = [ff EXCEPT !.at = "file", !.ts = ts]
      <3>1. [ff EXCEPT !.at = "file"] = [ff EXCEPT !.at = "file", !.ts = ff.ts]
        BY <1>0 DEF FfTargets
      <3>2. ff.at = "first"
        BY <1>2 DEF FfFirst
      <3>3. CASE ff' = [ff EXCEPT !.at = "file"]
        BY <3>1, <3>2, <3>3
      <3>4. CASE ff' = [ff EXCEPT !.ts = ff_env.cur, !.at = "file"]
        <4>1. ff' = [ff EXCEPT !.at = "file", !.ts = ff_env.cur]
          BY <1>0, <3>4 DEF FfTargets
        <4> QED
          BY <3>2, <4>1
      <3> QED
        BY <1>2, <3>3, <3>4 DEF FfFirst
    <2>2. PICK ts \in {ff.ts, ff_env.cur} : ff' = [ff EXCEPT !.at = "file", !.ts = ts]
      BY <2>1
    <2>3. ff' \in FfTargets
      BY <1>0, <1>01, <2>2 DEF FfTargets
    <2>4. /\ ff'.at = "file" /\ ff'.uses = ff.uses /\ ff'.ts = ts /\ ff'.files = ff.files
          /\ ff'.asleep = ff.asleep /\ ff'.failed = ff.failed /\ Frames(ff')
      BY <1>0, <2>2 DEF FfTargets
    <2>5. Goal
      BY <1>0, <2>1, <2>3, <2>4 DEF FfKeepsFrames, AsleepInSleep, FfUsage, LossNoted
    <2> QED
      BY <2>5
  <1>3. CASE FfOpen
    <2>1. /\ ff.at = "file"
          /\ \/ ff' = [ff EXCEPT !.at = "frame", !.files = ff.files + 1, !.unflushed = FALSE]
             \/ ff' = [ff EXCEPT !.at = "end", !.failed = TRUE]
      BY <1>3 DEF FfOpen
    <2>2. CASE ff' = [ff EXCEPT !.at = "frame", !.files = ff.files + 1, !.unflushed = FALSE]
      <3>1. ff' \in FfTargets
        BY <1>0, <1>01, <2>2 DEF FfTargets
      <3>2. /\ ff'.at = "frame" /\ ff'.failed = ff.failed
            /\ ff'.uses = ff.uses /\ ff'.ts = ff.ts /\ ff'.asleep = ff.asleep /\ Frames(ff')
        BY <1>0, <2>2 DEF FfTargets
      <3> QED
        BY <1>0, <2>1, <3>1, <3>2 DEF FfKeepsFrames, AsleepInSleep, FfUsage, LossNoted
    <2>3. CASE ff' = [ff EXCEPT !.at = "end", !.failed = TRUE]
      <3>1. ff' \in FfTargets
        BY <1>0, <1>01, <2>3 DEF FfTargets
      <3>2. /\ ff'.at = "end" /\ ff'.failed
            /\ ff'.uses = ff.uses /\ ff'.ts = ff.ts /\ ff'.asleep = ff.asleep /\ Frames(ff')
        BY <1>0, <2>3 DEF FfTargets
      <3> QED
        BY <1>0, <2>1, <3>1, <3>2 DEF FfKeepsFrames, AsleepInSleep, FfUsage, LossNoted
    <2> QED
      BY <2>1, <2>2, <2>3
  <1>4. CASE FfAsk
    <2>1. /\ ff.at = "frame"
          /\ \E end \in BOOLEAN : ff' = [ff EXCEPT !.at = "get", !.finish = end]
      BY <1>0, <1>4 DEF FfAsk
    <2>2. ff' \in FfTargets
      BY <1>0, <1>01, <2>1 DEF FfTargets
    <2>3. /\ ff'.at = "get" /\ ff'.failed = ff.failed
          /\ ff'.uses = ff.uses /\ ff'.ts = ff.ts /\ ff'.asleep = ff.asleep /\ Frames(ff')
      BY <1>0, <2>1 DEF FfTargets
    <2>4. Goal
      BY <1>0, <2>1, <2>2, <2>3 DEF FfKeepsFrames, AsleepInSleep, FfUsage, LossNoted
    <2> QED
      BY <2>4
  <1>5. CASE FfLeft
    <2>1. /\ ff.at = "late?"
          /\ \/ ff' = [ff EXCEPT !.at = "frame"]
             \/ \E long \in {"overslept", "released"} :
                   ff' = [ff EXCEPT !.at = "sleep", !.asleep = long, !.uses = ff.uses - 1]
             \/ ff' = [ff EXCEPT !.at = "sleep", !.asleep = "short", !.uses = ff.uses]
      <3>1. ff.interval \in {"none", "short", "long"}
        BY <1>0 DEF FfTargets, Intervals
      <3>2. PICK tardy \in BOOLEAN :
              /\ ff.interval = "none" => tardy
              /\ \/ tardy /\ ff' = [ff EXCEPT !.at = "frame"]
                 \/ ff' = [ff EXCEPT !.at = "sleep",
                                !.asleep = CASE tardy -> "overslept"
                                             [] ~tardy /\ ff.interval = "long" -> "released"
                                             [] ~tardy /\ ff.interval = "short" -> "short",
                                !.uses = IF tardy \/ ff.interval = "long" THEN ff.uses - 1
                                         ELSE ff.uses]
        BY <1>5, <3>1 DEF FfLeft
      <3>3. ff.at = "late?"
        BY <1>5 DEF FfLeft
      <3>4. CASE tardy
        BY <3>2, <3>3, <3>4
      <3>5. CASE ~tardy /\ ff.interval = "long"
        BY <3>2, <3>3, <3>5
      <3>6. CASE ~tardy /\ ff.interval = "short"
        BY <3>2, <3>3, <3>6
      <3> QED
        BY <3>1, <3>2, <3>4, <3>5, <3>6
    <2>2. ff' \in FfTargets
      <3>1. ASSUME NEW place \in {"overslept", "released", "short"}, NEW uses \in Int
            PROVE  [ff EXCEPT !.at = "sleep", !.asleep = place, !.uses = uses] \in FfTargets
        BY <1>0, <3>1 DEF FfTargets
      <3>2. [ff EXCEPT !.at = "frame"] \in FfTargets
        BY <1>0 DEF FfTargets
      <3> HIDE DEF Goal, Frames
      <3>3. CASE \E long \in {"overslept", "released"} :
                   ff' = [ff EXCEPT !.at = "sleep", !.asleep = long, !.uses = ff.uses - 1]
        BY <1>01, <3>1, <3>3
      <3>4. CASE ff' = [ff EXCEPT !.at = "sleep", !.asleep = "short", !.uses = ff.uses]
        BY <1>0, <3>1, <3>4
      <3> QED
        BY <2>1, <3>2, <3>3, <3>4
    <2>3. /\ \/ ff'.at = "frame" /\ ff'.asleep = ff.asleep /\ ff'.uses = ff.uses
             \/ /\ ff'.at = "sleep" /\ ff'.asleep \in {"overslept", "released"}
                /\ ff'.uses = ff.uses - 1
             \/ ff'.at = "sleep" /\ ff'.asleep = "short" /\ ff'.uses = ff.uses
          /\ ff'.failed = ff.failed /\ ff'.ts = ff.ts /\ Frames(ff')
      BY <1>0, <2>1 DEF FfTargets
    <2>4. Goal
      BY <1>0, <2>1, <2>2, <2>3 DEF FfKeepsFrames, AsleepInSleep, FfUsage, LossNoted
    <2> QED
      BY <2>4
  <1>6. CASE FfWake
    <2>1. /\ ff.at = "sleep"
          /\ ff' = [ff EXCEPT !.at = "frame", !.asleep = "no",
                              !.uses = IF ff.asleep = "short" THEN ff.uses ELSE ff.uses + 1]
      BY <1>6 DEF FfWake
    <2>2. ff' \in FfTargets
      <3> DEFINE uses == IF ff.asleep = "short" THEN ff.uses ELSE ff.uses + 1
      <3>1. uses \in Int
        BY <1>0
      <3>2. ff' = [ff EXCEPT !.at = "frame", !.asleep = "no", !.uses = uses]
        BY <2>1
      <3> HIDE DEF uses
      <3> QED
        BY <1>0, <3>1, <3>2 DEF FfTargets
    <2>3. /\ ff'.at = "frame" /\ ff'.asleep = "no"
          /\ ff'.uses = IF ff.asleep = "short" THEN ff.uses ELSE ff.uses + 1
          /\ ff'.failed = ff.failed /\ ff'.ts = ff.ts /\ Frames(ff')
      BY <1>0, <2>1 DEF FfTargets
    <2>4. ff.asleep \in {"no", "short", "released", "overslept"}
      BY <1>0 DEF FfTargets
    <2>5. Goal
      BY <1>0, <2>1, <2>2, <2>3, <2>4 DEF FfKeepsFrames, AsleepInSleep, FfUsage, LossNoted
    <2> QED
      BY <2>5
  <1> QED
    BY <1>1, <1>2, <1>3, <1>4, <1>5, <1>6 DEF FfQuietStep

-----------------------------------------------------------------------------
(* Lists of frames: one is added to the queue, one is taken from it.       *)

LEMMA QueueOrdered ==
    ASSUME NEW w \in Seq(Nat), NEW p \in Seq(Nat), NEW cur \in Nat, Ordered(w, p, cur)
    PROVE  Ordered(w, Append(p, cur), cur)
  <1> DEFINE q == Append(p, cur)
  <1>1. /\ q \in Seq(Nat) /\ Len(q) = Len(p) + 1 /\ Len(p) \in Nat
        /\ \A i \in 1 .. Len(p) : q[i] = p[i] /\ p[i] \in Nat
        /\ q[Len(p) + 1] = cur
    OBVIOUS
  <1> HIDE DEF q
  <1>2. \A i \in 1 .. Len(q) : i \in 1 .. Len(p) \/ q[i] = cur
    <2>1. \A i \in 1 .. Len(q) : i \in 1 .. Len(p) \/ i = Len(p) + 1
      BY <1>1
    <2> QED
      BY <1>1, <2>1
  <1>3. \A i \in 1 .. Len(q) : q[i] <= cur
    <2> TAKE i \in 1 .. Len(q)
    <2>1. CASE i \in 1 .. Len(p)
      BY <1>1, <2>1 DEF Ordered
    <2>2. CASE q[i] = cur
      BY <2>2
    <2> QED
      BY <1>2, <2>1, <2>2
  <1>4. \A i \in 1 .. Len(w), j \in 1 .. Len(q) : w[i] <= q[j]
    BY <1>1, <1>2 DEF Ordered
  <1>5. Ascending(q)
    <2> SUFFICES ASSUME NEW i \in 1 .. Len(q), NEW j \in 1 .. Len(q), i < j PROVE q[i] <= q[j]
      BY DEF Ascending
    <2>1. CASE q[j] = cur
      BY <1>3, <2>1
    <2>2. CASE j \in 1 .. Len(p)
      <3>1. i \in 1 .. Len(p)
        BY <1>1, <2>2
      <3> QED
        BY <1>1, <2>2, <3>1 DEF Ordered, Ascending
    <2> QED
      BY <1>2, <2>1, <2>2
  <1>6. Ordered(w, q, cur)
    BY <1>3, <1>4, <1>5 DEF Ordered
  <1> QED
    BY <1>6 DEF q

LEMMA QueueFront ==
    ASSUME NEW h \in Seq(Nat), NEW w \in Seq(Nat), NEW p \in Seq(Nat), NEW cur \in Nat,
           Front(h, w, p)
    PROVE  Front(h, w, Append(p, cur))
  <1> DEFINE q == Append(p, cur)
  <1>1. /\ q \in Seq(Nat) /\ Len(q) = Len(p) + 1 /\ Len(p) \in Nat
        /\ Len(w) \in Nat /\ Len(h) \in Nat
        /\ \A i \in 1 .. Len(p) : q[i] = p[i]
    OBVIOUS
  <1> HIDE DEF q
  <1>2. Len(h) <= Len(w) + Len(p)
    BY DEF Front
  <1>3. Len(h) <= Len(w) + Len(q)
    BY <1>1, <1>2
  <1>4. ASSUME NEW i \in 1 .. Len(h), ~(i <= Len(w)) PROVE q[i - Len(w)] = p[i - Len(w)]
    <2>1. i - Len(w) \in 1 .. Len(p)
      BY <1>1, <1>2, <1>4
    <2> QED
      BY <1>1, <2>1
  <1>5. Front(h, w, q)
    BY <1>3, <1>4 DEF Front
  <1> QED
    BY <1>5 DEF q

LEMMA FirstAndRest ==
    ASSUME NEW q \in Seq(Nat), q # <<>>
    PROVE  /\ Head(q) = q[1] /\ q[1] \in Nat /\ Len(q) \in Nat /\ Len(q) >= 1
           /\ Tail(q) \in Seq(Nat) /\ Len(Tail(q)) = Len(q) - 1
           /\ \A i \in 1 .. Len(Tail(q)) : Tail(q)[i] = q[i + 1]
  OBVIOUS

LEMMA OneMore ==
    ASSUME NEW w \in Seq(Nat), NEW e \in Nat
    PROVE  /\ Append(w, e) \in Seq(Nat) /\ Len(Append(w, e)) = Len(w) + 1 /\ Len(w) \in Nat
           /\ \A i \in 1 .. Len(w) : Append(w, e)[i] = w[i] /\ w[i] \in Nat
           /\ Append(w, e)[Len(w) + 1] = e
           /\ \A i \in 1 .. Len(Append(w, e)) : i \in 1 .. Len(w) \/ i = Len(w) + 1
  OBVIOUS

LEMMA DropOrdered ==
    ASSUME NEW w \in Seq(Nat), NEW q \in Seq(Nat), NEW cur \in Nat, q # <<>>, Ordered(w, q, cur)
    PROVE  Ordered(w, Tail(q), cur)
  <1> DEFINE rest == Tail(q)
  <1>1. /\ Len(q) \in Nat /\ Len(q) >= 1 /\ rest \in Seq(Nat) /\ Len(rest) = Len(q) - 1
        /\ \A i \in 1 .. Len(rest) : rest[i] = q[i + 1]
    BY FirstAndRest
  <1> HIDE DEF rest
  <1>2. \A i \in 1 .. Len(rest) : i + 1 \in 1 .. Len(q) /\ rest[i] = q[i + 1]
    BY <1>1
  <1>3. Ascending(rest)
    <2> SUFFICES ASSUME NEW i \in 1 .. Len(rest), NEW j \in 1 .. Len(rest), i < j
                 PROVE  rest[i] <= rest[j]
      BY DEF Ascending
    <2>1. i + 1 < j + 1
      OBVIOUS
    <2> QED
      BY <1>2, <2>1 DEF Ordered, Ascending
  <1>4. Ordered(w, rest, cur)
    BY <1>2, <1>3 DEF Ordered
  <1> QED
    BY <1>4 DEF rest

LEMMA TakeOrdered ==
    ASSUME NEW w \in Seq(Nat), NEW q \in Seq(Nat), NEW cur \in Nat, q # <<>>, Ordered(w, q, cur)
    PROVE  Ordered(Append(w, Head(q)), Tail(q), cur)
  <1> DEFINE rest == Tail(q)
             new == Append(w, q[1])
  <1>1. /\ Len(q) \in Nat /\ Len(q) >= 1 /\ rest \in Seq(Nat) /\ Len(rest) = Len(q) - 1
        /\ \A i \in 1 .. Len(rest) : rest[i] = q[i + 1]
        /\ q[1] \in Nat /\ Head(q) = q[1]
    BY FirstAndRest
  <1>2. /\ Len(new) = Len(w) + 1 /\ Len(w) \in Nat
        /\ \A i \in 1 .. Len(w) : new[i] = w[i]
        /\ new[Len(w) + 1] = q[1]
        /\ \A i \in 1 .. Len(new) : i \in 1 .. Len(w) \/ i = Len(w) + 1
    BY <1>1, OneMore
  <1>3. Ordered(w, rest, cur)
    BY DropOrdered
  <1> HIDE DEF rest, new
  <1>4. /\ 1 \in 1 .. Len(q) /\ q[1] <= cur
        /\ \A i \in 1 .. Len(w) : w[i] <= q[1]
    BY <1>1 DEF Ordered
  <1>5. \A j \in 1 .. Len(rest) : q[1] <= rest[j]
    <2> TAKE j \in 1 .. Len(rest)
    <2>1. j + 1 \in 1 .. Len(q) /\ 1 < j + 1 /\ rest[j] = q[j + 1]
      BY <1>1
    <2> QED
      BY <1>4, <2>1 DEF Ordered, Ascending
  <1>6. \A i \in 1 .. Len(new) : new[i] <= cur /\ \A j \in 1 .. Len(rest) : new[i] <= rest[j]
    BY <1>2, <1>3, <1>4, <1>5 DEF Ordered
  <1>7. Ascending(new)
    <2> SUFFICES ASSUME NEW i \in 1 .. Len(new), NEW j \in 1 .. Len(new), i < j PROVE new[i] <= new[j]
      BY DEF Ascending
    <2>1. i \in 1 .. Len(w)
      BY <1>2
    <2>2. CASE j \in 1 .. Len(w)
      BY <1>2, <2>1, <2>2 DEF Ordered, Ascending
    <2>3. CASE j = Len(w) + 1
      BY <1>2, <1>4, <2>1, <2>3
    <2> QED
      BY <1>2, <2>2, <2>3
  <1>8. Ordered(new, rest, cur)
    BY <1>3, <1>6, <1>7 DEF Ordered
  <1> QED
    BY <1>1, <1>8 DEF rest, new

LEMMA TakeFront ==
    ASSUME NEW h \in Seq(Nat), NEW w \in Seq(Nat), NEW q \in Seq(Nat), q # <<>>, Front(h, w, q)
    PROVE  Front(h, Append(w, Head(q)), Tail(q))
  <1> DEFINE rest == Tail(q)
             new == Append(w, q[1])
  <1>1. /\ Len(q) \in Nat /\ Len(q) >= 1 /\ rest \in Seq(Nat) /\ Len(rest) = Len(q) - 1
        /\ \A i \in 1 .. Len(rest) : rest[i] = q[i + 1]
        /\ q[1] \in Nat /\ Head(q) = q[1]
    BY FirstAndRest
  <1>2. /\ Len(new) = Len(w) + 1 /\ Len(w) \in Nat
        /\ \A i \in 1 .. Len(w) : new[i] = w[i]
        /\ new[Len(w) + 1] = q[1]
    BY <1>1, OneMore
  <1>3. Len(h) \in Nat /\ Len(h) <= Len(w) + Len(q)
    BY DEF Front
  <1> HIDE DEF rest, new
  <1>4. Len(h) <= Len(new) + Len(rest)
    BY <1>1, <1>2, <1>3
  <1>5. ASSUME NEW i \in 1 .. Len(h)
        PROVE  h[i] = IF i <= Len(new) THEN new[i] ELSE rest[i - Len(new)]
    <2>1. CASE i <= Len(w)
      <3>1. i \in 1 .. Len(w) /\ i <= Len(new)
        BY <1>2, <2>1
      <3> QED
        BY <1>2, <2>1, <3>1 DEF Front
    <2>2. CASE i = Len(w) + 1
      <3>1. i - Len(w) = 1 /\ i <= Len(new) /\ ~(i <= Len(w))
        BY <1>2, <2>2
      <3>2. h[i] = q[1]
        BY <3>1 DEF Front
      <3> QED
        BY <1>2, <2>2, <3>1, <3>2
    <2>3. CASE i > Len(w) + 1
      <3>0. i \in Nat /\ i <= Len(h)
        BY <1>3
      <3>1. /\ ~(i <= Len(new)) /\ ~(i <= Len(w)) /\ (i - Len(new)) + 1 = i - Len(w)
            /\ i - Len(new) >= 1 /\ i - Len(new) \in Int
        BY <1>2, <2>3, <3>0
      <3>2. i - Len(new) <= Len(rest)
        BY <1>1, <1>2, <1>3, <3>0
      <3>3. i - Len(new) \in 1 .. Len(rest)
        BY <1>1, <3>1, <3>2
      <3>4. h[i] = q[i - Len(w)]
        BY <3>1 DEF Front
      <3> QED
        BY <1>1, <3>1, <3>3, <3>4
    <2> QED
      BY <1>2, <2>1, <2>2, <2>3
  <1>6. Front(h, new, rest)
    BY <1>4, <1>5 DEF Front
  <1> QED
    BY <1>1, <1>6 DEF rest, new

(* The queue as far as it could be encoded, at the end of a file.          *)
LEMMA Flushed ==
    ASSUME NEW w \in Seq(Nat), NEW q \in Seq(Nat), NEW n \in 0 .. Len(q)
    PROVE  /\ SubSeq(q, 1, n) \in Seq(Nat) /\ SubSeq(q, n + 1, Len(q)) \in Seq(Nat)
           /\ w \o SubSeq(q, 1, n) \in Seq(Nat)
           /\ Len(w \o SubSeq(q, 1, n)) = Len(w) + n
           /\ Len(SubSeq(q, n + 1, Len(q))) = Len(q) - n
           /\ \A i \in 1 .. Len(w) : (w \o SubSeq(q, 1, n))[i] = w[i]
           /\ \A i \in 1 .. n : (w \o SubSeq(q, 1, n))[Len(w) + i] = q[i]
           /\ \A i \in 1 .. Len(q) - n : SubSeq(q, n + 1, Len(q))[i] = q[n + i]
  <1>1. Len(w) \in Nat /\ Len(q) \in Nat /\ n \in Nat /\ n <= Len(q)
    OBVIOUS
  <1> DEFINE a == SubSeq(q, 1, n)
             b == SubSeq(q, n + 1, Len(q))
  <1>2. a \in Seq(Nat) /\ Len(a) = n /\ \A i \in 1 .. n : a[i] = q[i]
    <2>1. \A i \in 1 .. n : q[i] \in Nat
      OBVIOUS
    <2> QED
      BY <1>1, <2>1
  <1>3. b \in Seq(Nat) /\ Len(b) = Len(q) - n /\ \A i \in 1 .. Len(q) - n : b[i] = q[n + i]
    <2>1. \A i \in n + 1 .. Len(q) : q[i] \in Nat
      BY <1>1
    <2> QED
      BY <1>1, <2>1
  <1> HIDE DEF a, b
  <1>4. /\ w \o a \in Seq(Nat) /\ Len(w \o a) = Len(w) + n
        /\ \A i \in 1 .. Len(w) : (w \o a)[i] = w[i]
        /\ \A i \in 1 .. n : (w \o a)[Len(w) + i] = a[i]
    <2> DEFINE c == w \o a
    <2>1. /\ c \in Seq(Nat) /\ Len(c) = Len(w) + Len(a)
          /\ \A i \in 1 .. Len(w) + Len(a) : c[i] = IF i <= Len(w) THEN w[i] ELSE a[i - Len(w)]
      BY <1>2, ConcatProperties
    <2> HIDE DEF c
    <2>2. \A i \in 1 .. Len(w) : c[i] = w[i]
      BY <1>1, <1>2, <2>1
    <2>3. ASSUME NEW i \in 1 .. n PROVE c[Len(w) + i] = a[i]
      <3>1. /\ Len(w) + i \in 1 .. Len(w) + Len(a) /\ ~(Len(w) + i <= Len(w))
            /\ (Len(w) + i) - Len(w) = i
        BY <1>1, <1>2
      <3> QED
        BY <2>1, <3>1
    <2> QED
      BY <1>2, <2>1, <2>2, <2>3 DEF c
  <1> QED
    BY <1>2, <1>3, <1>4 DEF a, b

LEMMA FlushedRest ==
    ASSUME NEW q \in Seq(Nat), NEW n \in 0 .. Len(q)
    PROVE  \A i \in 1 .. Len(q) - n : SubSeq(q, n + 1, Len(q))[i] = q[n + i]
  BY <<>> \in Seq(Nat), Flushed

LEMMA FlushOrdered ==
    ASSUME NEW w \in Seq(Nat), NEW q \in Seq(Nat), NEW cur \in Nat, NEW n \in 0 .. Len(q),
           Ordered(w, q, cur)
    PROVE  /\ Ordered(w \o SubSeq(q, 1, n), SubSeq(q, n + 1, Len(q)), cur)
           /\ Ordered(w, SubSeq(q, n + 1, Len(q)), cur)
  <1> DEFINE new == w \o SubSeq(q, 1, n)
             rest == SubSeq(q, n + 1, Len(q))
  <1>1. /\ Len(w) \in Nat /\ Len(q) \in Nat /\ n \in Nat /\ n <= Len(q)
        /\ Len(new) = Len(w) + n /\ Len(rest) = Len(q) - n
    BY Flushed
  <1>2. /\ \A i \in 1 .. Len(w) : new[i] = w[i]
        /\ \A i \in 1 .. n : new[Len(w) + i] = q[i]
        /\ \A i \in 1 .. Len(q) - n : rest[i] = q[n + i]
    <2>1. \A i \in 1 .. Len(w) : new[i] = w[i]
      BY Flushed, Zenon
    <2>2. \A i \in 1 .. n : new[Len(w) + i] = q[i]
      BY Flushed, Zenon
    <2>3. \A i \in 1 .. Len(q) - n : rest[i] = q[n + i]
      BY FlushedRest
    <2> QED
      BY <2>1, <2>2, <2>3
  <1> HIDE DEF new, rest
  <1>3. \A i \in 1 .. n : i \in 1 .. Len(q)
    BY <1>1
  <1>4. \A i \in 1 .. Len(rest) : n + i \in 1 .. Len(q) /\ rest[i] = q[n + i]
    BY <1>1, <1>2
  <1>5. ASSUME NEW i \in 1 .. Len(new)
        PROVE  /\ i <= Len(w) => i \in 1 .. Len(w) /\ new[i] = w[i]
               /\ i > Len(w) => /\ i - Len(w) \in 1 .. n /\ i - Len(w) \in 1 .. Len(q)
                                /\ new[i] = q[i - Len(w)]
    <2>1. CASE i <= Len(w)
      BY <1>1, <1>2, <2>1
    <2>2. CASE i > Len(w)
      <3>1. i - Len(w) \in 1 .. n /\ Len(w) + (i - Len(w)) = i
        BY <1>1, <2>2
      <3> QED
        BY <1>2, <1>3, <2>2, <3>1
    <2> QED
      BY <2>1, <2>2
  <1>6. Ascending(rest)
    <2> SUFFICES ASSUME NEW i \in 1 .. Len(rest), NEW j \in 1 .. Len(rest), i < j
                 PROVE  rest[i] <= rest[j]
      BY DEF Ascending
    <2>1. n + i < n + j
      BY <1>1
    <2> QED
      BY <1>4, <2>1 DEF Ordered, Ascending
  <1>7. Ordered(w, rest, cur)
    BY <1>4, <1>6 DEF Ordered
  <1>8. Ascending(new)
    <2> SUFFICES ASSUME NEW i \in 1 .. Len(new), NEW j \in 1 .. Len(new), i < j
                 PROVE  new[i] <= new[j]
      BY DEF Ascending
    <2>1. CASE i \in 1 .. Len(w) /\ j \in 1 .. Len(w)
      BY <1>2, <2>1 DEF Ordered, Ascending
    <2>2. CASE i \in 1 .. Len(w) /\ j > Len(w)
      <3>1. j - Len(w) \in 1 .. Len(q) /\ new[j] = q[j - Len(w)]
        BY <1>1, <1>5, <2>2
      <3> QED
        BY <1>2, <2>2, <3>1 DEF Ordered
    <2>3. CASE i > Len(w) /\ j > Len(w)
      <3>1. i - Len(w) \in 1 .. Len(q) /\ new[i] = q[i - Len(w)]
        BY <1>1, <1>5, <2>3
      <3>2. j - Len(w) \in 1 .. Len(q) /\ new[j] = q[j - Len(w)]
        BY <1>1, <1>5, <2>3
      <3>3. i - Len(w) < j - Len(w)
        BY <1>1
      <3> QED
        BY <3>1, <3>2, <3>3 DEF Ordered, Ascending
    <2> QED
      BY <1>1, <2>1, <2>2, <2>3
  <1>9. ASSUME NEW i \in 1 .. Len(new), NEW j \in 1 .. Len(rest) PROVE new[i] <= rest[j]
    <2>1. n + j \in 1 .. Len(q) /\ rest[j] = q[n + j]
      BY <1>4
    <2>2. CASE i <= Len(w)
      BY <1>5, <2>1, <2>2 DEF Ordered
    <2>3. CASE i > Len(w)
      <3>1. i - Len(w) \in 1 .. n /\ i - Len(w) \in 1 .. Len(q) /\ new[i] = q[i - Len(w)]
        BY <1>5, <2>3
      <3>2. i - Len(w) < n + j
        BY <1>1, <3>1
      <3> QED
        BY <2>1, <3>1, <3>2 DEF Ordered, Ascending
    <2> QED
      BY <1>1, <2>2, <2>3
  <1>10. ASSUME NEW i \in 1 .. Len(new) PROVE new[i] <= cur
    <2>1. CASE i <= Len(w)
      BY <1>5, <2>1 DEF Ordered
    <2>2. CASE i > Len(w)
      BY <1>5, <2>2 DEF Ordered
    <2> QED
      BY <1>1, <2>1, <2>2
  <1>11. Ordered(new, rest, cur)
    BY <1>7, <1>8, <1>9, <1>10 DEF Ordered
  <1> QED
    BY <1>7, <1>11 DEF new, rest

LEMMA FlushFront ==
    ASSUME NEW h \in Seq(Nat), NEW w \in Seq(Nat), NEW q \in Seq(Nat), NEW n \in 0 .. Len(q),
           Front(h, w, q)
    PROVE  Front(h, w \o SubSeq(q, 1, n), SubSeq(q, n + 1, Len(q)))
  <1> DEFINE new == w \o SubSeq(q, 1, n)
             rest == SubSeq(q, n + 1, Len(q))
  <1>1. /\ Len(w) \in Nat /\ Len(q) \in Nat /\ n \in Nat /\ n <= Len(q)
        /\ Len(new) = Len(w) + n /\ Len(rest) = Len(q) - n
    BY Flushed
  <1>2. /\ \A i \in 1 .. Len(w) : new[i] = w[i]
        /\ \A i \in 1 .. n : new[Len(w) + i] = q[i]
        /\ \A i \in 1 .. Len(q) - n : rest[i] = q[n + i]
    <2>1. \A i \in 1 .. Len(w) : new[i] = w[i]
      BY Flushed, Zenon
    <2>2. \A i \in 1 .. n : new[Len(w) + i] = q[i]
      BY Flushed, Zenon
    <2>3. \A i \in 1 .. Len(q) - n : rest[i] = q[n + i]
      BY FlushedRest
    <2> QED
      BY <2>1, <2>2, <2>3
  <1>3. Len(h) \in Nat /\ Len(h) <= Len(w) + Len(q)
    BY DEF Front
  <1> HIDE DEF new, rest
  <1>4. Len(h) <= Len(new) + Len(rest)
    BY <1>1, <1>3
  <1>5. ASSUME NEW i \in 1 .. Len(h)
        PROVE  h[i] = IF i <= Len(new) THEN new[i] ELSE rest[i - Len(new)]
    <2>0. i \in Nat /\ i >= 1 /\ i <= Len(h)
      BY <1>3
    <2>1. CASE i <= Len(w)
      <3>1. i <= Len(new) /\ i \in 1 .. Len(w)
        BY <1>1, <2>0, <2>1
      <3>2. h[i] = w[i]
        BY <2>1 DEF Front
      <3> QED
        BY <1>2, <3>1, <3>2
    <2>2. CASE ~(i <= Len(w))
      <3>1. h[i] = q[i - Len(w)]
        BY <2>2 DEF Front
      <3>2. CASE i <= Len(new)
        <4>1. i - Len(w) \in 1 .. n /\ Len(w) + (i - Len(w)) = i
          BY <1>1, <2>0, <2>2, <3>2
        <4> QED
          BY <1>2, <3>1, <3>2, <4>1
      <3>3. CASE ~(i <= Len(new))
        <4>1. i - Len(new) >= 1 /\ i - Len(new) \in Int /\ n + (i - Len(new)) = i - Len(w)
          BY <1>1, <2>0, <3>3
        <4>2. i - Len(new) <= Len(q) - n
          BY <1>1, <1>3, <2>0
        <4>3. i - Len(new) \in 1 .. Len(q) - n
          BY <1>1, <4>1, <4>2
        <4> QED
          BY <1>2, <3>1, <3>3, <4>1, <4>3
      <3> QED
        BY <3>2, <3>3
    <2> QED
      BY <2>1, <2>2
  <1>6. Front(h, new, rest)
    BY <1>4, <1>5 DEF Front
  <1> QED
    BY <1>6 DEF new, rest

(* A frame that is newer than the one that was taken last is recorded, or  *)
(* not.                                                                    *)
LEMMA RisingTaken ==
    ASSUME NEW w \in Seq(Nat), NEW ts \in Nat, NEW e \in Nat, e > ts, Rising(w, ts)
    PROVE  Rising(w, e) /\ Rising(Append(w, e), e)
  <1> DEFINE new == Append(w, e)
  <1>1. /\ Len(new) = Len(w) + 1 /\ Len(w) \in Nat
        /\ \A i \in 1 .. Len(w) : new[i] = w[i] /\ w[i] \in Nat
        /\ new[Len(w) + 1] = e
        /\ \A i \in 1 .. Len(new) : i \in 1 .. Len(w) \/ i = Len(w) + 1
    BY OneMore
  <1>2. \A i \in 1 .. Len(w) : w[i] < e
    BY <1>1 DEF Rising
  <1>3. Rising(w, e)
    BY <1>1, <1>2 DEF Rising
  <1> HIDE DEF new
  <1>4. ASSUME NEW i \in 1 .. Len(new) PROVE new[i] <= e
    <2>1. CASE i \in 1 .. Len(w)
      BY <1>1, <1>2, <2>1
    <2>2. CASE i = Len(w) + 1
      BY <1>1, <2>2
    <2> QED
      BY <1>1, <2>1, <2>2
  <1>5. ASSUME NEW i \in 1 .. Len(new), NEW j \in 1 .. Len(new), i < j PROVE new[i] < new[j]
    <2>1. i \in 1 .. Len(w)
      BY <1>1, <1>5
    <2>2. CASE j \in 1 .. Len(w)
      BY <1>1, <1>5, <2>1, <2>2 DEF Rising
    <2>3. CASE j = Len(w) + 1
      BY <1>1, <1>2, <2>1, <2>3
    <2> QED
      BY <1>1, <2>2, <2>3
  <1>6. Rising(new, e)
    BY <1>4, <1>5 DEF Rising
  <1> QED
    BY <1>3, <1>6 DEF new

-----------------------------------------------------------------------------
(* Steps that move frames.                                                 *)

LEMMA FfTakeInv == FfInv /\ FfTake => FfInv'
  <1> SUFFICES ASSUME FfInv, FfTake PROVE FfInv'
    OBVIOUS
  <1>0. /\ ff \in FfTargets /\ ff.written \in Seq(Nat) /\ ff.handed \in Seq(Nat) /\ ff.ts \in Nat
        /\ ff.pre_record \in Seq(Nat) /\ ff.failed \in BOOLEAN /\ ff.finish \in BOOLEAN
        /\ ff_env.cur \in Nat /\ ff.at = "get" /\ ff_env' = ff_env
        /\ "close" \in FfPlaces /\ "late?" \in FfPlaces
    BY FfTyped DEF FfInv, FfTypeOK, FfTargets, FfTake, FfPlaces
  <1>1. CASE Queue = <<>>
    <2>1. ff' = [ff EXCEPT !.at = "close"]
      BY <1>1 DEF FfTake, Queue
    <2>2. ff' \in FfTargets
      BY <1>0, <2>1 DEF FfTargets
    <2>3. /\ ff'.at = "close" /\ ff'.written = ff.written /\ ff'.pre_record = ff.pre_record
          /\ ff'.handed = ff.handed /\ ff'.ts = ff.ts /\ ff'.failed = ff.failed
          /\ ff'.uses = ff.uses /\ ff'.asleep = ff.asleep
      BY <1>0, <2>1 DEF FfTargets
    <2>4. FfTypeOK' /\ FfUsage' /\ AsleepInSleep' /\ LossNoted'
      BY <1>0, <2>2, <2>3 DEF FfInv, FfTypeOK, FfUsage, AsleepInSleep, LossNoted
    <2>5. InOrder' /\ NoneWaits' /\ HandedFirst'
      BY <1>0, <2>3 DEF FfInv, InOrder, NoneWaits, HandedFirst
    <2> QED
      BY <2>4, <2>5 DEF FfInv
  <1>2. CASE Queue # <<>>
    <2> DEFINE first == Head(Queue)
               rest == Tail(Queue)
    <2>1. PICK taken \in BOOLEAN, place \in {"close", "late?"} :
            ff' = [ff EXCEPT !.pre_record = rest, !.ts = first,
                             !.written = IF taken THEN Append(ff.written, first) ELSE ff.written,
                             !.at = place, !.failed = ff.failed \/ ~taken]
      <3>1. PICK allow \in BOOLEAN, ok \in BOOLEAN : ff' = Encode(ff, Queue, allow, ok)
        BY <1>2 DEF FfTake, Queue
      <3> DEFINE place == IF (allow /\ ~ok) \/ ff.finish THEN "close" ELSE "late?"
      <3>2. (CASE allow /\ ~ok -> "close" [] ff.finish -> "close" [] OTHER -> "late?") = place
        OBVIOUS
      <3>3. (allow /\ ok) \in BOOLEAN /\ place \in {"close", "late?"}
        OBVIOUS
      <3> HIDE DEF place
      <3>4. ff' = [ff EXCEPT !.pre_record = rest, !.ts = first,
                     !.written = IF allow /\ ok THEN Append(ff.written, first) ELSE ff.written,
                     !.at = place, !.failed = ff.failed \/ ~(allow /\ ok)]
        BY <3>1, <3>2 DEF Encode
      <3> QED
        BY <3>3, <3>4
    <2> DEFINE new == IF taken THEN Append(ff.written, first) ELSE ff.written
               lost == ff.failed \/ ~taken
    <2>3. /\ Queue \in Seq(Nat) /\ Ordered(ff.written, Queue, ff_env.cur)
          /\ ~ff.failed => Front(ff.handed, ff.written, Queue)
      <3>1. /\ Ordered(ff.written, ff.pre_record, ff_env.cur)
            /\ ~ff.failed => Front(ff.handed, ff.written, ff.pre_record)
        BY <1>0 DEF FfInv, InOrder, HandedFirst
      <3>2. CASE ff_env.cur > ff.ts
        BY <1>0, <3>1, <3>2, QueueOrdered, QueueFront, OneMore DEF Queue
      <3>3. CASE ~(ff_env.cur > ff.ts)
        BY <1>0, <3>1, <3>3 DEF Queue
      <3> QED
        BY <3>2, <3>3
    <2>4. first \in Nat /\ rest \in Seq(Nat)
      BY <1>2, <2>3, FirstAndRest
    <2>5. new \in Seq(Nat) /\ lost \in BOOLEAN
      BY <1>0, <2>4, OneMore
    <2>6. Ordered(new, rest, ff_env.cur)
      BY <1>0, <1>2, <2>3, DropOrdered, TakeOrdered
    <2>7. ~lost => Front(ff.handed, new, rest)
      BY <1>0, <1>2, <2>3, TakeFront
    <2>8. ff.handed = <<>> => rest = <<>> /\ Rising(new, first)
      <3> SUFFICES ASSUME ff.handed = <<>> PROVE rest = <<>> /\ Rising(new, first)
        OBVIOUS
      <3>1. ff.pre_record = <<>> /\ Rising(ff.written, ff.ts)
        BY DEF FfInv, NoneWaits
      <3>2. ff_env.cur > ff.ts /\ Queue = Append(<<>>, ff_env.cur)
        BY <1>2, <3>1 DEF Queue
      <3>3. first = ff_env.cur /\ rest = <<>>
        BY <1>0, <3>2
      <3> QED
        BY <1>0, <3>1, <3>2, <3>3, RisingTaken
    <2> HIDE DEF new, lost, first, rest
    <2>9. ff' = [ff EXCEPT !.pre_record = rest, !.ts = first, !.written = new, !.at = place,
                           !.failed = lost]
      BY <2>1 DEF new, lost
    <2>10. ff' \in FfTargets
      BY <1>0, <2>4, <2>5, <2>9 DEF FfTargets
    <2>11. /\ ff'.at = place /\ ff'.written = new /\ ff'.pre_record = rest
          /\ ff'.handed = ff.handed /\ ff'.ts = first /\ ff'.failed = lost
          /\ ff'.uses = ff.uses /\ ff'.asleep = ff.asleep
      BY <1>0, <2>9 DEF FfTargets
    <2>12. FfTypeOK' /\ FfUsage' /\ AsleepInSleep' /\ LossNoted'
      BY <1>0, <2>10, <2>11 DEF FfInv, FfTypeOK, FfUsage, AsleepInSleep, LossNoted
    <2>13. InOrder' /\ NoneWaits' /\ HandedFirst'
      BY <1>0, <2>6, <2>7, <2>8, <2>11 DEF InOrder, NoneWaits, HandedFirst
    <2> QED
      BY <2>12, <2>13 DEF FfInv
  <1> QED
    BY <1>1, <1>2

LEMMA FfCloseInv == FfInv /\ FfClose => FfInv'
  <1> SUFFICES ASSUME FfInv, FfClose PROVE FfInv'
    OBVIOUS
  <1>0. /\ ff \in FfTargets /\ ff.written \in Seq(Nat) /\ ff.handed \in Seq(Nat) /\ ff.ts \in Nat
        /\ ff.pre_record \in Seq(Nat) /\ ff.failed \in BOOLEAN /\ ff_env.stop \in BOOLEAN
        /\ ff_env.cur \in Nat /\ ff.at = "close" /\ ff_env' = ff_env /\ "file" \in FfPlaces
    BY FfTyped DEF FfInv, FfTypeOK, FfTargets, FfClose, FfPlaces
  <1>1. CASE ~ff_env.stop
    <2> DEFINE waits == ff.pre_record # <<>>
    <2>0. waits \in BOOLEAN
      OBVIOUS
    <2>1. ff' = [ff EXCEPT !.at = "file", !.unflushed = waits]
      BY <1>1 DEF FfClose
    <2> HIDE DEF waits
    <2>2. ff' \in FfTargets
      BY <1>0, <2>0, <2>1 DEF FfTargets
    <2>3. /\ ff'.at = "file" /\ ff'.written = ff.written /\ ff'.pre_record = ff.pre_record
          /\ ff'.handed = ff.handed /\ ff'.ts = ff.ts /\ ff'.failed = ff.failed
          /\ ff'.uses = ff.uses /\ ff'.asleep = ff.asleep /\ ff'.unflushed = waits
      BY <1>0, <2>1 DEF FfTargets
    <2>4. FfTypeOK' /\ FfUsage' /\ AsleepInSleep' /\ LossNoted'
      BY <1>0, <2>2, <2>3 DEF FfInv, FfTypeOK, FfUsage, AsleepInSleep, LossNoted, waits
    <2>5. InOrder' /\ NoneWaits' /\ HandedFirst'
      BY <1>0, <2>3 DEF FfInv, InOrder, NoneWaits, HandedFirst
    <2> QED
      BY <2>4, <2>5 DEF FfInv
  <1>2. CASE ff_env.stop
    <2>1. PICK n \in 0 .. Len(ff.pre_record), allow \in BOOLEAN :
            ff' = [ff EXCEPT !.at = "file",
                     !.written = IF allow THEN ff.written \o SubSeq(ff.pre_record, 1, n) ELSE ff.written,
                     !.failed = ff.failed \/ ~allow \/ n < Len(ff.pre_record),
                     !.pre_record = SubSeq(ff.pre_record, n + 1, Len(ff.pre_record))]
      BY <1>2 DEF FfClose
    <2> DEFINE new == IF allow THEN ff.written \o SubSeq(ff.pre_record, 1, n) ELSE ff.written
               rest == SubSeq(ff.pre_record, n + 1, Len(ff.pre_record))
               lost == ff.failed \/ ~allow \/ n < Len(ff.pre_record)
    <2>2. new \in Seq(Nat) /\ rest \in Seq(Nat) /\ lost \in BOOLEAN
      BY <1>0, Flushed
    <2>3. Ordered(new, rest, ff_env.cur)
      BY <1>0, FlushOrdered DEF FfInv, InOrder
    <2>4. ~lost => Front(ff.handed, new, rest)
      BY <1>0, FlushFront DEF FfInv, HandedFirst
    <2>5. ff.handed = <<>> => rest = <<>> /\ Rising(new, ff.ts)
      <3> SUFFICES ASSUME ff.handed = <<>> PROVE rest = <<>> /\ Rising(new, ff.ts)
        OBVIOUS
      <3>1. ff.pre_record = <<>> /\ Rising(ff.written, ff.ts)
        BY DEF FfInv, NoneWaits
      <3>2. n = 0
        BY <3>1
      <3>3. new = ff.written /\ rest = <<>>
        <4>1. SubSeq(ff.pre_record, 1, n) = <<>> /\ rest = <<>>
          BY <3>1, <3>2, SubSeqEmpty
        <4> QED
          BY <1>0, <4>1, ConcatEmptySeq
      <3> QED
        BY <3>1, <3>3
    <2>6. ~lost => rest = <<>>
      <3> SUFFICES ASSUME n = Len(ff.pre_record) PROVE rest = <<>>
        OBVIOUS
      <3> QED
        BY <1>0, SubSeqEmpty
    <2> HIDE DEF new, lost, rest
    <2>7. ff' = [ff EXCEPT !.at = "file", !.written = new, !.failed = lost, !.pre_record = rest]
      BY <2>1 DEF new, lost, rest
    <2>8. ff' \in FfTargets
      BY <1>0, <2>2, <2>7 DEF FfTargets
    <2>9. /\ ff'.at = "file" /\ ff'.written = new /\ ff'.pre_record = rest
          /\ ff'.handed = ff.handed /\ ff'.ts = ff.ts /\ ff'.failed = lost
          /\ ff'.uses = ff.uses /\ ff'.asleep = ff.asleep
      BY <1>0, <2>7 DEF FfTargets
    <2>10. FfTypeOK' /\ FfUsage' /\ AsleepInSleep' /\ LossNoted'
      BY <1>0, <2>6, <2>8, <2>9 DEF FfInv, FfTypeOK, FfUsage, AsleepInSleep, LossNoted
    <2>11. InOrder' /\ NoneWaits' /\ HandedFirst'
      BY <1>0, <2>3, <2>4, <2>5, <2>9 DEF InOrder, NoneWaits, HandedFirst
    <2> QED
      BY <2>10, <2>11 DEF FfInv
  <1> QED
    BY <1>0, <1>1, <1>2

LEMMA FfEndInv == FfInv /\ FfEnd => FfInv'
  <1> SUFFICES ASSUME FfInv, FfEnd PROVE FfInv'
    OBVIOUS
  <1>0. /\ ff \in FfTargets /\ ff.written \in Seq(Nat) /\ ff.handed \in Seq(Nat)
        /\ ff.pre_record \in Seq(Nat) /\ ff.failed \in BOOLEAN /\ ff.uses \in Int
        /\ ff_env.cur \in Nat /\ ff.at \in {"end", "file"} /\ ff_env' = ff_env
        /\ "done" \in FfPlaces /\ ff.uses - 1 \in Int /\ <<>> \in Seq(Nat)
    BY FfTyped DEF FfInv, FfTypeOK, FfTargets, FfEnd, FfPlaces
  <1>1. ff' = [ff EXCEPT !.at = "done", !.pre_record = <<>>, !.uses = ff.uses - 1]
    BY DEF FfEnd
  <1>2. ff' \in FfTargets
    BY <1>0, <1>1 DEF FfTargets
  <1>3. /\ ff'.at = "done" /\ ff'.written = ff.written /\ ff'.pre_record = <<>>
        /\ ff'.handed = ff.handed /\ ff'.ts = ff.ts /\ ff'.failed = ff.failed
        /\ ff'.uses = ff.uses - 1 /\ ff'.asleep = ff.asleep
        /\ ff'.files = ff.files /\ ff'.unflushed = ff.unflushed
    BY <1>0, <1>1 DEF FfTargets
  <1>4. FfTypeOK' /\ FfUsage' /\ AsleepInSleep'
    BY <1>0, <1>2, <1>3 DEF FfInv, FfTypeOK, FfUsage, AsleepInSleep
  <1>5. LossNoted'
    BY <1>0, <1>3 DEF FfInv, HandedFirst, LossNoted
  <1>6. InOrder'
    <2>1. Ordered(ff.written, <<>>, ff_env.cur)
      BY DEF FfInv, InOrder, Ordered, Ascending
    <2> QED
      BY <1>0, <1>3, <2>1 DEF InOrder
  <1>7. NoneWaits' /\ HandedFirst'
    BY <1>3 DEF FfInv, NoneWaits, HandedFirst
  <1> QED
    BY <1>4, <1>5, <1>6, <1>7 DEF FfInv

LEMMA FfEnvInv == FfInv /\ (FfCamera \/ FfStop) => FfInv'
  <1> SUFFICES ASSUME FfInv, FfCamera \/ FfStop PROVE FfInv'
    OBVIOUS
  <1>0. /\ ff' = ff /\ ff_env.cur \in Nat /\ ff.written \in Seq(Nat) /\ ff.pre_record \in Seq(Nat)
    BY FfTyped DEF FfInv, FfCamera, FfStop
  <1>1. /\ ff_env' \in [cur : Nat, stop : BOOLEAN]
        /\ ff_env'.cur \in {ff_env.cur, ff_env.cur + 1}
    <2>1. ff_env \in [cur : Nat, stop : BOOLEAN]
      BY DEF FfInv, FfTypeOK
    <2>2. CASE FfCamera
      <3>1. ff_env' = [ff_env EXCEPT !.cur = ff_env.cur + 1] /\ ff_env.cur + 1 \in Nat
        BY <1>0, <2>2 DEF FfCamera
      <3> QED
        BY <2>1, <3>1
    <2>3. CASE FfStop
      <3>1. ff_env' = [ff_env EXCEPT !.stop = TRUE]
        BY <2>3 DEF FfStop
      <3> QED
        BY <2>1, <3>1
    <2> QED
      BY <2>2, <2>3
  <1>2. FfTypeOK' /\ FfUsage' /\ AsleepInSleep' /\ NoneWaits' /\ HandedFirst' /\ LossNoted'
    BY <1>0, <1>1 DEF FfInv, FfTypeOK, FfUsage, AsleepInSleep, NoneWaits, HandedFirst, LossNoted
  <1>3. InOrder'
    <2>1. ASSUME NEW s \in Seq(Nat), NEW i \in 1 .. Len(s), s[i] <= ff_env.cur
          PROVE  s[i] <= ff_env'.cur
      <3>1. s[i] \in Nat
        BY <2>1
      <3> QED
        BY <1>0, <1>1, <2>1, <3>1
    <2> QED
      BY <1>0, <2>1 DEF FfInv, InOrder, Ordered
  <1> QED
    BY <1>2, <1>3 DEF FfInv

LEMMA FfQuietInv == FfInv /\ FfQuietStep => FfInv'
  <1> SUFFICES ASSUME FfInv, FfQuietStep PROVE FfInv'
    OBVIOUS
  <1>1. /\ ff' \in FfTargets /\ FfKeepsFrames
        /\ AsleepInSleep' /\ FfUsage' /\ LossNoted'
        /\ ff.at # "done" /\ ff'.at # "done"
    BY FfQuietEffect DEF FfInv
  <1>2. ff_env' = ff_env
    BY DEF FfQuietStep, FfStart, FfFirst, FfOpen, FfAsk, FfLeft, FfWake
  <1>3. /\ ff'.written = ff.written /\ ff'.pre_record = ff.pre_record
        /\ ff'.handed = ff.handed /\ ff'.ts \in {ff.ts, ff_env.cur}
        /\ ff.failed => ff'.failed
    BY <1>1 DEF FfKeepsFrames
  <1>4. FfTypeOK' /\ InOrder' /\ HandedFirst'
    BY <1>1, <1>2, <1>3 DEF FfInv, FfTypeOK, InOrder, HandedFirst
  <1>5. NoneWaits'
    <2>1. Rising(ff.written, ff.ts) => Rising(ff.written, ff_env.cur)
      BY DEF FfInv, InOrder, Ordered, Rising
    <2> QED
      BY <1>3, <2>1 DEF FfInv, NoneWaits
  <1> QED
    BY <1>1, <1>4, <1>5 DEF FfInv

-----------------------------------------------------------------------------
LEMMA FfInvInit == FfInit => FfInv
  <1> SUFFICES ASSUME FfInit PROVE FfInv
    OBVIOUS
  <1>1. PICK i \in Intervals, m \in BOOLEAN, n \in 0 .. MaxFfHanded :
          /\ ff = [at |-> "off", interval |-> i, max_time |-> m, ts |-> 0, uses |-> 0,
                   handed |-> [j \in 1 .. n |-> j], pre_record |-> [j \in 1 .. n |-> j],
                   written |-> <<>>, files |-> 0, finish |-> FALSE, asleep |-> "no",
                   unflushed |-> FALSE, failed |-> FALSE]
          /\ ff_env = [cur |-> n, stop |-> FALSE]
    BY DEF FfInit
  <1> DEFINE before == [j \in 1 .. n |-> j]
  <1>2. /\ n \in Nat /\ before \in Seq(Nat) /\ Len(before) = n
        /\ \A j \in 1 .. n : before[j] = j
    BY FfmpegAssumption
  <1>3. before = <<>> => n = 0
    BY <1>2
  <1> HIDE DEF before
  <1>4. /\ ff.at = "off" /\ ff.ts = 0 /\ ff.uses = 0 /\ ff.handed = before
        /\ ff.pre_record = before /\ ff.written = <<>> /\ ff.files = 0 /\ ff.asleep = "no"
        /\ ff_env.cur = n
    BY <1>1 DEF before
  <1>5. FfTypeOK
    <2>1. "off" \in FfPlaces /\ <<>> \in Seq(Nat)
      BY DEF FfPlaces
    <2>2. ff = [at |-> "off", interval |-> i, max_time |-> m, ts |-> 0, uses |-> 0,
                handed |-> before, pre_record |-> before,
                written |-> <<>>, files |-> 0, finish |-> FALSE, asleep |-> "no",
                unflushed |-> FALSE, failed |-> FALSE]
      BY <1>1 DEF before
    <2>3. ff \in FfTargets
      BY <1>2, <2>1, <2>2 DEF FfTargets
    <2>4. ff_env \in [cur : Nat, stop : BOOLEAN]
      BY <1>1, <1>2
    <2> QED
      BY <2>3, <2>4 DEF FfTypeOK
  <1>6. FfUsage /\ AsleepInSleep /\ LossNoted
    BY <1>4 DEF FfUsage, AsleepInSleep, LossNoted
  <1>7. InOrder
    <2>1. Ordered(<<>>, before, n)
      BY <1>2 DEF Ordered, Ascending
    <2> QED
      BY <1>4, <2>1 DEF InOrder
  <1>8. NoneWaits
    <2>1. Rising(<<>>, 0)
      BY DEF Rising
    <2> QED
      BY <1>4, <2>1 DEF NoneWaits
  <1>9. HandedFirst
    <2>1. Front(before, <<>>, before)
      BY <1>2 DEF Front
    <2> QED
      BY <1>4, <2>1 DEF HandedFirst
  <1> QED
    BY <1>5, <1>6, <1>7, <1>8, <1>9 DEF FfInv

LEMMA FfInvStep == FfInv /\ [FfNext]_ffVars => FfInv'
  <1> SUFFICES ASSUME FfInv, [FfNext]_ffVars PROVE FfInv'
    OBVIOUS
  <1>1. CASE UNCHANGED ffVars
    BY <1>1 DEF ffVars, FfInv, FfTypeOK, FfUsage, AsleepInSleep, InOrder, NoneWaits,
       HandedFirst, LossNoted
  <1>2. CASE FfNext
    BY <1>2, FfQuietInv, FfTakeInv, FfCloseInv, FfEndInv, FfEnvInv
       DEF FfNext, FfStep, FfQuietStep
  <1> QED
    BY <1>1, <1>2

LEMMA FfInvSafe == FfInv => FfSafe
  <1> SUFFICES ASSUME FfInv PROVE FfRecording
    BY DEF FfInv, FfSafe
  <1>0. ff.written \in Seq(Nat) /\ ff.handed \in Seq(Nat) /\ ff.failed \in BOOLEAN
    BY FfTyped DEF FfInv
  <1>1. DOMAIN ff.written = 1 .. Len(ff.written)
    BY <1>0
  <1>2. ASSUME NEW i \in DOMAIN ff.written, NEW j \in DOMAIN ff.written, i < j
        PROVE  IF ff.handed = <<>> THEN ff.written[i] < ff.written[j]
                                   ELSE ff.written[i] <= ff.written[j]
    BY <1>1, <1>2 DEF FfInv, InOrder, Ordered, Ascending, NoneWaits, Rising
  <1>3. ASSUME NEW h \in Seq(Nat), NEW w \in Seq(Nat), Front(h, w, <<>>)
        PROVE  \E n \in 0 .. Len(w) : SubSeq(w, 1, n) = h
    <2>1. Len(h) \in 0 .. Len(w) /\ Len(h) \in Nat /\ Len(w) \in Nat
      BY <1>3 DEF Front
    <2>2. \A i \in 1 .. Len(h) : i \in 1 .. Len(w) /\ h[i] = w[i]
      BY <1>3, <2>1 DEF Front
    <2>3. SubSeq(w, 1, Len(h)) = h
      BY <1>3, <2>1, <2>2
    <2> QED
      BY <2>1, <2>3
  <1>4. ff.at = "done" /\ ~ff.failed /\ ff.files > 0 /\ ~ff.unflushed =>
          \E n \in 0 .. Len(ff.written) : SubSeq(ff.written, 1, n) = ff.handed
    BY <1>0, <1>3 DEF FfInv, LossNoted
  <1> QED
    BY <1>2, <1>4 DEF FfRecording

(* The target that encodes with ffmpeg uses its source while it runs and   *)
(* is awake, and not any more when it ended; what it recorded starts with  *)
(* the frames of before the motion and goes on in the order of the camera, *)
(* for any number of frames, of files, and of frames of before.            *)
THEOREM FfSafeHolds == FfSpec => []FfSafe
  <1> QED
    BY FfInvInit, FfInvStep, FfInvSafe, PTL DEF FfSpec
=============================================================================
