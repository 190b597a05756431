------------------------------ MODULE MCThreads -------------------------------
(***************************************************************************)
(* Small instances of the modules about threads that serve, take or store  *)
(* something for others, two of which must go on and two must end.  These  *)
(* parts share no state but the users of a source, which each of them      *)
(* counts for itself, so that interleaving them says nothing new: a        *)
(* behaviour is one of a single part, and the others stay in one of their  *)
(* initial states.                                                         *)
(***************************************************************************)
EXTENDS HttpServer, RtspServer, PixelServer, FfmpegTarget, Grabber, Notices

VARIABLE part    \* the part that runs

portVars  == <<rtspVars, pixelVars>>
mediaVars == <<ffVars, grabVars>>
threadVars == <<part, vars, portVars, mediaVars, noticeVars>>

\* Servers that end when they are told to.
ServersEnd == ServerEnds /\ RtspEnds

ThreadsInit ==
    /\ part \in {"http", "rtsp", "pixelflood", "ffmpeg", "grabber", "notices"}
    /\ Init /\ (part # "http" => config = "plain")
    /\ RtspInit
    /\ PixelInit /\ (part # "pixelflood" => pixel.protocol = "tcp" /\ pixel.scales)
    /\ FfInit /\ (part # "ffmpeg" => ff.interval = "none" /\ ~ff.max_time /\ ff.handed = <<>>)
    /\ GrabInit /\ (part # "grabber" => grab.kind = "jpeg" /\ ~grab.resize)
    /\ NoticeInit

Http(step) == part = "http" /\ step /\ UNCHANGED <<part, portVars, mediaVars, noticeVars>>
Rtsp(step) ==
    /\ part = "rtsp" /\ step
    /\ UNCHANGED <<part, vars, pixelVars, mediaVars, noticeVars>>
Pixelflood(step) ==
    /\ part = "pixelflood" /\ step
    /\ UNCHANGED <<part, vars, rtspVars, mediaVars, noticeVars>>
Filming(step) ==
    /\ part = "ffmpeg" /\ step /\ UNCHANGED <<part, vars, portVars, grabVars, noticeVars>>
Grabbing(step) ==
    /\ part = "grabber" /\ step /\ UNCHANGED <<part, vars, portVars, ffVars, noticeVars>>
Noticing(step) ==
    /\ part = "notices" /\ step /\ UNCHANGED <<part, vars, portVars, mediaVars>>

ThreadsNext ==
    \/ Http(Next) \/ Rtsp(RtspNext) \/ Pixelflood(PixelNext)
    \/ Filming(FfNext) \/ Grabbing(GrabNext)
    \/ Noticing(NoticeNext)

\* The fairness of FairSpec (HttpServer), RtspSpec, FfSpec and GrabSpec.
ThreadsSpec ==
    /\ ThreadsInit /\ [][ThreadsNext]_threadVars
    /\ WF_threadVars(Http(Server)) /\ WF_threadVars(Http(MainEnding))
    /\ \A c \in Clients : WF_threadVars(Http(ClientStep(c)))
    /\ WF_threadVars(Rtsp(RtspMainEnds))
    /\ \A c \in Connections : WF_threadVars(Rtsp(SessionStep(c)))
    /\ WF_threadVars(Filming(FfStep))
    /\ WF_threadVars(Grabbing(GrabStep))

=============================================================================
