-------------------------------- MODULE MCData --------------------------------
(***************************************************************************)
(* Small instances of the modules about data: pictures from a source to    *)
(* those who show or store them, and what is kept in the database, in the  *)
(* configuration and for browsers.  These parts share no state but the     *)
(* frames of a source, which each of them models as its surroundings, so   *)
(* that interleaving them says nothing new: a behaviour is one of a single *)
(* part, and the others stay in one of their initial states.               *)
(***************************************************************************)
EXTENDS StreamWriter, MjpegStream, PixelCommands, Views, DerivedSources, FrameData,
        FilterChain, LcdServer, HttpStreams, VncServer, Archive, Dashboards,
        WebSessions, MCConfigLoad, RestControls, Statistics, TLC

VARIABLE part    \* the part that runs

shownVars == <<viewVars, derivedVars>>
frameVars == <<frameDataVars, filterVars, lcdVars>>
inVars    == <<mjpegVars, pxVars>>
outVars   == <<writerVars, streamVars, vncServerVars, vncVars>>
toolVars  == <<restVars, statVars>>
keptVars  == <<archiveVars, dashVars, webVars, configVars, toolVars>>
dataVars  == <<part, shownVars, frameVars, inVars, outVars, keptVars>>

MCRangeMin == -3
MCDelayLengths == {-1, 0, 1, 2}
MCVncContents == {<<"pattern", 1>>, <<"nearly", 2>>}
MCDashServerOf == [t \in {"t1", "t2"} |-> "s1"] @@ [t \in {"t3"} |-> "s2"]

\* Clients with long and with short commands in any order.
MCPxClients ==
    {[k \in 0 .. PxCommands |-> MapThenSumSet(LAMBDA i : lengths[i] + 1, 1 .. k)] :
        lengths \in [1 .. PxCommands -> {1, 3}]}

\* Pictures: a ramp, one bright spot, and one that is the same everywhere.
MCScenes ==
    {[o \in Places |-> <<20 * o, 10 * o + 40, 200 - 20 * o>>],
     [o \in Places |-> IF o = 4 THEN <<250, 250, 250>> ELSE <<10 + 8 * o, 30, 20>>],
     [o \in Places |-> <<90, 90, 90>>]}

\* Every list of two filters, those that have a place at several of them, inside and
\* outside of the picture; and of three of those that hand on each other's pictures.
MCFilters ==
    [kind : NewPicture \cup Markers
            \cup {"average", "median", "motion", "contrast", "mask", "soft-mask"},
     x : {0}, y : {0}]
    \cup [kind : {"draw", "overlay", "copy", "bitmap"}, x : {-4, 1}, y : {0}]
    \cup [kind : {"draw", "overlay", "copy", "bitmap"}, x : {-3}, y : {1}]
MCAtOrigin(k) == [kind |-> k, x |-> 0, y |-> 0]
MCFilterLists ==
    UNION {[1 .. n -> MCFilters] : n \in 0 .. 2}
    \cup [1 .. 3 -> {MCAtOrigin(k) : k \in {"mirror-h", "noise", "average", "box"}}]

DataInit ==
    /\ part \in {"writer", "mjpeg", "pixels", "switch", "grid", "pip", "delay", "other",
                 "frames", "filters", "lcd", "stream", "vnc server", "vnc screen",
                 "archive", "dashboard", "sessions", "config",
                 "rest", "statistics"}
    /\ WriterInit /\ (part # "writer" => writer = NewWriter("avi", FALSE, FALSE, <<>>))
    /\ MjpegInit /\ (part # "mjpeg" => mjpeg_env.camera = CHOOSE c \in MjpegCameras : TRUE)
    /\ PxInit /\ (part # "pixels" => px.sends = CHOOSE ends \in PxClients : TRUE)
    /\ SwitchInit /\ (part # "switch" => ~view.filtered /\ \A i \in Shown : shown[i].known)
    /\ GridInit /\ (part # "grid" => grid.sources = 1)
    /\ PipInit
    /\ DelayInit /\ (part # "delay" => ~delay.filtered /\ delay.n = 1)
    /\ OtherInit /\ (part # "other" => other.shows)
    /\ FrameDataInit /\ taker["k2"].kind = "recorder"
       /\ (part # "frames" => /\ set_up.camera = "jpeg" /\ set_up.filters /\ set_up.controls
                              /\ set_up.encodes /\ taker["k1"].kind = "viewer"
                              /\ taker["k1"].own /\ taker["k2"].own)
    /\ FilterInit /\ (part # "filters" => chain.list = <<>>)
    /\ LcdInit
    /\ StreamInit /\ (part # "stream" => /\ content.kind = "file" /\ content.fps = "zero"
                                         /\ ~content.get /\ ~content.filtered /\ ~content.sized)
    /\ VncServerInit /\ VncInit
    /\ ArchiveInit /\ DashInit
    /\ WebInit /\ web.admin = web.archive /\ web.archive = web.rest
               /\ (part # "sessions" => web.admin)
    /\ ConfigInit
    /\ RestInit /\ (part # "rest" => camera.kind = "none" /\ camera.has /\ camera.moves)
    /\ StatInit

Switching(step) ==
    /\ part = "switch" /\ step
    /\ UNCHANGED <<part, frameVars, inVars, outVars, keptVars, grid, pipVars, delayVars, other>>
Tiling(step) ==
    /\ part = "grid" /\ step
    /\ UNCHANGED <<part, frameVars, inVars, outVars, keptVars, switchVars, pipVars, delayVars, other>>
Framing(step) ==
    /\ part = "pip" /\ step
    /\ UNCHANGED <<part, frameVars, inVars, outVars, keptVars, switchVars, grid, delayVars, other>>
Delaying(step) ==
    /\ part = "delay" /\ step
    /\ UNCHANGED <<part, frameVars, inVars, outVars, keptVars, switchVars, grid, pipVars, other>>
Deriving(step) ==
    /\ part = "other" /\ step
    /\ UNCHANGED <<part, frameVars, inVars, outVars, keptVars, switchVars, grid, pipVars, delayVars>>
Taking(step) ==
    /\ part = "frames" /\ step
    /\ UNCHANGED <<part, shownVars, inVars, outVars, keptVars, filterVars, lcdVars>>
Filtering(step) ==
    /\ part = "filters" /\ step
    /\ UNCHANGED <<part, shownVars, inVars, outVars, keptVars, frameDataVars, lcdVars>>
Telling(step) ==
    /\ part = "lcd" /\ step
    /\ UNCHANGED <<part, shownVars, inVars, outVars, keptVars, frameDataVars, filterVars>>
Streaming(step) ==
    /\ part = "mjpeg" /\ step
    /\ UNCHANGED <<part, shownVars, frameVars, outVars, keptVars, pxVars>>
Painting(step) ==
    /\ part = "pixels" /\ step
    /\ UNCHANGED <<part, shownVars, frameVars, outVars, keptVars, mjpegVars>>
Writing(step) ==
    /\ part = "writer" /\ step
    /\ UNCHANGED <<part, shownVars, frameVars, inVars, keptVars, streamVars, vncServerVars, vncVars>>
Showing(step) ==
    /\ part = "stream" /\ step
    /\ UNCHANGED <<part, shownVars, frameVars, inVars, keptVars, writerVars, vncServerVars, vncVars>>
VncServing(step) ==
    /\ part = "vnc server" /\ step
    /\ UNCHANGED <<part, shownVars, frameVars, inVars, keptVars, writerVars, streamVars, vncVars>>
VncShowing(step) ==
    /\ part = "vnc screen" /\ step
    /\ UNCHANGED <<part, shownVars, frameVars, inVars, keptVars, writerVars, streamVars, vncServerVars>>
Archiving(step) ==
    /\ part = "archive" /\ step
    /\ UNCHANGED <<part, shownVars, frameVars, inVars, outVars, dashVars, webVars, configVars, toolVars>>
Dashboard(step) ==
    /\ part = "dashboard" /\ step
    /\ UNCHANGED <<part, shownVars, frameVars, inVars, outVars, archiveVars, webVars, configVars, toolVars>>
Sessions(step) ==
    /\ part = "sessions" /\ step
    /\ UNCHANGED <<part, shownVars, frameVars, inVars, outVars, archiveVars, dashVars, configVars, toolVars>>
Loading(step) ==
    /\ part = "config" /\ step
    /\ UNCHANGED <<part, shownVars, frameVars, inVars, outVars, archiveVars, dashVars, webVars, toolVars>>
Controlling(step) ==
    /\ part = "rest" /\ step
    /\ UNCHANGED <<part, shownVars, frameVars, inVars, outVars, archiveVars, dashVars, webVars,
                   configVars, statVars>>
Counting(step) ==
    /\ part = "statistics" /\ step
    /\ UNCHANGED <<part, shownVars, frameVars, inVars, outVars, archiveVars, dashVars, webVars,
                   configVars, restVars>>

DataNext ==
    \/ Switching(SwitchNext) \/ Tiling(GridNext) \/ Framing(PipNext)
    \/ Delaying(DelayNext) \/ Deriving(OtherNext) \/ Taking(FrameDataNext)
    \/ Filtering(FilterNext) \/ Telling(LcdNext) \/ Streaming(MjpegNext)
    \/ Painting(PxNext) \/ Writing(WriterNext) \/ Showing(StreamNext)
    \/ VncServing(VncServerNext) \/ VncShowing(VncNext) \/ Archiving(ArchiveNext)
    \/ Dashboard(DashNext) \/ Sessions(WebNext) \/ Loading(ConfigNext)
    \/ Controlling(RestNext) \/ Counting(StatNext)

DataSpec == DataInit /\ [][DataNext]_dataVars

=============================================================================
