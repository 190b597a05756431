---------------------------- MODULE PixelServer -----------------------------
(***************************************************************************)
(* The threads of the pixelflood source: the thread of the source shows    *)
(* the picture; a server thread, that nobody joins, accepts connections    *)
(* (or reads packets) and has a thread for each client.  All of them look  *)
(* at the stop flag of the source, which start() takes back.               *)
(* Source: source_pixelflood.cpp, utils.cpp, interface.cpp.                *)
(***************************************************************************)
EXTENDS Integers, FiniteSets

CONSTANTS
    PixelProtocols,   \* "tcp", "udp bin", "udp txt"
    PixelServers,     \* bound: how often the source is started
    PixelClients      \* bound: connections

ASSUME PixelAssumption ==
    /\ PixelProtocols \subseteq {"tcp", "udp bin", "udp txt"}
    /\ PixelServers \in Nat \ {0} /\ PixelClients \in Nat

VARIABLES
    pixel,        \* the source
    pixel_server, \* by number: the server threads
    painter       \* by number: the client threads

pixelVars == <<pixel, pixel_server, painter>>

Servers == 1 .. PixelServers
Painters == 1 .. PixelClients

PixelInit ==
    /\ \E p \in PixelProtocols, scales \in BOOLEAN :
         pixel = [protocol |-> p, scales |-> scales, main |-> "off", stop |-> FALSE, started |-> 0,
                  made |-> 0, exit |-> FALSE, deleted |-> FALSE, early |-> FALSE]
    /\ pixel_server = [s \in Servers |-> "none"]
    /\ painter = [c \in Painters |-> [at |-> "none", server |-> 0, record |-> FALSE]]

Up == ~pixel.exit /\ ~pixel.deleted

\* A server thread that has not ended.
Serves(s) == pixel_server[s] \in {"starting", "serving", "joining"}

-----------------------------------------------------------------------------
(* interface::start(), operator(), interface::stop().                      *)

\* early: there still is a server thread from before.
PixelStart ==
    /\ Up /\ pixel.main = "off" /\ pixel.started < PixelServers
    /\ pixel' = [pixel EXCEPT !.main = "running", !.stop = FALSE, !.started = @ + 1,
                              !.early = @ \/ \E s \in Servers : Serves(s)]
    /\ pixel_server' = [pixel_server EXCEPT ![pixel.started + 1] = "starting"]
    /\ UNCHANGED painter

\* operator(): a frame somebody wants.  When a pixel of a client is more than one
\* pixel of the frame, the loop that makes it so counts the wrong variable and
\* never ends.
PixelFrame ==
    /\ Up /\ pixel.main = "running" /\ pixel.scales
    /\ pixel' = [pixel EXCEPT !.main = "stuck"]
    /\ UNCHANGED <<pixel_server, painter>>

\* stop() joins the thread of the source only.
PixelStop ==
    /\ Up /\ pixel.main = "running"
    /\ pixel' = [pixel EXCEPT !.main = "off", !.stop = TRUE]
    /\ UNCHANGED <<pixel_server, painter>>

\* ~source_pixelflood(): the picture and the flag are gone, also for the
\* threads that still use them.
PixelDelete ==
    /\ Up /\ pixel.main = "off"
    /\ pixel' = [pixel EXCEPT !.deleted = TRUE]
    /\ UNCHANGED <<pixel_server, painter>>

-----------------------------------------------------------------------------
(* tcp_connection_thread(), udp_connection_thread_bin(), ..._txt().        *)

\* start_listen(): a port that is in use ends the program.  With UDP the port
\* can be shared (SO_REUSEADDR).
ServerListens(s) ==
    /\ pixel_server[s] = "starting"
    /\ IF pixel.protocol = "tcp" /\ \E o \in Servers : pixel_server[o] \in {"serving", "joining"}
       THEN pixel' = [pixel EXCEPT !.exit = TRUE] /\ UNCHANGED pixel_server
       ELSE pixel_server' = [pixel_server EXCEPT ![s] = "serving"] /\ UNCHANGED pixel
    /\ UNCHANGED painter

ServerAccepts(s) ==
    /\ pixel_server[s] = "serving" /\ pixel.protocol = "tcp" /\ pixel.made < PixelClients
    /\ pixel' = [pixel EXCEPT !.made = @ + 1]
    /\ painter' = [painter EXCEPT ![pixel.made + 1] =
                     [at |-> "serving", server |-> s, record |-> TRUE]]
    /\ UNCHANGED pixel_server

\* A client thread that has set is_terminated is joined, its record deleted.
ServerReaps(s) ==
    /\ pixel_server[s] = "serving"
    /\ \E c \in Painters :
         /\ painter[c].server = s /\ painter[c].record /\ painter[c].at = "ended"
         /\ painter' = [painter EXCEPT ![c].record = FALSE]
    /\ UNCHANGED <<pixel, pixel_server>>

\* The stop flag was seen.  A server for UDP text also ends at a line that is
\* no command.
ServerStops(s) ==
    /\ pixel_server[s] = "serving"
    /\ pixel.stop \/ pixel.protocol = "udp txt"
    /\ pixel_server' = [pixel_server EXCEPT ![s] = "joining"]
    /\ UNCHANGED <<pixel, painter>>

\* The clients are told to stop, with the flag of the source, and joined one by
\* one; then the listening socket is closed.
Records(s) == {c \in Painters : painter[c].server = s /\ painter[c].record}
ServerJoinsNone(s) ==
    /\ pixel_server[s] = "joining"
    /\ pixel_server' = [pixel_server EXCEPT ![s] = "ended"]
    /\ painter' = [c \in Painters |-> IF c \in Records(s)
                                      THEN [painter[c] EXCEPT !.record = FALSE] ELSE painter[c]]
    /\ UNCHANGED pixel
ServerJoins(s) ==
    /\ pixel_server[s] = "joining"
    /\ IF Records(s) = {}
       THEN pixel_server' = [pixel_server EXCEPT ![s] = "ended"] /\ UNCHANGED <<pixel, painter>>
       ELSE \/ /\ ~pixel.stop
               /\ pixel' = [pixel EXCEPT !.stop = TRUE]
               /\ UNCHANGED <<pixel_server, painter>>
            \/ /\ \E c \in Records(s) :
                    /\ painter[c].at = "ended"
                    /\ painter' = [painter EXCEPT ![c].record = FALSE]
               /\ UNCHANGED <<pixel, pixel_server>>

-----------------------------------------------------------------------------
(* tcp_receive_thread().                                                   *)

\* The stop flag, the end of the connection, or a line that is no command.
PainterEnds(c) ==
    /\ painter[c].at = "serving"
    /\ painter' = [painter EXCEPT ![c].at = "ended"]
    /\ UNCHANGED <<pixel, pixel_server>>

PixelThreads ==
    ~pixel.exit /\
    \/ \E s \in Servers : \/ ServerListens(s) \/ ServerAccepts(s) \/ ServerReaps(s)
                          \/ ServerStops(s) \/ ServerJoins(s)
    \/ \E c \in Painters : PainterEnds(c)

PixelNext == PixelStart \/ PixelFrame \/ PixelStop \/ PixelDelete \/ PixelThreads

PixelSpec == PixelInit /\ [][PixelNext]_pixelVars

-----------------------------------------------------------------------------
(* Properties.                                                             *)

\* A client thread always has its record, and outlives neither it nor its
\* server.  With TCP, two servers never listen at the same time; that the port
\* is found in use, which ends the program, needs a start while the server
\* thread of before had not ended.
PixelThreadsOwned ==
    /\ \A c \in Painters : painter[c].at = "serving" =>
         painter[c].record /\ pixel_server[painter[c].server] \in {"serving", "joining"}
    /\ pixel.protocol = "tcp" =>
         Cardinality({s \in Servers : pixel_server[s] \in {"serving", "joining"}}) <= 1
    /\ pixel.exit => pixel.early
=============================================================================
