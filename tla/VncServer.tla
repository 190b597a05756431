----------------------------- MODULE VncServer ------------------------------
(***************************************************************************)
(* The VNC target: a thread that accepts connections and one detached      *)
(* thread per client, that reads what the client asks and is a user of the *)
(* source.  Source: target_vnc.cpp.                                        *)
(*                                                                         *)
(* READ() waits for the client as long as it takes.  What is drawn is in   *)
(* VncScreen, for one client: clients share nothing but the source.        *)
(***************************************************************************)
EXTENDS VncScreen

CONSTANT VncClients    \* the clients

VARIABLES
    vnc_server,   \* the target
    viewer        \* by client: its thread

vncServerVars == <<vnc_server, viewer>>

\* users: start() minus stop() of the source.  frames: the source gives frames.
VncServerInit ==
    /\ vnc_server = [main |-> "off", stop |-> FALSE, paused |-> FALSE, users |-> 0,
                     frames |-> TRUE, scheduled |-> TRUE]
    /\ viewer = [c \in VncClients |-> [at |-> "none", bad |-> FALSE]]

Go(c, at) == viewer' = [viewer EXCEPT ![c].at = at]
Here(c, at) == viewer[c].at = at

-----------------------------------------------------------------------------
(* The surroundings.                                                       *)

\* start() and stop() of the target, a pause, the schedule, and the camera.
VncControl ==
    /\ \/ /\ vnc_server.main = "off"
          /\ vnc_server' = [vnc_server EXCEPT !.main = "accepting", !.stop = FALSE]
       \/ vnc_server' = [vnc_server EXCEPT !.stop = TRUE]
       \/ vnc_server' = [vnc_server EXCEPT !.paused = ~@]
       \/ vnc_server' = [vnc_server EXCEPT !.frames = ~@]
       \/ vnc_server' = [vnc_server EXCEPT !.scheduled = ~@]
    /\ UNCHANGED viewer

-----------------------------------------------------------------------------
(* operator().                                                             *)

\* A connection for which the schedule is off is closed at once.
VncAccept(c) ==
    /\ vnc_server.main = "accepting" /\ ~vnc_server.paused
    /\ viewer[c].at = "none"
    /\ Go(c, IF vnc_server.scheduled THEN "connected" ELSE "closed")
    /\ UNCHANGED vnc_server

\* The clients are left alone.
VncMainEnds ==
    /\ vnc_server.main = "accepting" /\ vnc_server.stop /\ ~vnc_server.paused
    /\ vnc_server' = [vnc_server EXCEPT !.main = "off"]
    /\ UNCHANGED viewer

-----------------------------------------------------------------------------
(* vnc_main_loop().                                                        *)

UseSource(c) ==
    /\ Here(c, "connected") /\ Go(c, "greeting")
    /\ vnc_server' = [vnc_server EXCEPT !.users = @ + 1]

\* handshake(): version, security, sharing; a client that breaks off, or wants
\* something else, has its thread end there and then: the connection stays
\* open, and the source keeps its user.
VncHandshake(c) ==
    /\ Here(c, "greeting")
    /\ \/ Go(c, "first frame")
       \/ viewer' = [viewer EXCEPT ![c] = [at |-> "left", bad |-> TRUE]]
    /\ UNCHANGED vnc_server

\* for(;;) get_frame(): until there is one, whatever the stop flag says.
FirstFrame(c) ==
    /\ Here(c, "first frame") /\ vnc_server.frames
    /\ \/ Go(c, "reading")
       \/ viewer' = [viewer EXCEPT ![c] = [at |-> "left", bad |-> TRUE]]
    /\ UNCHANGED vnc_server

\* A message of the client is handled; the next one is waited for unless the
\* stop flag is set by then.
Message(c) ==
    /\ Here(c, "reading")
    /\ Go(c, IF vnc_server.stop THEN "ending" ELSE "reading")
    /\ UNCHANGED vnc_server

\* The connection is broken, a message cannot be read or answered, or there is
\* no frame to answer with.
Broken(c) ==
    /\ Here(c, "reading")
    /\ Go(c, "ending")
    /\ UNCHANGED vnc_server

VncLeaveUsing(c) ==
    /\ Here(c, "ending") /\ Go(c, "closed")
    /\ UNCHANGED vnc_server
VncLeave(c) ==
    /\ Here(c, "ending") /\ Go(c, "closed")
    /\ vnc_server' = [vnc_server EXCEPT !.users = @ - 1]

VncClient(c) == UseSource(c) \/ VncHandshake(c) \/ FirstFrame(c) \/ Message(c) \/ VncLeave(c)

VncServerNext ==
    \/ VncControl \/ VncMainEnds
    \/ \E c \in VncClients : VncAccept(c) \/ VncClient(c) \/ Broken(c)

VncServerSpec == VncServerInit /\ [][VncServerNext]_vncServerVars

-----------------------------------------------------------------------------
(* Properties.                                                             *)

\* The source has a user for each client that is served, and one for each
\* client whose handshake failed: that one is never given back, so that the
\* source goes on for nobody.  A thread leaves without giving its use back only
\* in the handshake.
VncUsers ==
    /\ vnc_server.users =
         Cardinality({c \in VncClients :
             viewer[c].at \in {"greeting", "first frame", "reading", "ending", "left"}})
    /\ \A c \in VncClients : viewer[c].at = "left" <=> viewer[c].bad

\* What a viewer of the VNC target is owed: that it is counted as a user of the source
\* while it is there, and, once it has an update, the picture that was current then.
VncSound == VncUsers /\ VncView
=============================================================================
