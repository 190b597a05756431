----------------------------- MODULE RtspServer -----------------------------
(***************************************************************************)
(* The RTSP target: a thread that accepts connections, a session thread    *)
(* for each, and a thread per session that sends the frames.  Nobody joins *)
(* a session, and a session gets the loop variables of the accepting       *)
(* thread by reference.  Source: target_rtsp.cpp.                          *)
(*                                                                         *)
(* A descriptor is a number that is given out again after it was closed; a *)
(* connection is what it stands for.  Texts, ports and packets are left    *)
(* out.                                                                    *)
(***************************************************************************)
EXTENDS Integers, FiniteSets

CONSTANTS
    RtspConnections,   \* bound: connections that are made
    RtspDescriptors    \* bound: descriptors for them

ASSUME RtspAssumption ==
    RtspConnections \in Nat \ {0} /\ RtspDescriptors \in Nat \ {0}

VARIABLES
    rtsp,       \* the target and its accepting thread
    session     \* by connection: the session thread made for it, and its RTP thread

rtspVars == <<rtsp, session>>

Connections == 1 .. RtspConnections
Descriptors == 1 .. RtspDescriptors
NoFd == 0

\* client_fd: the loop variable.  open: by descriptor its connection, or 0.
\* users: start() minus stop() of the source.  stolen: a descriptor of another
\* connection was closed.  overlap: a connection was accepted while there was a
\* session.
RtspInit ==
    /\ rtsp = [main |-> "accepting", stop |-> FALSE, paused |-> FALSE,
               client_fd |-> NoFd, open |-> [d \in Descriptors |-> 0], made |-> 0,
               users |-> 0, stolen |-> FALSE, overlap |-> FALSE]
    /\ session = [c \in Connections |->
                    [at |-> "none", fd |-> NoFd, setup |-> FALSE, play |-> "none",
                     stop_play |-> FALSE]]

Alive == {c \in Connections : session[c].at \notin {"none", "gone"}}

CloseFd(r, d, own) ==
    IF d = NoFd \/ r.open[d] = 0 THEN r
    ELSE [r EXCEPT !.open[d] = 0, !.stolen = @ \/ r.open[d] # own]

-----------------------------------------------------------------------------
(* operator(): accept, a thread, and nothing more.                         *)

RtspAccept ==
    /\ rtsp.main = "accepting" /\ ~rtsp.stop /\ rtsp.made < RtspConnections
    /\ \E d \in Descriptors :
         /\ rtsp.open[d] = 0 /\ \A e \in Descriptors : e < d => rtsp.open[e] # 0
         /\ rtsp' = [rtsp EXCEPT !.client_fd = d, !.made = @ + 1, !.open[d] = rtsp.made + 1,
                                 !.overlap = @ \/ Alive # {}]
         /\ session' = [session EXCEPT ![rtsp.made + 1].at = "starting"]

\* The stop flag ends the loop; the listening socket stays open.
RtspMainEnds ==
    /\ rtsp.main = "accepting" /\ rtsp.stop
    /\ rtsp' = [rtsp EXCEPT !.main = "ended"]
    /\ UNCHANGED session

\* start() after stop(): the port is still in use, which ends the program.
RtspRestart ==
    /\ rtsp.main = "ended"
    /\ rtsp' = [rtsp EXCEPT !.main = "exit"]
    /\ UNCHANGED session

RtspStop ==
    /\ ~rtsp.stop /\ rtsp.main # "exit"
    /\ rtsp' = [rtsp EXCEPT !.stop = TRUE]
    /\ UNCHANGED session

RtspPause ==
    /\ rtsp.main # "exit"
    /\ rtsp' = [rtsp EXCEPT !.paused = ~@]
    /\ UNCHANGED session

-----------------------------------------------------------------------------
(* rtsp_session().                                                         *)

\* The thread starts: only now the loop variable is read.
SessionStarts(c) ==
    /\ session[c].at = "starting"
    /\ session' = [session EXCEPT ![c].at = "serving", ![c].fd = rtsp.client_fd]
    /\ UNCHANGED rtsp

Serving(c) == session[c].at = "serving" /\ ~rtsp.stop

Setup(c) ==
    /\ Serving(c)
    /\ session' = [session EXCEPT ![c].setup = TRUE]
    /\ UNCHANGED rtsp

\* Another thread only when there was none, also when that one has ended.
Play(c) ==
    /\ Serving(c)
    /\ session' = [session EXCEPT ![c].play = IF @ = "none" THEN "starting" ELSE @]
    /\ UNCHANGED rtsp

\* PAUSE, TEARDOWN, the end of the connection, a request that is refused, and
\* the stop flag: the RTP thread is told to stop and waited for.
StopPlay(c, then) ==
    session' = [session EXCEPT ![c].at = then, ![c].stop_play = @ \/ session[c].play # "none"]

Pause(c)    == Serving(c) /\ StopPlay(c, "pausing") /\ UNCHANGED rtsp
Teardown(c) == Serving(c) /\ StopPlay(c, "closing") /\ UNCHANGED rtsp
\* poll() without a timeout: the stop flag is not seen.
LeaveOnRequest(c) == FALSE /\ UNCHANGED rtspVars
Leave(c)    == session[c].at = "serving" /\ rtsp.stop /\ StopPlay(c, "closing") /\ UNCHANGED rtsp

NotJoined(c) == TRUE
Joined(c) == session[c].play \in {"none", "ended"}

PauseDone(c) ==
    /\ session[c].at = "pausing" /\ Joined(c)
    /\ session' = [session EXCEPT ![c].at = "serving", ![c].play = "none",
                                  ![c].stop_play = FALSE]
    /\ UNCHANGED rtsp

\* The descriptor is closed, and the thread closes it again: then it may be
\* the descriptor of another connection.
SessionCloses(c) ==
    /\ session[c].at = "closing" /\ Joined(c)
    /\ rtsp' = CloseFd(rtsp, session[c].fd, c)
    /\ session' = [session EXCEPT ![c].at = "closed"]

SessionGone(c) ==
    /\ session[c].at = "closed"
    /\ rtsp' = CloseFd(rtsp, rtsp.client_fd, c)
    /\ session' = [session EXCEPT ![c].at = "gone"]

-----------------------------------------------------------------------------
(* rtp_stream().                                                           *)

RtpStarts(c) ==
    /\ session[c].play = "starting"
    /\ session' = [session EXCEPT ![c].play = "streaming"]
    /\ rtsp' = [rtsp EXCEPT !.users = @ + 1]

\* It ends when it is told to, unless it is paused, and when a frame cannot be
\* sent: to a client that did not tell its port that is the first one.
RtpEnds(c) ==
    /\ session[c].play = "streaming" /\ ~rtsp.paused
    /\ rtsp.stop \/ session[c].stop_play
    /\ session' = [session EXCEPT ![c].play = "ended"]
    /\ rtsp' = [rtsp EXCEPT !.users = @ - 1]

RtpFails(c) ==
    /\ session[c].play = "streaming" /\ ~rtsp.paused
    /\ session' = [session EXCEPT ![c].play = "ended"]
    /\ rtsp' = [rtsp EXCEPT !.users = @ - 1]

-----------------------------------------------------------------------------
SessionStep(c) ==
    /\ rtsp.main # "exit"
    /\ \/ SessionStarts(c) \/ Leave(c) \/ PauseDone(c) \/ SessionCloses(c) \/ SessionGone(c)
       \/ RtpStarts(c) \/ RtpEnds(c)
SessionRequest(c) ==
    /\ rtsp.main # "exit"
    /\ Setup(c) \/ Play(c) \/ Pause(c) \/ Teardown(c) \/ RtpFails(c)

RtspNext ==
    \/ RtspAccept \/ RtspMainEnds \/ RtspRestart \/ RtspStop \/ RtspPause
    \/ \E c \in Connections : SessionStep(c) \/ SessionRequest(c)

\* Threads run; a frame comes, or does not, within a bounded time.
RtspSpec ==
    /\ RtspInit /\ [][RtspNext]_rtspVars
    /\ WF_rtspVars(RtspMainEnds)
    /\ \A c \in Connections : WF_rtspVars(SessionStep(c))

-----------------------------------------------------------------------------
(* Properties.                                                             *)

\* The source has one user for each RTP thread that runs, and a session that
\* is gone left none behind.  A descriptor of another connection is closed
\* only when connections overlapped.  A session that is gone closed its own
\* connection, again unless they overlapped.
RtspBalanced ==
    /\ rtsp.users = Cardinality({c \in Connections : session[c].play = "streaming"})
    /\ \A c \in Connections : session[c].at \in {"closed", "gone"} =>
         session[c].play \in {"none", "ended"}
    /\ rtsp.stolen => rtsp.overlap
    /\ \A c \in Connections : session[c].at = "gone" /\ ~rtsp.overlap =>
         \A d \in Descriptors : rtsp.open[d] # c

\* Told to stop, all of its threads end, unless it stays paused.
RtspEnds ==
    (rtsp.stop /\ <>[](~rtsp.paused)) ~>
        \/ \A c \in Connections : session[c].at \in {"none", "gone"}
        \/ rtsp.main = "exit"
=============================================================================
