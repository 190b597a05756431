------------------------------ MODULE HttpServer ------------------------------
(***************************************************************************)
(* An HTTP server of constatus: a thread that accepts connections, and one *)
(* thread per connection, which serves one request.  Source:               *)
(* http_server.cpp (operator(), purge_threads, handle_http_client),        *)
(* http_server_content.cpp (streams), http_server_rest.cpp, main.cpp (its  *)
(* termination).                                                           *)
(*                                                                         *)
(* A connection is a name; it is served once.  The sections under          *)
(* data_lock do not wait for anybody and are one step each.  What a page   *)
(* shows, and who may see it, is a choice.  The source that is shown       *)
(* counts its users: here, which connections are among them.               *)
(***************************************************************************)

CONSTANTS
    Clients,       \* the connections
    Tls,           \* the server has a certificate (ssl_ctx)
    Main,          \* main(), as owner of cfg->lock
    None

ASSUME ClientsAssumption ==
    /\ Main \notin Clients /\ None \notin Clients /\ Main # None
    /\ Tls \in BOOLEAN

VARIABLES
    config,          \* the server is "plain", "admin" (allow_admin or is_rest) or "motion" compatible
    main,            \* where main() is
    local_stop_flag,
    paused,          \* of the server: pause_lock is locked
    cfg_lock,        \* owner of cfg->lock
    server,          \* where the server's thread is in operator()()
    ct,              \* its local variable: the connection just accepted
    data,            \* the connections it knows of
    at,              \* where the thread of a connection is
    open,            \* connections whose socket is open
    holds,           \* connections that did start() of the source and no stop() yet
    threw,           \* history: requests that ended with an exception
    stalled          \* connections whose peer does nothing any more

serverVars == <<server, ct, data>>
clientVars == <<at, open, holds, threw, stalled>>
mainVars   == <<main, local_stop_flag, paused>>
vars == <<config, mainVars, cfg_lock, serverVars, clientVars>>

Active  == {"handshake", "headers", "source", "page", "stream", "frame", "waiting", "locked",
            "reply", "close", "release"}
Threads == Active \cup {"terminated"}

Init ==
    /\ config \in {"plain", "admin", "motion"}
    /\ main = "run"
    /\ local_stop_flag = FALSE /\ paused = FALSE
    /\ cfg_lock = None
    /\ server = "loop"
    /\ ct = None
    /\ data = {}
    /\ at = [c \in Clients |-> "away"]
    /\ open = {} /\ holds = {} /\ threw = {} /\ stalled = {}

\* WRITE_SSL() returns when everything was sent, or the connection failed; SSL_accept()
\* waits for the handshake, SSL_read() for the rest of a record.  None has a time-out.
WaitsForPeer(c) ==
    \/ at[c] \in {"frame", "reply"}
    \/ Tls /\ (at[c] = "handshake" \/ (at[c] = "headers" /\ config # "motion"))

Goto(c, from, to) == at[c] = from /\ at' = [at EXCEPT ![c] = to]

-----------------------------------------------------------------------------
(* The thread of the server                                                *)

\* The loop test, then purge_threads(): joins and deletes what has terminated.
Loop ==
    /\ server = "loop"
    /\ IF local_stop_flag
       THEN server' = "join" /\ UNCHANGED <<data, at>>
       ELSE /\ server' = "gate"
            /\ data' = {c \in data : at[c] # "terminated"}
            /\ at' = [c \in Clients |-> IF c \in data /\ at[c] = "terminated" THEN "gone" ELSE at[c]]
    /\ UNCHANGED <<config, mainVars, cfg_lock, ct, open, holds, threw, stalled>>

\* pauseCheck()
Gate ==
    /\ server = "gate"
    /\ ~paused
    /\ server' = "poll"
    /\ UNCHANGED <<config, mainVars, cfg_lock, ct, data, clientVars>>

\* Mutated form of NobodyCame: poll() waits for ever.
NobodyEverCame == FALSE /\ UNCHANGED vars

\* poll() timed out, or accept() failed
NobodyCame ==
    /\ server = "poll"
    /\ server' = "loop"
    /\ UNCHANGED <<config, mainVars, cfg_lock, ct, data, clientVars>>

\* accept(), and a thread for the connection
Accept(c) ==
    /\ server = "poll"
    /\ server' = "push"
    /\ ct' = c
    /\ Goto(c, "away", IF Tls THEN "handshake" ELSE "headers")
    /\ open' = open \cup {c}
    /\ UNCHANGED <<config, mainVars, cfg_lock, data, holds, threw, stalled>>

\* Mutated form of Push: a server that must stop does not take new connections.
PushUnlessStopping ==
    /\ server = "push"
    /\ server' = "loop"
    /\ data' = IF local_stop_flag THEN data ELSE data \cup {ct}
    /\ ct' = None
    /\ UNCHANGED <<config, mainVars, cfg_lock, clientVars>>

\* data.push_back(ct): the thread of the connection already runs.
Push ==
    /\ server = "push"
    /\ server' = "loop"
    /\ data' = data \cup {ct}
    /\ ct' = None
    /\ UNCHANGED <<config, mainVars, cfg_lock, clientVars>>

\* After the loop: every thread is joined, then every record is deleted.  The
\* vector keeps its pointers.
JoinAll ==
    /\ server = "join"
    /\ \A c \in data : at[c] = "terminated"
    /\ server' = "ended"
    /\ at' = [c \in Clients |-> IF c \in data THEN "gone" ELSE at[c]]
    /\ UNCHANGED <<config, mainVars, cfg_lock, ct, data, open, holds, threw, stalled>>

Server == Loop \/ Gate \/ NobodyCame \/ (\E c \in Clients : Accept(c)) \/ Push \/ JoinAll

-----------------------------------------------------------------------------
(* The thread of a connection                                              *)

\* ACCEPT_SSL(ct->hh): a failure is only logged.
Handshake(c) ==
    /\ c \notin stalled
    /\ Goto(c, "handshake", "headers")
    /\ UNCHANGED <<config, mainVars, cfg_lock, serverVars, open, holds, threw, stalled>>

\* CLOSE_SSL() and return: no source was started yet
HangUp(c) ==
    /\ Goto(c, "headers", "terminated")
    /\ open' = open \ {c}

\* get_headers(): the peer sent a request, a wrong one, or closed.
Request(c) ==
    /\ config # "motion" /\ c \notin stalled
    /\ \/ Goto(c, "headers", "source") /\ UNCHANGED open
       \/ HangUp(c)
    /\ UNCHANGED <<config, mainVars, cfg_lock, serverVars, holds, threw, stalled>>

\* Mutated form of NoRequest: get_headers() waits until the headers are there.
NoRequestWaits(c) ==
    /\ config = "motion"
    /\ Goto(c, "headers", "source")
    /\ UNCHANGED <<config, mainVars, cfg_lock, serverVars, open, holds, threw, stalled>>

\* get_headers() ends without the end of the headers: it is not called for, or
\* the server stops.  Then what was read, if anything, is taken for the headers.
NoRequest(c) ==
    /\ config = "motion" \/ (local_stop_flag /\ c \notin stalled)
    /\ \/ Goto(c, "headers", "source") /\ UNCHANGED open
       \/ config # "motion" /\ HangUp(c)
    /\ UNCHANGED <<config, mainVars, cfg_lock, serverVars, holds, threw, stalled>>

\* s->start(), when the request is about a source
StartSource(c) ==
    /\ Goto(c, "source", "page")
    /\ holds' \in {holds \cup {c}} \cup (IF config = "motion" THEN {} ELSE {holds})
    /\ UNCHANGED <<config, mainVars, cfg_lock, serverVars, open, threw, stalled>>

\* An exception (an empty REST path) ends the request; handle_http_client_thread()
\* catches it.
Throw(c) ==
    /\ config = "admin"
    /\ Goto(c, "page", "terminated")
    /\ threw' = threw \cup {c}
    /\ UNCHANGED <<config, mainVars, cfg_lock, serverVars, open, holds, stalled>>

\* What the path asks for: a stream of a source, a page, a command
Page(c) ==
    /\ \/ c \in holds /\ Goto(c, "page", "stream")
       \/ config # "motion" /\ Goto(c, "page", "reply")
       \/ config = "admin" /\ Goto(c, "page", "waiting")
    /\ UNCHANGED <<config, mainVars, cfg_lock, serverVars, open, holds, threw, stalled>>

\* Mutated form of Stream: a stream that is interrupted returns at once.
StreamReturns(c) ==
    /\ \/ ~local_stop_flag /\ (Goto(c, "stream", "frame") \/ Goto(c, "stream", "close"))
       \/ local_stop_flag /\ Goto(c, "stream", "terminated")
    /\ UNCHANGED <<config, mainVars, cfg_lock, serverVars, open, holds, threw, stalled>>

\* while((time_limit <= 0 || time(nullptr) < end) && !local_stop_flag)
Stream(c) ==
    /\ \/ ~local_stop_flag /\ Goto(c, "stream", "frame")
       \/ Goto(c, "stream", "close")
    /\ UNCHANGED <<config, mainVars, cfg_lock, serverVars, open, holds, threw, stalled>>

\* WRITE_SSL() returned: on with the stream, unless it failed; or the reply is sent.
Write(c) ==
    /\ c \notin stalled
    /\ \/ Goto(c, "frame", "stream") \/ Goto(c, "frame", "close") \/ Goto(c, "reply", "close")
    /\ UNCHANGED <<config, mainVars, cfg_lock, serverVars, open, holds, threw, stalled>>

\* The peer does nothing, and does not hang up either, from now on.
Stall(c) ==
    /\ WaitsForPeer(c)
    /\ stalled' = stalled \cup {c}
    /\ UNCHANGED <<config, mainVars, cfg_lock, serverVars, at, open, holds, threw>>

\* std::unique_lock<std::timed_mutex> lck(cfg->lock), the command, lck.unlock()
LockConfig(c) ==
    /\ cfg_lock = None
    /\ Goto(c, "waiting", "locked")
    /\ cfg_lock' = c
    /\ UNCHANGED <<config, mainVars, serverVars, open, holds, threw, stalled>>

\* The command may be pause or unpause of this server.
UnlockConfig(c) ==
    /\ Goto(c, "locked", "reply")
    /\ cfg_lock' = None
    /\ paused' \in BOOLEAN
    /\ UNCHANGED <<config, main, local_stop_flag, serverVars, open, holds, threw, stalled>>

\* CLOSE_SSL(ct->hh)
Close(c) ==
    /\ Goto(c, "close", "release")
    /\ open' = open \ {c}
    /\ UNCHANGED <<config, mainVars, cfg_lock, serverVars, holds, threw, stalled>>

\* s->stop(); then ct->is_terminated = true
Release(c) ==
    /\ Goto(c, "release", "terminated")
    /\ holds' = holds \ {c}
    /\ UNCHANGED <<config, mainVars, cfg_lock, serverVars, open, threw, stalled>>

\* What the thread does on its own
ClientStep(c) ==
    \/ Handshake(c) \/ NoRequest(c) \/ StartSource(c) \/ Throw(c) \/ Page(c) \/ Stream(c) \/ Write(c)
    \/ LockConfig(c) \/ UnlockConfig(c) \/ Close(c) \/ Release(c)

Client(c) == ClientStep(c) \/ Request(c) \/ Stall(c)

-----------------------------------------------------------------------------
(* main(), and the clients of other servers                                *)

\* pause or unpause of this server, by a command to another one
PauseElsewhere ==
    /\ cfg_lock = None
    /\ paused' = ~paused
    /\ UNCHANGED <<config, main, local_stop_flag, cfg_lock, serverVars, clientVars>>

\* cfg->lock.lock(): it is never unlocked.
MainLock ==
    /\ main = "run" /\ main' = "locked"
    /\ cfg_lock = None /\ cfg_lock' = Main
    /\ UNCHANGED <<config, local_stop_flag, paused, serverVars, clientVars>>

MainAnnounceStop ==
    /\ main = "locked" /\ main' = "stop"
    /\ local_stop_flag' = TRUE
    /\ UNCHANGED <<config, paused, cfg_lock, serverVars, clientVars>>

\* stop() joins the server's thread; later the server is deleted.
MainStop ==
    /\ main = "stop" /\ main' = "stopped"
    /\ server = "ended"
    /\ UNCHANGED <<config, local_stop_flag, paused, cfg_lock, serverVars, clientVars>>

MainDelete ==
    /\ main = "stopped" /\ main' = "deleted"
    /\ UNCHANGED <<config, local_stop_flag, paused, cfg_lock, serverVars, clientVars>>

MainEnding == MainAnnounceStop \/ MainStop \/ MainDelete

Next == Server \/ (\E c \in Clients : Client(c)) \/ PauseElsewhere \/ MainLock \/ MainEnding

Spec == Init /\ [][Next]_vars

\* The threads run.  Whether somebody connects, sends a request, stalls, or ends
\* the program, is not theirs.
FairSpec ==
    /\ Spec
    /\ WF_vars(Server) /\ WF_vars(MainEnding)
    /\ \A c \in Clients : WF_vars(ClientStep(c))

-----------------------------------------------------------------------------
(* Properties                                                              *)

TypeOK ==
    /\ config \in {"plain", "admin", "motion"}
    /\ main \in {"run", "locked", "stop", "stopped", "deleted"}
    /\ local_stop_flag \in BOOLEAN /\ paused \in BOOLEAN
    /\ cfg_lock \in Clients \cup {Main, None}
    /\ server \in {"loop", "gate", "poll", "push", "join", "ended"}
    /\ ct \in Clients \cup {None}
    /\ data \subseteq Clients
    /\ at \in [Clients -> Threads \cup {"away", "gone"}]
    /\ open \subseteq Clients /\ holds \subseteq Clients
    /\ threw \subseteq Clients /\ stalled \subseteq Clients

\* The server's thread knows every connection that has a thread, or is about to
\* note it; a record that was deleted is not looked at until the server ended.
ThreadsKnown ==
    /\ server = "push" <=> ct # None
    /\ ct # None => at[ct] \in Threads /\ ct \notin data
    /\ \A c \in Clients : at[c] \in Threads /\ c # ct => c \in data
    /\ \A c \in data : at[c] \in (IF server = "ended" THEN {"gone"} ELSE Threads)

\* No thread of a connection outlives the server object it works with.
DeletedIsUnused ==
    /\ main \in {"stopped", "deleted"} => server = "ended"
    /\ server = "ended" => \A c \in Clients : at[c] \in {"away", "gone"}

\* One owner of cfg->lock; main() keeps it.
LockOwned ==
    /\ main # "run" <=> cfg_lock = Main
    /\ \A c \in Clients : at[c] = "locked" <=> cfg_lock = c

ServerInv == TypeOK /\ ThreadsKnown /\ DeletedIsUnused /\ LockOwned

\* A request that did not end with an exception gave back what it took: its
\* socket, and the source it used, so that the source can end when on demand.
ResourcesReturned ==
    \A c \in Clients :
        /\ at[c] \in {"terminated", "gone"} /\ c \notin threw => c \notin open \cup holds
        /\ c \in holds => c \in threw \/ at[c] \in Active \ {"handshake", "headers", "source"}
        /\ c \in open => c \in threw \/ at[c] \in Active \ {"release"}

\* A server told to stop cannot end: it is paused, and main() has the lock that
\* unpausing takes; or a thread it joins waits for that lock; or the peer of one
\* does nothing.  None of these ends by itself.
Blocked ==
    /\ local_stop_flag
    /\ \/ server = "gate" /\ paused
       \/ \E c \in Clients : at[c] = "waiting" \/ (WaitsForPeer(c) /\ c \in stalled)

\* A server told to stop ends, whatever its connections do, unless it is Blocked.
StopEndsServer == local_stop_flag ~> (server = "ended" \/ Blocked)

\* The thread of a request that is over is joined, while the server runs and is not
\* paused, and when it stops, unless it is Blocked.
ThreadsPurged ==
    \A c \in Clients :
        <>[]~paused => (at[c] = "terminated" ~> (at[c] = "gone" \/ Blocked))

\* Both: what the server must do for its threads, and for who stops it.
ServerEnds == StopEndsServer /\ ThreadsPurged
=============================================================================
