-------------------------- MODULE HttpServerProofs ---------------------------
(***************************************************************************)
(* Proofs about an HTTP server: HttpServer, its threads, and HttpStreams,  *)
(* what a thread sends of a source.                                        *)
(***************************************************************************)
EXTENDS HttpServer, HttpStreams, SequenceTheorems, TLAPS

-----------------------------------------------------------------------------
(***************************************************************************)
(* HttpServer: for any set of connections, the server knows all its        *)
(* threads and is not deleted before they ended, and a request gives back  *)
(* its socket and its source.                                              *)
(***************************************************************************)

USE ClientsAssumption DEF Threads, Active

(* A step of the thread of one connection, which is neither its first nor  *)
(* beyond is_terminated, keeps the records of the server right.            *)
LEMMA ClientMoves ==
    ASSUME ServerInv, NEW c \in Clients, NEW place \in Threads,
           at[c] \in Active, at' = [at EXCEPT ![c] = place],
           UNCHANGED <<config, main, local_stop_flag, serverVars>>, paused' \in BOOLEAN,
           open' \subseteq Clients, holds' \subseteq Clients,
           threw' \subseteq Clients, stalled' \subseteq Clients,
           \/ cfg_lock' = cfg_lock /\ at[c] # "locked" /\ place # "locked"
           \/ cfg_lock = None /\ cfg_lock' = c /\ place = "locked"
           \/ cfg_lock' = None /\ at[c] = "locked" /\ place # "locked"
    PROVE  ServerInv'
  <1>1. TypeOK'
    BY DEF ServerInv, TypeOK, serverVars
  <1>2. server # "ended"
    BY DEF ServerInv, TypeOK, DeletedIsUnused
  <1>3. ThreadsKnown'
    BY <1>2 DEF ServerInv, TypeOK, ThreadsKnown, serverVars
  <1>4. DeletedIsUnused'
    BY <1>2 DEF ServerInv, TypeOK, DeletedIsUnused, mainVars, serverVars
  <1>5. LockOwned'
    BY DEF ServerInv, TypeOK, LockOwned, mainVars
  <1> QED
    BY <1>1, <1>3, <1>4, <1>5 DEF ServerInv

LEMMA ClientInv ==
    ASSUME ServerInv, NEW c \in Clients, Client(c)
    PROVE  ServerInv'
  <1> USE DEF Goto, serverVars, mainVars
  <1> TypeOK
    BY DEF ServerInv
  <1>0. CASE Handshake(c)
    BY <1>0, ClientMoves DEF Handshake, TypeOK
  <1>1. CASE NoRequest(c)
    BY <1>1, ClientMoves DEF NoRequest, HangUp, TypeOK
  <1>2. CASE StartSource(c)
    BY <1>2, ClientMoves DEF StartSource, TypeOK
  <1>3. CASE Throw(c)
    BY <1>3, ClientMoves DEF Throw, TypeOK
  <1>4. CASE Page(c)
    BY <1>4, ClientMoves DEF Page, TypeOK
  <1>5. CASE Stream(c)
    BY <1>5, ClientMoves DEF Stream, TypeOK
  <1>6. CASE Write(c)
    BY <1>6, ClientMoves DEF Write, TypeOK
  <1>7. CASE LockConfig(c)
    BY <1>7, ClientMoves DEF LockConfig, TypeOK
  <1>8. CASE UnlockConfig(c)
    BY <1>8, ClientMoves DEF UnlockConfig, TypeOK
  <1>9. CASE Close(c)
    BY <1>9, ClientMoves DEF Close, TypeOK
  <1>10. CASE Release(c)
    BY <1>10, ClientMoves DEF Release, TypeOK
  <1>11. CASE Request(c)
    BY <1>11, ClientMoves DEF Request, HangUp, TypeOK
  <1>12. CASE Stall(c)
    BY <1>12 DEF Stall, ServerInv, TypeOK, ThreadsKnown, DeletedIsUnused, LockOwned
  <1> QED
    BY <1>0, <1>1, <1>2, <1>3, <1>4, <1>5, <1>6, <1>7, <1>8, <1>9, <1>10, <1>11, <1>12
       DEF Client, ClientStep

LEMMA ServerThreadInv == ServerInv /\ Server => ServerInv'
  <1> SUFFICES ASSUME ServerInv, Server PROVE ServerInv'
    OBVIOUS
  <1> USE DEF ServerInv, TypeOK, ThreadsKnown, DeletedIsUnused, LockOwned, serverVars, mainVars, clientVars
  <1>1. CASE Loop
    BY <1>1 DEF Loop
  <1>2. CASE Gate \/ NobodyCame
    BY <1>2 DEF Gate, NobodyCame
  <1>3. ASSUME NEW c \in Clients, Accept(c) PROVE ServerInv'
    BY <1>3 DEF Accept, Goto
  <1>4. CASE Push
    BY <1>4 DEF Push
  <1>5. CASE JoinAll
    BY <1>5 DEF JoinAll
  <1> QED
    BY <1>1, <1>2, <1>3, <1>4, <1>5 DEF Server

LEMMA MainInv == ServerInv /\ (PauseElsewhere \/ MainLock \/ MainEnding) => ServerInv'
  <1> SUFFICES ASSUME ServerInv, PauseElsewhere \/ MainLock \/ MainEnding PROVE ServerInv'
    OBVIOUS
  <1> USE DEF ServerInv, TypeOK, ThreadsKnown, DeletedIsUnused, LockOwned, serverVars, mainVars, clientVars
  <1>1. CASE PauseElsewhere
    BY <1>1 DEF PauseElsewhere
  <1>2. CASE MainLock
    BY <1>2 DEF MainLock
  <1>3. CASE MainAnnounceStop
    BY <1>3 DEF MainAnnounceStop
  <1>4. CASE MainStop
    BY <1>4 DEF MainStop
  <1>5. CASE MainDelete
    BY <1>5 DEF MainDelete
  <1> QED
    BY <1>1, <1>2, <1>3, <1>4, <1>5 DEF MainEnding

(* No thread of a connection works with a server that was deleted, and     *)
(* main() does not take cfg->lock from a command.                          *)
THEOREM ServerInvHolds == Spec => []ServerInv
  <1>1. Init => ServerInv
    BY DEF Init, ServerInv, TypeOK, ThreadsKnown, DeletedIsUnused, LockOwned
  <1>2. ServerInv /\ [Next]_vars => ServerInv'
    <2> SUFFICES ASSUME ServerInv, [Next]_vars PROVE ServerInv'
      OBVIOUS
    <2>1. CASE UNCHANGED vars
      BY <2>1 DEF vars, serverVars, mainVars, clientVars, ServerInv, TypeOK, ThreadsKnown,
                  DeletedIsUnused, LockOwned
    <2> QED
      BY <2>1, ClientInv, ServerThreadInv, MainInv DEF Next
  <1> QED
    BY <1>1, <1>2, PTL DEF Spec

(* What the steps of the thread of a connection do to its own socket and   *)
(* source; those of others are not touched.                                *)
LEMMA ClientReturns ==
    ASSUME ServerInv, ResourcesReturned, NEW c \in Clients, Client(c)
    PROVE  ResourcesReturned'
  <1> USE DEF Goto, ServerInv, TypeOK, ResourcesReturned
  <1>0. CASE Handshake(c)
    BY <1>0 DEF Handshake
  <1>1. CASE NoRequest(c)
    BY <1>1 DEF NoRequest, HangUp
  <1>2. CASE StartSource(c)
    BY <1>2 DEF StartSource
  <1>3. CASE Throw(c)
    BY <1>3 DEF Throw
  <1>4. CASE Page(c)
    BY <1>4 DEF Page
  <1>5. CASE Stream(c)
    BY <1>5 DEF Stream
  <1>6. CASE Write(c)
    BY <1>6 DEF Write
  <1>7. CASE LockConfig(c)
    BY <1>7 DEF LockConfig
  <1>8. CASE UnlockConfig(c)
    BY <1>8 DEF UnlockConfig
  <1>9. CASE Close(c)
    BY <1>9 DEF Close
  <1>10. CASE Release(c)
    BY <1>10 DEF Release
  <1>11. CASE Request(c)
    BY <1>11 DEF Request, HangUp
  <1>12. CASE Stall(c)
    BY <1>12 DEF Stall
  <1> QED
    BY <1>0, <1>1, <1>2, <1>3, <1>4, <1>5, <1>6, <1>7, <1>8, <1>9, <1>10, <1>11, <1>12
       DEF Client, ClientStep

(* Sockets and sources are given back by every request that did not throw. *)
THEOREM ResourcesReturnedHolds == Spec => []ResourcesReturned
  <1>1. Init => ResourcesReturned
    BY DEF Init, ResourcesReturned
  <1>2. ServerInv /\ ResourcesReturned /\ [Next]_vars => ResourcesReturned'
    <2> SUFFICES ASSUME ServerInv, ResourcesReturned, [Next]_vars PROVE ResourcesReturned'
      OBVIOUS
    <2> USE DEF ServerInv, TypeOK, ResourcesReturned, serverVars, mainVars, clientVars
    <2>1. CASE Server
      <3>1. ASSUME NEW c \in Clients, Accept(c) PROVE ResourcesReturned'
        BY <3>1 DEF Accept, Goto
      <3>2. CASE Loop
        BY <3>2 DEF Loop, ThreadsKnown
      <3>3. CASE JoinAll
        BY <3>3 DEF JoinAll
      <3> QED
        BY <2>1, <3>1, <3>2, <3>3 DEF Server, Gate, NobodyCame, Push
    <2>2. CASE PauseElsewhere \/ MainLock \/ MainEnding \/ UNCHANGED vars
      BY <2>2 DEF PauseElsewhere, MainLock, MainEnding, MainAnnounceStop, MainStop, MainDelete, vars
    <2> QED
      BY <2>1, <2>2, ClientReturns DEF Next
  <1> QED
    BY <1>1, <1>2, ServerInvHolds, PTL DEF Spec

-----------------------------------------------------------------------------
(***************************************************************************)
(* HttpStreams: streams, pictures and files, for any number of frames and  *)
(* of parts, whatever write fails.                                         *)
(*                                                                         *)
(* That nothing is used or freed twice needs what is allocated between two *)
(* rounds, and that the previous frame was made in the other turn; that    *)
(* parts are in order, that the last one was of the last frame taken, and  *)
(* that only who sends a frame again keeps it.                             *)
(***************************************************************************)

FrameHows == {"got", "copy", "resized", "filtered"}
BufferHows == FrameHows \cup {"none", "encoder", "png", "file"}
Buffers == Nat \X BufferHows \X {0, 1}

KeepingKinds == {"mjpeg", "mpng", "theora"}
ContentKinds == KeepingKinds \cup {"png", "jpg", "file", "fs-db"}
ContentPlaces == {"start", "loop", "end", "return", "closed"}

Contents ==
    [kind : ContentKinds, get : BOOLEAN, filtered : BOOLEAN, sized : BOOLEAN,
     fps : {"negative", "zero", "positive"}, at : ContentPlaces, first : BOOLEAN,
     prev : Buffers, pvf : Buffers, ts : Nat, live : SUBSET Buffers, fault : BOOLEAN,
     sent : Seq(Nat), broken : BOOLEAN, users : Int, closed : Nat, turn : {0, 1}]

\* What is allocated for as long as the loop runs.
LastsWith(v) ==
    IF v.kind = "theora" THEN {Encoder} ELSE IF v.kind = "file" THEN {OpenedFile} ELSE {}

IsFrame(b, turn) == b \in Buffers /\ b[1] > 0 /\ b[2] \in FrameHows /\ b[3] = turn

\* Between two rounds the previous frame is there, and was made in the other turn.
Memory(v) ==
    /\ ~v.fault
    /\ v.at = "start" => v.live = {} /\ v.prev = NoFrame /\ v.pvf = NoFrame
    /\ v.at \in {"loop", "end"} =>
          /\ v.pvf = NoFrame
          /\ v.prev # NoFrame =>
                IsFrame(v.prev, 1 - v.turn) /\ v.kind \in KeepingKinds
          /\ v.live = ({v.prev} \ {NoFrame}) \cup LastsWith(v)
    /\ v.at = "loop" /\ v.prev # NoFrame =>
          v.prev[1] = v.ts /\ (v.kind = "mjpeg" => v.filtered \/ v.sized)
    /\ v.at \in {"return", "closed"} => v.live = {}
    /\ v.users = IF v.kind = "fs-db" /\ v.at \in {"loop", "end"} THEN 1 ELSE 0

MayRepeat(v) == v.kind \in {"mpng", "theora", "fs-db"} \/ v.filtered \/ v.sized

InOrder(sent, repeats) ==
    \A i \in DOMAIN sent :
       /\ sent[i] = Headers <=> i = 1
       /\ i > 2 => sent[i] > sent[i - 1] \/ (sent[i] = sent[i - 1] /\ repeats)

SentWell(v) == (v.first <=> v.sent = <<>>) /\ InOrder(v.sent, MayRepeat(v))

\* The last part that was sent is that of the last frame.
Output(v) ==
    /\ SentWell(v)
    /\ v.at = "start" => v.first /\ ~v.broken /\ v.ts = 0
    /\ v.at = "loop" => ~v.broken /\ (Len(v.sent) > 1 => v.sent[Len(v.sent)] = v.ts)
    /\ v.at = "loop" /\ v.kind \in {"theora", "png", "jpg", "file"} => ~v.first
    /\ v.at = "loop" /\ v.kind \in {"png", "jpg"} => Len(v.sent) = 1

HeadersOnly(v) == v.kind \in {"png", "jpg"} /\ (v.broken \/ ~v.get) /\ Len(v.sent) <= 1

Closings(v) ==
    /\ v.at \in {"start", "loop", "end"} => v.closed = 0
    /\ v.at = "return" => v.closed = 0 \/ (v.closed = 1 /\ HeadersOnly(v))
    /\ v.at = "closed" => v.closed = 1 \/ (v.closed = 2 /\ HeadersOnly(v))

StreamInv ==
    /\ content \in Contents /\ newest \in Nat
    /\ Memory(content) /\ Output(content) /\ Closings(content)
    /\ content.kind = "fs-db" => content.ts <= newest + 1

-----------------------------------------------------------------------------

SameRequest(v, w) ==
    /\ w.kind = v.kind /\ w.get = v.get /\ w.filtered = v.filtered /\ w.sized = v.sized
    /\ w.users = v.users /\ w.closed = v.closed
SameSent(v, w) == w.at = v.at /\ w.first = v.first /\ w.sent = v.sent /\ w.broken = v.broken
SameOutput(v, w) == SameRequest(v, w) /\ SameSent(v, w) /\ w.ts = v.ts
SameMemory(v, w) ==
    w.prev = v.prev /\ w.pvf = v.pvf /\ w.live = v.live /\ w.fault = v.fault /\ w.turn = v.turn

\* Memory.
LEMMA Unnamed == NoFrame \in Buffers /\ Encoder \in Buffers /\ OpenedFile \in Buffers
                 /\ PngMemory \in Buffers
BY DEF NoFrame, Encoder, OpenedFile, PngMemory, Buffers, BufferHows

LEMMA NotFrames ==
    ASSUME NEW turn
    PROVE  ~IsFrame(NoFrame, turn) /\ ~IsFrame(Encoder, turn) /\ ~IsFrame(OpenedFile, turn)
           /\ ~IsFrame(PngMemory, turn)
BY DEF NoFrame, Encoder, OpenedFile, PngMemory, IsFrame, FrameHows

LEMMA BufferShape ==
    ASSUME NEW n \in Nat, n > 0, NEW how \in FrameHows, NEW turn \in {0, 1}, NEW b,
           b = <<n, how, turn>>
    PROVE  b \in Buffers /\ IsFrame(b, turn) /\ b[1] = n /\ b[2] = how
BY DEF Buffers, BufferHows, IsFrame

LEMMA AllocEffect ==
    ASSUME NEW v \in Contents, NEW b \in Buffers, b \notin v.live, ~v.fault
    PROVE  /\ Alloc(v, b) \in Contents /\ SameOutput(v, Alloc(v, b))
           /\ Alloc(v, b).live = v.live \cup {b} /\ ~Alloc(v, b).fault
           /\ Alloc(v, b).prev = v.prev /\ Alloc(v, b).pvf = v.pvf /\ Alloc(v, b).turn = v.turn
<1>1. v.fault = FALSE /\ (v.fault \/ b \in v.live) = FALSE
    BY DEF Contents
<1> DEFINE live == v.live \cup {b}
<1>2. live \in SUBSET Buffers
    BY DEF Contents
<1>3. Alloc(v, b) = [v EXCEPT !.live = live, !.fault = FALSE]
    BY <1>1 DEF Alloc, Contents
<1> HIDE DEF live
<1>4. /\ Alloc(v, b) \in Contents /\ SameOutput(v, Alloc(v, b))
      /\ Alloc(v, b).live = live /\ ~Alloc(v, b).fault
      /\ Alloc(v, b).prev = v.prev /\ Alloc(v, b).pvf = v.pvf /\ Alloc(v, b).turn = v.turn
    BY <1>2, <1>3 DEF Contents, SameOutput, SameRequest, SameSent
<1> QED
    BY <1>4 DEF live

LEMMA LookEffect ==
    ASSUME NEW v \in Contents, NEW b \in v.live, ~v.fault
    PROVE  /\ Look(v, b) \in Contents /\ SameOutput(v, Look(v, b)) /\ SameMemory(v, Look(v, b))
<1>1. v.fault = FALSE /\ (v.fault \/ b \notin v.live) = FALSE
    BY DEF Contents
<1>2. Look(v, b) = [v EXCEPT !.fault = FALSE]
    BY <1>1 DEF Look, Contents
<1> QED
    BY <1>1, <1>2 DEF Contents, SameOutput, SameRequest, SameSent, SameMemory

LEMMA FreeEffect ==
    ASSUME NEW v \in Contents, NEW b, b = NoFrame \/ b \in v.live, NoFrame \notin v.live, ~v.fault
    PROVE  /\ FreeOf(v, b) \in Contents /\ SameOutput(v, FreeOf(v, b))
           /\ FreeOf(v, b).live = v.live \ {b} /\ ~FreeOf(v, b).fault
           /\ FreeOf(v, b).prev = v.prev /\ FreeOf(v, b).pvf = v.pvf
           /\ FreeOf(v, b).turn = v.turn
<1>1. CASE b = NoFrame
    BY <1>1 DEF FreeOf, SameOutput, SameRequest, SameSent
<1>2. CASE b # NoFrame
    <2> DEFINE u == Look(v, b)
               live == v.live \ {b}
    <2>1. u \in Contents /\ SameOutput(v, u) /\ SameMemory(v, u)
        BY <1>2, LookEffect
    <2>2. live \in SUBSET Buffers
        BY DEF Contents
    <2>3. FreeOf(v, b) = [u EXCEPT !.live = live]
        BY <1>2, <2>1 DEF FreeOf, SameMemory, Contents
    <2> HIDE DEF u, live
    <2>4. /\ FreeOf(v, b) \in Contents /\ SameOutput(u, FreeOf(v, b)) /\ FreeOf(v, b).live = live
          /\ FreeOf(v, b).fault = u.fault /\ FreeOf(v, b).prev = u.prev /\ FreeOf(v, b).pvf = u.pvf
          /\ FreeOf(v, b).turn = u.turn
        BY <2>1, <2>2, <2>3 DEF Contents, SameOutput, SameRequest, SameSent
    <2> QED
        BY <2>1, <2>4 DEF SameOutput, SameRequest, SameSent, SameMemory, live
<1> QED
    BY <1>1, <1>2

\* In a round: frame n is made in this turn, next to the rest.
Round(v, rest, n) ==
    /\ v \in Contents /\ ~v.fault /\ IsFrame(v.pvf, v.turn) /\ v.pvf[1] = n
    /\ v.live = rest \cup {v.pvf}
    /\ NoFrame \notin rest /\ \A b \in rest : ~IsFrame(b, v.turn)

SameTurn(v, w) == w.prev = v.prev /\ w.turn = v.turn

LEMMA TookEffect ==
    ASSUME NEW v \in Contents, ~v.fault, NEW n \in Nat, n > 0, NEW how \in FrameHows,
           NoFrame \notin v.live, \A b \in v.live : ~IsFrame(b, v.turn)
    PROVE  LET w == Took(v, n, how)
           IN /\ Round(w, v.live, n) /\ w.pvf[2] = how /\ SameTurn(v, w)
              /\ SameRequest(v, w) /\ SameSent(v, w) /\ w.ts = n
<1> DEFINE b == <<n, how, v.turn>>
           u == Alloc(v, b)
           w == Took(v, n, how)
<1>1. v.turn \in {0, 1}
    BY DEF Contents
<1>2. b \in Buffers /\ IsFrame(b, v.turn) /\ b[1] = n /\ b[2] = how
    BY <1>1, BufferShape
<1>3. w = [u EXCEPT !.pvf = b, !.ts = n]
    BY DEF Took
<1> HIDE DEF b, w
<1>4. b \notin v.live
    BY <1>2
<1>5. /\ u \in Contents /\ SameOutput(v, u) /\ u.live = v.live \cup {b} /\ ~u.fault
      /\ u.prev = v.prev /\ u.turn = v.turn
    BY <1>2, <1>4, AllocEffect
<1> HIDE DEF u
<1>6. /\ w \in Contents /\ SameRequest(u, w) /\ SameSent(u, w) /\ w.ts = n /\ w.pvf = b
      /\ w.prev = u.prev /\ w.turn = u.turn /\ w.live = u.live /\ w.fault = u.fault
    BY <1>2, <1>3, <1>5 DEF Contents, SameRequest, SameSent
<1>7. Round(w, v.live, n)
    BY <1>2, <1>5, <1>6 DEF Round
<1>8. SameRequest(v, w) /\ SameSent(v, w) /\ SameTurn(v, w)
    BY <1>5, <1>6 DEF SameOutput, SameRequest, SameSent, SameTurn
<1> QED
    BY <1>2, <1>6, <1>7, <1>8 DEF w

LEMMA EncodedEffect ==
    ASSUME NEW v, NEW rest, NEW n, Round(v, rest, n), NEW how \in FrameHows, v.pvf[2] # how
    PROVE  LET w == Encoded(v, how)
           IN Round(w, rest, n) /\ w.pvf[2] = how /\ SameTurn(v, w) /\ SameOutput(v, w)
<1> DEFINE b == <<v.pvf[1], how, v.turn>>
           u == Alloc(v, b)
           f == FreeOf(u, v.pvf)
           w == Encoded(v, how)
<1>1. v \in Contents /\ v.turn \in {0, 1} /\ v.pvf[1] \in Nat /\ v.pvf[1] > 0 /\ ~v.fault
    BY DEF Round, Contents, IsFrame, Buffers
<1>2. b \in Buffers /\ IsFrame(b, v.turn) /\ b[1] = n /\ b[2] = how
    BY <1>1, BufferShape DEF Round
<1>3. w = [f EXCEPT !.pvf = b]
    BY DEF Encoded
<1> HIDE DEF b, w
<1>4. b \notin v.live /\ b # v.pvf /\ NoFrame \notin v.live /\ b # NoFrame
    BY <1>2, NotFrames DEF Round
<1>5. /\ u \in Contents /\ SameOutput(v, u) /\ u.live = v.live \cup {b} /\ ~u.fault
      /\ u.prev = v.prev /\ u.pvf = v.pvf /\ u.turn = v.turn
    BY <1>1, <1>2, <1>4, AllocEffect
<1> HIDE DEF u
<1>6. v.pvf \in u.live /\ NoFrame \notin u.live
    BY <1>4, <1>5 DEF Round
<1>7. /\ f \in Contents /\ SameOutput(u, f) /\ f.live = u.live \ {v.pvf} /\ ~f.fault
      /\ f.prev = u.prev /\ f.turn = u.turn
    BY <1>5, <1>6, FreeEffect
<1> HIDE DEF f
<1>8. /\ w \in Contents /\ SameOutput(f, w) /\ w.pvf = b
      /\ w.prev = f.prev /\ w.turn = f.turn /\ w.live = f.live /\ w.fault = f.fault
    BY <1>2, <1>3, <1>7 DEF Contents, SameOutput, SameRequest, SameSent
<1>9. w.live = rest \cup {b}
    BY <1>4, <1>5, <1>7, <1>8 DEF Round
<1>10. Round(w, rest, n)
    BY <1>2, <1>5, <1>7, <1>8, <1>9 DEF Round
<1>11. SameTurn(v, w) /\ SameOutput(v, w)
    BY <1>5, <1>7, <1>8 DEF SameOutput, SameRequest, SameSent, SameTurn
<1> QED
    BY <1>2, <1>8, <1>10, <1>11 DEF w

\* Scaled, if so, and filtered, if so.
LEMMA MadeEffect ==
    ASSUME NEW v, NEW rest, NEW n, Round(v, rest, n), v.pvf[2] \in {"got", "copy"},
           v.prev = NoFrame \/ v.prev \in rest
    PROVE  LET w == FilteredFrame(SizedFrame(v))
           IN Round(w, rest, n) /\ SameTurn(v, w) /\ SameOutput(v, w)
<1> DEFINE s == SizedFrame(v)
           w == FilteredFrame(s)
<1>1. Round(s, rest, n) /\ s.pvf[2] # "filtered" /\ SameTurn(v, s) /\ SameOutput(v, s)
    <2>1. CASE v.sized
        <3>1. s = Encoded(v, "resized") /\ "resized" \in FrameHows /\ v.pvf[2] # "resized"
            BY <2>1 DEF SizedFrame, FrameHows
        <3> HIDE DEF s
        <3>2. Round(s, rest, n) /\ s.pvf[2] = "resized" /\ SameTurn(v, s) /\ SameOutput(v, s)
            BY <3>1, EncodedEffect
        <3> QED
            BY <3>2
    <2>2. CASE ~v.sized
        BY <2>2 DEF SizedFrame, SameTurn, SameOutput, SameRequest, SameSent
    <2> QED
        BY <2>1, <2>2
<1> HIDE DEF s
<1>2. Round(w, rest, n) /\ SameTurn(s, w) /\ SameOutput(s, w)
    <2>1. CASE s.filtered
        <3> DEFINE l == IF s.prev = NoFrame THEN s ELSE Look(s, s.prev)
        <3>1. /\ l \in Contents /\ SameOutput(s, l) /\ SameMemory(s, l)
            <4>1. CASE s.prev = NoFrame
                BY <1>1, <4>1 DEF Round, SameOutput, SameRequest, SameSent, SameMemory
            <4>2. CASE s.prev # NoFrame
                <5>1. s \in Contents /\ ~s.fault /\ s.prev \in s.live
                    BY <1>1, <4>2 DEF Round, SameTurn
                <5> QED
                    BY <4>2, <5>1, LookEffect
            <4> QED
                BY <4>1, <4>2
        <3>2. w = Encoded(l, "filtered")
            BY <2>1 DEF FilteredFrame
        <3> HIDE DEF l, w
        <3>3. Round(l, rest, n) /\ l.pvf[2] # "filtered" /\ SameTurn(s, l)
            BY <1>1, <3>1 DEF Round, SameMemory, SameTurn
        <3>4. "filtered" \in FrameHows
            BY DEF FrameHows
        <3>5. Round(w, rest, n) /\ SameTurn(l, w) /\ SameOutput(l, w)
            BY <3>2, <3>3, <3>4, EncodedEffect
        <3> QED
            BY <3>1, <3>3, <3>5 DEF SameTurn, SameOutput, SameRequest, SameSent
    <2>2. CASE ~s.filtered
        BY <1>1, <2>2 DEF FilteredFrame, SameTurn, SameOutput, SameRequest, SameSent
    <2> QED
        BY <2>1, <2>2
<1> HIDE DEF w
<1>3. SameTurn(v, w) /\ SameOutput(v, w)
    BY <1>1, <1>2 DEF SameTurn, SameOutput, SameRequest, SameSent
<1> QED
    BY <1>2, <1>3 DEF w, s

LEMMA DropEffect ==
    ASSUME NEW v, NEW rest, NEW n, Round(v, rest, n)
    PROVE  LET w == DropFrame(v)
           IN /\ w \in Contents /\ w.live = rest /\ ~w.fault /\ w.pvf = NoFrame
              /\ SameTurn(v, w) /\ SameOutput(v, w)
<1> DEFINE f == FreeOf(v, v.pvf)
           w == DropFrame(v)
<1>1. /\ v \in Contents /\ v.pvf \in v.live /\ NoFrame \notin v.live /\ ~v.fault
      /\ v.pvf \notin rest
    BY NotFrames DEF Round
<1>2. /\ f \in Contents /\ SameOutput(v, f) /\ f.live = v.live \ {v.pvf} /\ ~f.fault
      /\ f.prev = v.prev /\ f.turn = v.turn
    BY <1>1, FreeEffect
<1>3. w = [f EXCEPT !.pvf = NoFrame]
    BY DEF DropFrame
<1> HIDE DEF f, w
<1>4. /\ w \in Contents /\ SameOutput(f, w) /\ w.pvf = NoFrame
      /\ w.prev = f.prev /\ w.turn = f.turn /\ w.live = f.live /\ w.fault = f.fault
    BY <1>2, <1>3, Unnamed DEF Contents, SameOutput, SameRequest, SameSent
<1>5. w.live = rest
    BY <1>1, <1>2, <1>4 DEF Round
<1> QED
    BY <1>2, <1>4, <1>5 DEF SameTurn, SameOutput, SameRequest, SameSent, w

LEMMA KeepEffect ==
    ASSUME NEW v, NEW n, NEW lasts, Round(v, ({v.prev} \ {NoFrame}) \cup lasts, n),
           v.prev # NoFrame => v.prev \notin lasts
    PROVE  LET w == Keep(v)
           IN /\ w \in Contents /\ w.live = {w.prev} \cup lasts /\ ~w.fault /\ w.pvf = NoFrame
              /\ w.prev = v.pvf /\ w.turn = 1 - v.turn /\ SameOutput(v, w)
<1> DEFINE f == FreeOf(v, v.prev)
           w == Keep(v)
<1>1. /\ v \in Contents /\ NoFrame \notin v.live /\ ~v.fault /\ v.turn \in {0, 1}
      /\ v.prev = NoFrame \/ v.prev \in v.live
      /\ v.prev # v.pvf /\ v.pvf # NoFrame
    BY NotFrames DEF Round, Contents
<1>2. /\ f \in Contents /\ SameOutput(v, f) /\ f.live = v.live \ {v.prev} /\ ~f.fault
      /\ f.pvf = v.pvf /\ f.turn = v.turn
    BY <1>1, FreeEffect
<1> DEFINE turn == 1 - v.turn
<1>3. turn \in {0, 1}
    BY <1>1
<1>4. w = [f EXCEPT !.prev = v.pvf, !.pvf = NoFrame, !.turn = turn]
    BY <1>2 DEF Keep, Contents
<1>5. f.live = {v.pvf} \cup lasts
    BY <1>1, <1>2 DEF Round
<1>6. v.pvf \in Buffers
    BY <1>1 DEF Contents
<1> HIDE DEF f, w, turn
<1>7. /\ w \in Contents /\ SameOutput(f, w) /\ w.pvf = NoFrame
      /\ w.prev = v.pvf /\ w.turn = turn /\ w.live = f.live /\ w.fault = f.fault
    BY <1>2, <1>3, <1>4, <1>6, Unnamed DEF Contents, SameOutput, SameRequest, SameSent
<1>8. SameOutput(v, w)
    BY <1>2, <1>7 DEF SameOutput, SameRequest, SameSent
<1> QED
    BY <1>2, <1>5, <1>7, <1>8 DEF w, turn

-----------------------------------------------------------------------------

\* What is sent.
LEMMA HeadersFirst ==
    ASSUME NEW repeats
    PROVE  /\ Append(<<>>, Headers) = <<Headers>> /\ <<Headers>> \in Seq(Nat) /\ <<Headers>> # <<>> /\ Len(<<Headers>>) = 1
           /\ InOrder(<<Headers>>, repeats)
BY DEF InOrder, Headers

LEMMA OneLong ==
    ASSUME NEW sent, sent = <<>> \/ sent = <<Headers>>
    PROVE  Len(sent) <= 1
<1>1. CASE sent = <<>>
    BY <1>1
<1>2. CASE sent = <<Headers>>
    BY <1>2
<1> QED
    BY <1>1, <1>2

LEMMA PartNext ==
    ASSUME NEW sent \in Seq(Nat), NEW k \in Nat, NEW repeats, InOrder(sent, repeats),
           sent # <<>>, k > 0,
           Len(sent) > 1 => k > sent[Len(sent)] \/ (k = sent[Len(sent)] /\ repeats)
    PROVE  LET s == Append(sent, k)
           IN /\ s \in Seq(Nat) /\ s # <<>> /\ Len(s) = Len(sent) + 1 /\ Len(s) > 1
              /\ s[Len(s)] = k /\ InOrder(s, repeats)
<1> DEFINE s == Append(sent, k)
<1>1. /\ s \in Seq(Nat) /\ s # <<>> /\ Len(s) = Len(sent) + 1 /\ Len(sent) \in Nat /\ Len(sent) > 0
      /\ s[Len(s)] = k
    BY EmptySeq, LenProperties, AppendProperties
<1>2. /\ DOMAIN s = 1..(Len(sent) + 1) /\ DOMAIN sent = 1..Len(sent)
      /\ \A i \in 1..Len(sent) : s[i] = sent[i]
    BY <1>1, LenProperties, AppendProperties
<1> HIDE DEF s
<1>3. ASSUME NEW i \in DOMAIN s
      PROVE  /\ s[i] = Headers <=> i = 1
             /\ i > 2 => s[i] > s[i - 1] \/ (s[i] = s[i - 1] /\ repeats)
    <2>1. CASE i \in 1..Len(sent)
        <3>1. i \in DOMAIN sent /\ s[i] = sent[i]
            BY <2>1, <1>2
        <3>2. i > 2 => s[i - 1] = sent[i - 1]
            BY <2>1, <1>1, <1>2
        <3> QED
            BY <3>1, <3>2 DEF InOrder
    <2>2. CASE i = Len(sent) + 1
        <3>1. s[i] = k /\ k # Headers /\ i # 1
            BY <2>2, <1>1 DEF Headers
        <3>2. i > 2 => Len(sent) > 1 /\ i - 1 = Len(sent) /\ s[i - 1] = sent[Len(sent)]
            BY <2>2, <1>1, <1>2
        <3> QED
            BY <3>1, <3>2
    <2> QED
        BY <2>1, <2>2, <1>1, <1>2
<1>4. InOrder(s, repeats)
    BY <1>3 DEF InOrder
<1>5. Len(s) > 1
    BY <1>1
<1> QED
    BY <1>1, <1>4, <1>5 DEF s

\* A connection that can be written to.
Writable(v) == v \in Contents /\ ~v.fault /\ ~v.broken /\ SentWell(v)
SameBuffers(v, w) == SameMemory(v, w) /\ SameRequest(v, w) /\ w.ts = v.ts

\* The part that is next to be sent.
PartDue(v) ==
    /\ ~v.first /\ v.ts > 0
    /\ Len(v.sent) > 1 => \/ v.ts > v.sent[Len(v.sent)]
                          \/ v.ts = v.sent[Len(v.sent)] /\ MayRepeat(v)

LEMMA LostEffect ==
    ASSUME NEW v, Writable(v)
    PROVE  LET w == Lost(v)
           IN /\ w \in Contents /\ SentWell(w) /\ SameBuffers(v, w)
              /\ w.at = "end" /\ w.broken /\ w.sent = v.sent /\ w.first = v.first
<1> DEFINE w == Lost(v)
<1>1. v \in Contents /\ "end" \in ContentPlaces
    BY DEF Writable, ContentPlaces
<1>2. w = [v EXCEPT !.broken = TRUE, !.at = "end"]
    BY <1>1 DEF Lost, End, Contents
<1> HIDE DEF w
<1>3. /\ w \in Contents /\ SameBuffers(v, w)
      /\ w.at = "end" /\ w.broken /\ w.sent = v.sent /\ w.first = v.first
    BY <1>1, <1>2 DEF Contents, SameBuffers, SameMemory, SameRequest
<1> QED
    BY <1>3 DEF Writable, SentWell, SameBuffers, SameRequest, MayRepeat, w

LEMMA BeginEffect ==
    ASSUME NEW v, Writable(v), NEW fails
    PROVE  LET w == Begin(v, fails)
           IN /\ w \in Contents /\ SentWell(w) /\ SameBuffers(v, w)
              /\ fails = "headers" => w.at = "end" /\ w.broken /\ w.sent = v.sent
              /\ fails # "headers" =>
                    /\ w.at = v.at /\ Writable(w) /\ ~w.first
                    /\ w.sent = IF v.first THEN <<Headers>> ELSE v.sent
<1> DEFINE w == Begin(v, fails)
<1>1. CASE fails = "headers"
    BY <1>1, LostEffect DEF Begin
<1>2. CASE fails # "headers" /\ v.first
    <2> DEFINE sent == <<Headers>>
    <2>1. /\ v \in Contents /\ v.sent = <<>> /\ ~v.fault /\ ~v.broken
          /\ Append(<<>>, Headers) = sent /\ sent \in Seq(Nat) /\ sent # <<>>
          /\ InOrder(sent, MayRepeat(v))
        BY <1>2, HeadersFirst DEF Writable, SentWell
    <2>2. (v.fault \/ v.broken) = v.fault
        BY <2>1 DEF Contents
    <2> HIDE DEF sent
    <2>3. w = [v EXCEPT !.first = FALSE, !.sent = sent, !.fault = v.fault]
        BY <1>2, <2>1, <2>2 DEF Begin, Say, Contents
    <2> HIDE DEF w
    <2>4. /\ w \in Contents /\ SameBuffers(v, w)
          /\ w.at = v.at /\ w.broken = v.broken /\ w.sent = sent /\ w.first = FALSE
        BY <2>1, <2>3 DEF Contents, SameBuffers, SameMemory, SameRequest
    <2>5. SentWell(w) /\ Writable(w)
        BY <2>1, <2>4 DEF Writable, SentWell, SameBuffers, SameMemory, SameRequest, MayRepeat
    <2> QED
        BY <1>2, <2>1, <2>4, <2>5 DEF w, sent
<1>3. CASE fails # "headers" /\ ~v.first
    <2>1. w = v
        BY <1>3 DEF Begin
    <2> QED
        BY <1>3, <2>1 DEF Writable, SameBuffers, SameMemory, SameRequest
<1> QED
    BY <1>1, <1>2, <1>3

LEMMA PartEffect ==
    ASSUME NEW v, Writable(v), PartDue(v), NEW fails
    PROVE  LET w == Part(v, fails)
           IN /\ w \in Contents /\ SentWell(w) /\ SameBuffers(v, w) /\ ~w.first
              /\ fails \in {"part", "picture"} => w.at = "end" /\ w.broken /\ w.sent = v.sent
              /\ fails \notin {"part", "picture"} =>
                    /\ w.at = v.at /\ ~w.broken
                    /\ Len(w.sent) = Len(v.sent) + 1 /\ w.sent[Len(w.sent)] = v.ts
<1> DEFINE w == Part(v, fails)
<1>1. CASE fails \in {"part", "picture"}
    BY <1>1, LostEffect DEF Part, PartDue
<1>2. CASE fails \notin {"part", "picture"}
    <2> DEFINE sent == Append(v.sent, v.ts)
    <2>1. /\ v \in Contents /\ v.sent # <<>> /\ ~v.fault /\ ~v.broken
          /\ v.sent \in Seq(Nat) /\ v.ts \in Nat /\ InOrder(v.sent, MayRepeat(v))
        BY DEF Writable, SentWell, PartDue, Contents
    <2>2. (v.fault \/ v.broken) = v.fault
        BY <2>1 DEF Contents
    <2>3. w = [v EXCEPT !.sent = sent, !.fault = v.fault]
        BY <1>2, <2>1, <2>2 DEF Part, Say, Contents
    <2>4. /\ sent \in Seq(Nat) /\ sent # <<>> /\ Len(sent) = Len(v.sent) + 1
          /\ sent[Len(sent)] = v.ts /\ InOrder(sent, MayRepeat(v))
        BY <2>1, PartNext DEF PartDue
    <2> HIDE DEF sent, w
    <2>5. /\ w \in Contents /\ SameBuffers(v, w)
          /\ w.at = v.at /\ w.broken = v.broken /\ w.sent = sent /\ w.first = v.first
        BY <2>1, <2>3, <2>4 DEF Contents, SameBuffers, SameMemory, SameRequest
    <2>6. SentWell(w)
        BY <2>1, <2>4, <2>5 DEF PartDue, SentWell, SameBuffers, SameRequest, MayRepeat
    <2> QED
        BY <1>2, <2>1, <2>4, <2>5, <2>6 DEF PartDue, w
<1> QED
    BY <1>1, <1>2

-----------------------------------------------------------------------------

\* A round of a loop that keeps the previous frame.
LEMMA LoopState ==
    ASSUME NEW v, v \in Contents, Memory(v), Output(v), v.at = "loop", v.kind \in KeepingKinds
    PROVE  /\ Writable(v) /\ NoFrame \notin v.live
           /\ v.prev = NoFrame \/ (v.prev \in v.live /\ v.prev \notin LastsWith(v))
           /\ v.live = ({v.prev} \ {NoFrame}) \cup LastsWith(v) /\ LastsWith(v) \subseteq {Encoder}
           /\ \A b \in v.live : ~IsFrame(b, v.turn)
<1>1. Writable(v)
    BY DEF Memory, Output, Writable
<1>2. v.live = ({v.prev} \ {NoFrame}) \cup LastsWith(v) /\ LastsWith(v) \subseteq {Encoder}
    BY DEF Memory, LastsWith, KeepingKinds
<1>3. v.prev # NoFrame => IsFrame(v.prev, 1 - v.turn)
    BY DEF Memory
<1>4. v.turn \in {0, 1} /\ v.turn # 1 - v.turn
    BY DEF Contents
<1>5. v.prev # NoFrame => ~IsFrame(v.prev, v.turn) /\ v.prev # Encoder
    BY <1>3, <1>4, NotFrames DEF IsFrame
<1>6. Encoder # NoFrame
    BY DEF Encoder, NoFrame
<1> QED
    BY <1>1, <1>2, <1>5, <1>6, NotFrames

LEMMA NewerEffect ==
    ASSUME newest \in Nat, NEW v, v \in Contents, Memory(v), Output(v), v.at = "loop",
           v.kind \in KeepingKinds, NEW w \in Newer(v)
    PROVE  /\ Round(w, v.live, w.ts) /\ w.pvf[2] \in {"got", "copy"} /\ SameTurn(v, w)
           /\ SameRequest(v, w) /\ SameSent(v, w) /\ Writable(w) /\ w.ts > 0
           /\ w.ts > v.ts \/ (w.ts = v.ts /\ v.prev # NoFrame)
<1>1. /\ Writable(v) /\ NoFrame \notin v.live /\ ~v.fault
      /\ v.prev = NoFrame \/ v.prev \in v.live
      /\ \A b \in v.live : ~IsFrame(b, v.turn)
      /\ "got" \in FrameHows /\ "copy" \in FrameHows /\ v.ts \in Nat
    BY LoopState DEF Memory, FrameHows, Contents
<1>2. CASE newest > v.ts /\ w = Took(v, newest, "got")
    <2> HIDE DEF Round
    <2>1. newest > 0
        BY <1>1, <1>2
    <2>2. /\ Round(w, v.live, newest) /\ w.pvf[2] = "got" /\ SameTurn(v, w)
          /\ SameRequest(v, w) /\ SameSent(v, w) /\ w.ts = newest
        BY <1>1, <1>2, <2>1, TookEffect
    <2>3. Writable(w)
        BY <1>1, <2>2 DEF Round, Writable, SentWell, SameSent, SameRequest, MayRepeat
    <2> QED
        BY <1>2, <2>1, <2>2, <2>3
<1>3. CASE v.prev # NoFrame /\ w = Took(Look(v, v.prev), v.prev[1], "copy")
    <2> DEFINE u == Look(v, v.prev)
               n == v.prev[1]
    <2>1. u \in Contents /\ SameOutput(v, u) /\ SameMemory(v, u)
        BY <1>1, <1>3, LookEffect
    <2>2. n \in Nat /\ n > 0 /\ n = v.ts
        BY <1>3 DEF Memory, IsFrame, Buffers
    <2> HIDE DEF u, n
    <2>3. ~u.fault /\ NoFrame \notin u.live /\ \A b \in u.live : ~IsFrame(b, u.turn)
        BY <1>1, <2>1 DEF SameMemory
    <2>4. /\ Round(w, u.live, n) /\ w.pvf[2] = "copy" /\ SameTurn(u, w)
          /\ SameRequest(u, w) /\ SameSent(u, w) /\ w.ts = n
        BY <1>1, <1>3, <2>1, <2>2, <2>3, TookEffect DEF u, n
    <2>5. /\ Round(w, v.live, n) /\ SameTurn(v, w) /\ SameRequest(v, w) /\ SameSent(v, w)
        BY <2>1, <2>4 DEF SameOutput, SameRequest, SameSent, SameMemory, SameTurn
    <2>6. Writable(w)
        BY <1>1, <2>5 DEF Round, Writable, SentWell, SameSent, SameRequest, MayRepeat
    <2> QED
        BY <1>3, <2>2, <2>4, <2>5, <2>6
<1>4. \/ newest > v.ts /\ w = Took(v, newest, "got")
      \/ v.prev # NoFrame /\ w = Took(Look(v, v.prev), v.prev[1], "copy")
    BY DEF Newer
<1> QED
    BY <1>2, <1>3, <1>4

\* The frame that was taken is due.
LEMMA NextPart ==
    ASSUME NEW v, v \in Contents, Memory(v), Output(v), v.at = "loop", v.kind \in KeepingKinds,
           NEW w, w \in Contents, SameRequest(v, w), ~w.first, w.ts > 0,
           w.sent = v.sent \/ Len(w.sent) <= 1,
           w.ts > v.ts \/ (w.ts = v.ts /\ v.prev # NoFrame)
    PROVE  PartDue(w)
<1>1. v.prev # NoFrame => MayRepeat(w)
    BY DEF Memory, MayRepeat, SameRequest, KeepingKinds
<1>2. Len(v.sent) > 1 => v.sent[Len(v.sent)] = v.ts
    BY DEF Output
<1>3. CASE w.sent = v.sent
    BY <1>1, <1>2, <1>3 DEF PartDue
<1>4. CASE Len(w.sent) <= 1
    <2>1. Len(w.sent) \in Nat
        BY DEF Contents
    <2> QED
        BY <1>4, <2>1 DEF PartDue
<1> QED
    BY <1>3, <1>4

\* What a round leaves.
RoundLeft(w) ==
    /\ w \in Contents /\ ~w.fault /\ w.pvf = NoFrame /\ w.at \in {"loop", "end"}
    /\ w.prev # NoFrame => IsFrame(w.prev, 1 - w.turn)
    /\ w.live = ({w.prev} \ {NoFrame}) \cup LastsWith(w)

RoundSent(w) ==
    /\ SentWell(w)
    /\ w.at = "loop" =>
          /\ ~w.broken /\ ~w.first
          /\ Len(w.sent) > 1 => w.sent[Len(w.sent)] = w.ts
          /\ w.prev # NoFrame => w.prev[1] = w.ts /\ (w.kind = "mjpeg" => w.filtered \/ w.sized)

LEMMA RoundDone ==
    ASSUME NEW v, v \in Contents, Memory(v), Closings(v), v.at = "loop", v.kind \in KeepingKinds,
           NEW w, RoundLeft(w), RoundSent(w), SameRequest(v, w)
    PROVE  w \in Contents /\ Memory(w) /\ Output(w) /\ Closings(w)
<1>1. w.kind \in KeepingKinds /\ w.at # "start" /\ w.at # "return" /\ w.at # "closed"
      /\ w.kind \notin {"png", "jpg", "file", "fs-db"}
    BY DEF SameRequest, RoundLeft, KeepingKinds
<1>2. w.users = 0 /\ w.closed = 0
    BY DEF Memory, Closings, SameRequest, KeepingKinds
<1>3. Memory(w)
    BY <1>1, <1>2 DEF Memory, RoundLeft, RoundSent
<1>4. Output(w)
    BY <1>1 DEF Output, RoundLeft, RoundSent
<1>5. Closings(w)
    BY <1>1, <1>2 DEF Closings
<1> QED
    BY <1>3, <1>4, <1>5 DEF RoundLeft

LEMMA DroppedRound ==
    ASSUME NEW v, v \in Contents, Memory(v), v.at = "loop", v.kind \in KeepingKinds,
           NEW u, NEW n, Round(u, v.live, n), SameTurn(v, u), SameRequest(v, u),
           u.at \in {"loop", "end"}
    PROVE  LET w == DropFrame(u)
           IN RoundLeft(w) /\ SameOutput(u, w) /\ SameRequest(v, w) /\ w.prev = v.prev
<1> DEFINE w == DropFrame(u)
<1>1. /\ w \in Contents /\ w.live = v.live /\ ~w.fault /\ w.pvf = NoFrame
      /\ SameTurn(u, w) /\ SameOutput(u, w)
    BY DropEffect
<1> HIDE DEF w
<1>2. w.at \in {"loop", "end"} /\ SameRequest(v, w) /\ w.prev = v.prev /\ w.turn = v.turn
    BY <1>1 DEF SameOutput, SameSent, SameRequest, SameTurn
<1>3. LastsWith(w) = LastsWith(v)
    BY <1>2 DEF LastsWith, SameRequest
<1>4. /\ v.live = ({v.prev} \ {NoFrame}) \cup LastsWith(v)
      /\ v.prev # NoFrame => IsFrame(v.prev, 1 - v.turn)
    BY DEF Memory
<1>5. RoundLeft(w)
    BY <1>1, <1>2, <1>3, <1>4 DEF RoundLeft
<1> QED
    BY <1>1, <1>2, <1>5 DEF w

LEMMA KeptRound ==
    ASSUME NEW v, v \in Contents, Memory(v), Output(v), v.at = "loop", v.kind \in KeepingKinds,
           NEW u, NEW n, Round(u, v.live, n), SameTurn(v, u), SameRequest(v, u),
           u.at \in {"loop", "end"}
    PROVE  LET w == Keep(u)
           IN /\ RoundLeft(w) /\ SameOutput(u, w) /\ SameRequest(v, w)
              /\ w.prev # NoFrame /\ w.prev[1] = n
<1> DEFINE w == Keep(u)
           lasts == LastsWith(v)
<1>1. /\ v.live = ({v.prev} \ {NoFrame}) \cup lasts
      /\ v.prev # NoFrame => v.prev \notin lasts
      /\ v.turn \in {0, 1}
    BY LoopState DEF Contents
<1> HIDE DEF lasts
<1>2. /\ Round(u, ({u.prev} \ {NoFrame}) \cup lasts, n) /\ u.turn = v.turn
      /\ u.prev # NoFrame => u.prev \notin lasts
    BY <1>1 DEF SameTurn
<1>3. /\ w \in Contents /\ w.live = {w.prev} \cup lasts /\ ~w.fault /\ w.pvf = NoFrame
      /\ w.prev = u.pvf /\ w.turn = 1 - u.turn /\ SameOutput(u, w)
    BY <1>2, KeepEffect
<1> HIDE DEF w
<1>4. IsFrame(u.pvf, u.turn) /\ u.pvf[1] = n /\ u.pvf # NoFrame /\ 1 - w.turn = u.turn
    BY <1>1, <1>2, <1>3, NotFrames DEF Round
<1>5. w.at \in {"loop", "end"} /\ SameRequest(v, w)
    BY <1>3 DEF SameOutput, SameSent, SameRequest
<1>6. LastsWith(w) = lasts
    BY <1>5 DEF LastsWith, SameRequest, lasts
<1>7. RoundLeft(w)
    BY <1>3, <1>4, <1>5, <1>6 DEF RoundLeft
<1> QED
    BY <1>3, <1>4, <1>5, <1>7 DEF w

\* After the beginning of a part the frame is still there; the part is due.
LEMMA BegunRound ==
    ASSUME NEW v, v \in Contents, Memory(v), Output(v), v.at = "loop", v.kind \in KeepingKinds,
           NEW u, NEW rest, Round(u, rest, u.ts), SameTurn(v, u), SameRequest(v, u),
           SameSent(v, u), Writable(u), u.ts > 0,
           u.ts > v.ts \/ (u.ts = v.ts /\ v.prev # NoFrame), NEW fails
    PROVE  LET b == Begin(u, fails)
           IN /\ Round(b, rest, u.ts) /\ b.pvf = u.pvf /\ SameTurn(v, b) /\ SameRequest(v, b)
              /\ SentWell(b) /\ b.ts = u.ts
              /\ b.at \in {"loop", "end"}
              /\ b.at = "loop" => Writable(b) /\ PartDue(b)
<1> DEFINE b == Begin(u, fails)
<1>1. /\ b \in Contents /\ SentWell(b) /\ SameBuffers(u, b)
      /\ fails = "headers" => b.at = "end" /\ b.sent = u.sent
      /\ fails # "headers" =>
            /\ b.at = u.at /\ Writable(b) /\ ~b.first
            /\ b.sent = IF u.first THEN <<Headers>> ELSE u.sent
    BY BeginEffect
<1> HIDE DEF b
<1>2. Round(b, rest, u.ts) /\ b.pvf = u.pvf /\ SameTurn(v, b) /\ SameRequest(v, b) /\ b.ts = u.ts
    BY <1>1 DEF Round, SameBuffers, SameMemory, SameTurn, SameRequest
<1>3. u.sent = v.sent /\ u.at = "loop"
    BY DEF SameSent
<1>4. ASSUME fails # "headers" PROVE Writable(b) /\ PartDue(b)
    <2>1. Writable(b) /\ ~b.first /\ (b.sent = v.sent \/ b.sent = <<Headers>>)
        BY <1>1, <1>3, <1>4
    <2>2. b.sent = v.sent \/ Len(b.sent) <= 1
        BY <2>1, OneLong
    <2>3. PartDue(b)
        BY <1>1, <1>2, <2>1, <2>2, NextPart
    <2> QED
        BY <2>1, <2>3
<1> QED
    BY <1>1, <1>2, <1>3, <1>4 DEF b

Good(v) == v \in Contents /\ Memory(v) /\ Output(v) /\ Closings(v)

LEMMA MadeRound ==
    ASSUME NEW v, v \in Contents, Memory(v), Output(v), v.at = "loop", v.kind \in KeepingKinds,
           NEW u, Round(u, v.live, u.ts), u.pvf[2] \in {"got", "copy"}, SameTurn(v, u)
    PROVE  LET w == FilteredFrame(SizedFrame(u))
           IN /\ Round(w, v.live, u.ts) /\ SameTurn(v, w) /\ SameOutput(u, w)
<1>1. u.prev = NoFrame \/ u.prev \in v.live
    BY LoopState DEF SameTurn
<1> QED
    BY <1>1, MadeEffect DEF SameTurn

\* A part that follows a round.
LEMMA PartLeft ==
    ASSUME NEW v, RoundLeft(v), Writable(v), PartDue(v), v.at = "loop", NEW fails,
           v.prev # NoFrame => v.prev[1] = v.ts /\ (v.kind = "mjpeg" => v.filtered \/ v.sized)
    PROVE  LET w == Part(v, fails)
           IN RoundLeft(w) /\ RoundSent(w) /\ SameRequest(v, w)
<1> DEFINE w == Part(v, fails)
<1>1. /\ w \in Contents /\ SentWell(w) /\ SameBuffers(v, w) /\ ~w.first
      /\ fails \in {"part", "picture"} => w.at = "end" /\ w.broken /\ w.sent = v.sent
      /\ fails \notin {"part", "picture"} =>
            /\ w.at = v.at /\ ~w.broken
            /\ Len(w.sent) = Len(v.sent) + 1 /\ w.sent[Len(w.sent)] = v.ts
    BY PartEffect
<1> HIDE DEF w
<1>2. LastsWith(w) = LastsWith(v) /\ w.at \in {"loop", "end"}
    BY <1>1 DEF LastsWith, SameBuffers, SameRequest
<1>3. RoundLeft(w)
    BY <1>1, <1>2 DEF RoundLeft, SameBuffers, SameMemory
<1>4. RoundSent(w)
    BY <1>1, <1>2 DEF RoundSent, SameBuffers, SameMemory, SameRequest
<1> QED
    BY <1>1, <1>3, <1>4 DEF SameBuffers, w

LEMMA EndLeft ==
    ASSUME NEW v, RoundLeft(v), SentWell(v)
    PROVE  LET w == End(v)
           IN RoundLeft(w) /\ RoundSent(w) /\ SameRequest(v, w)
<1> DEFINE w == End(v)
<1>1. v \in Contents /\ "end" \in ContentPlaces
    BY DEF RoundLeft, ContentPlaces
<1>2. /\ w \in Contents /\ SameMemory(v, w) /\ SameRequest(v, w)
      /\ w.at = "end" /\ w.first = v.first /\ w.sent = v.sent
    BY <1>1 DEF End, Contents, SameMemory, SameRequest
<1> HIDE DEF w
<1>3. LastsWith(w) = LastsWith(v) /\ RoundSent(w)
    BY <1>2 DEF SameRequest, LastsWith, RoundSent, SentWell, MayRepeat
<1>4. RoundLeft(w)
    BY <1>2, <1>3 DEF RoundLeft, SameMemory
<1> QED
    BY <1>2, <1>3, <1>4 DEF w

LEMMA MjpegKeeps ==
    ASSUME newest \in Nat, NEW v, Good(v), v.at = "loop", v.kind = "mjpeg",
           NEW u \in Newer(v), NEW fails
    PROVE  LET b == Begin(u, fails)
               w == IF b.at = "end" THEN DropFrame(b)
                    ELSE IF v.first /\ ~v.get THEN End(DropFrame(b))
                    ELSE IF ~v.filtered /\ ~v.sized THEN MjpegPlain(b, fails)
                    ELSE MjpegMade(b, fails)
           IN Good(w) /\ SameRequest(v, w)
<1> DEFINE b == Begin(u, fails)
           d == DropFrame(b)
<1>0. v \in Contents /\ Memory(v) /\ Output(v) /\ Closings(v) /\ v.kind \in KeepingKinds
    BY DEF Good, KeepingKinds
<1>1. /\ Round(u, v.live, u.ts) /\ u.pvf[2] \in {"got", "copy"} /\ SameTurn(v, u)
      /\ SameRequest(v, u) /\ SameSent(v, u) /\ Writable(u) /\ u.ts > 0
      /\ u.ts > v.ts \/ (u.ts = v.ts /\ v.prev # NoFrame)
    BY <1>0, NewerEffect
<1>2. /\ Round(b, v.live, u.ts) /\ b.pvf = u.pvf /\ SameTurn(v, b) /\ SameRequest(v, b)
      /\ SentWell(b) /\ b.ts = u.ts /\ b.at \in {"loop", "end"}
      /\ b.at = "loop" => Writable(b) /\ PartDue(b)
    BY <1>0, <1>1, BegunRound
<1> HIDE DEF b
<1>3. RoundLeft(d) /\ SameOutput(b, d) /\ SameRequest(v, d) /\ d.prev = v.prev
    BY <1>0, <1>2, DroppedRound
<1> HIDE DEF d
<1>4. SentWell(d)
    BY <1>2, <1>3 DEF SentWell, SameOutput, SameSent, SameRequest, MayRepeat
<1>5. CASE b.at = "end"
    <2>1. RoundSent(d)
        BY <1>3, <1>4, <1>5 DEF RoundSent, SameOutput, SameSent
    <2>2. Good(d) /\ SameRequest(v, d)
        BY <1>0, <1>3, <2>1, RoundDone DEF Good
    <2> QED
        BY <1>5, <2>2 DEF b, d
<1>6. CASE b.at # "end" /\ v.first /\ ~v.get
    <2> DEFINE w == End(d)
    <2>1. RoundLeft(w) /\ RoundSent(w) /\ SameRequest(d, w)
        BY <1>3, <1>4, EndLeft
    <2> HIDE DEF w
    <2>2. SameRequest(v, w)
        BY <1>3, <2>1 DEF SameRequest
    <2>3. Good(w)
        BY <1>0, <2>1, <2>2, RoundDone DEF Good
    <2> QED
        BY <1>6, <2>2, <2>3 DEF b, d, w
<1>7. CASE b.at # "end" /\ ~(v.first /\ ~v.get) /\ ~v.filtered /\ ~v.sized
    <2> DEFINE p == Part(b, fails)
               w == DropFrame(p)
    <2>1. Writable(b) /\ PartDue(b) /\ b.at = "loop"
        BY <1>2, <1>7
    <2>2. /\ p \in Contents /\ SentWell(p) /\ SameBuffers(b, p) /\ ~p.first
          /\ fails \in {"part", "picture"} => p.at = "end" /\ p.broken /\ p.sent = b.sent
          /\ fails \notin {"part", "picture"} =>
                /\ p.at = b.at /\ ~p.broken
                /\ Len(p.sent) = Len(b.sent) + 1 /\ p.sent[Len(p.sent)] = b.ts
        BY <2>1, PartEffect
    <2> HIDE DEF p
    <2>3. Round(p, v.live, u.ts) /\ SameTurn(v, p) /\ SameRequest(v, p)
        BY <1>2, <2>2 DEF Round, SameBuffers, SameMemory, SameTurn, SameRequest
    <2>4. p.at \in {"loop", "end"}
        BY <2>1, <2>2
    <2>5. RoundLeft(w) /\ SameOutput(p, w) /\ SameRequest(v, w) /\ w.prev = v.prev
        BY <1>0, <2>3, <2>4, DroppedRound
    <2> HIDE DEF w
    <2>6. v.prev = NoFrame
        BY <1>0, <1>7 DEF Memory
    <2>7. RoundSent(w)
        BY <2>1, <2>2, <2>4, <2>5, <2>6
        DEF RoundSent, SentWell, SameOutput, SameSent, SameBuffers, SameRequest, MayRepeat
    <2>8. Good(w) /\ SameRequest(v, w)
        BY <1>0, <2>5, <2>7, RoundDone DEF Good
    <2>9. w = MjpegPlain(b, fails)
        BY DEF MjpegPlain, w, p
    <2> QED
        BY <1>7, <2>8, <2>9 DEF b
<1>8. CASE b.at # "end" /\ ~(v.first /\ ~v.get) /\ ~(~v.filtered /\ ~v.sized)
    <2> DEFINE m == FilteredFrame(SizedFrame(b))
               k == Keep(m)
               w == Part(k, fails)
    <2>1. Writable(b) /\ PartDue(b) /\ b.at = "loop"
        BY <1>2, <1>8
    <2>2. /\ Round(m, v.live, u.ts) /\ SameTurn(v, m) /\ SameOutput(b, m)
        BY <1>0, <1>1, <1>2, MadeRound
    <2> HIDE DEF m
    <2>3. m.at \in {"loop", "end"} /\ SameRequest(v, m)
        BY <1>2, <2>1, <2>2 DEF SameOutput, SameSent, SameRequest
    <2>4. /\ RoundLeft(k) /\ SameOutput(m, k) /\ SameRequest(v, k)
          /\ k.prev # NoFrame /\ k.prev[1] = u.ts
        BY <1>0, <2>2, <2>3, KeptRound
    <2> HIDE DEF k
    <2>5. SameOutput(b, k)
        BY <2>2, <2>4 DEF SameOutput, SameSent, SameRequest
    <2>6. Writable(k) /\ PartDue(k) /\ k.at = "loop" /\ k.ts = u.ts
        BY <1>2, <2>1, <2>4, <2>5
        DEF Writable, SentWell, PartDue, SameOutput, SameSent, SameRequest, RoundLeft, MayRepeat
    <2>7. k.filtered \/ k.sized
        BY <1>8, <2>4 DEF SameRequest
    <2>8. RoundLeft(w) /\ RoundSent(w) /\ SameRequest(k, w)
        BY <2>4, <2>6, <2>7, PartLeft
    <2> HIDE DEF w
    <2>9. SameRequest(v, w)
        BY <2>4, <2>8 DEF SameRequest
    <2>10. Good(w)
        BY <1>0, <2>8, <2>9, RoundDone DEF Good
    <2>11. w = MjpegMade(b, fails)
        BY DEF MjpegMade, w, k, m
    <2> QED
        BY <1>8, <2>9, <2>10, <2>11 DEF b
<1> QED
    BY <1>5, <1>6, <1>7, <1>8 DEF b

\* The memory of the picture is given back, whatever was sent.
LEMMA PictureFreed ==
    ASSUME NEW v, v \in Contents, ~v.fault, v.pvf = NoFrame, v.at \in {"loop", "end"},
           v.kind = "mpng", IsFrame(v.prev, 1 - v.turn), v.live = {v.prev, PngMemory},
           v.prev[1] = v.ts, SentWell(v),
           v.at = "loop" => ~v.broken /\ ~v.first /\ v.sent[Len(v.sent)] = v.ts
    PROVE  LET w == FreeOf(v, PngMemory)
           IN RoundLeft(w) /\ RoundSent(w) /\ SameRequest(v, w)
<1> DEFINE w == FreeOf(v, PngMemory)
<1>1. PngMemory # NoFrame /\ v.prev # PngMemory /\ v.prev # NoFrame /\ NoFrame \notin v.live
    BY NotFrames DEF PngMemory, NoFrame
<1>2. /\ w \in Contents /\ SameOutput(v, w) /\ w.live = v.live \ {PngMemory} /\ ~w.fault
      /\ w.prev = v.prev /\ w.pvf = v.pvf /\ w.turn = v.turn
    BY <1>1, FreeEffect
<1> HIDE DEF w
<1>3. SameRequest(v, w) /\ w.live = {w.prev} /\ LastsWith(w) = {}
    BY <1>1, <1>2 DEF SameOutput, SameRequest, LastsWith
<1>4. RoundLeft(w)
    BY <1>1, <1>2, <1>3 DEF RoundLeft, SameOutput, SameSent
<1>5. RoundSent(w)
    BY <1>2 DEF RoundSent, SentWell, SameOutput, SameSent, SameRequest, MayRepeat
<1> QED
    BY <1>3, <1>4, <1>5 DEF w

LEMMA MpngKeeps ==
    ASSUME newest \in Nat, NEW v, Good(v), v.at = "loop", v.kind = "mpng",
           NEW u \in Newer(v), NEW fails
    PROVE  LET m == FilteredFrame(SizedFrame(u))
               b == Begin(Keep(Alloc(m, PngMemory)), fails)
               p == IF b.at = "end" THEN b
                    ELSE IF v.first /\ ~v.get THEN End(b)
                    ELSE Part(b, fails)
               none == End(DropFrame(m))
               w == FreeOf(p, PngMemory)
           IN Good(none) /\ SameRequest(v, none) /\ Good(w) /\ SameRequest(v, w)
<1> DEFINE m == FilteredFrame(SizedFrame(u))
           d == DropFrame(m)
           none == End(d)
           a == Alloc(m, PngMemory)
           k == Keep(a)
           b == Begin(k, fails)
           p == IF b.at = "end" THEN b ELSE IF v.first /\ ~v.get THEN End(b) ELSE Part(b, fails)
           w == FreeOf(p, PngMemory)
<1>0. v \in Contents /\ Memory(v) /\ Output(v) /\ Closings(v) /\ v.kind \in KeepingKinds
    BY DEF Good, KeepingKinds
<1>1. /\ Round(u, v.live, u.ts) /\ u.pvf[2] \in {"got", "copy"} /\ SameTurn(v, u)
      /\ SameRequest(v, u) /\ SameSent(v, u) /\ Writable(u) /\ u.ts > 0
      /\ u.ts > v.ts \/ (u.ts = v.ts /\ v.prev # NoFrame)
    BY <1>0, NewerEffect
<1>2. /\ Round(m, v.live, u.ts) /\ SameTurn(v, m) /\ SameOutput(u, m)
    BY <1>0, <1>1, MadeRound
<1> HIDE DEF m
<1>3. /\ SameRequest(v, m) /\ SameSent(v, m) /\ m.ts = u.ts /\ m.at = "loop" /\ Writable(m)
    BY <1>1, <1>2
    DEF SameOutput, SameSent, SameRequest, Round, Writable, SentWell, MayRepeat
<1>4. Good(none) /\ SameRequest(v, none)
    <2>1. RoundLeft(d) /\ SameOutput(m, d) /\ SameRequest(v, d)
        BY <1>0, <1>2, <1>3, DroppedRound
    <2> HIDE DEF d
    <2>2. SentWell(d)
        BY <1>3, <2>1 DEF Writable, SentWell, SameOutput, SameSent, SameRequest, MayRepeat
    <2>3. RoundLeft(none) /\ RoundSent(none) /\ SameRequest(d, none)
        BY <2>1, <2>2, EndLeft
    <2> HIDE DEF none
    <2>4. SameRequest(v, none)
        BY <2>1, <2>3 DEF SameRequest
    <2> QED
        BY <1>0, <2>3, <2>4, RoundDone DEF Good
<1>5. Good(w) /\ SameRequest(v, w)
    <2>1. v.live = {v.prev} \ {NoFrame} /\ (v.prev # NoFrame => IsFrame(v.prev, 1 - v.turn))
        BY <1>0 DEF Memory, LastsWith
    <2>2. PngMemory \notin m.live
        BY <1>2, <2>1, NotFrames DEF Round
    <2>3. m \in Contents /\ ~m.fault /\ PngMemory \in Buffers
        BY <1>2, Unnamed DEF Round
    <2>4. /\ a \in Contents /\ SameOutput(m, a) /\ a.live = m.live \cup {PngMemory} /\ ~a.fault
          /\ a.prev = m.prev /\ a.pvf = m.pvf /\ a.turn = m.turn
        BY <2>2, <2>3, AllocEffect
    <2> HIDE DEF a
    <2> DEFINE lasts == {PngMemory}
    <2>5. NoFrame \notin lasts /\ (a.prev # NoFrame => a.prev \notin lasts)
        BY <1>2, <2>1, <2>4, NotFrames DEF SameTurn, NoFrame, PngMemory
    <2>6. Round(a, ({a.prev} \ {NoFrame}) \cup lasts, u.ts)
        BY <1>2, <2>1, <2>4, <2>5, NotFrames DEF Round, SameTurn
    <2>7. lasts = {PngMemory}
        OBVIOUS
    <2> HIDE DEF lasts
    <2>8. /\ k \in Contents /\ k.live = {k.prev} \cup lasts /\ ~k.fault /\ k.pvf = NoFrame
          /\ k.prev = a.pvf /\ k.turn = 1 - a.turn /\ SameOutput(a, k)
        BY <2>5, <2>6, KeepEffect
    <2> HIDE DEF k
    <2>9. IsFrame(k.prev, 1 - k.turn) /\ k.prev[1] = u.ts /\ k.live = {k.prev, PngMemory}
        <3>1. a.turn \in {0, 1}
            BY <2>4 DEF Contents
        <3> QED
            BY <2>6, <2>7, <2>8, <3>1 DEF Round
    <2>10. SameOutput(m, k)
        BY <2>4, <2>8 DEF SameOutput, SameSent, SameRequest
    <2>11. Writable(k) /\ SameRequest(v, k) /\ SameSent(v, k) /\ k.ts = u.ts /\ k.at = "loop"
        BY <1>3, <2>8, <2>10
        DEF Writable, SentWell, SameOutput, SameSent, SameRequest, MayRepeat
    <2>12. /\ b \in Contents /\ SentWell(b) /\ SameBuffers(k, b)
           /\ fails = "headers" => b.at = "end" /\ b.sent = k.sent
           /\ fails # "headers" =>
                /\ b.at = k.at /\ Writable(b) /\ ~b.first
                /\ b.sent = IF k.first THEN <<Headers>> ELSE k.sent
        BY <2>11, BeginEffect
    <2> HIDE DEF b
    <2>13. b.at \in {"loop", "end"} /\ SameRequest(v, b) /\ b.ts = u.ts
        BY <2>11, <2>12 DEF SameBuffers, SameRequest
    <2>14. ASSUME fails # "headers" PROVE PartDue(b) /\ b.at = "loop" /\ Writable(b)
        <3>1. b.sent = v.sent \/ b.sent = <<Headers>>
            BY <2>11, <2>12, <2>14 DEF SameSent
        <3>2. b.sent = v.sent \/ Len(b.sent) <= 1
            BY <3>1, OneLong
        <3> QED
            BY <1>0, <1>1, <2>11, <2>12, <2>13, <2>14, <3>2, NextPart
    <2>15. /\ p \in Contents /\ SameMemory(k, p) /\ SameRequest(v, p) /\ p.ts = u.ts /\ SentWell(p)
           /\ p.at \in {"loop", "end"}
           /\ p.at = "loop" => ~p.broken /\ ~p.first /\ p.sent[Len(p.sent)] = p.ts
        <3>1. CASE b.at = "end"
            BY <3>1, <2>12, <2>13 DEF SameBuffers
        <3>2. CASE b.at # "end" /\ v.first /\ ~v.get
            <4> DEFINE e == End(b)
            <4>1. "end" \in ContentPlaces /\ b \in Contents
                BY <2>12 DEF ContentPlaces
            <4>2. /\ e \in Contents /\ SameMemory(b, e) /\ SameRequest(b, e) /\ e.ts = b.ts
                  /\ e.at = "end" /\ e.first = b.first /\ e.sent = b.sent
                BY <4>1 DEF End, Contents, SameMemory, SameRequest
            <4>3. p = e
                BY <3>2
            <4> HIDE DEF e, p
            <4> QED
                BY <2>12, <2>13, <4>2, <4>3
                DEF SentWell, MayRepeat, SameBuffers, SameMemory, SameRequest
        <3>3. CASE b.at # "end" /\ ~(v.first /\ ~v.get)
            <4> DEFINE e == Part(b, fails)
            <4>1. Writable(b) /\ PartDue(b) /\ b.at = "loop"
                BY <3>3, <2>12, <2>14
            <4>2. /\ e \in Contents /\ SentWell(e) /\ SameBuffers(b, e) /\ ~e.first
                  /\ fails \in {"part", "picture"} => e.at = "end" /\ e.broken /\ e.sent = b.sent
                  /\ fails \notin {"part", "picture"} =>
                        /\ e.at = b.at /\ ~e.broken
                        /\ Len(e.sent) = Len(b.sent) + 1 /\ e.sent[Len(e.sent)] = b.ts
                BY <4>1, PartEffect
            <4>3. p = e
                BY <3>3
            <4> HIDE DEF e, p
            <4> QED
                BY <2>12, <2>13, <4>1, <4>2, <4>3 DEF SameBuffers, SameMemory, SameRequest
        <3> QED
            BY <3>1, <3>2, <3>3
    <2> HIDE DEF p
    <2>16. /\ ~p.fault /\ p.pvf = NoFrame /\ p.kind = "mpng" /\ IsFrame(p.prev, 1 - p.turn)
           /\ p.live = {p.prev, PngMemory} /\ p.prev[1] = p.ts
        BY <2>8, <2>9, <2>15 DEF SameMemory, SameRequest
    <2>17. RoundLeft(w) /\ RoundSent(w) /\ SameRequest(p, w)
        BY <2>15, <2>16, PictureFreed
    <2> HIDE DEF w
    <2>18. SameRequest(v, w)
        BY <2>15, <2>17 DEF SameRequest
    <2> QED
        BY <1>0, <2>17, <2>18, RoundDone DEF Good
<1> QED
    BY <1>4, <1>5 DEF m

LEMMA TheoraKeeps ==
    ASSUME newest \in Nat, NEW v, Good(v), v.at = "loop", v.kind = "theora",
           NEW u \in Newer(v), NEW fails
    PROVE  LET w == Part(Look(Keep(FilteredFrame(SizedFrame(u))), Encoder), fails)
           IN Good(w) /\ SameRequest(v, w)
<1> DEFINE m == FilteredFrame(SizedFrame(u))
           k == Keep(m)
           l == Look(k, Encoder)
           w == Part(l, fails)
<1>0. v \in Contents /\ Memory(v) /\ Output(v) /\ Closings(v) /\ v.kind \in KeepingKinds
    BY DEF Good, KeepingKinds
<1>1. /\ Round(u, v.live, u.ts) /\ u.pvf[2] \in {"got", "copy"} /\ SameTurn(v, u)
      /\ SameRequest(v, u) /\ SameSent(v, u) /\ Writable(u) /\ u.ts > 0
      /\ u.ts > v.ts \/ (u.ts = v.ts /\ v.prev # NoFrame)
    BY <1>0, NewerEffect
<1>2. /\ Round(m, v.live, u.ts) /\ SameTurn(v, m) /\ SameOutput(u, m)
    BY <1>0, <1>1, MadeRound
<1> HIDE DEF m
<1>3. /\ SameRequest(v, m) /\ SameSent(v, m) /\ m.ts = u.ts /\ m.at = "loop" /\ Writable(m)
    BY <1>1, <1>2
    DEF SameOutput, SameSent, SameRequest, Round, Writable, SentWell, MayRepeat
<1>4. /\ RoundLeft(k) /\ SameOutput(m, k) /\ SameRequest(v, k)
      /\ k.prev # NoFrame /\ k.prev[1] = u.ts
    BY <1>0, <1>2, <1>3, KeptRound
<1> HIDE DEF k
<1>5. k \in Contents /\ Encoder \in k.live /\ ~k.fault
    BY <1>4 DEF RoundLeft, LastsWith, SameRequest
<1>6. l \in Contents /\ SameOutput(k, l) /\ SameMemory(k, l)
    BY <1>5, LookEffect
<1> HIDE DEF l
<1>7. RoundLeft(l) /\ l.kind = "theora" /\ l.prev[1] = u.ts
    BY <1>4, <1>6 DEF RoundLeft, LastsWith, SameOutput, SameSent, SameRequest, SameMemory
<1>8. Writable(l) /\ SameRequest(v, l) /\ SameSent(v, l) /\ l.ts = u.ts /\ l.at = "loop"
    <2>1. SameOutput(m, l)
        BY <1>4, <1>6 DEF SameOutput, SameSent, SameRequest
    <2> QED
        BY <1>3, <1>7, <2>1
        DEF RoundLeft, Writable, SentWell, SameOutput, SameSent, SameRequest, MayRepeat
<1>9. PartDue(l)
    <2>1. ~l.first /\ l.sent = v.sent /\ l \in Contents /\ l.ts > 0
        BY <1>0, <1>1, <1>6, <1>8 DEF Output, SameSent
    <2> QED
        BY <1>0, <1>1, <1>8, <2>1, NextPart
<1>10. RoundLeft(w) /\ RoundSent(w) /\ SameRequest(l, w)
    BY <1>7, <1>8, <1>9, PartLeft
<1> HIDE DEF w
<1>11. SameRequest(v, w)
    BY <1>8, <1>10 DEF SameRequest
<1>12. Good(w)
    BY <1>0, <1>10, <1>11, RoundDone DEF Good
<1> QED
    BY <1>11, <1>12 DEF w, l, k, m

-----------------------------------------------------------------------------

\* The beginning and the end.
Moved(v, w) ==
    /\ w \in Contents /\ SameMemory(v, w) /\ SameRequest(v, w) /\ w.ts = v.ts
    /\ w.first = v.first /\ w.sent = v.sent /\ w.broken = v.broken

LEMMA MoveEffect ==
    ASSUME NEW v \in Contents, NEW place \in ContentPlaces
    PROVE  Moved(v, [v EXCEPT !.at = place]) /\ [v EXCEPT !.at = place].at = place
BY DEF Contents, Moved, SameMemory, SameRequest

LEMMA StartState ==
    ASSUME NEW v, Good(v), v.at = "start"
    PROVE  /\ Writable(v) /\ v \in Contents /\ v.live = {} /\ v.prev = NoFrame /\ v.pvf = NoFrame
           /\ v.first /\ v.sent = <<>> /\ v.ts = 0 /\ v.users = 0 /\ v.closed = 0
BY DEF Good, Memory, Output, Closings, Writable, SentWell

\* A loop, before its first round.
LEMMA Started ==
    ASSUME NEW w, w \in Contents, w.at = "loop", ~w.fault, ~w.broken, SentWell(w),
           w.prev = NoFrame, w.pvf = NoFrame, w.live = LastsWith(w), w.closed = 0,
           w.users = IF w.kind = "fs-db" THEN 1 ELSE 0,
           w.sent = IF w.kind \in {"theora", "png", "jpg", "file"} THEN <<Headers>> ELSE <<>>
    PROVE  Good(w)
<1>1. Memory(w)
    BY DEF Memory
<1>2. Len(w.sent) <= 1
    <2>1. w.sent = <<>> \/ w.sent = <<Headers>>
        OBVIOUS
    <2> QED
        BY <2>1, OneLong
<1>3. w.kind \in {"theora", "png", "jpg", "file"} => w.sent # <<>> /\ Len(w.sent) = 1
    BY HeadersFirst
<1>4. Output(w)
    <2>1. Len(w.sent) \in Nat
        BY DEF Contents
    <2> QED
        BY <1>2, <1>3, <2>1 DEF Output, SentWell
<1>5. Closings(w)
    BY DEF Closings
<1> QED
    BY <1>1, <1>4, <1>5 DEF Good

LEMMA Finished ==
    ASSUME NEW w, w \in Contents, w.at = "return", ~w.fault, SentWell(w), w.live = {}, w.users = 0,
           w.closed = 0 \/ (w.closed = 1 /\ HeadersOnly(w))
    PROVE  Good(w)
BY DEF Good, Memory, Output, Closings

LEMMA NothingStarts ==
    ASSUME NEW v, Good(v), v.at = "start", v.kind \in {"mjpeg", "mpng"}
    PROVE  LET w == [v EXCEPT !.at = "loop"]
           IN Good(w) /\ w.kind = v.kind
<1> DEFINE w == [v EXCEPT !.at = "loop"]
<1>1. Moved(v, w) /\ w.at = "loop"
    BY StartState, MoveEffect DEF ContentPlaces
<1> HIDE DEF w
<1>2. /\ w \in Contents /\ ~w.fault /\ ~w.broken /\ SentWell(w)
      /\ w.prev = NoFrame /\ w.pvf = NoFrame /\ w.live = LastsWith(w) /\ w.closed = 0 /\ w.users = 0 /\ w.sent = <<>> /\ w.kind = v.kind
    BY <1>1, StartState
    DEF Moved, SameMemory, SameRequest, Writable, SentWell, MayRepeat, LastsWith
<1>3. Good(w)
    BY <1>1, <1>2, Started
<1> QED
    BY <1>2, <1>3 DEF w

LEMMA TheoraStarts ==
    ASSUME NEW v, Good(v), v.at = "start", v.kind = "theora", NEW fails
    PROVE  LET w == IF fails = "headers" THEN [Lost(v) EXCEPT !.at = "return"]
                    ELSE [Alloc(Begin(v, fails), Encoder) EXCEPT !.at = "loop"]
           IN Good(w) /\ w.kind = v.kind
<1>1. CASE fails = "headers"
    <2> DEFINE u == Lost(v)
               w == [u EXCEPT !.at = "return"]
    <2>1. u \in Contents /\ SentWell(u) /\ SameBuffers(v, u)
        BY StartState, LostEffect
    <2> HIDE DEF u
    <2>2. Moved(u, w) /\ w.at = "return"
        BY <2>1, MoveEffect DEF ContentPlaces
    <2> HIDE DEF w
    <2>3. w \in Contents /\ ~w.fault /\ SentWell(w) /\ w.live = {} /\ w.users = 0 /\ w.closed = 0
          /\ w.kind = v.kind
        BY <2>1, <2>2, StartState
        DEF Moved, SameBuffers, SameMemory, SameRequest, SentWell, MayRepeat, Writable
    <2>4. Good(w)
        BY <2>2, <2>3, Finished
    <2> QED
        BY <1>1, <2>3, <2>4 DEF w, u
<1>2. CASE fails # "headers"
    <2> DEFINE b == Begin(v, fails)
               a == Alloc(b, Encoder)
               w == [a EXCEPT !.at = "loop"]
    <2>1. b \in Contents /\ Writable(b) /\ SameBuffers(v, b) /\ b.sent = <<Headers>>
        BY <1>2, StartState, BeginEffect
    <2> HIDE DEF b
    <2>2. Encoder \in Buffers /\ Encoder \notin b.live /\ ~b.fault
        BY <2>1, StartState, Unnamed DEF SameBuffers, SameMemory, Writable
    <2>3. /\ a \in Contents /\ SameOutput(b, a) /\ a.live = b.live \cup {Encoder} /\ ~a.fault
          /\ a.prev = b.prev /\ a.pvf = b.pvf /\ a.turn = b.turn
        BY <2>1, <2>2, AllocEffect
    <2> HIDE DEF a
    <2>4. Moved(a, w) /\ w.at = "loop"
        BY <2>3, MoveEffect DEF ContentPlaces
    <2> HIDE DEF w
    <2>5. /\ w.kind = "theora" /\ w.filtered = b.filtered /\ w.sized = b.sized /\ w.sent = <<Headers>>
          /\ w.first = b.first /\ w.users = 0 /\ w.closed = 0 /\ ~w.broken /\ ~w.fault
          /\ w.prev = NoFrame /\ w.pvf = NoFrame
        BY <2>1, <2>3, <2>4, StartState
        DEF Moved, SameBuffers, SameMemory, SameRequest, SameOutput, SameSent, Writable
    <2>6. w.live = LastsWith(w)
        BY <2>1, <2>3, <2>4, <2>5, StartState DEF Moved, SameBuffers, SameMemory, LastsWith
    <2>7. SentWell(w)
        BY <2>1, <2>5, StartState
        DEF Writable, SentWell, MayRepeat, SameBuffers, SameRequest
    <2>8. Good(w)
        BY <2>4, <2>5, <2>6, <2>7, Started DEF Moved
    <2> QED
        BY <1>2, <2>5, <2>8 DEF w, a, b
<1> QED
    BY <1>1, <1>2

LEMMA TimeIsUp ==
    ASSUME NEW v, Good(v), v.at = "loop", v.kind \in {"mjpeg", "mpng", "theora", "fs-db"}
    PROVE  LET w == End(v) IN Good(w) /\ w.kind = v.kind /\ w.ts = v.ts
<1> DEFINE w == [v EXCEPT !.at = "end"]
<1>1. Moved(v, w) /\ w.at = "end"
    BY MoveEffect DEF Good, ContentPlaces
<1> HIDE DEF w
<1>2. Memory(w)
    <2>1. LastsWith(w) = LastsWith(v)
        BY <1>1 DEF LastsWith, Moved, SameRequest
    <2> QED
        BY <1>1, <2>1 DEF Good, Memory, Moved, SameMemory, SameRequest
<1>3. Output(w)
    BY <1>1 DEF Good, Output, Moved, SentWell, MayRepeat, SameRequest
<1>4. Closings(w)
    BY <1>1 DEF Good, Closings, Moved, SameRequest
<1> QED
    BY <1>1, <1>2, <1>3, <1>4 DEF Good, End, Moved, SameRequest, w

LEMMA StreamEnds ==
    ASSUME NEW v, Good(v), v.at = "end", v.kind \in KeepingKinds
    PROVE  LET u == [FreeOf(v, v.prev) EXCEPT !.prev = NoFrame, !.at = "return"]
               w == IF u.kind = "theora" THEN FreeOf(u, Encoder) ELSE u
           IN Good(w) /\ w.kind = v.kind
<1> DEFINE f == FreeOf(v, v.prev)
           u == [f EXCEPT !.prev = NoFrame, !.at = "return"]
           w == IF u.kind = "theora" THEN FreeOf(u, Encoder) ELSE u
<1>1. /\ v \in Contents /\ ~v.fault /\ SentWell(v) /\ v.users = 0 /\ v.closed = 0
      /\ v.live = ({v.prev} \ {NoFrame}) \cup LastsWith(v)
      /\ v.prev # NoFrame => v.prev \notin LastsWith(v)
      /\ NoFrame \notin v.live /\ Encoder # NoFrame
    <2>1. v.prev # NoFrame => v.prev # Encoder
        BY NotFrames DEF Good, Memory
    <2>2. Encoder # NoFrame
        BY DEF Encoder, NoFrame
    <2> QED
        BY <2>1, <2>2 DEF Good, Memory, Output, Closings, LastsWith, KeepingKinds
<1>2. /\ f \in Contents /\ SameOutput(v, f) /\ f.live = v.live \ {v.prev} /\ ~f.fault
      /\ f.pvf = v.pvf /\ f.turn = v.turn
    BY <1>1, FreeEffect
<1> HIDE DEF f
<1>3. f.live = LastsWith(v) /\ "return" \in ContentPlaces
    BY <1>1, <1>2 DEF ContentPlaces
<1>4. /\ u \in Contents /\ u.at = "return" /\ u.live = f.live /\ u.fault = f.fault
      /\ SameRequest(f, u) /\ u.sent = f.sent /\ u.first = f.first
    BY <1>2, <1>3, Unnamed DEF Contents, SameRequest
<1> HIDE DEF u
<1>5. /\ SameRequest(v, u) /\ u.sent = v.sent /\ u.first = v.first /\ ~u.fault
      /\ u.live = LastsWith(v) /\ u.kind = v.kind
    BY <1>2, <1>3, <1>4 DEF SameOutput, SameSent, SameRequest
<1>6. w \in Contents /\ w.live = {} /\ ~w.fault /\ SameOutput(u, w)
    <2>1. CASE u.kind = "theora"
        <3>1. w = FreeOf(u, Encoder) /\ u.live = {Encoder} /\ NoFrame \notin u.live
            BY <1>1, <1>5, <2>1 DEF LastsWith
        <3> HIDE DEF w
        <3>2. /\ w \in Contents /\ SameOutput(u, w) /\ w.live = u.live \ {Encoder} /\ ~w.fault
            BY <1>4, <1>5, <3>1, FreeEffect
        <3> QED
            BY <3>1, <3>2
    <2>2. CASE u.kind # "theora"
        BY <1>4, <1>5, <2>2 DEF LastsWith, KeepingKinds, SameOutput, SameSent, SameRequest
    <2> QED
        BY <2>1, <2>2
<1> HIDE DEF w
<1>7. w.kind = v.kind /\ w.at = "return" /\ SentWell(w) /\ w.users = 0 /\ w.closed = 0
    BY <1>1, <1>4, <1>5, <1>6 DEF SentWell, MayRepeat, SameOutput, SameSent, SameRequest
<1>8. Good(w)
    BY <1>6, <1>7, Finished
<1> QED
    BY <1>7, <1>8 DEF w, u, f

-----------------------------------------------------------------------------

\* Pictures, files and the full screen dashboard.
LEMMA ImageStarts ==
    ASSUME NEW v, Good(v), v.at = "start", v.kind \in {"png", "jpg"}, NEW fails
    PROVE  LET b == Begin(v, fails)
               w == IF b.at = "end" \/ ~b.get THEN [Closed(b) EXCEPT !.at = "return"]
                    ELSE [b EXCEPT !.at = "loop"]
           IN Good(w) /\ w.kind = v.kind
<1> DEFINE b == Begin(v, fails)
           w == IF b.at = "end" \/ ~b.get THEN [Closed(b) EXCEPT !.at = "return"]
                ELSE [b EXCEPT !.at = "loop"]
<1>1. /\ b \in Contents /\ SentWell(b) /\ SameBuffers(v, b)
      /\ fails = "headers" => b.at = "end" /\ b.broken /\ b.sent = v.sent
      /\ fails # "headers" =>
            /\ b.at = v.at /\ Writable(b) /\ ~b.first
            /\ b.sent = IF v.first THEN <<Headers>> ELSE v.sent
    BY StartState, BeginEffect
<1> HIDE DEF b
<1>2. /\ b.live = {} /\ ~b.fault /\ b.prev = NoFrame /\ b.pvf = NoFrame /\ b.users = 0
      /\ b.closed = 0 /\ b.kind = v.kind
    BY <1>1, StartState DEF SameBuffers, SameMemory, SameRequest, Writable
<1>3. Len(b.sent) <= 1
    <2>1. b.sent = <<>> \/ b.sent = <<Headers>>
        BY <1>1, StartState
    <2> QED
        BY <2>1, OneLong
<1>4. CASE b.at = "end" \/ ~b.get
    <2>1. b.broken \/ ~b.get
        BY <1>1, <1>4
    <2>2. w = [b EXCEPT !.closed = 1, !.at = "return"]
        <3>1. b.closed + 1 = 1
            BY <1>2
        <3> QED
            BY <1>1, <1>4, <3>1 DEF Closed, Contents
    <2> HIDE DEF w
    <2>3. "return" \in ContentPlaces /\ 1 \in Nat
        BY DEF ContentPlaces
    <2>4. /\ w \in Contents /\ w.at = "return" /\ w.closed = 1 /\ SameMemory(b, w)
          /\ w.kind = b.kind /\ w.get = b.get /\ w.filtered = b.filtered /\ w.sized = b.sized
          /\ w.users = b.users /\ w.first = b.first /\ w.sent = b.sent /\ w.broken = b.broken
        BY <1>1, <2>2, <2>3 DEF Contents, SameMemory
    <2>5. SentWell(w) /\ HeadersOnly(w)
        BY <1>1, <1>2, <1>3, <2>1, <2>4 DEF SentWell, MayRepeat, HeadersOnly
    <2>6. Good(w)
        BY <1>2, <2>4, <2>5, Finished DEF SameMemory
    <2> QED
        BY <1>2, <2>4, <2>6 DEF w, b
<1>5. CASE ~(b.at = "end" \/ ~b.get)
    <2>1. w = [b EXCEPT !.at = "loop"]
        BY <1>5
    <2> HIDE DEF w
    <2>2. Moved(b, w) /\ w.at = "loop"
        BY <1>1, <2>1, MoveEffect DEF ContentPlaces
    <2>3. Writable(b) /\ b.sent = <<Headers>>
        BY <1>1, <1>5, StartState
    <2>4. SentWell(w) /\ w.live = LastsWith(w)
        BY <1>1, <1>2, <2>2
        DEF Moved, SentWell, MayRepeat, SameMemory, SameRequest, LastsWith
    <2>5. Good(w)
        BY <1>2, <2>2, <2>3, <2>4, Started DEF Moved, SameMemory, SameRequest, Writable
    <2> QED
        BY <1>2, <2>2, <2>5 DEF w, b, Moved, SameRequest
<1> QED
    BY <1>4, <1>5 DEF b

\* A loop without a previous frame.
LEMMA PlainState ==
    ASSUME NEW v, Good(v), v.at = "loop", v.kind \in ContentKinds \ KeepingKinds
    PROVE  /\ Writable(v) /\ v \in Contents /\ v.prev = NoFrame /\ v.pvf = NoFrame
           /\ v.live = LastsWith(v) /\ v.closed = 0 /\ v.users = IF v.kind = "fs-db" THEN 1 ELSE 0
           /\ Len(v.sent) > 1 => v.sent[Len(v.sent)] = v.ts
           /\ v.kind \in {"png", "jpg"} => Len(v.sent) = 1
           /\ v.kind \in {"png", "jpg", "file"} => ~v.first
BY DEF Good, Memory, Output, Closings, Writable, SentWell

LEMMA NoImage ==
    ASSUME NEW v, Good(v), v.at = "loop", v.kind \in {"png", "jpg"}
    PROVE  LET w == [v EXCEPT !.at = "return"] IN Good(w) /\ w.kind = v.kind
<1> DEFINE w == [v EXCEPT !.at = "return"]
<1>1. /\ Writable(v) /\ v \in Contents /\ v.live = LastsWith(v) /\ v.closed = 0 /\ v.users = 0
    BY PlainState DEF ContentKinds, KeepingKinds
<1>2. Moved(v, w) /\ w.at = "return"
    BY <1>1, MoveEffect DEF ContentPlaces
<1> HIDE DEF w
<1>3. /\ w \in Contents /\ ~w.fault /\ SentWell(w) /\ w.live = {} /\ w.users = 0 /\ w.closed = 0
      /\ w.kind = v.kind
    BY <1>1, <1>2 DEF Moved, SameMemory, SameRequest, SentWell, MayRepeat, Writable, LastsWith
<1>4. Good(w)
    BY <1>2, <1>3, Finished
<1> QED
    BY <1>3, <1>4 DEF w

\* The frame of the picture, as it is sent.
LEMMA ImageMade ==
    ASSUME newest \in Nat, newest > 0, NEW v, Good(v), v.at = "loop", v.kind \in {"png", "jpg"}
    PROVE  LET m == FilteredFrame(SizedFrame(Took(v, newest, "got")))
           IN /\ Round(m, {}, newest) /\ Writable(m) /\ PartDue(m) /\ SameRequest(v, m)
              /\ m.closed = 0 /\ m.users = 0 /\ m.kind = v.kind /\ m.at = "loop" /\ m.prev = NoFrame
<1> DEFINE t == Took(v, newest, "got")
           m == FilteredFrame(SizedFrame(t))
<1>1. /\ Writable(v) /\ v \in Contents /\ v.live = {} /\ ~v.fault /\ v.prev = NoFrame
      /\ v.closed = 0 /\ v.users = 0 /\ Len(v.sent) = 1 /\ ~v.first
    BY PlainState DEF ContentKinds, KeepingKinds, LastsWith, Writable
<1>2. "got" \in FrameHows /\ NoFrame \notin v.live /\ \A b \in v.live : ~IsFrame(b, v.turn)
    BY <1>1 DEF FrameHows
<1> DEFINE rest == v.live
<1>3. /\ Round(t, rest, newest) /\ t.pvf[2] = "got" /\ SameTurn(v, t)
      /\ SameRequest(v, t) /\ SameSent(v, t) /\ t.ts = newest
    <2>1. v \in Contents /\ ~v.fault /\ "got" \in FrameHows
        BY <1>1, <1>2
    <2>2. NoFrame \notin v.live /\ \A b \in v.live : ~IsFrame(b, v.turn)
        BY <1>2
    <2> QED
        BY <2>1, <2>2, TookEffect
<1> HIDE DEF t
<1>4. t.prev = NoFrame /\ t.pvf[2] \in {"got", "copy"}
    BY <1>1, <1>3 DEF SameTurn
<1>5. Round(m, rest, newest) /\ SameTurn(t, m) /\ SameOutput(t, m)
    BY <1>3, <1>4, MadeEffect
<1> HIDE DEF m
<1>6. /\ SameRequest(v, m) /\ m.at = "loop" /\ m.first = v.first /\ m.sent = v.sent
      /\ m.broken = v.broken /\ m.ts = newest /\ m.prev = NoFrame
    BY <1>3, <1>4, <1>5 DEF SameOutput, SameSent, SameRequest, SameTurn
<1>7. Writable(m)
    BY <1>1, <1>5, <1>6 DEF Round, Writable, SentWell, MayRepeat, SameRequest
<1>8. PartDue(m)
    BY <1>1, <1>6 DEF PartDue
<1>9. Round(m, {}, newest)
    BY <1>1, <1>5
<1> QED
    BY <1>1, <1>6, <1>7, <1>8, <1>9 DEF m, t, SameRequest

LEMMA PngSent ==
    ASSUME newest \in Nat, newest > 0, NEW v, Good(v), v.at = "loop", v.kind = "png", NEW fails
    PROVE  LET m == FilteredFrame(SizedFrame(Took(v, newest, "got")))
               w == [Image(m, PngMemory, fails) EXCEPT !.at = "return"]
           IN Good(w) /\ w.kind = v.kind
<1> DEFINE m == FilteredFrame(SizedFrame(Took(v, newest, "got")))
           a == Alloc(m, PngMemory)
           d == DropFrame(a)
           p == Part(d, fails)
           f == FreeOf(p, PngMemory)
           w == [f EXCEPT !.at = "return"]
           lasts == {PngMemory}
<1>1. /\ Round(m, {}, newest) /\ Writable(m) /\ PartDue(m) /\ SameRequest(v, m)
      /\ m.closed = 0 /\ m.users = 0 /\ m.kind = v.kind /\ m.at = "loop"
    BY ImageMade
<1> HIDE DEF m
<1>2. /\ m \in Contents /\ m.live = {m.pvf} /\ IsFrame(m.pvf, m.turn)
      /\ m.pvf[1] = newest /\ ~m.fault
      /\ PngMemory \in Buffers /\ PngMemory \notin m.live /\ PngMemory # NoFrame
    BY <1>1, Unnamed, NotFrames DEF Round, PngMemory, NoFrame
<1>3. /\ a \in Contents /\ SameOutput(m, a) /\ a.live = m.live \cup lasts /\ ~a.fault
      /\ a.prev = m.prev /\ a.pvf = m.pvf /\ a.turn = m.turn
    BY <1>2, AllocEffect
<1> HIDE DEF a
<1>4. NoFrame \notin lasts /\ \A b \in lasts : ~IsFrame(b, a.turn)
    BY <1>2, NotFrames
<1>5. a.live = lasts \cup {a.pvf} /\ lasts = {PngMemory}
    BY <1>2, <1>3
<1> HIDE DEF lasts
<1>6. Round(a, lasts, newest)
    BY <1>2, <1>3, <1>4, <1>5 DEF Round
<1>7. /\ d \in Contents /\ d.live = lasts /\ ~d.fault /\ d.pvf = NoFrame
      /\ SameTurn(a, d) /\ SameOutput(a, d)
    BY <1>6, DropEffect
<1> HIDE DEF d
<1>8. /\ Writable(d) /\ PartDue(d) /\ SameRequest(m, d)
    <2>1. SameOutput(m, d)
        BY <1>3, <1>7 DEF SameOutput, SameSent, SameRequest
    <2> QED
        BY <1>1, <1>7, <2>1
        DEF Writable, PartDue, SentWell, MayRepeat, SameOutput, SameSent, SameRequest
<1>9. p \in Contents /\ SentWell(p) /\ SameBuffers(d, p)
    BY <1>8, PartEffect
<1> HIDE DEF p
<1>10. /\ ~p.fault /\ p.live = lasts /\ SameRequest(m, p)
       /\ PngMemory \in p.live /\ NoFrame \notin p.live
    BY <1>4, <1>5, <1>7, <1>8, <1>9 DEF SameBuffers, SameMemory, SameRequest
<1>11. f \in Contents /\ SameOutput(p, f) /\ f.live = p.live \ {PngMemory} /\ ~f.fault
    BY <1>9, <1>10, FreeEffect
<1> HIDE DEF f
<1>12. f.live = {} /\ SameRequest(m, f) /\ SentWell(f)
    BY <1>5, <1>9, <1>10, <1>11 DEF SameOutput, SameSent, SameRequest, SentWell, MayRepeat
<1>13. Moved(f, w) /\ w.at = "return"
    BY <1>11, MoveEffect DEF ContentPlaces
<1> HIDE DEF w
<1>14. /\ w \in Contents /\ ~w.fault /\ SentWell(w) /\ w.live = {} /\ w.users = 0 /\ w.closed = 0
       /\ w.kind = v.kind
    BY <1>1, <1>11, <1>12, <1>13 DEF Moved, SameMemory, SameRequest, SentWell, MayRepeat
<1>15. Good(w)
    BY <1>13, <1>14, Finished
<1>16. w = [Image(m, PngMemory, fails) EXCEPT !.at = "return"]
    BY DEF Image, w, f, p, d, a
<1> QED
    BY <1>14, <1>15, <1>16 DEF m

LEMMA JpgSent ==
    ASSUME newest \in Nat, newest > 0, NEW v, Good(v), v.at = "loop", v.kind = "jpg", NEW fails
    PROVE  LET m == FilteredFrame(SizedFrame(Took(v, newest, "got")))
               w == [DropFrame(Part(m, fails)) EXCEPT !.at = "return"]
           IN Good(w) /\ w.kind = v.kind
<1> DEFINE m == FilteredFrame(SizedFrame(Took(v, newest, "got")))
           p == Part(m, fails)
           d == DropFrame(p)
           w == [d EXCEPT !.at = "return"]
           rest == {}
<1>1. /\ Round(m, rest, newest) /\ Writable(m) /\ PartDue(m) /\ SameRequest(v, m)
      /\ m.closed = 0 /\ m.users = 0 /\ m.kind = v.kind
    BY ImageMade
<1>2. rest = {}
    OBVIOUS
<1> HIDE DEF m, rest
<1>3. p \in Contents /\ SentWell(p) /\ SameBuffers(m, p)
    BY <1>1, PartEffect
<1> HIDE DEF p
<1>4. Round(p, rest, newest)
    BY <1>1, <1>3 DEF Round, SameBuffers, SameMemory
<1>5. d \in Contents /\ d.live = rest /\ ~d.fault /\ SameOutput(p, d)
    BY <1>4, DropEffect
<1> HIDE DEF d
<1>6. Moved(d, w) /\ w.at = "return"
    BY <1>5, MoveEffect DEF ContentPlaces
<1> HIDE DEF w
<1>7. SameRequest(m, d) /\ SentWell(d)
    BY <1>3, <1>5 DEF SameBuffers, SameOutput, SameSent, SameRequest, SentWell, MayRepeat
<1>8. /\ w \in Contents /\ ~w.fault /\ SentWell(w) /\ w.live = {} /\ w.users = 0 /\ w.closed = 0
      /\ w.kind = v.kind
    BY <1>1, <1>2, <1>5, <1>6, <1>7 DEF Moved, SameMemory, SameRequest, SentWell, MayRepeat
<1>9. Good(w)
    BY <1>6, <1>8, Finished
<1> QED
    BY <1>8, <1>9 DEF w, d, p, m

LEMMA FileStarts ==
    ASSUME NEW v, Good(v), v.at = "start", v.kind = "file",
           NEW w \in {[Begin(v, "none") EXCEPT !.at = "return"],
                     [v EXCEPT !.at = "return"],
                     [Lost(Alloc(v, OpenedFile)) EXCEPT !.at = "end"],
                     [Begin(Alloc(v, OpenedFile), "none") EXCEPT !.at = "loop"]}
    PROVE  Good(w) /\ w.kind = v.kind
<1> DEFINE a == Alloc(v, OpenedFile)
<1>1. /\ Writable(v) /\ v \in Contents /\ v.live = {} /\ v.prev = NoFrame /\ v.pvf = NoFrame
      /\ v.first /\ v.sent = <<>> /\ v.ts = 0 /\ v.users = 0 /\ v.closed = 0
    BY StartState
<1>2. /\ a \in Contents /\ SameOutput(v, a) /\ a.live = {OpenedFile} /\ ~a.fault
      /\ a.prev = NoFrame /\ a.pvf = NoFrame
    <2>1. OpenedFile \in Buffers /\ OpenedFile \notin v.live /\ ~v.fault
        BY <1>1, Unnamed DEF Writable
    <2>2. /\ a \in Contents /\ SameOutput(v, a) /\ a.live = v.live \cup {OpenedFile} /\ ~a.fault
          /\ a.prev = v.prev /\ a.pvf = v.pvf /\ a.turn = v.turn
        BY <1>1, <2>1, AllocEffect
    <2> HIDE DEF a
    <2> QED
        BY <1>1, <2>2
<1> HIDE DEF a
<1>3. Writable(a) /\ SameRequest(v, a) /\ a.first /\ a.sent = <<>> /\ a.users = 0 /\ a.closed = 0
    BY <1>1, <1>2 DEF Writable, SentWell, MayRepeat, SameOutput, SameSent, SameRequest
<1>4. "return" \in ContentPlaces /\ "end" \in ContentPlaces /\ "loop" \in ContentPlaces
    BY DEF ContentPlaces
<1>5. CASE w = [Begin(v, "none") EXCEPT !.at = "return"]
    <2> DEFINE b == Begin(v, "none")
    <2>1. b \in Contents /\ SentWell(b) /\ SameBuffers(v, b)
        BY <1>1, BeginEffect
    <2> HIDE DEF b
    <2>2. Moved(b, w) /\ w.at = "return"
        BY <1>4, <1>5, <2>1, MoveEffect DEF b
    <2>3. /\ w \in Contents /\ ~w.fault /\ SentWell(w) /\ w.live = {} /\ w.users = 0 /\ w.closed = 0
          /\ w.kind = v.kind
        BY <1>1, <2>1, <2>2
        DEF Moved, SameBuffers, SameMemory, SameRequest, SentWell, MayRepeat, Writable
    <2> QED
        BY <2>2, <2>3, Finished
<1>6. CASE w = [v EXCEPT !.at = "return"]
    <2>1. Moved(v, w) /\ w.at = "return"
        BY <1>1, <1>4, <1>6, MoveEffect
    <2>2. /\ w \in Contents /\ ~w.fault /\ SentWell(w) /\ w.live = {} /\ w.users = 0 /\ w.closed = 0
          /\ w.kind = v.kind
        BY <1>1, <2>1 DEF Moved, SameMemory, SameRequest, SentWell, MayRepeat, Writable
    <2> QED
        BY <2>1, <2>2, Finished
<1>7. CASE w = [Lost(a) EXCEPT !.at = "end"]
    <2> DEFINE l == Lost(a)
    <2>1. l \in Contents /\ SentWell(l) /\ SameBuffers(a, l)
        BY <1>3, LostEffect
    <2> HIDE DEF l
    <2>2. Moved(l, w) /\ w.at = "end"
        BY <1>4, <1>7, <2>1, MoveEffect DEF l
    <2>3. /\ w \in Contents /\ ~w.fault /\ SentWell(w) /\ w.live = {OpenedFile} /\ w.users = 0
          /\ w.closed = 0 /\ w.kind = "file" /\ w.prev = NoFrame /\ w.pvf = NoFrame
        BY <1>2, <1>3, <2>1, <2>2
        DEF Moved, SameBuffers, SameMemory, SameRequest, SentWell, MayRepeat, Writable
    <2>4. Memory(w) /\ Output(w) /\ Closings(w)
        BY <2>2, <2>3 DEF Memory, Output, Closings, LastsWith
    <2> QED
        BY <2>3, <2>4 DEF Good
<1>8. CASE w = [Begin(a, "none") EXCEPT !.at = "loop"]
    <2> DEFINE b == Begin(a, "none")
    <2>1. b \in Contents /\ Writable(b) /\ SameBuffers(a, b) /\ b.sent = <<Headers>>
        BY <1>3, BeginEffect
    <2> HIDE DEF b
    <2>2. Moved(b, w) /\ w.at = "loop"
        BY <1>4, <1>8, <2>1, MoveEffect DEF b
    <2>3. /\ w \in Contents /\ ~w.fault /\ ~w.broken /\ SentWell(w) /\ w.live = {OpenedFile}
          /\ w.users = 0 /\ w.closed = 0 /\ w.kind = "file" /\ w.prev = NoFrame /\ w.pvf = NoFrame
          /\ w.sent = <<Headers>>
        BY <1>2, <1>3, <2>1, <2>2
        DEF Moved, SameBuffers, SameMemory, SameRequest, SentWell, MayRepeat, Writable
    <2>4. Good(w)
        BY <2>2, <2>3, Started DEF LastsWith
    <2> QED
        BY <2>3, <2>4
<1> QED
    BY <1>5, <1>6, <1>7, <1>8 DEF a

LEMMA BlockSent ==
    ASSUME NEW v, Good(v), v.at = "loop", v.kind = "file", NEW fails
    PROVE  LET w == Part(Look([v EXCEPT !.ts = @ + 1], OpenedFile), fails)
           IN Good(w) /\ w.kind = v.kind
<1> DEFINE ts == v.ts + 1
           r == [v EXCEPT !.ts = ts]
           l == Look(r, OpenedFile)
           w == Part(l, fails)
<1>1. /\ Writable(v) /\ v \in Contents /\ v.prev = NoFrame /\ v.pvf = NoFrame
      /\ v.live = {OpenedFile} /\ v.closed = 0 /\ v.users = 0
      /\ Len(v.sent) > 1 => v.sent[Len(v.sent)] = v.ts
      /\ ~v.first /\ ~v.fault /\ v.ts \in Nat
    BY PlainState DEF ContentKinds, KeepingKinds, LastsWith, Writable, Contents
<1>2. ts \in Nat /\ ts > v.ts
    BY <1>1
<1>3. w = Part(Look([v EXCEPT !.ts = @ + 1], OpenedFile), fails)
    BY <1>1 DEF Contents
<1>4. /\ r \in Contents /\ SameMemory(v, r) /\ SameRequest(v, r) /\ r.ts = ts /\ SameSent(v, r)
    BY <1>1, <1>2 DEF Contents, SameMemory, SameRequest, SameSent
<1> HIDE DEF r
<1>5. OpenedFile \in r.live /\ ~r.fault
    BY <1>1, <1>4 DEF SameMemory
<1>6. l \in Contents /\ SameOutput(r, l) /\ SameMemory(r, l)
    BY <1>4, <1>5, LookEffect
<1> HIDE DEF l
<1>7. /\ SameMemory(v, l) /\ SameRequest(v, l) /\ l.ts = ts /\ SameSent(v, l)
    BY <1>4, <1>6 DEF SameOutput, SameSent, SameRequest, SameMemory
<1> HIDE DEF ts
<1>8. Writable(l)
    BY <1>1, <1>6, <1>7 DEF Writable, SentWell, MayRepeat, SameSent, SameRequest, SameMemory
<1>9. PartDue(l)
    BY <1>1, <1>2, <1>7 DEF PartDue, SameSent
<1>10. /\ w \in Contents /\ SentWell(w) /\ SameBuffers(l, w) /\ ~w.first
       /\ fails \in {"part", "picture"} => w.at = "end" /\ w.broken /\ w.sent = l.sent
       /\ fails \notin {"part", "picture"} =>
             /\ w.at = l.at /\ ~w.broken
             /\ Len(w.sent) = Len(l.sent) + 1 /\ w.sent[Len(w.sent)] = l.ts
    BY <1>8, <1>9, PartEffect
<1> HIDE DEF w
<1>11. /\ ~w.fault /\ w.prev = NoFrame /\ w.pvf = NoFrame /\ w.live = {OpenedFile}
       /\ w.users = 0 /\ w.closed = 0 /\ w.kind = "file" /\ w.at \in {"loop", "end"}
       /\ w.ts = l.ts
    BY <1>1, <1>7, <1>10 DEF SameBuffers, SameMemory, SameRequest, SameSent
<1>12. Memory(w) /\ Closings(w)
    BY <1>11 DEF Memory, Closings, LastsWith
<1>13. Output(w)
    BY <1>7, <1>10, <1>11 DEF Output, SameSent
<1> QED
    BY <1>3, <1>10, <1>11, <1>12, <1>13 DEF Good

LEMMA FileEnds ==
    ASSUME NEW v, Good(v), v.kind = "file", v.at \in {"loop", "end"}
    PROVE  LET w == [FreeOf(v, OpenedFile) EXCEPT !.at = "return"]
           IN Good(w) /\ w.kind = v.kind
<1> DEFINE f == FreeOf(v, OpenedFile)
           w == [f EXCEPT !.at = "return"]
<1>1. /\ v \in Contents /\ v.live = {OpenedFile} /\ ~v.fault /\ SentWell(v) /\ v.users = 0
      /\ v.closed = 0
    BY DEF Good, Memory, Output, Closings, LastsWith, KeepingKinds
<1>2. OpenedFile \in v.live /\ NoFrame \notin v.live
    BY <1>1 DEF OpenedFile, NoFrame
<1>3. f \in Contents /\ SameOutput(v, f) /\ f.live = v.live \ {OpenedFile} /\ ~f.fault
    BY <1>1, <1>2, FreeEffect
<1> HIDE DEF f
<1>4. Moved(f, w) /\ w.at = "return"
    BY <1>3, MoveEffect DEF ContentPlaces
<1> HIDE DEF w
<1>5. SameRequest(v, f) /\ f.sent = v.sent /\ f.first = v.first /\ f.live = {}
    BY <1>1, <1>3 DEF SameOutput, SameSent
<1>6. /\ w \in Contents /\ ~w.fault /\ SentWell(w) /\ w.live = {} /\ w.users = 0 /\ w.closed = 0
      /\ w.kind = v.kind
    BY <1>1, <1>3, <1>4, <1>5 DEF Moved, SameMemory, SameRequest, SentWell, MayRepeat
<1>7. Good(w)
    BY <1>4, <1>6, Finished
<1> QED
    BY <1>6, <1>7 DEF w, f

LEMMA DashboardStarts ==
    ASSUME NEW v, Good(v), v.at = "start", v.kind = "fs-db",
           NEW w \in {[v EXCEPT !.at = "return"], [v EXCEPT !.at = "loop", !.users = @ + 1]}
    PROVE  Good(w) /\ w.kind = v.kind /\ w.ts = v.ts
<1>1. /\ Writable(v) /\ v \in Contents /\ v.live = {} /\ v.prev = NoFrame /\ v.pvf = NoFrame
      /\ v.first /\ v.sent = <<>> /\ v.ts = 0 /\ v.users = 0 /\ v.closed = 0
    BY StartState
<1>2. "return" \in ContentPlaces /\ "loop" \in ContentPlaces
    BY DEF ContentPlaces
<1>3. CASE w = [v EXCEPT !.at = "return"]
    <2>1. Moved(v, w) /\ w.at = "return"
        BY <1>1, <1>2, <1>3, MoveEffect
    <2>2. /\ w \in Contents /\ ~w.fault /\ SentWell(w) /\ w.live = {} /\ w.users = 0 /\ w.closed = 0
          /\ w.kind = v.kind /\ w.ts = v.ts
        BY <1>1, <2>1 DEF Moved, SameMemory, SameRequest, SentWell, MayRepeat, Writable
    <2> QED
        BY <2>1, <2>2, Finished
<1>4. CASE w = [v EXCEPT !.at = "loop", !.users = @ + 1]
    <2>1. w = [v EXCEPT !.at = "loop", !.users = 1]
        <3>1. v.users + 1 = 1
            BY <1>1
        <3> QED
            BY <1>1, <1>4, <3>1 DEF Contents
    <2>2. /\ w \in Contents /\ w.at = "loop" /\ w.users = 1 /\ SameMemory(v, w) /\ w.kind = v.kind
          /\ w.filtered = v.filtered /\ w.sized = v.sized /\ w.closed = v.closed /\ w.ts = v.ts
          /\ w.first = v.first /\ w.sent = v.sent /\ w.broken = v.broken
        <3>1. 1 \in Int
            OBVIOUS
        <3> QED
            BY <1>1, <1>2, <2>1, <3>1 DEF Contents, SameMemory
    <2>3. /\ ~w.fault /\ ~w.broken /\ SentWell(w) /\ w.prev = NoFrame /\ w.pvf = NoFrame
          /\ w.live = LastsWith(w) /\ w.closed = 0 /\ w.sent = <<>> /\ w.kind = "fs-db"
        BY <1>1, <2>2 DEF Writable, SentWell, MayRepeat, SameMemory, LastsWith
    <2>4. Good(w)
        BY <2>2, <2>3, Started
    <2> QED
        BY <2>2, <2>4
<1> QED
    BY <1>3, <1>4

LEMMA DashboardSent ==
    ASSUME NEW n \in Nat, n > 0, NEW v, Good(v), v.at = "loop", v.kind = "fs-db", v.ts <= n,
           NEW fails
    PROVE  LET b == Begin(Took(v, n, "got"), fails)
               w == DropFrame(IF b.at = "end" THEN b ELSE Part(b, fails))
           IN Good(w) /\ w.kind = v.kind /\ w.ts = n
<1> DEFINE t == Took(v, n, "got")
           rest == v.live
<1>1. /\ Writable(v) /\ v \in Contents /\ v.live = {} /\ ~v.fault /\ v.prev = NoFrame
      /\ v.closed = 0 /\ v.users = 1 /\ (Len(v.sent) > 1 => v.sent[Len(v.sent)] = v.ts)
    BY PlainState DEF ContentKinds, KeepingKinds, LastsWith, Writable
<1>2. /\ v.ts \in Nat
      /\ "got" \in FrameHows /\ NoFrame \notin v.live /\ \A b \in v.live : ~IsFrame(b, v.turn)
    BY <1>1 DEF FrameHows, Contents
<1>3. /\ Round(t, rest, n) /\ t.pvf[2] = "got" /\ SameTurn(v, t)
      /\ SameRequest(v, t) /\ SameSent(v, t) /\ t.ts = n
    <2>1. v \in Contents /\ ~v.fault /\ "got" \in FrameHows
        BY <1>1, <1>2
    <2>2. NoFrame \notin v.live /\ \A b \in v.live : ~IsFrame(b, v.turn)
        BY <1>2
    <2> QED
        BY <2>1, <2>2, TookEffect
<1> HIDE DEF t
<1> DEFINE b == Begin(t, fails)
           p == IF b.at = "end" THEN b ELSE Part(b, fails)
           w == DropFrame(p)
<1>4. Writable(t)
    BY <1>1, <1>3 DEF Round, Writable, SentWell, MayRepeat, SameSent, SameRequest
<1>5. /\ b \in Contents /\ SentWell(b) /\ SameBuffers(t, b)
      /\ fails = "headers" => b.at = "end" /\ b.broken /\ b.sent = t.sent
      /\ fails # "headers" =>
            /\ b.at = t.at /\ Writable(b) /\ ~b.first
            /\ b.sent = IF t.first THEN <<Headers>> ELSE t.sent
    BY <1>4, BeginEffect
<1> HIDE DEF b
<1>6. Round(b, rest, n) /\ SameTurn(v, b) /\ SameRequest(v, b) /\ b.ts = n
    BY <1>3, <1>5 DEF Round, SameBuffers, SameMemory, SameTurn, SameRequest
<1>7. /\ p \in Contents /\ SentWell(p) /\ Round(p, rest, n) /\ SameTurn(v, p) /\ SameRequest(v, p)
      /\ p.ts = n /\ p.at \in {"loop", "end"}
      /\ p.at = "loop" => ~p.broken /\ p.sent[Len(p.sent)] = n
    <2>1. CASE b.at = "end"
        BY <1>5, <1>6, <2>1
    <2>2. CASE b.at # "end"
        <3>1. Writable(b) /\ ~b.first /\ b.at = "loop" /\ (b.sent = v.sent \/ b.sent = <<Headers>>)
            BY <1>3, <1>5, <2>2 DEF SameSent
        <3>2. PartDue(b)
            <4>1. MayRepeat(b)
                BY <1>6 DEF SameRequest, MayRepeat
            <4>2. CASE b.sent = v.sent
                <5>1. Len(b.sent) > 1 => b.sent[Len(b.sent)] = v.ts
                    BY <1>1, <4>2
                <5> QED
                    BY <1>2, <1>6, <3>1, <4>1, <5>1 DEF PartDue
            <4>3. CASE b.sent = <<Headers>>
                <5>1. ~(Len(b.sent) > 1)
                    BY <4>3, HeadersFirst
                <5> QED
                    BY <1>2, <1>6, <3>1, <5>1 DEF PartDue
            <4> QED
                BY <3>1, <4>2, <4>3
        <3> DEFINE e == Part(b, fails)
        <3>3. /\ e \in Contents /\ SentWell(e) /\ SameBuffers(b, e) /\ ~e.first
              /\ fails \in {"part", "picture"} => e.at = "end" /\ e.broken /\ e.sent = b.sent
              /\ fails \notin {"part", "picture"} =>
                    /\ e.at = b.at /\ ~e.broken
                    /\ Len(e.sent) = Len(b.sent) + 1 /\ e.sent[Len(e.sent)] = b.ts
            BY <3>1, <3>2, PartEffect
        <3>4. p = e
            BY <2>2
        <3> HIDE DEF e, p
        <3>5. Round(e, rest, n) /\ SameTurn(v, e) /\ SameRequest(v, e) /\ e.ts = n
            BY <1>6, <3>3 DEF Round, SameBuffers, SameMemory, SameTurn, SameRequest
        <3> QED
            BY <1>6, <3>1, <3>3, <3>4, <3>5
    <2> QED
        BY <2>1, <2>2
<1> HIDE DEF p
<1>8. /\ w \in Contents /\ w.live = rest /\ ~w.fault /\ w.pvf = NoFrame
      /\ SameTurn(p, w) /\ SameOutput(p, w)
    BY <1>7, DropEffect
<1> HIDE DEF w
<1>9. /\ w.kind = "fs-db" /\ w.users = 1 /\ w.closed = 0 /\ w.prev = NoFrame /\ w.ts = n
      /\ w.live = {} /\ w.at = p.at /\ w.sent = p.sent /\ w.broken = p.broken /\ w.first = p.first
    BY <1>1, <1>7, <1>8 DEF SameOutput, SameSent, SameRequest, SameTurn
<1>10. SentWell(w)
    BY <1>7, <1>8 DEF SentWell, MayRepeat, SameOutput, SameSent, SameRequest
<1>11. Memory(w) /\ Closings(w)
    BY <1>7, <1>8, <1>9 DEF Memory, Closings, LastsWith
<1>12. Output(w)
    BY <1>7, <1>9, <1>10 DEF Output
<1> QED
    BY <1>8, <1>9, <1>11, <1>12 DEF Good, w, p, b, t

LEMMA DashboardEnds ==
    ASSUME NEW v, Good(v), v.at = "end", v.kind = "fs-db"
    PROVE  LET w == [v EXCEPT !.at = "return", !.users = @ - 1]
           IN Good(w) /\ w.kind = v.kind /\ w.ts = v.ts
<1> DEFINE w == [v EXCEPT !.at = "return", !.users = @ - 1]
<1>1. /\ v \in Contents /\ v.live = {} /\ ~v.fault /\ SentWell(v) /\ v.users = 1 /\ v.closed = 0
    BY DEF Good, Memory, Output, Closings, LastsWith, KeepingKinds
<1>2. w = [v EXCEPT !.at = "return", !.users = 0]
    <2>1. v.users - 1 = 0
        BY <1>1
    <2> QED
        BY <1>1, <2>1 DEF Contents
<1> HIDE DEF w
<1>3. "return" \in ContentPlaces /\ 0 \in Int
    BY DEF ContentPlaces
<1>4. /\ w \in Contents /\ w.at = "return" /\ w.users = 0 /\ w.live = v.live /\ w.fault = v.fault
      /\ w.kind = v.kind /\ w.filtered = v.filtered /\ w.sized = v.sized /\ w.closed = v.closed
      /\ w.ts = v.ts /\ w.first = v.first /\ w.sent = v.sent
    BY <1>1, <1>2, <1>3 DEF Contents
<1>5. SentWell(w)
    BY <1>1, <1>4 DEF SentWell, MayRepeat
<1>6. Good(w)
    BY <1>1, <1>4, <1>5, Finished
<1> QED
    BY <1>4, <1>6 DEF w

LEMMA CloseAfter ==
    ASSUME NEW v, Good(v), v.at = "return"
    PROVE  LET w == [Closed(v) EXCEPT !.at = "closed"]
           IN Good(w) /\ w.kind = v.kind /\ w.ts = v.ts
<1> DEFINE closed == v.closed + 1
           w == [Closed(v) EXCEPT !.at = "closed"]
<1>1. /\ v \in Contents /\ v.live = {} /\ ~v.fault /\ SentWell(v) /\ v.users = 0
      /\ v.closed = 0 \/ (v.closed = 1 /\ HeadersOnly(v))
    BY DEF Good, Memory, Output, Closings
<1>2. closed \in Nat /\ (closed = 1 \/ (closed = 2 /\ HeadersOnly(v))) /\ "closed" \in ContentPlaces
    BY <1>1 DEF ContentPlaces
<1>3. w = [v EXCEPT !.closed = closed, !.at = "closed"]
    BY <1>1 DEF Closed, Contents
<1> HIDE DEF w, closed
<1>4. /\ w \in Contents /\ w.at = "closed" /\ w.users = v.users /\ w.live = v.live
      /\ w.fault = v.fault /\ w.kind = v.kind /\ w.filtered = v.filtered /\ w.sized = v.sized
      /\ w.closed = closed /\ w.get = v.get /\ w.broken = v.broken
      /\ w.ts = v.ts /\ w.first = v.first /\ w.sent = v.sent
    BY <1>1, <1>2, <1>3 DEF Contents
<1>5. SentWell(w) /\ (HeadersOnly(v) => HeadersOnly(w))
    BY <1>1, <1>4 DEF SentWell, MayRepeat, HeadersOnly
<1>6. Memory(w) /\ Output(w) /\ Closings(w)
    BY <1>1, <1>2, <1>4, <1>5 DEF Memory, Output, Closings
<1> QED
    BY <1>4, <1>6 DEF Good, w

-----------------------------------------------------------------------------

\* From the first state on, in every step.
LEMMA StreamInitially ==
    ASSUME StreamInit
    PROVE  StreamInv
<1> USE StreamAssumption
<1>1. PICK kind \in StreamKinds, get \in BOOLEAN, filtered \in BOOLEAN, sized \in BOOLEAN,
           fps \in {"negative", "zero", "positive"} :
          content = [kind |-> kind, get |-> get, filtered |-> filtered, sized |-> sized,
                     fps |-> fps, at |-> "start", first |-> TRUE, prev |-> NoFrame,
                     pvf |-> NoFrame, ts |-> 0, live |-> {}, fault |-> FALSE, sent |-> <<>>,
                     broken |-> FALSE, users |-> 0, closed |-> 0, turn |-> 0]
    BY DEF StreamInit
<1>2. kind \in ContentKinds
    BY DEF ContentKinds, KeepingKinds
<1>3. content \in Contents
    <2>1. <<>> \in Seq(Nat) /\ {} \in SUBSET Buffers /\ "start" \in ContentPlaces
        BY EmptySeq DEF ContentPlaces
    <2> QED
        BY <1>1, <1>2, <2>1, Unnamed DEF Contents
<1>4. content.ts = 0 /\ newest = 0 /\ content.sent = <<>> /\ content.first /\ content.at = "start"
    BY <1>1 DEF StreamInit
<1>5. SentWell(content)
    <2>1. InOrder(<<>>, MayRepeat(content))
        BY EmptySeq DEF InOrder
    <2> QED
        BY <1>4, <2>1 DEF SentWell
<1>6. Output(content)
    BY <1>1, <1>4, <1>5 DEF Output
<1>7. Memory(content) /\ Closings(content)
    BY <1>1 DEF Memory, Closings
<1> QED
    BY <1>3, <1>4, <1>6, <1>7 DEF StreamInv


PngSentOf(v, m, fails) ==
    LET b == Begin(Keep(Alloc(m, PngMemory)), fails)
        p == IF b.at = "end" THEN b
             ELSE IF v.first /\ ~v.get THEN End(b)
             ELSE Part(b, fails)
    IN FreeOf(p, PngMemory)

LEMMA StreamStep ==
    ASSUME StreamInv, StreamNext
    PROVE  StreamInv'
<1> DEFINE Kept == Good(content') /\ content'.kind = content.kind /\ newest' = newest
<1>0. Good(content) /\ newest \in Nat /\ (content.kind = "fs-db" => content.ts <= newest + 1)
    BY DEF StreamInv, Good
<1>1. SUFFICES \/ Kept /\ content.kind # "fs-db"
               \/ Kept /\ content'.ts <= newest + 1
               \/ content' = content /\ newest' = newest + 1
    <2>1. CASE Kept
        BY <1>0, <2>1 DEF StreamInv, Good
    <2>2. CASE content' = content /\ newest' = newest + 1
        <3>1. newest' \in Nat
            BY <1>0, <2>2
        <3>2. content'.kind = "fs-db" => content'.ts <= newest' + 1
            <4>1. content.ts \in Nat
                BY <1>0 DEF Good, Contents
            <4> QED
                BY <1>0, <2>2, <4>1
        <3>3. content' \in Contents /\ Memory(content') /\ Output(content') /\ Closings(content')
            BY <1>0, <2>2 DEF Good
        <3> QED
            BY <3>1, <3>2, <3>3 DEF StreamInv
    <2> QED
        BY <2>1, <2>2
<1>2. CASE MjpegStart
    BY <1>0, <1>2, NothingStarts DEF MjpegStart, Starting
<1>3. CASE MjpegFrame
    <2>1. PICK u \in Newer(content), fails \in Writes :
             LET b == Begin(u, fails)
             IN content' = IF b.at = "end" THEN DropFrame(b)
                           ELSE IF content.first /\ ~content.get THEN End(DropFrame(b))
                           ELSE IF ~content.filtered /\ ~content.sized THEN MjpegPlain(b, fails)
                           ELSE MjpegMade(b, fails)
        BY <1>3 DEF MjpegFrame
    <2>2. content.at = "loop" /\ content.kind = "mjpeg" /\ newest' = newest
        BY <1>3 DEF MjpegFrame, Going
    <2>3. Good(content') /\ SameRequest(content, content')
        BY <1>0, <2>1, <2>2, MjpegKeeps
    <2> QED
        BY <2>2, <2>3 DEF SameRequest
<1>4. CASE MpngFrame
    <2>1. content.at = "loop" /\ content.kind = "mpng" /\ newest' = newest
        BY <1>4 DEF MpngFrame, Going
    <2>2. PICK u \in Newer(content) :
             \/ content' = End(DropFrame(FilteredFrame(SizedFrame(u))))
             \/ \E fails \in Writes :
                  content' = PngSentOf(content, FilteredFrame(SizedFrame(u)), fails)
        BY <1>4 DEF MpngFrame, PngSentOf
    <2> DEFINE m == FilteredFrame(SizedFrame(u))
    <2>3. CASE content' = End(DropFrame(m))
        <3>1. Good(content') /\ SameRequest(content, content')
            BY <1>0, <2>1, <2>3, MpngKeeps
        <3> QED
            BY <2>1, <3>1 DEF SameRequest
    <2>4. ASSUME NEW fails \in Writes, content' = PngSentOf(content, m, fails)
          PROVE  Kept
        <3>1. Good(content') /\ SameRequest(content, content')
            BY <1>0, <2>1, <2>4, MpngKeeps DEF PngSentOf
        <3> QED
            BY <2>1, <3>1 DEF SameRequest
    <2> QED
        BY <2>1, <2>2, <2>3, <2>4
<1>5. CASE TheoraStart
    BY <1>0, <1>5, TheoraStarts DEF TheoraStart, Starting
<1>6. CASE TheoraFrame
    <2>1. content.at = "loop" /\ content.kind = "theora" /\ newest' = newest
        BY <1>6 DEF TheoraFrame, Going
    <2>2. PICK u \in Newer(content), fails \in {"picture", "none"} :
             content' = Part(Look(Keep(FilteredFrame(SizedFrame(u))), Encoder), fails)
        BY <1>6 DEF TheoraFrame
    <2>3. Good(content') /\ SameRequest(content, content')
        BY <1>0, <2>1, <2>2, TheoraKeeps
    <2> QED
        BY <2>1, <2>3 DEF SameRequest
<1>7. CASE StreamTimeUp
    <2>1. content.at = "loop" /\ content.kind \in {"mjpeg", "mpng", "theora", "fs-db"}
          /\ content' = End(content) /\ newest' = newest
        BY <1>7 DEF StreamTimeUp
    <2>2. Kept /\ content'.ts = content.ts
        BY <1>0, <2>1, TimeIsUp
    <2> QED
        BY <1>0, <2>2
<1>8. CASE StreamEnd
    <2>1. content.at = "end" /\ content.kind \in KeepingKinds /\ newest' = newest
        BY <1>8 DEF StreamEnd, KeepingKinds
    <2>2. Kept
        BY <1>0, <1>8, <2>1, StreamEnds DEF StreamEnd
    <2> QED
        BY <2>1, <2>2 DEF KeepingKinds
<1>9. CASE ImageStart
    BY <1>0, <1>9, ImageStarts DEF ImageStart, Starting
<1>10. CASE ImageNone
    BY <1>0, <1>10, NoImage DEF ImageNone, Going
<1>11. CASE PngImage
    BY <1>0, <1>11, PngSent DEF PngImage, Going
<1>12. CASE JpgImage
    BY <1>0, <1>12, JpgSent DEF JpgImage, Going
<1>13. CASE FileStart
    BY <1>0, <1>13, FileStarts DEF FileStart, Starting
<1>14. CASE FileBlock
    BY <1>0, <1>14, BlockSent DEF FileBlock, Going
<1>15. CASE FileEnd
    BY <1>0, <1>15, FileEnds DEF FileEnd
<1>16. CASE FsDbStart
    <2>1. content.at = "start" /\ content.kind = "fs-db" /\ newest' = newest
          /\ content' \in {[content EXCEPT !.at = "return"],
                          [content EXCEPT !.at = "loop", !.users = @ + 1]}
        BY <1>16 DEF FsDbStart, Starting
    <2>2. Kept /\ content'.ts = content.ts
        BY <1>0, <2>1, DashboardStarts
    <2> QED
        BY <1>0, <2>1, <2>2
<1>17. CASE FsDbFrame
    <2> DEFINE n == newest + 1
    <2>1. content.at = "loop" /\ content.kind = "fs-db" /\ newest' = newest
        BY <1>17 DEF FsDbFrame, Going
    <2>2. PICK fails \in Writes :
             LET b == Begin(Took(content, n, "got"), fails)
             IN content' = DropFrame(IF b.at = "end" THEN b ELSE Part(b, fails))
        BY <1>17 DEF FsDbFrame
    <2>3. n \in Nat /\ n > 0 /\ content.ts <= n
        BY <1>0, <2>1
    <2> HIDE DEF n
    <2>4. Good(content') /\ content'.kind = content.kind /\ content'.ts = n
        BY <1>0, <2>1, <2>2, <2>3, DashboardSent
    <2>5. content'.ts <= n
        BY <2>3, <2>4
    <2> QED
        BY <2>1, <2>4, <2>5 DEF n
<1>18. CASE FsDbEnd
    <2>1. content.at = "end" /\ content.kind = "fs-db" /\ newest' = newest
          /\ content' = [content EXCEPT !.at = "return", !.users = @ - 1]
        BY <1>18 DEF FsDbEnd
    <2>2. Kept /\ content'.ts = content.ts
        BY <1>0, <2>1, DashboardEnds
    <2> QED
        BY <1>0, <2>1, <2>2
<1>19. CASE StreamClosed
    <2>1. content.at = "return" /\ newest' = newest
          /\ content' = [Closed(content) EXCEPT !.at = "closed"]
        BY <1>19 DEF StreamClosed
    <2>2. Kept /\ content'.ts = content.ts
        BY <1>0, <2>1, CloseAfter
    <2> QED
        BY <1>0, <2>2
<1>20. CASE StreamCamera
    BY <1>20 DEF StreamCamera
<1> QED
    BY <1>2, <1>3, <1>4, <1>5, <1>6, <1>7, <1>8, <1>9, <1>10, <1>11, <1>12, <1>13, <1>14, <1>15,
       <1>16, <1>17, <1>18, <1>19, <1>20 DEF StreamNext

\* Whatever write fails: what is allocated is given back, once, the parts are in
\* their order, and the connection is closed once (send_mjpeg_stream() and the
\* others).
THEOREM StreamInvHolds == StreamSpec => []StreamInv
<1>1. StreamInv /\ UNCHANGED streamVars => StreamInv'
    BY DEF StreamInv, Memory, Output, Closings, streamVars, Contents, SentWell, InOrder, MayRepeat,
           LastsWith, HeadersOnly
<1> QED
    BY <1>1, StreamInitially, StreamStep, PTL DEF StreamSpec

THEOREM StreamSoundHolds == StreamSpec => []StreamSound
<1>1. StreamInv => StreamSound
    <2> SUFFICES ASSUME StreamInv PROVE StreamSound
        OBVIOUS
    <2>1. StreamMemory
        BY DEF StreamInv, StreamMemory, Memory
    <2>2. StreamOrder
        <3>1. SentWell(content)
            BY DEF StreamInv, Output
        <3>2. content.sent \in Seq(Nat)
            BY DEF StreamInv, Contents
        <3> QED
            BY <3>1 DEF StreamOrder, SentWell, InOrder, MayRepeat
    <2>3. ClosedOnce
        <3>1. content.at \in ContentPlaces /\ content.closed \in Nat
            BY DEF StreamInv, Contents
        <3> QED
            BY <3>1 DEF StreamInv, ClosedOnce, Closings, HeadersOnly, ContentPlaces
    <2> QED
        BY <2>1, <2>2, <2>3 DEF StreamSound
<1> QED
    BY <1>1, StreamInvHolds, PTL
=============================================================================
