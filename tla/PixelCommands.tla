--------------------------- MODULE PixelCommands ----------------------------
(***************************************************************************)
(* A client of the pixelflood source: commands, one per line, that come in *)
(* through a TCP connection in pieces of any size, and the buffer in which *)
(* tcp_receive_thread() puts the lines together again.                     *)
(* Source: source_pixelflood.cpp.                                          *)
(*                                                                         *)
(* A command is a row of symbols, each marked with the number of the       *)
(* command; what it does to the picture is left out.  Commands are of      *)
(* different lengths.                                                      *)
(***************************************************************************)
EXTENDS Integers, Sequences, FiniteSets

CONSTANTS
    PxCommands,   \* how many commands the client sends
    PxClients,    \* what a client may send: after how many symbols each of its lines ends
    PxBuffer      \* size of the buffer: 4096 in the code

\* No line is empty, and each fits into the buffer.
ASSUME PxAssumption ==
    /\ PxCommands \in Nat /\ PxBuffer \in Nat \ {0}
    /\ \A ends \in PxClients :
          /\ ends \in [0 .. PxCommands -> Nat] /\ ends[0] = 0
          /\ \A k \in 1 .. PxCommands : ends[k] - ends[k - 1] \in 2 .. PxBuffer - 1

VARIABLE px     \* the thread

pxVars == <<px>>

Newline == <<0, 0>>
Nul == <<0, 1>>

\* Symbol i of all that a client sends.
PxSent(ends, i) ==
    LET k == CHOOSE k \in 1 .. PxCommands : ends[k - 1] < i /\ i <= ends[k]
    IN IF i = ends[k] THEN Newline ELSE <<k, i - ends[k - 1]>>

\* got: how much was received.  done: what was executed, with whether it was a
\* whole command.  split: a line was followed by another one in a piece that
\* began in the middle of a line.
PxInit ==
    \E ends \in PxClients :
       px = [at |-> "read", buffer |-> [i \in 0 .. PxBuffer - 1 |-> Nul], o |-> 0, old_o |-> 0,
             sends |-> ends, got |-> 0, done |-> <<>>, split |-> FALSE]

\* read(): a piece, followed by a 0.  When the buffer is full nothing can be
\* read, which looks like the end of the connection.
PxRead ==
    /\ px.at = "read"
    /\ IF px.o = PxBuffer - 1
       THEN px' = [px EXCEPT !.at = "closed"]
       ELSE \E n \in 1 .. PxBuffer - 1 - px.o :
              /\ px.got + n <= px.sends[PxCommands]
              /\ px' = [px EXCEPT
                   !.buffer = [i \in DOMAIN @ |->
                                 IF i \in px.o .. px.o + n - 1
                                 THEN PxSent(px.sends, px.got + i - px.o + 1)
                                 ELSE IF i = px.o + n THEN Nul ELSE @[i]],
                   !.old_o = px.o, !.o = @ + n, !.got = @ + n, !.at = "scan"]

\* strchr(): from position i to the next 0.
LineEnds(b, i) ==
    {j \in DOMAIN b : j >= i /\ b[j] = Newline /\ \A k \in i .. j - 1 : b[k] # Nul}
FirstOf(S) == CHOOSE i \in S : \A j \in S : i <= j

\* handle_command(): the command at the start of the buffer, up to its end or a 0.
\* What does not start as a command is refused.
Starts(b) == b[0] \notin {Nul, Newline} /\ b[0][2] = 1
HandleCommand(b) ==
    LET k == b[0][1]
    IN <<k, \A j \in 1 .. px.sends[k] - px.sends[k - 1] - 1 : b[j - 1] = <<k, j>> >>

\* memmove(): what follows the line goes to the start of the buffer.
LineNotCut(b, lf, left) == [i \in DOMAIN b |-> IF i < left THEN b[i + lf] ELSE b[i]]
LineCut(b, lf, left) == [i \in DOMAIN b |-> IF i < left THEN b[i + lf + 1] ELSE b[i]]

\* One line.  The search begins where the piece did, also after the buffer was
\* moved: a line that ends before that is not seen, and behind the end of what
\* came in a line of before may be found.
PxLine ==
    /\ px.at = "scan"
    /\ LET ends == LineEnds(px.buffer, px.old_o)
           lf == FirstOf(ends)
           b == [px.buffer EXCEPT ![lf] = Nul]
           left == px.o - (lf + 1)
           p == [px EXCEPT !.done = Append(@, HandleCommand(b)), !.buffer = b]
       IN IF ends = {} THEN px' = [px EXCEPT !.at = "read"]
          ELSE IF ~Starts(b) THEN px' = [px EXCEPT !.at = "closed"]
          ELSE IF left = 0 THEN px' = [p EXCEPT !.o = 0, !.at = "read"]
          ELSE IF left < 0 THEN px' = [p EXCEPT !.at = "closed"]
          ELSE px' = [p EXCEPT !.buffer = [LineCut(b, lf, left) EXCEPT ![left] = Nul],
                               !.o = left, !.split = @ \/ px.old_o > 0]

\* The client closes the connection, or the source stops.
PxClose ==
    /\ px.at = "read"
    /\ px' = [px EXCEPT !.at = "closed"]

PxNext == PxRead \/ PxLine \/ PxClose

PxSpec == PxInit /\ [][PxNext]_pxVars

-----------------------------------------------------------------------------
(* Properties.                                                             *)

\* Lines that came in as a whole.
PxLines == Cardinality({k \in 1 .. PxCommands : px.sends[k] <= px.got})

\* Commands are executed in the order in which they were sent, none twice, and each
\* with all of its symbols and with none of what is left in the buffer of a line of
\* before.  As long as no piece that begins in the middle of a line brings the end of
\* that line and more, each line that came in is executed as soon as it is there.
\* After such a piece lines are skipped.
PxInOrder ==
    /\ \A i, j \in DOMAIN px.done : i < j => px.done[i][1] < px.done[j][1]
    /\ \A i \in DOMAIN px.done : px.done[i][2]
    /\ ~px.split => /\ \A i \in DOMAIN px.done : px.done[i][1] = i
                    /\ px.at = "read" => Len(px.done) = PxLines
=============================================================================
