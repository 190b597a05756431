----------------------------- MODULE HttpStreams ------------------------------
(***************************************************************************)
(* What the HTTP server sends of a source: streams of JPEG, PNG or Theora  *)
(* frames, a single picture, a stored file, the full screen dashboard.     *)
(* Source: http_server_content.cpp, http_content_theora.cpp.               *)
(*                                                                         *)
(* The thread of a connection has its own frames, so that a round of a     *)
(* loop is one step; each WRITE_SSL() may fail.  A buffer is a frame       *)
(* number, how the buffer was made, and in which turn: turns alternate, so *)
(* that the previous frame is another buffer than the one at hand.         *)
(***************************************************************************)
EXTENDS Integers, Sequences, FiniteSets

CONSTANTS
    StreamKinds,       \* of "mjpeg", "mpng", "theora", "png", "jpg", "file", "fs-db"
    MaxStreamFrame,    \* bound: frames of the source (the code: no limit)
    MaxStreamParts     \* bound: parts that are sent (the code: no limit)

ASSUME StreamAssumption ==
    /\ StreamKinds \subseteq {"mjpeg", "mpng", "theora", "png", "jpg", "file", "fs-db"}
    /\ MaxStreamFrame \in Nat /\ MaxStreamParts \in Nat

VARIABLES
    content,    \* the thread and what it has sent
    newest      \* number of the newest frame of the source

streamVars == <<content, newest>>

NoFrame == <<0, "none", 0>>
Headers == 0

\* get, filtered (has filters), sized (a size is asked for) and fps: the request
\* and the configuration.  ts: number of the last frame taken.  live: what is
\* allocated; fault: something was used or freed that was not there.  sent:
\* Headers, and the frame of each part; broken: a write failed.  closed: calls of
\* CLOSE_SSL().
StreamInit ==
    /\ newest = 0
    /\ \E kind \in StreamKinds, get \in BOOLEAN, filtered \in BOOLEAN, sized \in BOOLEAN,
          fps \in {"negative", "zero", "positive"} :
          content = [kind |-> kind, get |-> get, filtered |-> filtered, sized |-> sized,
                     fps |-> fps, at |-> "start", first |-> TRUE, prev |-> NoFrame,
                     pvf |-> NoFrame, ts |-> 0, live |-> {}, fault |-> FALSE, sent |-> <<>>,
                     broken |-> FALSE, users |-> 0, closed |-> 0, turn |-> 0]

-----------------------------------------------------------------------------
(* Memory, and the connection.                                             *)

Alloc(v, b)   == [v EXCEPT !.live = @ \cup {b}, !.fault = @ \/ b \in v.live]
Look(v, b)    == [v EXCEPT !.fault = @ \/ b \notin v.live]
FreeOf(v, b)  == IF b = NoFrame THEN v ELSE [Look(v, b) EXCEPT !.live = @ \ {b}]
DropFrame(v)  == [FreeOf(v, v.pvf) EXCEPT !.pvf = NoFrame]
End(v)        == [v EXCEPT !.at = "end"]

\* The frame becomes the previous one.
Keep(v)       == [FreeOf(v, v.prev) EXCEPT !.prev = v.pvf, !.pvf = NoFrame, !.turn = 1 - @]

\* pvf is made into another frame, looking at the previous one or not.
Encoded(v, how) ==
    LET b == <<v.pvf[1], how, v.turn>> IN [FreeOf(Alloc(v, b), v.pvf) EXCEPT !.pvf = b]
SizedFrame(v) == IF v.sized THEN Encoded(v, "resized") ELSE v
FilteredFrame(v) ==
    IF v.filtered THEN Encoded(IF v.prev = NoFrame THEN v ELSE Look(v, v.prev), "filtered") ELSE v

\* get_frame() or get_frame_to(): frame b, or a copy of the previous frame when
\* there is none in time.
Took(v, n, how) ==
    LET b == <<n, how, v.turn>> IN [Alloc(v, b) EXCEPT !.pvf = b, !.ts = n]
Newer(v) ==
    (IF newest > v.ts THEN {Took(v, newest, "got")} ELSE {})
      \cup (IF v.prev = NoFrame THEN {} ELSE {Took(Look(v, v.prev), v.prev[1], "copy")})

\* Writes in their order; fails is the one that fails.
Writes == {"headers", "part", "picture", "none"}
Say(v, what) == [v EXCEPT !.sent = Append(@, what), !.fault = @ \/ v.broken]
Lost(v) == End([v EXCEPT !.broken = TRUE])

\* The headers come before the first part, the end of a line before the others.
Begin(v, fails) ==
    IF fails = "headers" THEN Lost(v)
    ELSE IF v.first THEN Say([v EXCEPT !.first = FALSE], Headers) ELSE v
Part(v, fails) ==
    IF fails \in {"part", "picture"} THEN Lost(v) ELSE Say(v, v.ts)

Going(kind) == content.kind = kind /\ content.at = "loop"
Starting(kinds) == content.kind \in kinds /\ content.at = "start"

-----------------------------------------------------------------------------
(* send_mjpeg_stream().                                                    *)

MjpegStart ==
    /\ Starting({"mjpeg", "mpng"})
    /\ content' = [content EXCEPT !.at = "loop"]
    /\ UNCHANGED newest

\* Without filters and another size the frame is sent as it is, and forgotten.
MjpegPlain(v, fails) == DropFrame(Part(v, fails))
MjpegMadeKeepsOld(v, fails) ==
    LET w == FilteredFrame(SizedFrame(v))
    IN Part([w EXCEPT !.prev = w.pvf, !.pvf = NoFrame, !.turn = 1 - @], fails)
MjpegMade(v, fails) == Part(Keep(FilteredFrame(SizedFrame(v))), fails)

\* With a negative rate each frame is due before the one before it: all are
\* skipped.
MjpegFrame ==
    /\ Going("mjpeg") /\ content.fps # "negative" /\ Len(content.sent) < MaxStreamParts
    /\ \E v \in Newer(content), fails \in Writes :
          LET b == Begin(v, fails)
          IN content' = IF b.at = "end" THEN DropFrame(b)
                        ELSE IF content.first /\ ~content.get THEN End(DropFrame(b))
                        ELSE IF ~content.filtered /\ ~content.sized THEN MjpegPlain(b, fails)
                        ELSE MjpegMade(b, fails)
    /\ UNCHANGED newest

-----------------------------------------------------------------------------
(* send_mpng_stream().                                                     *)

\* The picture is made before anything is sent; without memory for it the
\* stream ends.
PngMemory == <<0, "png", 0>>
MpngFrame ==
    /\ Going("mpng") /\ Len(content.sent) < MaxStreamParts
    /\ \E v \in {FilteredFrame(SizedFrame(w)) : w \in Newer(content)} :
          \/ content' = End(DropFrame(v))
          \/ \E fails \in Writes :
               LET b == Begin(Keep(Alloc(v, PngMemory)), fails)
                   p == IF b.at = "end" THEN b
                        ELSE IF content.first /\ ~content.get THEN End(b)
                        ELSE Part(b, fails)
               IN content' = FreeOf(p, PngMemory)
    /\ UNCHANGED newest

-----------------------------------------------------------------------------
(* send_theora_stream().                                                   *)

\* Headers for GET and HEAD alike; then the encoder, whose own headers are
\* written whether they arrive or not.
Encoder == <<0, "encoder", 0>>
TheoraStart ==
    /\ Starting({"theora"})
    /\ \E fails \in {"headers", "none"} :
          content' = IF fails = "headers" THEN [Lost(content) EXCEPT !.at = "return"]
                     ELSE [Alloc(Begin(content, fails), Encoder) EXCEPT !.at = "loop"]
    /\ UNCHANGED newest

TheoraFrame ==
    /\ Going("theora") /\ Len(content.sent) < MaxStreamParts
    /\ \E v \in Newer(content), fails \in {"picture", "none"} :
          content' = Part(Look(Keep(FilteredFrame(SizedFrame(v))), Encoder), fails)
    /\ UNCHANGED newest

-----------------------------------------------------------------------------
(* The end of a stream.                                                    *)

\* The time limit, or the stop flag.
StreamTimeUp ==
    /\ content.at = "loop" /\ content.kind \in {"mjpeg", "mpng", "theora", "fs-db"}
    /\ content' = End(content)
    /\ UNCHANGED newest

StreamEnd ==
    /\ content.at = "end" /\ content.kind \in {"mjpeg", "mpng", "theora"}
    /\ LET v == [FreeOf(content, content.prev) EXCEPT !.prev = NoFrame, !.at = "return"]
       IN content' = IF v.kind = "theora" THEN FreeOf(v, Encoder) ELSE v
    /\ UNCHANGED newest

-----------------------------------------------------------------------------
(* send_png_frame(), send_jpg_frame().                                     *)

Closed(v) == [v EXCEPT !.closed = @ + 1]

\* When the headers are not wanted, or only they, the connection is closed
\* here.
ImageStart ==
    /\ Starting({"png", "jpg"})
    /\ \E fails \in {"headers", "none"} :
          content' = LET b == Begin(content, fails)
                     IN IF b.at = "end" \/ ~b.get THEN [Closed(b) EXCEPT !.at = "return"]
                        ELSE [b EXCEPT !.at = "loop"]
    /\ UNCHANGED newest

\* There may be no frame.
Image(v, memory, fails) == FreeOf(Part(DropFrame(Alloc(v, memory)), fails), memory)

ImageNone ==
    /\ Going("png") \/ Going("jpg")
    /\ content' = [content EXCEPT !.at = "return"]
    /\ UNCHANGED newest

PngImage ==
    /\ Going("png") /\ newest > 0
    /\ \E fails \in {"picture", "none"} :
          LET v == FilteredFrame(SizedFrame(Took(content, newest, "got")))
          IN content' = [Image(v, PngMemory, fails) EXCEPT !.at = "return"]
    /\ UNCHANGED newest

JpgImage ==
    /\ Going("jpg") /\ newest > 0
    /\ \E fails \in {"picture", "none"} :
          LET v == FilteredFrame(SizedFrame(Took(content, newest, "got")))
          IN content' = [DropFrame(Part(v, fails)) EXCEPT !.at = "return"]
    /\ UNCHANGED newest

-----------------------------------------------------------------------------
(* send_file().                                                            *)

\* No such file: a 404 answer, that is here the headers.  A file whose size is
\* not known is not answered at all.
OpenedFile == <<0, "file", 0>>
FileStart ==
    /\ Starting({"file"})
    /\ content' \in
         {[Begin(content, "none") EXCEPT !.at = "return"],
          [content EXCEPT !.at = "return"],
          [Lost(Alloc(content, OpenedFile)) EXCEPT !.at = "end"],
          [Begin(Alloc(content, OpenedFile), "none") EXCEPT !.at = "loop"]}
    /\ UNCHANGED newest

\* A block is read and sent; blocks count as frames here.
FileBlock ==
    /\ Going("file") /\ Len(content.sent) < MaxStreamParts
    /\ \E fails \in {"picture", "none"} :
          content' = Part(Look([content EXCEPT !.ts = @ + 1], OpenedFile), fails)
    /\ UNCHANGED newest

\* The end of the file, or it cannot be read.
FileEnd ==
    /\ content.kind = "file" /\ content.at \in {"loop", "end"}
    /\ content' = [FreeOf(content, OpenedFile) EXCEPT !.at = "return"]
    /\ UNCHANGED newest

-----------------------------------------------------------------------------
(* send_fs_db_mjpeg().                                                     *)

\* Parameters that are missing: no answer.  Otherwise a view_all of its own.
FsDbStart ==
    /\ Starting({"fs-db"})
    /\ \/ content' = [content EXCEPT !.at = "return"]
       \/ content' = [content EXCEPT !.at = "loop", !.users = @ + 1]
    /\ UNCHANGED newest

\* view_all::get_frame() always has a picture, also when there is no frame (here:
\* picture 1) or nothing changed; prev stays 0.  HEAD is not looked at.
FsDbFrame ==
    /\ Going("fs-db") /\ Len(content.sent) < MaxStreamParts
    /\ \E fails \in Writes :
          LET b == Begin(Took(content, newest + 1, "got"), fails)
          IN content' = DropFrame(IF b.at = "end" THEN b ELSE Part(b, fails))
    /\ UNCHANGED newest

FsDbEnd ==
    /\ content.kind = "fs-db" /\ content.at = "end"
    /\ content' = [content EXCEPT !.at = "return", !.users = @ - 1]
    /\ UNCHANGED newest

-----------------------------------------------------------------------------
\* handle_http_client() closes the connection, whatever was done before.
StreamClosed ==
    /\ content.at = "return"
    /\ content' = [Closed(content) EXCEPT !.at = "closed"]
    /\ UNCHANGED newest

StreamCamera ==
    /\ newest < MaxStreamFrame
    /\ newest' = newest + 1
    /\ UNCHANGED content

StreamNext ==
    \/ MjpegStart \/ MjpegFrame \/ MpngFrame \/ TheoraStart \/ TheoraFrame
    \/ StreamTimeUp \/ StreamEnd \/ ImageStart \/ ImageNone \/ PngImage \/ JpgImage
    \/ FileStart \/ FileBlock \/ FileEnd \/ FsDbStart \/ FsDbFrame \/ FsDbEnd
    \/ StreamClosed \/ StreamCamera

StreamSpec == StreamInit /\ [][StreamNext]_streamVars

-----------------------------------------------------------------------------
(* Properties.                                                             *)

\* Whatever write fails, everything is given back, once.
StreamMemory ==
    /\ ~content.fault
    /\ content.at = "closed" => content.live = {} /\ content.users = 0

\* The headers are sent once and first; the frames in their order, and one again
\* only by a stream that keeps the previous one, or for the full screen dashboard.
StreamOrder ==
    \A i \in DOMAIN content.sent :
        /\ content.sent[i] = Headers <=> i = 1
        /\ i > 2 => LET before == content.sent[i - 1]
                    IN \/ content.sent[i] > before
                       \/ content.sent[i] = before /\ content.kind \in {"mpng", "theora", "fs-db"}
                       \/ content.sent[i] = before /\ (content.filtered \/ content.sized)

\* The connection is closed once: twice only after an answer that consists of the
\* headers of a picture, or not even of them.
ClosedOnce ==
    content.closed > 1 =>
        content.kind \in {"png", "jpg"} /\ (content.broken \/ ~content.get)
            /\ Len(content.sent) <= 1

StreamSound == StreamMemory /\ StreamOrder /\ ClosedOnce
=============================================================================
