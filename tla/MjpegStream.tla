---------------------------- MODULE MjpegStream -----------------------------
(***************************************************************************)
(* One connection to an MJPEG camera: the parts of a multipart stream that *)
(* come in as pieces of any size, and what the callbacks of libcurl make   *)
(* of them.  Source: source_http_mjpeg.cpp, picio.cpp.                     *)
(*                                                                         *)
(* A part is a header and a picture.  A header is the boundary, what it    *)
(* says about the length, and the blank line that ends it; a picture is a  *)
(* row of bytes, each marked with the number of its part.  One call of     *)
(* write_data() is one step.                                               *)
(***************************************************************************)
EXTENDS Integers, Sequences, FiniteSets

CONSTANTS
    MjpegParts,     \* how many parts the camera sends
    MjpegSizes,     \* sizes a picture may have
    MaxMjpegPiece,  \* bound: size of a piece of the stream
    MjpegLimit      \* data that has not been handled: 32 MB in the code

ASSUME MjpegAssumption ==
    /\ MjpegParts \in Nat /\ MjpegSizes \subseteq Nat
    /\ MaxMjpegPiece \in Nat \ {0} /\ MjpegLimit \in Nat

VARIABLES
    mjpeg,      \* work_data_t and work_header_t
    mjpeg_env   \* the camera, what it has sent, users and the stop flag

mjpegVars == <<mjpeg, mjpeg_env>>

Boundary == <<"boundary", 0>>
LengthOf(n) == <<"length", n>>
BlankLine == <<"blank", 0>>
Byte(i) == <<"byte", i>>

\* What a camera sends: its parts have a Content-Length or not, its answer
\* names the boundary or not and is of some type, its pictures of some format.
HeaderOf(c, i) ==
    IF c.lengths THEN <<Boundary, LengthOf(c.size[i]), BlankLine>> ELSE <<Boundary, BlankLine>>
PictureOf(c, i) == [j \in 1 .. c.size[i] |-> Byte(i)]
StreamOf(c) ==
    LET first[i \in 0 .. Len(c.size)] ==
          IF i = 0 THEN <<>> ELSE first[i - 1] \o HeaderOf(c, i) \o PictureOf(c, i)
    IN first[Len(c.size)]

MjpegCameras ==
    [lengths : BOOLEAN, boundary : BOOLEAN, type : {"multipart", "image/jpeg"},
     format : {"jpeg", "bmp"}, size : [1 .. MjpegParts -> MjpegSizes]]

-----------------------------------------------------------------------------
(* What came in: data, from its first byte that was not handled yet.       *)

Rest(data, n) == SubSeq(data, n + 1, Len(data))

\* Where a symbol is found first; 0 when it is not there.
Find(data, Is(_)) ==
    LET at == {i \in DOMAIN data : Is(data[i])}
    IN IF at = {} THEN 0 ELSE CHOOSE i \in at : \A j \in at : i <= j

\* write_headers(): the type of the answer as a whole, not that of its parts.
WriteHeaders(c) == [type |-> c.type, boundary |-> c.boundary]

\* cut: the pictures that were found.  shown: those that were handed on.
MjpegInit ==
    \E c \in MjpegCameras :
      /\ mjpeg = [headers |-> WriteHeaders(c), data |-> <<>>, header |-> TRUE, req_len |-> 0,
                  first |-> TRUE, cut |-> <<>>, shown |-> <<>>, at |-> "reading"]
      /\ mjpeg_env = [camera |-> c, sent |-> 0, watched |-> TRUE, stop |-> FALSE]

-----------------------------------------------------------------------------
(* write_data().                                                           *)

\* The blank line is as long as it is: "\r\n\r\n" or "\n\n".
AfterHalfALine(data, end) == Rest(data, end - 1)
AfterHeader(data, end) == Rest(data, end)

\* A header is complete: from now on its picture is waited for.  Without a
\* length, and without a boundary to look for, the connection is given up.
HeaderDone(m) ==
    LET end == Find(m.data, LAMBDA s : s = BlankLine)
        text == SubSeq(m.data, 1, end)
        length == Find(text, LAMBDA s : s[1] = "length")
    IN IF end = 0 THEN m
       ELSE IF length = 0 /\ ~m.headers.boundary THEN [m EXCEPT !.at = "no length"]
       ELSE [m EXCEPT !.header = FALSE,
                      !.req_len = IF length = 0 THEN 0 ELSE text[length][2],
                      !.data = AfterHeader(@, end)]

\* A picture is taken for a JPEG file when the answer says so, else for BMP.
Decodes(m, c) == (m.headers.type = "image/jpeg") = (c.format = "jpeg")
\* JPEG is handed on without a look at it, unless the source scales.
Shows(m, e) ==
    e.watched /\ (m.headers.type = "image/jpeg" \/ Decodes(m, e.camera))

PictureDone(m, e) ==
    LET picture == SubSeq(m.data, 1, m.req_len) IN
    [m EXCEPT !.first = @ /\ ~Decodes(m, e.camera),
              !.cut = Append(@, picture),
              !.shown = IF Shows(m, e) THEN Append(@, Len(m.cut) + 1) ELSE @,
              !.data = Rest(@, m.req_len),
              !.req_len = 0,
              !.header = TRUE]

\* For cameras without Content-Length: the picture ends where a boundary with
\* a complete header begins.  An empty one is looked for again and again.
BoundarySearch(m, e) ==
    LET here == {i \in DOMAIN m.data :
                   /\ m.data[i] = Boundary
                   /\ \E j \in i .. Len(m.data) : m.data[j] = BlankLine}
        i == CHOOSE i \in here : \A j \in here : i <= j
    IN IF here = {} THEN m
       ELSE IF i = 1 THEN [m EXCEPT !.at = "spins"]
       ELSE PictureDone([m EXCEPT !.req_len = i - 1], e)

\* One header or one picture, however much there is.
WriteData(m, e) ==
    IF Len(m.data) >= MjpegLimit THEN [m EXCEPT !.at = "too big"]
    ELSE IF m.header THEN HeaderDone(m)
    ELSE IF m.req_len > 0
         THEN IF Len(m.data) >= m.req_len THEN PictureDone(m, e) ELSE m
    ELSE IF m.headers.boundary THEN BoundarySearch(m, e) ELSE m

\* A piece of the stream.
MjpegData ==
    /\ mjpeg.at = "reading" /\ ~mjpeg_env.stop
    /\ LET stream == StreamOf(mjpeg_env.camera) IN
       \E n \in 1 .. MaxMjpegPiece :
         /\ mjpeg_env.sent + n <= Len(stream)
         /\ mjpeg' = WriteData([mjpeg EXCEPT
                !.data = @ \o SubSeq(stream, mjpeg_env.sent + 1, mjpeg_env.sent + n)], mjpeg_env)
         /\ mjpeg_env' = [mjpeg_env EXCEPT !.sent = @ + n]

\* write_data() or xfer_callback(): the stop flag, or nothing came for too long.
MjpegAbort ==
    /\ mjpeg.at = "reading"
    /\ mjpeg_env.stop \/ mjpeg_env.sent = Len(StreamOf(mjpeg_env.camera))
    /\ mjpeg' = [mjpeg EXCEPT !.at = "aborted"]
    /\ UNCHANGED mjpeg_env

MjpegUsers ==
    /\ mjpeg_env' = [mjpeg_env EXCEPT !.watched = ~@]
    /\ UNCHANGED mjpeg

MjpegStop ==
    /\ ~mjpeg_env.stop
    /\ mjpeg_env' = [mjpeg_env EXCEPT !.stop = TRUE]
    /\ UNCHANGED mjpeg

MjpegNext == MjpegData \/ MjpegAbort \/ MjpegUsers \/ MjpegStop

MjpegSpec == MjpegInit /\ [][MjpegNext]_mjpegVars

-----------------------------------------------------------------------------
(* Properties.                                                             *)

\* How many parts have come in as a whole.
Arrived ==
    LET c == mjpeg_env.camera
        upto(i) == StreamOf([c EXCEPT !.size = SubSeq(@, 1, i)])
    IN Cardinality({i \in 1 .. MjpegParts : Len(upto(i)) <= mjpeg_env.sent})

HasEmpty == \E i \in 1 .. MjpegParts : mjpeg_env.camera.size[i] = 0
\* A part that does not fit into what may be kept.
HasHuge ==
    LET c == mjpeg_env.camera
    IN \E i \in 1 .. MjpegParts : Len(HeaderOf(c, i) \o PictureOf(c, i)) > MjpegLimit

\* However the stream is cut in pieces, the pictures that are found are those
\* that were sent: from the first on, each of them, with all of its bytes and
\* no other.  The thread never leaves write_data() again only when a picture
\* is empty and the boundary is known.  The connection is dropped as "frame too
\* big", while no frame is, only because of an empty picture, or with a whole
\* picture in it: each call handles at most one header or one picture and so
\* falls behind.
MjpegWhole ==
    /\ \A i \in DOMAIN mjpeg.cut : mjpeg.cut[i] = PictureOf(mjpeg_env.camera, i)
    /\ mjpeg.at = "spins" => HasEmpty /\ mjpeg_env.camera.boundary
    /\ mjpeg.at = "too big" => HasEmpty \/ HasHuge \/ Arrived > Len(mjpeg.cut)

\* The configuration advises this source where the one of ffmpeg does not work
\* (constatus.cfg:135, "Use broken-mjpeg here if mjpeg doesn't work"): a JPEG picture
\* that is found in the stream while somebody watches is handed on.
MjpegShown ==
    [][/\ Len(mjpeg'.cut) > Len(mjpeg.cut)
       /\ mjpeg_env.watched /\ mjpeg_env.camera.format = "jpeg"
       => Len(mjpeg'.shown) > Len(mjpeg.shown)]_mjpegVars
=============================================================================
