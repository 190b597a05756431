------------------------------ MODULE VncScreen ------------------------------
(***************************************************************************)
(* The picture of a VNC client: which blocks of a frame the server sends,  *)
(* in which encoding, and what the client makes of them.                   *)
(* Source: target_vnc.cpp.                                                 *)
(*                                                                         *)
(* A screen is a function from blocks (16 x 16 pixels) to contents; a      *)
(* content is a pattern, a colour, or nearly a colour.  The hash of a      *)
(* block stands for its content.  The client asks for the whole screen.    *)
(* What it shows in a block is a set: the contents its pixels were taken   *)
(* from.  Pixel formats are left out.                                      *)
(***************************************************************************)
EXTENDS Integers, FiniteSets

CONSTANTS
    VncColumns, VncRows,   \* size of the screen, in blocks
    VncContents,           \* what the camera may show in a block
    MaxVncUpdates          \* bound: updates

ASSUME VncAssumption ==
    /\ VncColumns \in Nat \ {0} /\ VncRows \in Nat \ {0}
    /\ VncContents \subseteq {"pattern", "colour", "nearly"} \X Nat
    /\ MaxVncUpdates \in Nat

VARIABLES
    vnc,      \* what the server knows of the client, and what the client shows
    vnc_cam   \* the frame of the latest update

vncVars == <<vnc, vnc_cam>>

Blocks == (1 .. VncColumns) \X (1 .. VncRows)
Black == <<"colour", 0>>
Nowhere == <<0, 0>>

\* view: client_view.  sent: contents of the frames that were sent, by block.
\* loose: blocks the client was told to copy, or that got a single pixel, after
\* they were last sent.  full: there was a first update; it is always a full one.
VncInit ==
    /\ vnc = [view |-> [b \in Blocks |-> Black], shows |-> [b \in Blocks |-> {Black}],
              sent |-> [b \in Blocks |-> {Black}], loose |-> {}, full |-> FALSE,
              updates |-> 0]
    /\ vnc_cam = [b \in Blocks |-> Black]

Updated(frame) ==
    [vnc EXCEPT !.sent = [b \in Blocks |-> @[b] \cup {frame[b]}], !.full = TRUE,
                !.updates = @ + 1]

\* send_full_screen()
VncFull ==
    \E frame \in [Blocks -> VncContents] :
      /\ vnc.updates < MaxVncUpdates
      /\ vnc' = [Updated(frame) EXCEPT !.view = frame, !.shows = [b \in Blocks |-> {frame[b]}],
                                       !.loose = {}]
      /\ vnc_cam' = frame

\* cv_blocks: where a content is found first in client_view, row by row.
FirstPlace(view, c) ==
    LET at == {b \in Blocks : view[b] = c}
    IN IF at = {} THEN Nowhere
       ELSE CHOOSE b \in at : \A o \in at : b[2] < o[2] \/ (b[2] = o[2] /\ b[1] <= o[1])

\* solid_color(): a block of one colour or nearly so, and its average.
IsSolid(c) == c[1] # "pattern"
SolidColour(c) == <<"colour", c[2]>>

\* What is sent for block b, of content c, to a client that may be able to do
\* hextile.  When the content is found in the same row or in the same column
\* the block counts as not changed.
Encoding(b, c, hextile) ==
    LET at == FirstPlace(vnc.view, c) IN
    IF at = Nowhere THEN IF hextile /\ IsSolid(c) THEN "solid" ELSE "raw"
    ELSE IF at[1] # b[1] /\ at[2] # b[2] THEN "copy" ELSE "none"

\* fill_block(), copy_block(): client_view follows what is sent.  For a copy it
\* gets the block of the frame.
FillNothing(b, c) == vnc.view[b]
FillBlock(b, c) == SolidColour(c)
CopyBlock(b, c) == c

ViewAfter(e, b, c) ==
    CASE e = "solid"            -> FillBlock(b, c)
      [] e \in {"raw", "copy"}  -> CopyBlock(b, c)
      [] e = "none"             -> vnc.view[b]

\* The client: getsrcx() and getsrcy() are where a copy has to go, so the client
\* copies the block onto itself.
ShowsAfter(e, b, c) ==
    CASE e = "solid"            -> {SolidColour(c)}
      [] e = "raw"              -> {c}
      [] e \in {"copy", "none"} -> vnc.shows[b]

\* send_incremental_screen().  When no block has to be sent a single pixel is,
\* of any block; client_view does not follow.
VncIncremental ==
    \E frame \in [Blocks -> VncContents], hextile \in BOOLEAN :
      LET e == [b \in Blocks |-> Encoding(b, frame[b], hextile)]
          none == {b \in Blocks : e[b] = "none"}
          v == [Updated(frame) EXCEPT
                  !.view = [b \in Blocks |-> ViewAfter(e[b], b, frame[b])],
                  !.shows = [b \in Blocks |-> ShowsAfter(e[b], b, frame[b])],
                  !.loose = (@ \cap none) \cup {b \in Blocks : e[b] = "copy"}]
      IN /\ vnc.full /\ vnc.updates < MaxVncUpdates
         /\ IF none # Blocks THEN vnc' = v
            ELSE \E b \in Blocks :
                   vnc' = [v EXCEPT !.shows[b] = @ \cup {frame[b]}, !.loose = @ \cup {b}]
         /\ vnc_cam' = frame

VncNext == VncFull \/ VncIncremental

VncSpec == VncInit /\ [][VncNext]_vncVars

-----------------------------------------------------------------------------
(* Properties.                                                             *)

\* A block never shows anything but what the frames of the camera had there,
\* or the average of that, whatever the sequence of updates; and it shows what
\* the server believes (client_view, from which the next update is computed)
\* unless it was told to copy it, or got the single pixel, since it was sent.
VncView ==
    \A b \in Blocks :
      /\ vnc.shows[b] \subseteq vnc.sent[b] \cup {SolidColour(c) : c \in vnc.sent[b]}
      /\ b \notin vnc.loose => vnc.shows[b] = {vnc.view[b]}
=============================================================================
