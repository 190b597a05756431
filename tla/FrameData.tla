------------------------------ MODULE FrameData -------------------------------
(***************************************************************************)
(* What is in a frame: a picture in one or more encodings, made from each  *)
(* other when they are asked for, and what those who take a frame from a   *)
(* source do with it.  Source: video_frame.cpp, picio.cpp, source.cpp.     *)
(*                                                                         *)
(* A picture is the number of the scene the camera saw, the size it has,   *)
(* and how often it went through the filters and through the controls.     *)
(***************************************************************************)
EXTENDS Integers, FiniteSets

CONSTANTS
    Takers,       \* threads that take frames from the source
    TakerKinds,   \* what they do: "viewer", "recorder", "trigger", "delayed", "turned"
    CameraEncodings,      \* encodings of the camera: "jpeg", "rgb", "raw" (BGR, YUYV)
    MaxScene      \* bound: frames of the camera (the code: no limit)

ASSUME FrameDataAssumption ==
    /\ TakerKinds \subseteq {"viewer", "recorder", "trigger", "delayed", "turned"}
    /\ CameraEncodings \subseteq {"jpeg", "rgb", "raw"}
    /\ MaxScene \in Nat

VARIABLES
    stored,      \* vf of the source
    set_up,      \* camera, filters, controls, encoder, prev_frame_rgb of the source
    taker        \* by thread

frameDataVars == <<stored, set_up, taker>>

NoFrameYet == [size |-> 0, held |-> [e \in {} |-> 0]]
GrayPicture(size) == [scene |-> 0, size |-> size, filtered |-> 0, adjusted |-> 0]
Unreadable == -1

\* prev: size of prev_frame_rgb, 0 before it is allocated.  size: of the frames of
\* the source, that of the first picture.  varied: pictures had several sizes.
\* controls: those in software, the others work in the camera.
FrameDataInit ==
    /\ stored = NoFrameYet
    /\ \E camera \in CameraEncodings, filters \in BOOLEAN, controls \in BOOLEAN, encodes \in BOOLEAN :
          set_up = [camera |-> camera, filters |-> filters, controls |-> controls,
                    encodes |-> encodes, prev |-> 0, size |-> 0, scenes |-> 0,
                    varied |-> FALSE, overflow |-> FALSE]
    /\ \E kinds \in [Takers -> TakerKinds], own \in [Takers -> BOOLEAN] :
          taker = [t \in Takers |-> [kind |-> kinds[t], own |-> own[t], at |-> "out",
                     frame |-> NoFrameYet, got |-> 0, plain |-> FALSE, shows |-> GrayPicture(0),
                     fault |-> "none"]]

-----------------------------------------------------------------------------
(* video_frame.                                                            *)

Has(f, e) == e \in DOMAIN f.held
Put(f, e, pic) == [f EXCEPT !.held = [d \in DOMAIN @ \cup {e} |-> IF d = e THEN pic ELSE @[d]]]
Only(pic, size) == [size |-> size, held |-> [e \in {"rgb"} |-> pic]]

\* gen_encoding(): RGB is made of BGR or YUYV whatever is asked for.
Converted(f) == IF ~Has(f, "rgb") /\ Has(f, "raw") THEN Put(f, "rgb", f.held["raw"]) ELSE f

\* get_data_and_len(): the frame after that, the picture, and what went wrong.
\* A JPEG that cannot be decoded, or is not of the size of the frame, and RGB that
\* cannot be encoded, are replaced by gray, which is not stored; what is made of
\* an encoding that is not there is undefined.
Answer(f, pic, fault) == [frame |-> f, pic |-> pic, fault |-> fault]
Decodable(f) == f.held["jpeg"].scene # Unreadable /\ f.held["jpeg"].size = f.size
AskRgb(frame) ==
    LET f == Converted(frame) IN
    IF Has(f, "rgb") THEN Answer(f, f.held["rgb"], "none")
    ELSE IF ~Has(f, "jpeg") THEN Answer(f, GrayPicture(f.size), "no data")
    ELSE IF Decodable(f) THEN Answer(Put(f, "rgb", f.held["jpeg"]), f.held["jpeg"], "none")
    ELSE Answer(f, GrayPicture(f.size), "none")
AskJpeg(frame) ==
    IF Has(frame, "jpeg") THEN Answer(frame, frame.held["jpeg"], "none")
    ELSE LET f == Converted(frame) IN
         IF ~Has(f, "rgb") THEN Answer(f, GrayPicture(f.size), "no data")
         ELSE IF set_up.encodes THEN Answer(Put(f, "jpeg", f.held["rgb"]), f.held["rgb"], "none")
         ELSE Answer(f, GrayPicture(f.size), "null")

FilteredOnce(pic) == [pic EXCEPT !.filtered = @ + 1]
Adjusted(pic) == [pic EXCEPT !.adjusted = @ + 1]

\* duplicate(E_RGB), do_rotate(), do_resize(): a frame with RGB only.
RgbOf(f) == Only(AskRgb(f).pic, f.size)

\* Mutated form of ApplyFiltering: the copy keeps its JPEG.
ApplyFilteringKeepsAll(f, filters, controls) ==
    LET p == AskRgb(f).pic
        q == IF filters THEN FilteredOnce(p) ELSE p
    IN Put(AskRgb(f).frame, "rgb", IF controls THEN Adjusted(q) ELSE q)
ApplyFiltering(f, filters, controls) ==
    LET p == AskRgb(f).pic
        q == IF filters THEN FilteredOnce(p) ELSE p
    IN Only(IF controls THEN Adjusted(q) ELSE q, f.size)

\* keep_only_format(E_RGB): away with the JPEG, whether there is RGB or not.
KeepOnlyRgb(f) == [f EXCEPT !.held = [e \in DOMAIN @ \ {"jpeg"} |-> @[e]]]

-----------------------------------------------------------------------------
(* The source.                                                             *)

\* set_frame().  A source of JPEG frames looks at the size of the first one only,
\* which must be readable; the others know that of each.
Shoot ==
    /\ set_up.scenes < MaxScene
    /\ \E size \in {1, 2}, readable \in BOOLEAN :
          /\ ~readable => set_up.camera = "jpeg" /\ set_up.size # 0
          /\ LET of == IF set_up.camera = "jpeg" /\ set_up.size # 0 THEN set_up.size ELSE size IN
             /\ stored' = [size |-> of,
                           held |-> [e \in {set_up.camera} |->
                                       [scene |-> IF readable THEN set_up.scenes + 1 ELSE Unreadable,
                                        size |-> size, filtered |-> 0, adjusted |-> 0]]]
             /\ set_up' = [set_up EXCEPT !.scenes = @ + 1, !.size = of,
                                         !.varied = @ \/ set_up.size \notin {0, size}]
    /\ UNCHANGED taker

\* get_frame(): a copy of all that is in the frame, or of its RGB.
TakePlain(t) ==
    /\ taker[t].at = "out" /\ stored # NoFrameYet
    /\ ~set_up.filters /\ ~set_up.controls
    /\ taker' = [taker EXCEPT ![t].at = "taken", ![t].frame = stored, ![t].got = set_up.scenes,
                              ![t].plain = ~Has(stored, "rgb")]
    /\ UNCHANGED <<stored, set_up>>
TakeCopy(t) ==
    /\ taker[t].at = "out" /\ stored # NoFrameYet
    /\ set_up.filters \/ set_up.controls
    /\ stored' = AskRgb(stored).frame
    /\ taker' = [taker EXCEPT ![t].at = "filtering", ![t].got = set_up.scenes,
                              ![t].plain = FALSE,
                              ![t].frame = Only(AskRgb(stored).pic, stored.size)]
    /\ UNCHANGED set_up

\* Without the lock: the size is that of the frame that is stored now.  The frame
\* before has room for the first one that was filtered.
FinishCopy(t) ==
    /\ taker[t].at = "filtering"
    /\ LET room == taker[t].frame.size
           p == taker[t].frame.held["rgb"]
           q == IF set_up.filters THEN FilteredOnce(p) ELSE p
           r == IF set_up.controls THEN Adjusted(q) ELSE q
       IN /\ taker' = [taker EXCEPT ![t].at = "taken", ![t].frame = Only(r, stored.size)]
          /\ set_up' = [set_up EXCEPT
               !.prev = IF set_up.filters /\ @ = 0 THEN room ELSE @,
               !.overflow = \/ @ \/ stored.size > room
                            \/ set_up.filters /\ set_up.prev # 0
                                 /\ (room > set_up.prev \/ stored.size > set_up.prev)]
    /\ UNCHANGED stored

-----------------------------------------------------------------------------
(* Those who take them; own: with filters (delayed: and controls) of theirs.*)

ShownTo(t, answer) ==
    /\ taker' = [taker EXCEPT ![t].at = "out", ![t].frame = answer.frame,
                              ![t].shows = answer.pic, ![t].fault = answer.fault]
    /\ UNCHANGED <<stored, set_up>>
HasTaken(t, kind) == taker[t].at = "taken" /\ taker[t].kind = kind
OwnFrame(t) ==
    IF taker[t].own THEN ApplyFiltering(taker[t].frame, TRUE, FALSE) ELSE taker[t].frame

Viewer(t)   == HasTaken(t, "viewer") /\ ShownTo(t, AskJpeg(OwnFrame(t)))
Recorder(t) == HasTaken(t, "recorder") /\ ShownTo(t, AskRgb(OwnFrame(t)))
Trigger(t)  == HasTaken(t, "trigger") /\ ShownTo(t, AskRgb(KeepOnlyRgb(OwnFrame(t))))
Turned(t)   == HasTaken(t, "turned") /\ ShownTo(t, AskJpeg(RgbOf(OwnFrame(t))))

\* source_delay: its controls are applied with its filters, and once more.
Delayed(t) ==
    /\ HasTaken(t, "delayed")
    /\ IF taker[t].own
       THEN LET f == ApplyFiltering(taker[t].frame, TRUE, TRUE)
            IN ShownTo(t, AskJpeg(KeepOnlyRgb(Put(f, "rgb", Adjusted(f.held["rgb"])))))
       ELSE ShownTo(t, AskJpeg(taker[t].frame))

FrameDataNext ==
    \/ Shoot
    \/ \E t \in Takers :
          \/ TakePlain(t) \/ TakeCopy(t) \/ FinishCopy(t)
          \/ Viewer(t) \/ Recorder(t) \/ Trigger(t) \/ Turned(t) \/ Delayed(t)

FrameDataSpec == FrameDataInit /\ [][FrameDataNext]_frameDataVars

-----------------------------------------------------------------------------
(* Properties.                                                             *)

\* All encodings of a frame are of the same picture.
Coherent(f) == \A d, e \in DOMAIN f.held : f.held[d] = f.held[e]

\* What a thread is given shows the scene that was stored when it asked, once
\* through the filters and controls of the source and of its own (those of a
\* delayed source: twice), or is gray: then the camera's JPEG could not be used
\* or nothing can be encoded.
ShowsIts(t) ==
    LET w == taker[t]
        twice == IF w.own /\ w.kind = "delayed" THEN 2 ELSE 0
        both  == (IF set_up.filters THEN 1 ELSE 0) + (IF w.own THEN 1 ELSE 0)
    IN \/ w.shows.scene \in {w.got, Unreadable}
          /\ w.shows.adjusted = (IF set_up.controls THEN 1 ELSE 0) + twice
          /\ w.shows.filtered = both
       \/ w.shows.scene = 0 /\ (set_up.camera = "jpeg" \/ ~set_up.encodes)

\* Nothing is made of data that is not there, but for a trigger: it throws away
\* the JPEG of a frame in which nobody has asked for RGB.  Memory for pictures is
\* too small only with a camera that changes the size of its pictures.
FrameSound ==
    /\ Coherent(stored) /\ \A t \in Takers : Coherent(taker[t].frame)
    /\ \A t \in Takers :
         taker[t].at = "out" /\ taker[t].got # 0 =>
           /\ taker[t].fault = "no data" =>
                taker[t].kind = "trigger" /\ taker[t].plain /\ set_up.camera = "jpeg"
           /\ taker[t].fault = "null" => ~set_up.encodes
           /\ ShowsIts(t)
    /\ set_up.overflow => set_up.varied
=============================================================================
