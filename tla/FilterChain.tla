----------------------------- MODULE FilterChain ------------------------------
(***************************************************************************)
(* The filters of a source, one after the other on each of its pictures,   *)
(* and what they keep between pictures.  Source: filter.cpp, filter_*.cpp. *)
(*                                                                         *)
(* A picture is a function of places, counted row after row, to the three  *)
(* values of a pixel.  What malloc() left is Garbage, and so is all that   *)
(* is computed from it.  Values are computed exactly.                      *)
(***************************************************************************)
EXTENDS Integers, Sequences, FiniteSets, FiniteSetsExt

CONSTANTS
    Columns, Rows,     \* size of the pictures
    Scenes,            \* pictures of the camera
    FilterLists,       \* filters that may be configured, each a kind and a place
    MaxPictures        \* bound: pictures (the code: no limit)

Places == 0 .. Columns * Rows - 1
Channels == 1 .. 3
Col(o) == o % Columns
Row(o) == o \div Columns

\* Filters that make a new picture, those that mark what changed, and the others.
NewPicture == {"mirror-h", "mirror-v", "fast", "cie", "pal", "lightness", "noise"}
Markers == {"box", "cross", "border"}
Keepers == {"average", "median", "motion"}
FilterKinds == NewPicture \cup Markers \cup Keepers
               \cup {"contrast", "mask", "soft-mask", "draw", "overlay", "copy", "bitmap"}

ASSUME FilterAssumption ==
    /\ Columns \in Nat \ {0} /\ Rows \in Nat \ {0}
    /\ MaxPictures \in Nat
    /\ Scenes \subseteq [Places -> [Channels -> 0 .. 255]]
    /\ \A list \in FilterLists : list \in Seq([kind : FilterKinds, x : Int, y : Int])

VARIABLES
    chain,     \* the run of apply_filters(): its filters, place, and pictures
    kept,      \* by filter: h_frames or, of filter_motion_only, prev2
    bitmap,    \* of the meta data of the source: what filter_copy took
    inputs     \* by filter: the pictures it got; behind the last one: what came out

filterVars == <<chain, kept, bitmap, inputs>>

Garbage == -1
NoPicture == [o \in {} |-> <<>>]       \* a null pointer
Malloced == [o \in Places |-> <<Garbage, Garbage, Garbage>>]
AtMost(a, b) == IF a < b THEN a ELSE b

FilterInit ==
    /\ \E list \in FilterLists :
          /\ chain = [list |-> list, at |-> 0, work |-> NoPicture, temp |-> NoPicture,
                      in_temp |-> FALSE, prev |-> NoPicture, outside |-> FALSE]
          /\ kept = [i \in DOMAIN list |-> <<>>]
          /\ inputs = [i \in 1 .. Len(list) + 1 |-> <<>>]
    /\ bitmap = NoPicture

-----------------------------------------------------------------------------
(* Filters that make a new picture: apply_io(in, out).                     *)

\* What op makes of values, unless one is Garbage.
Of(values, result) == IF Garbage \in values THEN Garbage ELSE result
Values(p, places, c) == {p[o][c] : o \in places}
SumOf(f, S) == MapThenSumSet(LAMBDA x : f[x], S)
Total(p, places, c) == SumOf([o \in places |-> p[o][c]], places)

MirrorH(in) == [o \in Places |-> in[Row(o) * Columns + Columns - 1 - Col(o)]]
MirrorV(in) == [o \in Places |-> in[(Rows - 1 - Row(o)) * Columns + Col(o)]]

Grayed(in, mode) ==
    [o \in Places |->
       LET r == in[o][1]  g == in[o][2]  b == in[o][3]
           low == AtMost(r, AtMost(g, b))
           high == -AtMost(-r, AtMost(-g, -b))
           v == CASE mode = "fast"      -> (r + g + b) \div 3
                  [] mode = "cie"       -> (r * 2126 + g * 7152 + b * 722) \div (21226 + 7152 + 722)
                  [] mode = "pal"       -> (r * 299 + g * 587 + b * 114) \div 1000
                  [] mode = "lightness" -> (low + high) \div 2
       IN [c \in Channels |-> Of({r, g, b}, v)]]

\* filter_noise_neighavg: the edge of out is not written.
Neighbours(o) ==
    {n \in Places \ {o} : Col(n) - Col(o) \in -1 .. 1 /\ Row(n) - Row(o) \in -1 .. 1}
Inner(o) == Col(o) \in 1 .. Columns - 2 /\ Row(o) \in 1 .. Rows - 2
Denoised(in, out) ==
    [o \in Places |->
       IF Inner(o)
       THEN [c \in Channels |-> Of(Values(in, Neighbours(o), c), Total(in, Neighbours(o), c) \div 8)]
       ELSE out[o]]

ApplyIo(f, in, out) ==
    CASE f.kind = "mirror-h" -> MirrorH(in)
      [] f.kind = "mirror-v" -> MirrorV(in)
      [] f.kind = "noise"    -> Denoised(in, out)
      [] OTHER               -> Grayed(in, f.kind)

-----------------------------------------------------------------------------
(* Filters that keep pictures.                                             *)

KeptPictures == 2    \* average_n, median_n
Remember(frames, p) == Append(IF Len(frames) > KeptPictures THEN Tail(frames) ELSE frames, p)

\* Of the values of n pictures: their mean, or the one in the middle.
Mean(s) == Of({s[i] : i \in DOMAIN s}, SumOf(s, DOMAIN s) \div Len(s))
Orders(s) ==
    {p \in [DOMAIN s -> DOMAIN s] : /\ \A j \in DOMAIN s : \E i \in DOMAIN s : p[i] = j
                                   /\ \A i, j \in DOMAIN s : i < j => s[p[i]] <= s[p[j]]}
Sorted(s) == LET p == CHOOSE p \in Orders(s) : TRUE IN [i \in DOMAIN s |-> s[p[i]]]
Middle(s) == Of({s[i] : i \in DOMAIN s}, Sorted(s)[Len(s) \div 2 + 1])
OneOf(kind, s) == IF kind = "average" THEN Mean(s) ELSE Middle(s)
PerValue(kind, frames) ==
    [o \in Places |-> [c \in Channels |->
        OneOf(kind, [i \in 1 .. KeptPictures |-> frames[i][o][c]])]]
Oldest(kind, frames, p) == IF Len(frames) < KeptPictures THEN p ELSE PerValue(kind, frames)

\* filter_motion_only: away with what is as it was in the picture before.
NoiseLevel == 10
Size(v) == IF v < 0 THEN -v ELSE v
Difference(a, b) == Size(a[1] - b[1]) + Size(a[2] - b[2]) + Size(a[3] - b[3])
Differs(a, b) == Difference(a, b) >= 3 * NoiseLevel
Defined(a) == \A c \in Channels : a[c] # Garbage
MotionOnly(p, before) ==
    [o \in Places |->
       IF ~(Defined(p[o]) /\ Defined(before[o])) THEN Malloced[o]
       ELSE IF Differs(p[o], before[o]) THEN p[o] ELSE <<0, 0, 0>>]

-----------------------------------------------------------------------------
(* Filters that change a picture.                                          *)

\* filter_boost_contrast: a pixel that is the darkest so far is not looked at as
\* the brightest one.  A value that does not fit in 8 bits is undefined.
Brightness(a) == (a[1] + a[2] + a[3]) \div 3
Widened(e, g) ==
    IF g < e.low THEN [e EXCEPT !.low = g] ELSE IF g > e.high THEN [e EXCEPT !.high = g] ELSE e
Extremes(p) ==
    LET upto[n \in 0 .. Columns * Rows] ==
          IF n = 0 THEN [low |-> 255, high |-> 0] ELSE Widened(upto[n - 1], Brightness(p[n - 1]))
    IN upto[Columns * Rows]
Stretched(v, low, high) ==
    LET range == Size(high - low)
        n == IF high < low THEN (low - v) * 255 ELSE (v - low) * 255
    IN IF n <= -range \/ n >= 256 * range THEN Garbage ELSE IF n < 0 THEN 0 ELSE n \div range
Contrasted(p) ==
    LET e == Extremes(p) IN
    IF \E o \in Places : ~Defined(p[o]) THEN Malloced
    ELSE IF e.low = e.high \/ (e.low = 0 /\ e.high = 255) THEN p
    ELSE [o \in Places |-> [c \in Channels |-> Stretched(p[o][c], e.low, e.high)]]

\* filter_apply_mask: black or, soft, the mean of those masked so far.
Masked == {o \in Places : Col(o) = 0}
HardMasked(p) == [o \in Places |-> IF o \in Masked THEN <<0, 0, 0>> ELSE p[o]]
SoftMasked(p) ==
    [o \in Places |->
       LET sofar == {m \in Masked : m <= o}
       IN IF o \in Masked
          THEN [c \in Channels |-> Of(Values(p, sofar, c), Total(p, sofar, c) \div Cardinality(sofar))]
          ELSE p[o]]

\* A box of Box by Box; places of a row beyond its end are in the next one.
Box == 2
PlaceOf(x, y) == y * Columns + x
Painted(p, places, colour) == [o \in Places |-> IF o \in places THEN colour ELSE p[o]]

\* filter_draw: a negative place is counted from the end of the box, not the picture.
DrawnPlaces(f) ==
    LET x0 == IF f.x < 0 THEN f.x + Box ELSE f.x
        y0 == IF f.y < 0 THEN f.y + Box ELSE f.y
    IN {PlaceOf(x, y) : x \in AtMost(x0, Columns) .. AtMost(x0 + Box, Columns) - 1,
                   y \in AtMost(y0, Rows) .. AtMost(y0 + Box, Rows) - 1}

\* filter_copy and filter_add_bitmap.
FromEnd(at, size) == IF at < 0 THEN at + size ELSE at
Spot(f, o) == PlaceOf(FromEnd(f.x, Columns) + (o % Box), FromEnd(f.y, Rows) + (o \div Box))
BoxPlaces == 0 .. Box * Box - 1
Taken(f, p) == [o \in BoxPlaces |-> IF Spot(f, o) \in Places THEN p[Spot(f, o)] ELSE Malloced[0]]
PutPlaces(f) ==
    {o \in BoxPlaces : /\ o % Box < Columns - FromEnd(f.x, Columns)
                       /\ o \div Box < Rows - FromEnd(f.y, Rows)}
PutBitmap(f, p, bits) ==
    [o \in Places |-> IF \E b \in PutPlaces(f) : Spot(f, b) = o
                      THEN bits[CHOOSE b \in PutPlaces(f) : Spot(f, b) = o] ELSE p[o]]
\* memcpy() of a negative number of bytes.
PutTooFar(f) == FromEnd(f.x, Columns) > Columns /\ FromEnd(f.y, Rows) < Rows

\* filter_overlay, at an absolute place ("axy"): 255 parts of 256 of an opaque picture.
Overlaid(f) ==
    {PlaceOf(f.x + x, f.y + y) : x \in 0 .. AtMost(Columns - f.x, AtMost(Box, Columns)) - 1,
                            y \in 0 .. AtMost(Rows - f.y, AtMost(Box, Rows)) - 1}

\* filter_marker_simple that waits for no trigger: where the picture differs.
PercentageChanged == 10
MarkedPlaces(kind, changed) ==
    LET n == Cardinality(changed)
        cx == MapThenSumSet(Col, changed) \div n
        cy == MapThenSumSet(Row, changed) \div n
        dx == MapThenSumSet(LAMBDA o : Size(Col(o) - cx), changed) \div n
        dy == MapThenSumSet(LAMBDA o : Size(Row(o) - cy), changed) \div n
        left == -AtMost(0, dx - cx)   right  == AtMost(Columns - 1, cx + dx)
        top  == -AtMost(0, dy - cy)   bottom == AtMost(Rows - 1, cy + dy)
        across == left .. right - 1
        down == top .. bottom - 1
    IN IF kind = "box"
       THEN {PlaceOf(x, y) : x \in {left, right}, y \in down} \cup {PlaceOf(x, y) : x \in across, y \in {top, bottom}}
       ELSE {PlaceOf(cx, y) : y \in down} \cup {PlaceOf(x, cy) : x \in across}
MarkColour == <<0, 255, 0>>
Marked(kind, p, prev) ==
    IF \E o \in Places : ~(Defined(p[o]) /\ Defined(prev[o])) THEN Malloced
    ELSE LET changed == {o \in Places : Differs(p[o], prev[o])} IN
         IF changed = {} \/ Cardinality(changed) * 100 < PercentageChanged * Columns * Rows THEN p
         ELSE IF kind = "border"
         THEN [o \in Places |-> IF Col(o) \in {0, Columns - 1} \/ Row(o) \in {0, Rows - 1}
                                THEN [p[o] EXCEPT ![1] = 255] ELSE p[o]]
         ELSE Painted(p, MarkedPlaces(kind, changed), MarkColour)

-----------------------------------------------------------------------------
(* apply_filters().                                                        *)

\* apply(in_out), given what the filter kept, prev_frame_rgb and the bitmap of the meta
\* data: the picture, what is kept, and whether memory that is not of a picture was touched.
Effect(p, keep, outside) == [picture |-> p, keep |-> keep, outside |-> outside]
Apply(f, p, keep, prev, bits) ==
    CASE f.kind \in {"average", "median"} ->
           Effect(Oldest(f.kind, Remember(keep, p), p), Remember(keep, p), FALSE)
      [] f.kind = "motion"    -> IF prev = NoPicture THEN Effect(p, keep, FALSE)
                                 ELSE Effect(MotionOnly(p, IF keep = <<>> THEN Malloced ELSE keep[1]),
                                             <<p>>, FALSE)
      [] f.kind = "contrast"  -> Effect(Contrasted(p), keep, FALSE)
      [] f.kind = "mask"      -> Effect(HardMasked(p), keep, FALSE)
      [] f.kind = "soft-mask" -> Effect(SoftMasked(p), keep, FALSE)
      [] f.kind = "draw"      -> Effect(Painted(p, DrawnPlaces(f), <<255, 0, 0>>), keep,
                                        ~DrawnPlaces(f) \subseteq Places)
      [] f.kind = "overlay"   -> Effect(Painted(p, Overlaid(f), <<0, 0, 254>>), keep,
                                        ~Overlaid(f) \subseteq Places)
      [] f.kind = "copy"      -> Effect(p, keep, \E o \in BoxPlaces : Spot(f, o) \notin Places)
      [] f.kind = "bitmap"    -> IF bits = NoPicture THEN Effect(p, keep, FALSE)
                                 ELSE Effect(PutBitmap(f, p, bits), keep,
                                        \/ PutTooFar(f)
                                        \/ \E o \in PutPlaces(f) : Spot(f, o) \notin Places)
      [] f.kind \in Markers   -> Effect(IF prev = NoPicture THEN p ELSE Marked(f.kind, p, prev),
                                        keep, FALSE)

Arrive ==
    /\ chain.at = 0 /\ Len(inputs[1]) < MaxPictures
    /\ \E p \in Scenes :
          chain' = [chain EXCEPT !.at = 1, !.work = p, !.temp = NoPicture, !.in_temp = FALSE]
    /\ UNCHANGED <<kept, bitmap, inputs>>

InChain == chain.at \in 1 .. Len(chain.list)
Current == IF chain.in_temp THEN chain.temp ELSE chain.work
Other == IF chain.in_temp THEN chain.work
         ELSE IF chain.temp = NoPicture THEN Malloced ELSE chain.temp
Seen == inputs' = [inputs EXCEPT ![chain.at] = Append(@, Current)]

MakeNew ==
    /\ InChain /\ chain.list[chain.at].kind \in NewPicture
    /\ LET out == ApplyIo(chain.list[chain.at], Current, Other) IN
       chain' = [chain EXCEPT !.at = @ + 1, !.in_temp = ~@,
                              !.work = IF chain.in_temp THEN out ELSE @,
                              !.temp = IF chain.in_temp THEN @ ELSE out]
    /\ Seen /\ UNCHANGED <<kept, bitmap>>

ChangeInPlace ==
    /\ InChain /\ chain.list[chain.at].kind \notin NewPicture
    /\ LET f == chain.list[chain.at]
           effect == Apply(f, Current, kept[chain.at], chain.prev, bitmap)
       IN /\ chain' = [chain EXCEPT !.at = @ + 1, !.outside = @ \/ effect.outside,
                                    !.work = IF chain.in_temp THEN @ ELSE effect.picture,
                                    !.temp = IF chain.in_temp THEN effect.picture ELSE @]
          /\ kept' = [kept EXCEPT ![chain.at] = effect.keep]
          /\ bitmap' = IF f.kind = "copy" THEN Taken(f, Current) ELSE bitmap
    /\ Seen

\* Mutated form of HandOut: without the last memcpy().
HandOutWork ==
    /\ chain.at = Len(chain.list) + 1
    /\ chain' = [chain EXCEPT !.at = 0, !.prev = chain.work, !.work = NoPicture, !.temp = NoPicture]
    /\ inputs' = [inputs EXCEPT ![chain.at] = Append(@, chain.work)]
    /\ UNCHANGED <<kept, bitmap>>
\* The picture is in work, and becomes prev_frame_rgb of the source.
HandOut ==
    /\ chain.at = Len(chain.list) + 1
    /\ chain' = [chain EXCEPT !.at = 0, !.prev = Current, !.work = NoPicture, !.temp = NoPicture]
    /\ inputs' = [inputs EXCEPT ![chain.at] = Append(@, Current)]
    /\ UNCHANGED <<kept, bitmap>>

FilterNext == Arrive \/ MakeNew \/ ChangeInPlace \/ HandOut
FilterSpec == FilterInit /\ [][FilterNext]_filterVars

-----------------------------------------------------------------------------
(* Properties.                                                             *)

\* The pictures, of those that it saw, that filter_average or filter_median uses for the
\* k-th one: not that one itself, but for the first time that there are enough.
Window(s, k) == [n \in 1 .. KeptPictures |->
                    s[IF k = KeptPictures THEN n ELSE k - KeptPictures + n - 1]]
IsMedian(v, values) ==
    \/ v = Garbage /\ \E n \in DOMAIN values : values[n] = Garbage
    \/ /\ Cardinality({n \in DOMAIN values : values[n] < v}) <= Len(values) \div 2
       /\ Cardinality({n \in DOMAIN values : values[n] <= v}) > Len(values) \div 2

\* A pixel that is the darkest so far is not looked at as the brightest one.
RecordLow(p, o) ==
    Brightness(p[o]) < 255 /\ \A b \in 0 .. o - 1 : Brightness(p[b]) > Brightness(p[o])
Boosted(p) ==
    LET low == Min({255} \cup {Brightness(p[o]) : o \in Places})
        high == Max({0} \cup {Brightness(p[o]) : o \in {r \in Places : ~RecordLow(p, r)}})
    IN IF low = high \/ (low = 0 /\ high = 255) THEN p
       ELSE [o \in Places |-> [c \in Channels |-> Stretched(p[o][c], low, high)]]

\* The filter before i that made a new picture.
LastNew(list, i) == {j \in 1 .. i - 1 : /\ list[j].kind \in NewPicture
                                        /\ \A m \in j + 1 .. i - 1 : list[m].kind \notin NewPicture}

\* The filter_copy that ran last before i, for the same picture or the one before.
Copies(list) == {j \in DOMAIN list : list[j].kind = "copy"}
CopyFor(list, i, k) ==
    LET before == {j \in Copies(list) : j < i}
    IN IF before # {} THEN {<<Max(before), k>>}
       ELSE IF k > 1 /\ Copies(list) # {} THEN {<<Max(Copies(list)), k - 1>>} ELSE {}
Pasted(f, p, q, of, from) ==
    \A o \in Places :
       LET here == {b \in PutPlaces(f) : Spot(f, b) = o}
       IN IF here = {} THEN q[o] = p[o] ELSE \E b \in here : q[o] = Taken(of, from)[b]

\* The place of a box that is not in the picture.
StartsOutside(f) ==
    CASE f.kind = "draw"    -> f.x < -Box \/ f.y < -Box
      [] f.kind = "overlay" -> f.x < 0 \/ f.y < 0
      [] f.kind = "bitmap"  -> f.x < -Columns \/ f.y < -Rows \/ f.x > Columns
      [] f.kind = "copy"    -> \/ FromEnd(f.x, Columns) \notin 0 .. Columns - Box
                               \/ FromEnd(f.y, Rows) \notin 0 .. Rows - Box
      [] OTHER              -> FALSE

\* q is what filter i of the list has to make of its k-th picture, given what all of them saw.
Makes(list, seen, i, k, q) ==
    LET f == list[i]
        p == seen[i][k]
    IN CASE f.kind \in {"average", "median"} /\ k < KeptPictures -> q = p
         [] f.kind = "average" /\ k >= KeptPictures -> q = PerValue("average", Window(seen[i], k))
         [] f.kind = "median" /\ k >= KeptPictures ->
              \A o \in Places, c \in Channels :
                 IsMedian(q[o][c], [n \in 1 .. KeptPictures |-> Window(seen[i], k)[n][o][c]])
         [] f.kind = "motion" /\ k = 1 -> q = p
         [] f.kind = "motion" /\ k = 2 -> \A o \in Places : ~Defined(q[o])
         [] f.kind = "motion" /\ k > 2 -> q = MotionOnly(p, seen[i][k - 1])
         [] f.kind = "noise" ->
              \A o \in Places :
                 IF Inner(o) THEN q[o] = Denoised(p, p)[o]
                 ELSE IF LastNew(list, i) = {} THEN ~Defined(q[o])
                 ELSE \A j \in LastNew(list, i) : q[o] = seen[j][k][o]
         [] f.kind = "contrast" /\ (\A o \in Places : Defined(p[o])) -> q = Boosted(p)
         [] f.kind = "copy" -> q = p
         [] f.kind = "bitmap" /\ CopyFor(list, i, k) = {} -> q = p
         [] f.kind = "bitmap" /\ CopyFor(list, i, k) # {} ->
              \A c \in CopyFor(list, i, k) : Pasted(f, p, q, list[c[1]], seen[c[1]][c[2]])
         [] f.kind \in NewPicture \ {"noise"} -> q = ApplyIo(f, p, Malloced)
         [] f.kind \in Markers ->
              q = IF k = 1 THEN p ELSE Marked(f.kind, p, seen[Len(seen)][k - 1])
         [] f.kind \in {"mask", "soft-mask", "draw", "overlay"} -> q = Apply(f, p, <<>>, NoPicture, NoPicture).picture
         [] OTHER -> TRUE    \* contrast of a picture that is not known

\* Whatever filters run before and after it, with pictures handed on in either of
\* two buffers: each filter makes of its pictures what it is to make, of those it
\* was given before too; only the edge that filter_noise_neighavg does not write
\* is that of an older picture or of no picture.  Memory outside of the pictures is
\* touched only by a box with a place outside of them.
FiltersSound ==
    /\ \A i \in DOMAIN chain.list : \A k \in DOMAIN inputs[i + 1] :
          Makes(chain.list, inputs, i, k, inputs[i + 1][k])
    /\ chain.outside => \E i \in DOMAIN chain.list : StartsOutside(chain.list[i])
=============================================================================
