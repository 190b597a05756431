----------------------------- MODULE SourceProofs ------------------------------
(***************************************************************************)
(* Proofs about what a source takes in and hands on.  MjpegStream: however *)
(* a camera cuts its stream into pieces, every picture taken from it is    *)
(* whole.  PixelCommands: commands of a pixelflood client are executed     *)
(* whole and in order.  FilterChain: whatever filters run before and after *)
(* it, each makes of its pictures what it is to make.  FrameBuffer: for    *)
(* any number of consumers, and however the clock is set, nobody sleeps    *)
(* through a frame, and nobody is shown frames in another order than they  *)
(* were captured.                                                          *)
(***************************************************************************)
EXTENDS MjpegStream, PixelCommands, FilterChain, FrameBuffer, SequenceTheorems,
        FiniteSetTheorems, WellFoundedInduction, TLAPS

-----------------------------------------------------------------------------
(* Induction.                                                              *)

LEMMA LeastNatural ==
    ASSUME NEW T, T \subseteq Nat, T # {}
    PROVE  \E n \in T : \A m \in T : n <= m
<1> DEFINE R == StrictSubsetOrdering(Nat)
           F == FiniteSubsetsOf(Nat)
           U == {0 .. n : n \in T}
<1>1. IsWellFoundedOn(R, F)
    BY FS_StrictSubsetOrderingWellFounded
<1>2. U \subseteq F
    <2> SUFFICES ASSUME NEW n \in T PROVE 0 .. n \in F
        OBVIOUS
    <2>1. n \in Nat /\ 0 \in Int /\ n \in Int
        OBVIOUS
    <2>2. IsFiniteSet(0 .. n)
        BY <2>1, FS_Interval
    <2> QED
        BY <2>1, <2>2 DEF FiniteSubsetsOf
<1>3. U # {}
    OBVIOUS
<1> HIDE DEF U
<1>4. PICK x \in U : \A y \in U : ~(<<y, x>> \in R)
    <2> HIDE DEF R, F
    <2> QED
        BY <1>1, <1>2, <1>3, WFMin
<1>5. PICK n \in T : x = 0 .. n
    BY <1>4 DEF U
<1>6. ASSUME NEW m \in T PROVE n <= m
    <2>0. m \in Nat /\ n \in Nat
        BY <1>6
    <2>1. 0 .. m \in U
        BY <1>6 DEF U
    <2>2. <<0 .. m, 0 .. n>> \notin R
        BY <2>1, <1>4, <1>5
    <2>3. SUFFICES ASSUME m < n PROVE FALSE
        BY <2>0
    <2>4. 0 .. m \subseteq 0 .. n /\ 0 .. m # 0 .. n /\ 0 .. n \subseteq Nat
        BY <2>0, <2>3
    <2> QED
        BY <2>2, <2>4 DEF StrictSubsetOrdering
<1> QED
    BY <1>5, <1>6

LEMMA NaturalInduction ==
    ASSUME NEW S, 0 \in S, \A n \in Nat : n \in S => n + 1 \in S
    PROVE  Nat \subseteq S
<1> DEFINE T == Nat \ S
<1>1. SUFFICES ASSUME T # {} PROVE FALSE
    OBVIOUS
<1>2. PICK n \in T : \A m \in T : n <= m
    <2>1. T \subseteq Nat
        OBVIOUS
    <2> HIDE DEF T
    <2> QED
        BY <1>1, <2>1, LeastNatural
<1>3. n \in Nat /\ n # 0
    OBVIOUS
<1>4. n - 1 \in Nat /\ n - 1 \notin T
    BY <1>2, <1>3
<1> QED
    BY <1>3, <1>4

Symbols == {"boundary", "length", "blank", "byte"} \X Int
Cameras ==
    [lengths : BOOLEAN, boundary : BOOLEAN, type : {"multipart", "image/jpeg"},
     format : {"jpeg", "bmp"}, size : Seq(Nat)]

\* What a camera sent up to each of its parts.
Upto(c) ==
    CHOOSE first : first = [i \in 0 .. Len(c.size) |->
        IF i = 0 THEN <<>> ELSE first[i - 1] \o HeaderOf(c, i) \o PictureOf(c, i)]
HeaderLength(c) == IF c.lengths THEN 3 ELSE 2

\* Data is what came in behind a place of the stream.
Aligned(d, c, place, sent) ==
    /\ d \in Seq(Symbols)
    /\ place + Len(d) = sent
    /\ \A j \in 1 .. Len(d) : d[j] = StreamOf(c)[place + j]

EndOf(c, i) == Len(Upto(c)[i])

\* Where the thread is in the stream.
Reading(m, c, sent) ==
    IF m.header
    THEN Aligned(m.data, c, EndOf(c, Len(m.cut)), sent)
    ELSE /\ Len(m.cut) < MjpegParts
         /\ Aligned(m.data, c, EndOf(c, Len(m.cut)) + HeaderLength(c), sent)
         /\ m.req_len = IF c.lengths THEN c.size[Len(m.cut) + 1] ELSE 0

-----------------------------------------------------------------------------
(* The stream.                                                             *)

LEMMA SymbolsAre ==
    /\ Boundary \in Symbols /\ BlankLine \in Symbols
    /\ \A n \in Int : LengthOf(n) \in Symbols /\ Byte(n) \in Symbols
BY DEF Boundary, BlankLine, LengthOf, Byte, Symbols

LEMMA HeaderIs ==
    ASSUME NEW c \in Cameras, NEW i \in 1 .. Len(c.size)
    PROVE  /\ HeaderOf(c, i) \in Seq(Symbols) /\ Len(HeaderOf(c, i)) = HeaderLength(c)
           /\ HeaderOf(c, i)[1] = Boundary
           /\ HeaderOf(c, i)[HeaderLength(c)] = BlankLine
           /\ c.lengths => HeaderOf(c, i)[2] = LengthOf(c.size[i])
           /\ HeaderLength(c) \in {2, 3}
           /\ PictureOf(c, i) \in Seq(Symbols) /\ Len(PictureOf(c, i)) = c.size[i]
           /\ \A j \in 1 .. c.size[i] : PictureOf(c, i)[j] = Byte(i)
           /\ c.size[i] \in Nat
<1>1. c.size \in Seq(Nat) /\ c.lengths \in BOOLEAN
    BY DEF Cameras
<1>2. c.size[i] \in Nat /\ i \in Int
    BY <1>1
<1>3. LengthOf(c.size[i]) \in Symbols /\ Byte(i) \in Symbols /\ Boundary \in Symbols /\ BlankLine \in Symbols
    BY <1>2, SymbolsAre
<1>4. HeaderOf(c, i) = IF c.lengths THEN <<Boundary, LengthOf(c.size[i]), BlankLine>> ELSE <<Boundary, BlankLine>>
    BY DEF HeaderOf
<1>5. PictureOf(c, i) = [j \in 1 .. c.size[i] |-> Byte(i)]
    BY DEF PictureOf
<1>6. PictureOf(c, i) \in Seq(Symbols) /\ Len(PictureOf(c, i)) = c.size[i]
    BY <1>2, <1>3, <1>5
<1> HIDE DEF Symbols
<1>7. CASE c.lengths
    BY <1>3, <1>4, <1>7, <1>6, <1>5, <1>2 DEF HeaderLength
<1>8. CASE ~c.lengths
    BY <1>3, <1>4, <1>8, <1>6, <1>5, <1>2 DEF HeaderLength
<1> QED
    BY <1>7, <1>8, <1>1

\* One more part.
Step(c, s, i) == s \o HeaderOf(c, i) \o PictureOf(c, i)
Prefixes(f, c) ==
    f = [i \in 0 .. Len(c.size) |-> IF i = 0 THEN <<>> ELSE Step(c, f[i - 1], i)]

LEMMA PrefixesExist ==
    ASSUME NEW c \in Cameras
    PROVE  \E f : Prefixes(f, c)
<1> DEFINE To(g, k) == g = [i \in 0 .. k |-> IF i = 0 THEN <<>> ELSE Step(c, g[i - 1], i)]
           S == {k \in Nat : \E g : To(g, k)}
<1>1. 0 \in S
    <2> DEFINE g == [i \in 0 .. 0 |-> <<>>]
    <2>1. To(g, 0)
        OBVIOUS
    <2> QED
        BY <2>1
<1>2. ASSUME NEW k \in Nat, k \in S PROVE k + 1 \in S
    <2>1. PICK g : To(g, k)
        BY <1>2
    <2> DEFINE last == Step(c, g[k], k + 1)
               h == [i \in 0 .. k + 1 |-> IF i = k + 1 THEN last ELSE g[i]]
    <2>2. \A i \in 0 .. k : g[i] = IF i = 0 THEN <<>> ELSE Step(c, g[i - 1], i)
        BY <2>1
    <2> HIDE DEF last
    <2>3. \A i \in 0 .. k + 1 : h[i] = IF i = k + 1 THEN last ELSE g[i]
        OBVIOUS
    <2>4. DOMAIN h = 0 .. k + 1 /\ h = [i \in 0 .. k + 1 |-> h[i]]
        OBVIOUS
    <2> HIDE DEF h
    <2>5. \A i \in 0 .. k + 1 : h[i] = IF i = 0 THEN <<>> ELSE Step(c, h[i - 1], i)
        <3> SUFFICES ASSUME NEW i \in 0 .. k + 1
                     PROVE  h[i] = IF i = 0 THEN <<>> ELSE Step(c, h[i - 1], i)
            OBVIOUS
        <3>1. CASE i = 0
            BY <2>2, <2>3, <3>1
        <3>2. CASE i = k + 1
            <4>1. h[i - 1] = g[k] /\ i # 0
                BY <2>3, <3>2
            <4> QED
                BY <2>3, <3>2, <4>1 DEF last
        <3>3. CASE i # 0 /\ i # k + 1
            <4>1. i \in 0 .. k /\ i - 1 \in 0 .. k
                BY <3>3
            <4>2. h[i] = g[i] /\ h[i - 1] = g[i - 1]
                BY <2>3, <3>3, <4>1
            <4> QED
                BY <2>2, <3>3, <4>1, <4>2
        <3> QED
            BY <3>1, <3>2, <3>3
    <2>6. To(h, k + 1)
        BY <2>4, <2>5
    <2> HIDE DEF To
    <2>7. \E e : To(e, k + 1)
        BY <2>6
    <2> QED
        BY <2>7
<1> HIDE DEF S
<1>3. Nat \subseteq S
    BY <1>1, <1>2, NaturalInduction
<1>4. Len(c.size) \in S
    BY <1>3 DEF Cameras
<1> QED
    BY <1>4 DEF S, Prefixes

LEMMA UptoIs ==
    ASSUME NEW c \in Cameras
    PROVE  /\ Upto(c)[0] = <<>>
           /\ \A i \in 1 .. Len(c.size) :
                Upto(c)[i] = Upto(c)[i - 1] \o HeaderOf(c, i) \o PictureOf(c, i)
           /\ StreamOf(c) = Upto(c)[Len(c.size)]
<1>1. Upto(c) = CHOOSE f : Prefixes(f, c)
    BY DEF Upto, Prefixes, Step
<1>2. Prefixes(Upto(c), c)
    <2> HIDE DEF Prefixes
    <2> QED
        BY <1>1, PrefixesExist
<1>3. Len(c.size) \in Nat
    BY DEF Cameras
<1>4. StreamOf(c) = Upto(c)[Len(c.size)]
    BY DEF StreamOf, Upto
<1> HIDE DEF Upto
<1>5. Upto(c) = [i \in 0 .. Len(c.size) |-> IF i = 0 THEN <<>> ELSE Step(c, Upto(c)[i - 1], i)]
    BY <1>2 DEF Prefixes
<1>6. \A i \in 0 .. Len(c.size) : Upto(c)[i] = IF i = 0 THEN <<>> ELSE Step(c, Upto(c)[i - 1], i)
    BY <1>5
<1>7. Upto(c)[0] = <<>>
    BY <1>3, <1>6
<1>8. ASSUME NEW i \in 1 .. Len(c.size)
      PROVE  Upto(c)[i] = Upto(c)[i - 1] \o HeaderOf(c, i) \o PictureOf(c, i)
    <2>1. i \in 0 .. Len(c.size) /\ i # 0
        BY <1>3
    <2>2. Upto(c)[i] = Step(c, Upto(c)[i - 1], i)
        BY <1>6, <2>1
    <2> QED
        BY <2>2 DEF Step
<1> QED
    BY <1>4, <1>7, <1>8

LEMMA ThreeParts ==
    ASSUME NEW a \in Seq(Symbols), NEW h \in Seq(Symbols), NEW p \in Seq(Symbols)
    PROVE  LET s == a \o h \o p IN
           /\ s \in Seq(Symbols) /\ Len(s) = Len(a) + Len(h) + Len(p)
           /\ \A j \in 1 .. Len(a) : s[j] = a[j]
           /\ \A j \in 1 .. Len(h) : s[Len(a) + j] = h[j]
           /\ \A j \in 1 .. Len(p) : s[Len(a) + Len(h) + j] = p[j]
<1> HIDE DEF Symbols
<1> DEFINE b == a \o h
<1>1. b \in Seq(Symbols) /\ Len(b) = Len(a) + Len(h)
    OBVIOUS
<1>2. \A j \in 1 .. Len(b) : b[j] = IF j <= Len(a) THEN a[j] ELSE h[j - Len(a)]
    OBVIOUS
<1>3. Len(a) \in Nat /\ Len(h) \in Nat /\ Len(p) \in Nat
    OBVIOUS
<1> HIDE DEF b
<1>4. b \o p \in Seq(Symbols) /\ Len(b \o p) = Len(b) + Len(p)
    BY <1>1, ConcatProperties
<1>5. \A j \in 1 .. Len(b) + Len(p) : (b \o p)[j] = IF j <= Len(b) THEN b[j] ELSE p[j - Len(b)]
    BY <1>1, ConcatProperties
<1> DEFINE s == b \o p
<1> HIDE DEF s
<1>6. \A j \in 1 .. Len(a) : s[j] = a[j]
    BY <1>1, <1>2, <1>3, <1>5 DEF s
<1>7. ASSUME NEW j \in 1 .. Len(h) PROVE s[Len(a) + j] = h[j]
    <2>1. Len(a) + j \in 1 .. Len(b) /\ ~(Len(a) + j <= Len(a)) /\ Len(a) + j - Len(a) = j
        BY <1>1, <1>3
    <2>2. s[Len(a) + j] = b[Len(a) + j]
        BY <1>1, <1>3, <1>5, <2>1 DEF s
    <2> QED
        BY <1>2, <2>1, <2>2
<1>8. ASSUME NEW j \in 1 .. Len(p) PROVE s[Len(a) + Len(h) + j] = p[j]
    BY <1>1, <1>3, <1>5 DEF s
<1> QED
    BY <1>1, <1>4, <1>6, <1>7, <1>8 DEF s, b

LEMMA UptoType ==
    ASSUME NEW c \in Cameras
    PROVE  \A i \in 0 .. Len(c.size) : Upto(c)[i] \in Seq(Symbols)
<1> DEFINE S == {k \in Nat : k <= Len(c.size) => Upto(c)[k] \in Seq(Symbols)}
<1>0. Len(c.size) \in Nat
    BY DEF Cameras
<1> HIDE DEF Symbols, Cameras, Upto
<1>1. 0 \in S
    <2>1. Upto(c)[0] = <<>>
        BY UptoIs
    <2>2. <<>> \in Seq(Symbols)
        OBVIOUS
    <2>3. Upto(c)[0] \in Seq(Symbols)
        BY <2>1, <2>2
    <2> QED
        BY <2>3
<1>2. ASSUME NEW k \in Nat, k \in S PROVE k + 1 \in S
    <2> SUFFICES ASSUME k + 1 <= Len(c.size) PROVE Upto(c)[k + 1] \in Seq(Symbols)
        OBVIOUS
    <2>1. k + 1 \in 1 .. Len(c.size) /\ (k + 1) - 1 = k
        BY <1>0
    <2>2. Upto(c)[k + 1] = Upto(c)[k] \o HeaderOf(c, k + 1) \o PictureOf(c, k + 1)
        BY <2>1, UptoIs
    <2>3. Upto(c)[k] \in Seq(Symbols)
        BY <1>0, <1>2, <2>1
    <2>4. HeaderOf(c, k + 1) \in Seq(Symbols) /\ PictureOf(c, k + 1) \in Seq(Symbols)
        BY <2>1, HeaderIs
    <2> QED
        BY <2>2, <2>3, <2>4
<1> HIDE DEF S
<1>3. Nat \subseteq S
    BY <1>1, <1>2, NaturalInduction
<1> QED
    BY <1>0, <1>3 DEF S

\* A part: where it ends, and what is in it.
LEMMA PartIs ==
    ASSUME NEW c \in Cameras, NEW i \in 1 .. Len(c.size)
    PROVE  /\ EndOf(c, i - 1) \in Nat /\ EndOf(c, i) \in Nat
           /\ EndOf(c, i) = EndOf(c, i - 1) + HeaderLength(c) + c.size[i]
           /\ \A j \in 1 .. EndOf(c, i - 1) : Upto(c)[i][j] = Upto(c)[i - 1][j]
           /\ \A j \in 1 .. HeaderLength(c) :
                Upto(c)[i][EndOf(c, i - 1) + j] = HeaderOf(c, i)[j]
           /\ \A j \in 1 .. c.size[i] :
                Upto(c)[i][EndOf(c, i - 1) + HeaderLength(c) + j] = Byte(i)
<1> DEFINE a == Upto(c)[i - 1]
           h == HeaderOf(c, i)
           p == PictureOf(c, i)
<1>0. Len(c.size) \in Nat
    BY DEF Cameras
<1> HIDE DEF Symbols, Cameras, Upto
<1>1. a \in Seq(Symbols)
    BY <1>0, UptoType
<1>2. h \in Seq(Symbols) /\ p \in Seq(Symbols) /\ Len(h) = HeaderLength(c) /\ Len(p) = c.size[i]
    BY HeaderIs
<1>3. Upto(c)[i] = a \o h \o p
    BY UptoIs
<1>4. \A j \in 1 .. c.size[i] : p[j] = Byte(i)
    BY HeaderIs
<1>5. Len(a) \in Nat /\ Len(h) \in Nat /\ Len(p) \in Nat
    BY <1>1, <1>2
<1> HIDE DEF a, h, p
<1> DEFINE s == a \o h \o p
<1>6. /\ s \in Seq(Symbols) /\ Len(s) = Len(a) + Len(h) + Len(p)
      /\ \A j \in 1 .. Len(a) : s[j] = a[j]
      /\ \A j \in 1 .. Len(h) : s[Len(a) + j] = h[j]
      /\ \A j \in 1 .. Len(p) : s[Len(a) + Len(h) + j] = p[j]
    BY <1>1, <1>2, ThreeParts
<1>7. Upto(c)[i] = s
    BY <1>3
<1> HIDE DEF s
<1>8. EndOf(c, i - 1) = Len(a) /\ EndOf(c, i) = Len(s)
    BY <1>7 DEF EndOf, a
<1>9. c.size[i] \in Nat /\ HeaderLength(c) \in {2, 3}
    BY HeaderIs
<1>10. EndOf(c, i) = Len(a) + HeaderLength(c) + c.size[i]
    BY <1>2, <1>6, <1>8
<1>11. \A j \in 1 .. EndOf(c, i - 1) : Upto(c)[i][j] = Upto(c)[i - 1][j]
    BY <1>6, <1>7, <1>8 DEF a
<1>12. \A j \in 1 .. HeaderLength(c) : Upto(c)[i][EndOf(c, i - 1) + j] = HeaderOf(c, i)[j]
    BY <1>2, <1>6, <1>7, <1>8 DEF h
<1>13. \A j \in 1 .. c.size[i] : Upto(c)[i][EndOf(c, i - 1) + HeaderLength(c) + j] = Byte(i)
    BY <1>2, <1>4, <1>6, <1>7, <1>8
<1>14. EndOf(c, i - 1) \in Nat /\ EndOf(c, i) \in Nat
    BY <1>5, <1>8, <1>9, <1>10
<1>15. EndOf(c, i) = EndOf(c, i - 1) + HeaderLength(c) + c.size[i]
    BY <1>8, <1>10
<1> HIDE DEF EndOf
<1> QED
    BY <1>11, <1>12, <1>13, <1>14, <1>15

\* The parts of before stay where they are.
LEMMA PrefixStays ==
    ASSUME NEW c \in Cameras, NEW i \in 0 .. Len(c.size)
    PROVE  \A k \in i .. Len(c.size) :
             /\ EndOf(c, i) \in Nat /\ EndOf(c, k) \in Nat /\ EndOf(c, i) <= EndOf(c, k)
             /\ \A j \in 1 .. EndOf(c, i) : Upto(c)[k][j] = Upto(c)[i][j]
<1> DEFINE Q(k) == /\ EndOf(c, i) \in Nat /\ EndOf(c, k) \in Nat /\ EndOf(c, i) <= EndOf(c, k)
                   /\ \A j \in 1 .. EndOf(c, i) : Upto(c)[k][j] = Upto(c)[i][j]
           S == {n \in Nat : i + n <= Len(c.size) => Q(i + n)}
<1>0. Len(c.size) \in Nat /\ i \in Nat
    BY DEF Cameras
<1> HIDE DEF Symbols, Cameras, Upto
<1>1. 0 \in S
    <2>1. EndOf(c, i) \in Nat
        BY UptoType DEF EndOf
    <2>2. i + 0 = i
        BY <1>0
    <2> QED
        BY <1>0, <2>1, <2>2
<1>2. ASSUME NEW n \in Nat, n \in S PROVE n + 1 \in S
    <2> SUFFICES ASSUME i + (n + 1) <= Len(c.size) PROVE Q(i + (n + 1))
        OBVIOUS
    <2>1. i + (n + 1) \in 1 .. Len(c.size) /\ (i + (n + 1)) - 1 = i + n /\ i + n <= Len(c.size)
        BY <1>0
    <2>2. Q(i + n)
        BY <1>2, <2>1
    <2>3. /\ EndOf(c, i + (n + 1)) \in Nat
          /\ EndOf(c, i + (n + 1)) = EndOf(c, i + n) + HeaderLength(c) + c.size[i + (n + 1)]
          /\ \A j \in 1 .. EndOf(c, i + n) : Upto(c)[i + (n + 1)][j] = Upto(c)[i + n][j]
        BY <2>1, PartIs
    <2>4. HeaderLength(c) \in {2, 3} /\ c.size[i + (n + 1)] \in Nat
        BY <2>1, HeaderIs
    <2>5. EndOf(c, i) <= EndOf(c, i + (n + 1))
        BY <2>2, <2>3, <2>4
    <2>6. ASSUME NEW j \in 1 .. EndOf(c, i) PROVE Upto(c)[i + (n + 1)][j] = Upto(c)[i][j]
        <3>1. j \in 1 .. EndOf(c, i + n)
            BY <2>2
        <3> QED
            BY <2>2, <2>3, <3>1
    <2> QED
        BY <2>2, <2>3, <2>5, <2>6
<1> HIDE DEF S
<1>3. Nat \subseteq S
    BY <1>1, <1>2, NaturalInduction
<1>4. ASSUME NEW k \in i .. Len(c.size) PROVE Q(k)
    <2>1. k - i \in Nat /\ i + (k - i) = k /\ k <= Len(c.size)
        BY <1>0
    <2>2. k - i \in S
        BY <1>3, <2>1
    <2> HIDE DEF Q
    <2> QED
        BY <2>1, <2>2 DEF S
<1> QED
    BY <1>4

\* The part at its place in the stream.
LEMMA StreamIs ==
    ASSUME NEW c \in Cameras, NEW i \in 1 .. Len(c.size)
    PROVE  /\ \A j \in 1 .. HeaderLength(c) :
                StreamOf(c)[EndOf(c, i - 1) + j] = HeaderOf(c, i)[j]
           /\ \A j \in 1 .. c.size[i] :
                StreamOf(c)[EndOf(c, i - 1) + HeaderLength(c) + j] = Byte(i)
           /\ EndOf(c, i) <= Len(StreamOf(c))
           /\ StreamOf(c) \in Seq(Symbols)
<1> DEFINE n == Len(c.size)
<1>0. n \in Nat /\ i \in 0 .. n /\ n \in i .. n /\ n \in 0 .. n
    BY DEF Cameras
<1> HIDE DEF Symbols, Cameras, Upto
<1>1. StreamOf(c) = Upto(c)[n]
    BY UptoIs
<1>2. StreamOf(c) \in Seq(Symbols)
    BY <1>0, <1>1, UptoType
<1>3. /\ EndOf(c, i) <= EndOf(c, n)
      /\ \A j \in 1 .. EndOf(c, i) : Upto(c)[n][j] = Upto(c)[i][j]
    BY <1>0, PrefixStays
<1>4. /\ EndOf(c, i - 1) \in Nat /\ EndOf(c, i) \in Nat
      /\ EndOf(c, i) = EndOf(c, i - 1) + HeaderLength(c) + c.size[i]
      /\ \A j \in 1 .. HeaderLength(c) :
                Upto(c)[i][EndOf(c, i - 1) + j] = HeaderOf(c, i)[j]
      /\ \A j \in 1 .. c.size[i] :
                Upto(c)[i][EndOf(c, i - 1) + HeaderLength(c) + j] = Byte(i)
    BY PartIs
<1>5. HeaderLength(c) \in {2, 3} /\ c.size[i] \in Nat
    BY HeaderIs
<1>p. /\ EndOf(c, i - 1) \in Nat /\ EndOf(c, i) \in Nat
      /\ EndOf(c, i) = EndOf(c, i - 1) + HeaderLength(c) + c.size[i]
    BY <1>4
<1>6. ASSUME NEW j \in 1 .. HeaderLength(c)
      PROVE  StreamOf(c)[EndOf(c, i - 1) + j] = HeaderOf(c, i)[j]
    <2>1. EndOf(c, i - 1) + j \in 1 .. EndOf(c, i)
        BY <1>p, <1>5
    <2> QED
        BY <1>1, <1>3, <1>4, <2>1
<1>7. ASSUME NEW j \in 1 .. c.size[i]
      PROVE  StreamOf(c)[EndOf(c, i - 1) + HeaderLength(c) + j] = Byte(i)
    <2>1. EndOf(c, i - 1) + HeaderLength(c) + j \in 1 .. EndOf(c, i)
        BY <1>p, <1>5
    <2> QED
        BY <1>1, <1>3, <1>4, <2>1
<1>8. EndOf(c, i) <= Len(StreamOf(c))
    BY <1>1, <1>3 DEF EndOf
<1> QED
    BY <1>2, <1>6, <1>7, <1>8

LEMMA CameraIs ==
    ASSUME NEW c \in MjpegCameras
    PROVE  /\ c \in Cameras /\ Len(c.size) = MjpegParts /\ MjpegParts \in Nat
           /\ c.lengths \in BOOLEAN /\ c.boundary \in BOOLEAN
<1>1. c.size \in [1 .. MjpegParts -> MjpegSizes] /\ MjpegParts \in Nat /\ MjpegSizes \subseteq Nat
    BY MjpegAssumption DEF MjpegCameras
<1>2. c.size \in Seq(Nat) /\ Len(c.size) = MjpegParts
    <2> DEFINE s == [j \in 1 .. MjpegParts |-> c.size[j]]
    <2>1. c.size = s
        BY <1>1
    <2>2. \A j \in 1 .. MjpegParts : c.size[j] \in Nat
        BY <1>1
    <2>3. s \in Seq(Nat) /\ Len(s) = MjpegParts
        BY <1>1, <2>2
    <2> HIDE DEF s
    <2> QED
        BY <2>1, <2>3
<1> QED
    BY <1>1, <1>2 DEF MjpegCameras, Cameras

\* A camera that sends some of the parts only.
LEMMA FewerParts ==
    ASSUME NEW c \in Cameras, NEW k \in 1 .. Len(c.size)
    PROVE  Len(StreamOf([c EXCEPT !.size = SubSeq(@, 1, k)])) = EndOf(c, k)
<1> DEFINE d == [c EXCEPT !.size = SubSeq(@, 1, k)]
<1>0. c.size \in Seq(Nat) /\ k \in Nat /\ k <= Len(c.size) /\ Len(c.size) \in Nat
    BY DEF Cameras
<1>1. d.size = SubSeq(c.size, 1, k) /\ d.lengths = c.lengths
    BY DEF Cameras
<1>2. d.size \in Seq(Nat) /\ Len(d.size) = k /\ \A j \in 1 .. k : d.size[j] = c.size[j]
    <2> HIDE DEF d
    <2> QED
        BY <1>0, <1>1
<1>3. d \in Cameras
    BY <1>2 DEF Cameras
<1> HIDE DEF d, Symbols, Cameras, Upto
<1> DEFINE S == {n \in Nat : n <= k => Upto(d)[n] = Upto(c)[n]}
<1>4. 0 \in S
    BY <1>3, UptoIs
<1>5. ASSUME NEW n \in Nat, n \in S PROVE n + 1 \in S
    <2> SUFFICES ASSUME n + 1 <= k PROVE Upto(d)[n + 1] = Upto(c)[n + 1]
        OBVIOUS
    <2>1. n + 1 \in 1 .. Len(c.size) /\ n + 1 \in 1 .. Len(d.size) /\ (n + 1) - 1 = n /\ n + 1 \in 1 .. k
        BY <1>0, <1>2
    <2>2. Upto(c)[n + 1] = Upto(c)[n] \o HeaderOf(c, n + 1) \o PictureOf(c, n + 1)
        BY <2>1, UptoIs
    <2>3. Upto(d)[n + 1] = Upto(d)[n] \o HeaderOf(d, n + 1) \o PictureOf(d, n + 1)
        BY <1>3, <2>1, UptoIs
    <2>4. d.size[n + 1] = c.size[n + 1]
        BY <1>2, <2>1
    <2>5. HeaderOf(d, n + 1) = HeaderOf(c, n + 1) /\ PictureOf(d, n + 1) = PictureOf(c, n + 1)
        BY <1>1, <2>4 DEF HeaderOf, PictureOf
    <2>6. Upto(d)[n] = Upto(c)[n]
        BY <1>0, <1>5, <2>1
    <2> QED
        BY <2>2, <2>3, <2>5, <2>6
<1> HIDE DEF S
<1>6. Nat \subseteq S
    BY <1>4, <1>5, NaturalInduction
<1>7. Upto(d)[k] = Upto(c)[k]
    BY <1>0, <1>6 DEF S
<1>8. StreamOf(d) = Upto(d)[k]
    BY <1>2, <1>3, UptoIs
<1> QED
    BY <1>7, <1>8 DEF EndOf, d

ArrivedOf(c, sent) ==
    Cardinality({i \in 1 .. MjpegParts : Len(StreamOf([c EXCEPT !.size = SubSeq(@, 1, i)])) <= sent})

LEMMA ArrivedIs ==
    ASSUME NEW c \in MjpegCameras, NEW sent \in Nat, NEW i \in 1 .. MjpegParts, EndOf(c, i) <= sent
    PROVE  ArrivedOf(c, sent) >= i
<1> DEFINE A == {k \in 1 .. MjpegParts : Len(StreamOf([c EXCEPT !.size = SubSeq(@, 1, k)])) <= sent}
<1>1. c \in Cameras /\ Len(c.size) = MjpegParts /\ MjpegParts \in Nat
    BY CameraIs
<1>2. ASSUME NEW k \in 1 .. i PROVE k \in A
    <2>1. k \in 1 .. Len(c.size) /\ k \in 0 .. Len(c.size) /\ i \in k .. Len(c.size)
        BY <1>1
    <2>2. Len(StreamOf([c EXCEPT !.size = SubSeq(@, 1, k)])) = EndOf(c, k)
        BY <1>1, <2>1, FewerParts
    <2>3. EndOf(c, k) \in Nat /\ EndOf(c, i) \in Nat /\ EndOf(c, k) <= EndOf(c, i)
        BY <1>1, <2>1, PrefixStays
    <2> QED
        BY <1>1, <2>1, <2>2, <2>3
<1>3. A \subseteq 1 .. MjpegParts
    OBVIOUS
<1>4. IsFiniteSet(1 .. MjpegParts)
    BY <1>1, FS_Interval
<1> HIDE DEF A
<1>5. IsFiniteSet(A)
    BY <1>3, <1>4, FS_Subset
<1>6. 1 .. i \subseteq A
    BY <1>2
<1>7. Cardinality(1 .. i) = i
    BY <1>1, FS_Interval
<1>8. Cardinality(1 .. i) <= Cardinality(A) /\ Cardinality(A) \in Nat
    BY <1>5, <1>6, FS_Subset, FS_CardinalityType
<1> QED
    BY <1>1, <1>7, <1>8 DEF A, ArrivedOf

-----------------------------------------------------------------------------
(* What came in.                                                           *)

LEMMA RestIs ==
    ASSUME NEW d \in Seq(Symbols), NEW n \in 0 .. Len(d)
    PROVE  /\ Rest(d, n) \in Seq(Symbols) /\ Len(Rest(d, n)) = Len(d) - n
           /\ \A j \in 1 .. Len(d) - n : Rest(d, n)[j] = d[n + j]
<1> HIDE DEF Symbols
<1>1. Len(d) \in Nat
    OBVIOUS
<1> QED
    BY <1>1 DEF Rest

LEMMA AlignedRest ==
    ASSUME NEW d, NEW c \in Cameras, NEW place \in Nat, NEW sent \in Nat, Aligned(d, c, place, sent),
           NEW n \in 0 .. Len(d)
    PROVE  Aligned(Rest(d, n), c, place + n, sent)
<1> HIDE DEF Symbols, Cameras
<1>1. d \in Seq(Symbols) /\ Len(d) \in Nat /\ place + Len(d) = sent
    BY DEF Aligned
<1>2. /\ Rest(d, n) \in Seq(Symbols) /\ Len(Rest(d, n)) = Len(d) - n
      /\ \A j \in 1 .. Len(d) - n : Rest(d, n)[j] = d[n + j]
    BY <1>1, RestIs
<1>3. ASSUME NEW j \in 1 .. Len(d) - n PROVE Rest(d, n)[j] = StreamOf(c)[(place + n) + j]
    <2>1. n + j \in 1 .. Len(d) /\ place + (n + j) = (place + n) + j
        BY <1>1
    <2>2. d[n + j] = StreamOf(c)[place + (n + j)]
        BY <2>1 DEF Aligned
    <2>3. Rest(d, n)[j] = d[n + j]
        BY <1>2
    <2> QED
        BY <2>1, <2>2, <2>3
<1>4. (place + n) + Len(Rest(d, n)) = sent
    <2> DEFINE l == Len(Rest(d, n))
    <2>1. l = Len(d) - n /\ n \in Nat
        BY <1>1, <1>2
    <2> HIDE DEF l
    <2>2. (place + n) + l = sent
        BY <1>1, <2>1
    <2> QED
        BY <2>2 DEF l
<1> QED
    BY <1>2, <1>3, <1>4 DEF Aligned

LEMMA AlignedMore ==
    ASSUME NEW d, NEW c \in Cameras, NEW place \in Nat, NEW sent \in Nat, Aligned(d, c, place, sent),
           NEW n \in Nat, sent + n <= Len(StreamOf(c)), StreamOf(c) \in Seq(Symbols)
    PROVE  Aligned(d \o SubSeq(StreamOf(c), sent + 1, sent + n), c, place, sent + n)
<1> DEFINE s == StreamOf(c)
           t == SubSeq(s, sent + 1, sent + n)
<1> HIDE DEF Symbols, Cameras, s
<1>0. Aligned(d, c, place, sent) /\ s \in Seq(Symbols) /\ sent + n <= Len(s) /\ Len(s) \in Nat
    BY DEF s
<1>1. d \in Seq(Symbols) /\ Len(d) \in Nat /\ place + Len(d) = sent
      /\ \A j \in 1 .. Len(d) : d[j] = s[place + j]
    BY DEF Aligned, s
<1>l. Len(d) \in Nat /\ place \in Nat /\ n \in Nat /\ sent = place + Len(d)
    BY <1>1
<1>2. t \in Seq(Symbols) /\ Len(t) = n /\ \A j \in 1 .. n : t[j] = s[sent + j]
    BY <1>0
<1> HIDE DEF t
<1>3. d \o t \in Seq(Symbols) /\ Len(d \o t) = Len(d) + n
      /\ \A j \in 1 .. Len(d) + n : (d \o t)[j] = IF j <= Len(d) THEN d[j] ELSE t[j - Len(d)]
    BY <1>1, <1>2, ConcatProperties
<1>4. ASSUME NEW j \in 1 .. Len(d) + n PROVE (d \o t)[j] = s[place + j]
    <2>1. CASE j <= Len(d)
        BY <1>1, <1>3, <2>1
    <2>2. CASE ~(j <= Len(d))
        <3>1. j - Len(d) \in 1 .. n /\ sent + (j - Len(d)) = place + j
            BY <1>l, <2>2
        <3> QED
            BY <1>2, <1>3, <2>2, <3>1
    <2> QED
        BY <2>1, <2>2
<1>5. place + Len(d \o t) = sent + n
    <2>1. Len(d \o t) = Len(d) + n
        BY <1>3
    <2> QED
        BY <1>l, <2>1
<1> QED
    BY <1>3, <1>4, <1>5 DEF Aligned, s, t

LEMMA SymbolsDiffer ==
    ASSUME NEW n \in Int
    PROVE  /\ Boundary # BlankLine /\ LengthOf(n) # BlankLine /\ Byte(n) # BlankLine
           /\ Boundary # Byte(n) /\ Boundary # LengthOf(n)
           /\ Boundary[1] # "length" /\ BlankLine[1] # "length" /\ LengthOf(n)[1] = "length"
           /\ LengthOf(n)[2] = n
BY DEF Boundary, BlankLine, LengthOf, Byte

LEMMA LeastOf ==
    ASSUME NEW S, S \subseteq Nat, S # {}
    PROVE  LET i == CHOOSE i \in S : \A j \in S : i <= j IN i \in S /\ \A j \in S : i <= j
BY LeastNatural

LEMMA LeastIs ==
    ASSUME NEW S, S \subseteq Nat, NEW k \in S, \A j \in S : k <= j
    PROVE  (CHOOSE i \in S : \A j \in S : i <= j) = k
<1> DEFINE i == CHOOSE i \in S : \A j \in S : i <= j
<1>1. i \in S /\ \A j \in S : i <= j
    BY LeastOf
<1> HIDE DEF i
<1>2. i <= k /\ k <= i /\ i \in Nat /\ k \in Nat
    BY <1>1
<1>3. i = k
    BY <1>2
<1> QED
    BY <1>3 DEF i

FirstBlank(d) == Find(d, LAMBDA s : s = BlankLine)
FirstLength(d) == Find(d, LAMBDA s : s[1] = "length")

LEMMA FindBlank ==
    ASSUME NEW d \in Seq(Symbols), NEW h \in Nat \ {0},
           \A j \in 1 .. Len(d) : j < h => d[j] # BlankLine,
           h <= Len(d) => d[h] = BlankLine
    PROVE  FirstBlank(d) = IF h <= Len(d) THEN h ELSE 0
<1> DEFINE found == {i \in DOMAIN d : d[i] = BlankLine}
<1>0. DOMAIN d = 1 .. Len(d) /\ Len(d) \in Nat
    OBVIOUS
<1>1. FirstBlank(d) = IF found = {} THEN 0 ELSE CHOOSE i \in found : \A j \in found : i <= j
    BY DEF Find, FirstBlank
<1>2. CASE h <= Len(d)
    <2>1. h \in found /\ found \subseteq Nat /\ \A j \in found : h <= j
        BY <1>0, <1>2
    <2> HIDE DEF found
    <2>2. (CHOOSE i \in found : \A j \in found : i <= j) = h
        BY <2>1, LeastIs
    <2> QED
        BY <1>1, <1>2, <2>1, <2>2
<1>3. CASE ~(h <= Len(d))
    <2>1. found = {}
        BY <1>0, <1>3
    <2> QED
        BY <1>1, <1>3, <2>1
<1> QED
    BY <1>2, <1>3

LEMMA FindLength ==
    ASSUME NEW d \in Seq(Symbols), NEW h \in Nat, h # 0 => h \in DOMAIN d /\ d[h][1] = "length",
           \A j \in DOMAIN d : j # h => d[j][1] # "length"
    PROVE  FirstLength(d) = h
<1> DEFINE found == {i \in DOMAIN d : d[i][1] = "length"}
<1>0. DOMAIN d = 1 .. Len(d) /\ Len(d) \in Nat
    OBVIOUS
<1>1. FirstLength(d) = IF found = {} THEN 0 ELSE CHOOSE i \in found : \A j \in found : i <= j
    BY DEF Find, FirstLength
<1>2. CASE h # 0
    <2>1. h \in found /\ found \subseteq Nat /\ \A j \in found : h <= j
        BY <1>0, <1>2
    <2> HIDE DEF found
    <2>2. (CHOOSE i \in found : \A j \in found : i <= j) = h
        BY <2>1, LeastIs
    <2> QED
        BY <1>1, <1>2, <2>1, <2>2
<1>3. CASE h = 0
    <2>1. found = {}
        BY <1>0, <1>3
    <2> QED
        BY <1>1, <1>3, <2>1
<1> QED
    BY <1>2, <1>3

\* The thread at a header: what it makes of it.
Connections ==
    [headers : [type : {"multipart", "image/jpeg"}, boundary : BOOLEAN],
     data : Seq(Symbols), header : BOOLEAN, req_len : Nat, first : BOOLEAN,
     cut : Seq(Seq(Symbols)), shown : Seq(Nat),
     at : {"reading", "no length", "spins", "too big", "aborted"}]

LEMMA HeaderDoneIs ==
    ASSUME NEW c \in Cameras, NEW m \in Connections, NEW i \in 1 .. Len(c.size), NEW sent \in Nat,
           Aligned(m.data, c, EndOf(c, i - 1), sent)
    PROVE  HeaderDone(m) =
             IF Len(m.data) < HeaderLength(c) THEN m
             ELSE IF ~c.lengths /\ ~m.headers.boundary THEN [m EXCEPT !.at = "no length"]
             ELSE [m EXCEPT !.header = FALSE,
                            !.req_len = IF c.lengths THEN c.size[i] ELSE 0,
                            !.data = Rest(m.data, HeaderLength(c))]
<1> DEFINE d == m.data
           h == HeaderLength(c)
<1>0. c.lengths \in BOOLEAN /\ c.size[i] \in Int
    BY DEF Cameras
<1> HIDE DEF Symbols, Cameras
<1>d. d \in Seq(Symbols)
    BY DEF Connections
<1>1. d \in Seq(Symbols) /\ Len(d) \in Nat /\ DOMAIN d = 1 .. Len(d)
    <2> HIDE DEF d
    <2> QED
        BY <1>d
<1>2. \A j \in 1 .. Len(d) : d[j] = StreamOf(c)[EndOf(c, i - 1) + j]
    BY DEF Aligned
<1>3. \A j \in 1 .. h : StreamOf(c)[EndOf(c, i - 1) + j] = HeaderOf(c, i)[j]
    BY StreamIs
<1>4. h \in {2, 3} /\ h = IF c.lengths THEN 3 ELSE 2
    BY HeaderIs DEF HeaderLength
<1>5. \A j \in 1 .. Len(d) : j <= h => d[j] = HeaderOf(c, i)[j]
    BY <1>1, <1>2, <1>3, <1>4
<1>6. /\ HeaderOf(c, i)[1] = Boundary /\ HeaderOf(c, i)[h] = BlankLine
      /\ c.lengths => HeaderOf(c, i)[2] = LengthOf(c.size[i])
    BY HeaderIs
<1> HIDE DEF h
<1>7. \A j \in 1 .. Len(d) : j < h => d[j] # BlankLine
    <2> SUFFICES ASSUME NEW j \in 1 .. Len(d), j < h PROVE d[j] # BlankLine
        OBVIOUS
    <2>1. j = 1 \/ (j = 2 /\ c.lengths)
        BY <1>1, <1>4
    <2>2. d[j] = HeaderOf(c, i)[j]
        BY <1>1, <1>4, <1>5
    <2> QED
        BY <1>0, <1>6, <2>1, <2>2, SymbolsDiffer
<1>8. h <= Len(d) => d[h] = BlankLine
    BY <1>1, <1>4, <1>5, <1>6
<1> DEFINE end == FirstBlank(m.data)
           text == SubSeq(m.data, 1, end)
           length == FirstLength(text)
<1>9. end = IF h <= Len(d) THEN h ELSE 0
    BY <1>1, <1>4, <1>7, <1>8, FindBlank
<1>10. HeaderDone(m) =
         IF end = 0 THEN m
         ELSE IF length = 0 /\ ~m.headers.boundary THEN [m EXCEPT !.at = "no length"]
         ELSE [m EXCEPT !.header = FALSE,
                        !.req_len = IF length = 0 THEN 0 ELSE text[length][2],
                        !.data = AfterHeader(@, end)]
    BY DEF HeaderDone, FirstBlank, FirstLength
<1> HIDE DEF end, length
<1>11. CASE Len(d) < h
    <2>1. end = 0
        BY <1>1, <1>4, <1>9, <1>11
    <2> QED
        BY <1>10, <1>11, <2>1 DEF h
<1>12. CASE ~(Len(d) < h)
    <2>1. end = h /\ h # 0 /\ h \in 1 .. Len(d)
        BY <1>1, <1>4, <1>9, <1>12
    <2>2. text \in Seq(Symbols) /\ DOMAIN text = 1 .. h /\ \A j \in 1 .. h : text[j] = HeaderOf(c, i)[j]
        BY <1>1, <1>4, <1>5, <2>1
    <2> HIDE DEF text
    <2> DEFINE w == IF c.lengths THEN 2 ELSE 0
    <2>3. w # 0 => w \in DOMAIN text /\ text[w][1] = "length" /\ text[w][2] = c.size[i]
        <3> SUFFICES ASSUME c.lengths PROVE 2 \in DOMAIN text /\ text[2][1] = "length" /\ text[2][2] = c.size[i]
            OBVIOUS
        <3>1. text[2] = LengthOf(c.size[i]) /\ 2 \in DOMAIN text
            BY <1>4, <1>6, <2>2
        <3> QED
            BY <1>0, <3>1, SymbolsDiffer
    <2>4. ASSUME NEW j \in DOMAIN text, j # w PROVE text[j][1] # "length"
        <3>1. j \in 1 .. h /\ (j = 1 \/ j = h)
            BY <1>4, <2>2, <2>4
        <3>2. text[j] = Boundary \/ text[j] = BlankLine
            BY <1>6, <2>2, <3>1
        <3> QED
            BY <3>2, SymbolsDiffer
    <2>5. length = w
        <3>1. w \in Nat
            OBVIOUS
        <3> HIDE DEF w
        <3> QED
            BY <2>2, <2>3, <2>4, <3>1, FindLength DEF length
    <2>6. AfterHeader(m.data, end) = Rest(m.data, h)
        BY <2>1 DEF AfterHeader
    <2>7. CASE c.lengths
        <3>1. length # 0 /\ text[length][2] = c.size[i]
            BY <2>3, <2>5, <2>7
        <3>2. HeaderDone(m) = [m EXCEPT !.header = FALSE, !.req_len = c.size[i], !.data = AfterHeader(@, end)]
            BY <1>10, <2>1, <3>1
        <3>3. [m EXCEPT !.header = FALSE, !.req_len = c.size[i], !.data = AfterHeader(@, end)]
              = [m EXCEPT !.header = FALSE, !.req_len = c.size[i], !.data = Rest(m.data, h)]
            BY <2>6
        <3> QED
            BY <1>12, <2>7, <3>2, <3>3 DEF h
    <2>8. CASE ~c.lengths
        <3>1. length = 0
            BY <2>5, <2>8
        <3>2. [m EXCEPT !.header = FALSE, !.req_len = 0, !.data = AfterHeader(@, end)]
              = [m EXCEPT !.header = FALSE, !.req_len = 0, !.data = Rest(m.data, h)]
            BY <2>6
        <3> QED
            BY <1>10, <1>12, <2>1, <2>8, <3>1, <3>2 DEF h
    <2> QED
        BY <1>0, <2>7, <2>8
<1> QED
    BY <1>1, <1>4, <1>11, <1>12

\* The pictures that were found so far.
CutOf(m, c) ==
    /\ Len(m.cut) <= MjpegParts
    /\ \A j \in DOMAIN m.cut : m.cut[j] = PictureOf(c, j)
Environments == [camera : MjpegCameras, sent : Nat, watched : BOOLEAN, stop : BOOLEAN]

LEMMA PictureIs ==
    ASSUME NEW c \in Cameras, NEW d, NEW i \in 1 .. Len(c.size), NEW sent \in Nat,
           Aligned(d, c, EndOf(c, i - 1) + HeaderLength(c), sent), c.size[i] <= Len(d)
    PROVE  /\ SubSeq(d, 1, c.size[i]) = PictureOf(c, i)
           /\ Aligned(Rest(d, c.size[i]), c, EndOf(c, i), sent)
<1> DEFINE n == c.size[i]
           place == EndOf(c, i - 1) + HeaderLength(c)
<1>0. n \in Nat /\ PictureOf(c, i) \in Seq(Symbols) /\ Len(PictureOf(c, i)) = n
      /\ \A j \in 1 .. n : PictureOf(c, i)[j] = Byte(i)
    BY HeaderIs
<1>1. d \in Seq(Symbols) /\ \A j \in 1 .. Len(d) : d[j] = StreamOf(c)[place + j]
    BY DEF Aligned
<1>2. EndOf(c, i) = place + n /\ place \in Nat
    BY PartIs, HeaderIs
<1>3. \A j \in 1 .. n : StreamOf(c)[place + j] = Byte(i)
    BY StreamIs
<1>4. Aligned(d, c, place, sent) /\ n <= Len(d)
    OBVIOUS
<1> HIDE DEF Symbols, Cameras, place, n
<1>5. Len(d) \in Nat /\ n \in 0 .. Len(d)
    BY <1>0, <1>1, <1>4
<1>6. Aligned(Rest(d, n), c, place + n, sent)
    BY <1>2, <1>4, <1>5, AlignedRest
<1>7. SubSeq(d, 1, n) \in Seq(Symbols) /\ Len(SubSeq(d, 1, n)) = n
      /\ \A j \in 1 .. n : SubSeq(d, 1, n)[j] = d[j]
    BY <1>1, <1>4, <1>5
<1>8. \A j \in 1 .. n : SubSeq(d, 1, n)[j] = PictureOf(c, i)[j]
    BY <1>0, <1>1, <1>3, <1>5, <1>7
<1>9. SubSeq(d, 1, n) = PictureOf(c, i)
    BY <1>0, <1>7, <1>8, SeqEqual
<1> QED
    BY <1>2, <1>6, <1>9 DEF n

LEMMA PictureDoneIs ==
    ASSUME NEW c \in Cameras, Len(c.size) = MjpegParts, NEW m \in Connections, NEW sent \in Nat,
           NEW e \in Environments, CutOf(m, c), NEW i \in 1 .. Len(c.size), i = Len(m.cut) + 1,
           m.req_len = c.size[i], m.req_len <= Len(m.data),
           Aligned(m.data, c, EndOf(c, i - 1) + HeaderLength(c), sent)
    PROVE  LET w == PictureDone(m, e) IN
           /\ w \in Connections /\ w.headers = m.headers /\ w.at = m.at
           /\ CutOf(w, c) /\ w.header /\ Len(w.cut) = i
           /\ Aligned(w.data, c, EndOf(c, i), sent)
<1> DEFINE w == PictureDone(m, e)
           picture == SubSeq(m.data, 1, m.req_len)
           shown == IF Shows(m, e) THEN Append(m.shown, Len(m.cut) + 1) ELSE m.shown
           first == m.first /\ ~Decodes(m, e.camera)
           rest == Rest(m.data, m.req_len)
<1>1. w = [m EXCEPT !.first = first, !.cut = Append(@, picture), !.shown = shown,
                    !.data = rest, !.req_len = 0, !.header = TRUE]
    BY DEF PictureDone
<1>2. m.data \in Seq(Symbols) /\ m.cut \in Seq(Seq(Symbols)) /\ m.shown \in Seq(Nat) /\ m.req_len \in Nat
      /\ m.first \in BOOLEAN
    BY DEF Connections
<1>3. picture = PictureOf(c, i) /\ Aligned(rest, c, EndOf(c, i), sent)
    BY PictureIs
<1>4. picture \in Seq(Symbols)
    BY <1>3, HeaderIs
<1>5. rest \in Seq(Symbols)
    BY <1>3 DEF Aligned
<1>6. first \in BOOLEAN
    BY <1>2
<1>7. shown \in Seq(Nat)
    BY <1>2
<1> HIDE DEF picture, shown, first, rest, w, Symbols, Cameras
<1>8. Append(m.cut, picture) \in Seq(Seq(Symbols)) /\ Len(Append(m.cut, picture)) = i
      /\ DOMAIN Append(m.cut, picture) = 1 .. i
      /\ \A j \in 1 .. i : Append(m.cut, picture)[j] = IF j = i THEN picture ELSE m.cut[j]
    BY <1>2, <1>4
<1>9. w \in Connections
    BY <1>1, <1>5, <1>6, <1>7, <1>8 DEF Connections
<1>10. w.headers = m.headers /\ w.at = m.at /\ w.header /\ w.data = rest /\ w.cut = Append(m.cut, picture)
    BY <1>1 DEF Connections
<1>11. CutOf(w, c)
    <2>1. \A j \in DOMAIN m.cut : m.cut[j] = PictureOf(c, j)
        BY DEF CutOf
    <2>2. DOMAIN m.cut = 1 .. Len(m.cut) /\ Len(m.cut) \in Nat
        BY <1>2
    <2>3. ASSUME NEW j \in 1 .. i PROVE Append(m.cut, picture)[j] = PictureOf(c, j)
        <3>1. CASE j = i
            BY <1>3, <1>8, <3>1
        <3>2. CASE j # i
            <4>1. j \in DOMAIN m.cut
                BY <2>2, <3>2
            <4> QED
                BY <1>8, <2>1, <3>2, <4>1
        <3> QED
            BY <3>1, <3>2
    <2> QED
        BY <1>8, <1>10, <2>3 DEF CutOf
<1> QED
    BY <1>3, <1>8, <1>9, <1>10, <1>11 DEF w

LEMMA NextPart ==
    ASSUME NEW c \in Cameras, NEW i \in 1 .. Len(c.size), NEW d, NEW sent \in Nat,
           sent <= Len(StreamOf(c)),
           Aligned(d, c, EndOf(c, i - 1) + HeaderLength(c), sent)
    PROVE  /\ \A j \in 1 .. Len(d) : j <= c.size[i] => d[j] = Byte(i)
           /\ c.size[i] < Len(d) => d[c.size[i] + 1] = Boundary
<1> DEFINE n == c.size[i]
           place == EndOf(c, i - 1) + HeaderLength(c)
<1>0. n \in Nat /\ Len(c.size) \in Nat
    BY HeaderIs DEF Cameras
<1> HIDE DEF Symbols, Cameras
<1>1. d \in Seq(Symbols) /\ place + Len(d) = sent
    BY DEF Aligned
<1>2. \A j \in 1 .. Len(d) : d[j] = StreamOf(c)[place + j]
    BY DEF Aligned
<1>3. EndOf(c, i) = place + n /\ place \in Nat
    BY PartIs, HeaderIs
<1>4. \A j \in 1 .. n : StreamOf(c)[place + j] = Byte(i)
    BY StreamIs
<1> HIDE DEF place, n
<1>5. Len(d) \in Nat
    BY <1>1
<1>6. \A j \in 1 .. Len(d) : j <= n => d[j] = Byte(i)
    BY <1>0, <1>2, <1>4, <1>5
<1>7. ASSUME n < Len(d) PROVE d[n + 1] = Boundary
    <2>1. i # Len(c.size)
        <3> SUFFICES ASSUME i = Len(c.size) PROVE FALSE
            OBVIOUS
        <3>1. Len(StreamOf(c)) = EndOf(c, i)
            BY UptoIs DEF EndOf
        <3>2. sent <= place + n
            BY <1>3, <3>1
        <3> QED
            BY <1>0, <1>1, <1>3, <1>5, <1>7, <3>2
    <2>2. i + 1 \in 1 .. Len(c.size) /\ (i + 1) - 1 = i
        BY <1>0, <2>1
    <2>3. HeaderLength(c) \in {2, 3} /\ HeaderOf(c, i + 1)[1] = Boundary
        BY <2>2, HeaderIs
    <2>4. \A j \in 1 .. HeaderLength(c) : StreamOf(c)[EndOf(c, i) + j] = HeaderOf(c, i + 1)[j]
        BY <2>2, StreamIs
    <2>5. StreamOf(c)[EndOf(c, i) + 1] = Boundary
        BY <2>3, <2>4
    <2>6. n + 1 \in 1 .. Len(d) /\ place + (n + 1) = EndOf(c, i) + 1
        BY <1>0, <1>3, <1>5, <1>7
    <2> QED
        BY <1>2, <2>5, <2>6
<1> QED
    BY <1>6, <1>7 DEF n

LEMMA BoundarySearchIs ==
    ASSUME NEW c \in Cameras, NEW m \in Connections, NEW e, NEW i \in 1 .. Len(c.size), NEW sent \in Nat,
           sent <= Len(StreamOf(c)),
           Aligned(m.data, c, EndOf(c, i - 1) + HeaderLength(c), sent)
    PROVE  \/ BoundarySearch(m, e) = m
           \/ c.size[i] = 0 /\ BoundarySearch(m, e) = [m EXCEPT !.at = "spins"]
           \/ /\ c.size[i] <= Len(m.data)
              /\ BoundarySearch(m, e) = PictureDone([m EXCEPT !.req_len = c.size[i]], e)
<1> DEFINE d == m.data
           n == c.size[i]
           here == {k \in DOMAIN d : d[k] = Boundary /\ \E j \in k .. Len(d) : d[j] = BlankLine}
           k == CHOOSE k \in here : \A j \in here : k <= j
<1>1. BoundarySearch(m, e) =
        IF here = {} THEN m
        ELSE IF k = 1 THEN [m EXCEPT !.at = "spins"]
        ELSE PictureDone([m EXCEPT !.req_len = k - 1], e)
    BY DEF BoundarySearch
<1>2. n \in Nat
    BY HeaderIs
<1> HIDE DEF Symbols, Cameras
<1>3. d \in Seq(Symbols)
    BY DEF Aligned
<1>a. Aligned(d, c, EndOf(c, i - 1) + HeaderLength(c), sent)
    OBVIOUS
<1>n. n = c.size[i]
    OBVIOUS
<1> HIDE DEF d, n
<1>4. \A j \in 1 .. Len(d) : j <= c.size[i] => d[j] = Byte(i)
    BY <1>a, NextPart
<1>5. n < Len(d) => d[n + 1] = Boundary
    BY <1>a, <1>n, NextPart
<1>b. \A j \in 1 .. Len(d) : j <= n => d[j] = Byte(i)
    BY <1>4, <1>n
<1>6. Len(d) \in Nat /\ DOMAIN d = 1 .. Len(d)
    BY <1>3
<1>7. ASSUME here # {} PROVE k = n + 1 /\ n < Len(d)
    <2>1. PICK p \in here : TRUE
        BY <1>7
    <2>2. n < p
        BY <1>2, <1>b, <1>6, <2>1, SymbolsDiffer
    <2>3. PICK j \in p .. Len(d) : d[j] = BlankLine
        BY <2>1
    <2>4. n < Len(d) /\ n + 1 \in 1 .. Len(d) /\ j \in n + 1 .. Len(d)
        BY <1>2, <1>6, <2>1, <2>2, <2>3
    <2>5. n + 1 \in here
        BY <1>5, <1>6, <2>3, <2>4
    <2>6. \A q \in here : n + 1 <= q
        <3> SUFFICES ASSUME NEW q \in here PROVE n + 1 <= q
            OBVIOUS
        <3>1. q \in 1 .. Len(d) /\ d[q] = Boundary
            BY <1>6
        <3>2. ~(q <= n)
            BY <1>b, <3>1, SymbolsDiffer
        <3> QED
            BY <1>2, <3>1, <3>2
    <2>7. here \subseteq Nat
        BY <1>6
    <2> HIDE DEF here
    <2>8. k = n + 1
        BY <2>5, <2>6, <2>7, LeastIs
    <2> QED
        BY <2>4, <2>8
<1> HIDE DEF here, k
<1>8. CASE here = {}
    BY <1>1, <1>8
<1>9. CASE here # {} /\ n = 0
    BY <1>1, <1>7, <1>9 DEF n
<1>10. CASE here # {} /\ n # 0
    <2>1. k # 1 /\ k - 1 = n /\ n <= Len(d)
        BY <1>2, <1>6, <1>7, <1>10
    <2> QED
        BY <1>1, <1>10, <2>1 DEF n, d
<1> QED
    BY <1>8, <1>9, <1>10

\* The thread between two calls of write_data().
Sound(m, c, sent) ==
    /\ m \in Connections /\ m.headers.boundary = c.boundary
    /\ CutOf(m, c)
    /\ m.at = "reading" => Reading(m, c, sent)
NonePictured(c) == \E i \in 1 .. MjpegParts : c.size[i] = 0
Oversized(c) == \E i \in 1 .. MjpegParts : Len(HeaderOf(c, i) \o PictureOf(c, i)) > MjpegLimit
GivenUp(m, c, sent) ==
    /\ m.at = "spins" => NonePictured(c) /\ c.boundary
    /\ m.at = "too big" => \/ NonePictured(c) \/ Oversized(c)
                           \/ Len(m.cut) < MjpegParts /\ EndOf(c, Len(m.cut) + 1) <= sent

LEMMA NothingBehind ==
    ASSUME NEW c \in MjpegCameras, NEW m \in Connections, NEW sent \in Nat, sent <= Len(StreamOf(c)),
           Len(m.cut) <= MjpegParts, Reading(m, c, sent), m.data # <<>>
    PROVE  Len(m.cut) < MjpegParts
<1> SUFFICES ASSUME Len(m.cut) = MjpegParts, m.header PROVE FALSE
    <2>0. m.cut \in Seq(Seq(Symbols))
        BY DEF Connections
    <2>1. Len(m.cut) \in Nat
        BY <2>0
    <2>2. MjpegParts \in Nat
        BY CameraIs
    <2> QED
        BY <2>1, <2>2 DEF Reading
<1>1. c \in Cameras /\ Len(c.size) = MjpegParts
    BY CameraIs
<1>2. Aligned(m.data, c, EndOf(c, Len(c.size)), sent)
    BY <1>1 DEF Reading
<1>3. Len(StreamOf(c)) = EndOf(c, Len(c.size))
    BY <1>1, UptoIs DEF EndOf
<1>4. EndOf(c, Len(c.size)) + Len(m.data) = sent /\ m.data \in Seq(Symbols)
    BY <1>2 DEF Aligned
<1>5. Len(m.data) \in Nat /\ Len(m.data) # 0
    BY <1>4
<1>6. EndOf(c, Len(c.size)) \in Nat
    <2>1. Len(c.size) \in 0 .. Len(c.size)
        BY <1>1 DEF Cameras
    <2>2. Upto(c)[Len(c.size)] \in Seq(Symbols)
        BY <1>1, <2>1, UptoType
    <2> QED
        BY <2>2 DEF EndOf
<1> QED
    BY <1>3, <1>4, <1>5, <1>6

LEMMA LessThanAPart ==
    ASSUME NEW start \in Nat, NEW end \in Nat, NEW h \in Nat, NEW n \in Nat, NEW l \in Nat,
           NEW sent \in Nat, NEW limit \in Nat,
           end = start + h + n, start + l <= sent, ~(end <= sent), l >= limit
    PROVE  h + n > limit
OBVIOUS

\* What was not handled is less than a part, unless a part is there as a whole.
LEMMA BacklogIs ==
    ASSUME NEW c \in MjpegCameras, NEW m \in Connections, NEW sent \in Nat,
           Len(m.cut) < MjpegParts, Reading(m, c, sent), Len(m.data) >= MjpegLimit
    PROVE  Oversized(c) \/ EndOf(c, Len(m.cut) + 1) <= sent
<1> DEFINE i == Len(m.cut) + 1
<1>1. c \in Cameras /\ Len(c.size) = MjpegParts /\ MjpegParts \in Nat
    BY CameraIs
<1>2. Len(m.cut) \in Nat /\ Len(m.data) \in Nat
    <2>1. m.cut \in Seq(Seq(Symbols)) /\ m.data \in Seq(Symbols)
        BY DEF Connections
    <2> QED
        BY <2>1
<1>3. i \in 1 .. Len(c.size) /\ i - 1 = Len(m.cut)
    BY <1>1, <1>2
<1> HIDE DEF i
<1>4. EndOf(c, i - 1) \in Nat /\ EndOf(c, i) = EndOf(c, i - 1) + HeaderLength(c) + c.size[i]
    BY <1>1, <1>3, PartIs
<1>5. HeaderLength(c) \in {2, 3} /\ c.size[i] \in Nat
    BY <1>1, <1>3, HeaderIs
<1>6. EndOf(c, i - 1) + Len(m.data) <= sent
    <2>1. CASE m.header
        <3>1. EndOf(c, i - 1) + Len(m.data) = sent
            BY <1>3, <2>1 DEF Reading, Aligned
        <3> QED
            BY <1>2, <1>4, <3>1
    <2>2. CASE ~m.header
        <3>1. EndOf(c, i - 1) + HeaderLength(c) + Len(m.data) = sent
            BY <1>3, <2>2 DEF Reading, Aligned
        <3> QED
            BY <1>2, <1>4, <1>5, <3>1
    <2> QED
        BY <2>1, <2>2
<1>7. Len(HeaderOf(c, i) \o PictureOf(c, i)) = HeaderLength(c) + c.size[i]
    <2>1. /\ HeaderOf(c, i) \in Seq(Symbols) /\ Len(HeaderOf(c, i)) = HeaderLength(c)
          /\ PictureOf(c, i) \in Seq(Symbols) /\ Len(PictureOf(c, i)) = c.size[i]
        BY <1>1, <1>3, HeaderIs
    <2>2. Len(HeaderOf(c, i) \o PictureOf(c, i)) = Len(HeaderOf(c, i)) + Len(PictureOf(c, i))
        BY <2>1, ConcatProperties
    <2> QED
        BY <2>1, <2>2
<1>8. MjpegLimit \in Nat
    BY MjpegAssumption
<1>9. CASE EndOf(c, i) <= sent
    BY <1>9 DEF i
<1>10. CASE ~(EndOf(c, i) <= sent)
    <2>0. HeaderLength(c) + c.size[i] > MjpegLimit
        <3>1. EndOf(c, i) \in Nat /\ HeaderLength(c) \in Nat
            BY <1>4, <1>5
        <3>2. ~(EndOf(c, i) <= sent) /\ Len(m.data) >= MjpegLimit
            BY <1>10
        <3> QED
            BY <1>2, <1>4, <1>5, <1>6, <1>8, <3>1, <3>2, LessThanAPart
    <2>1. Len(HeaderOf(c, i) \o PictureOf(c, i)) > MjpegLimit
        BY <1>7, <2>0
    <2> QED
        BY <1>1, <1>3, <2>1 DEF Oversized
<1> QED
    BY <1>9, <1>10

LEMMA WriteDataSound ==
    ASSUME NEW c \in MjpegCameras, NEW m, NEW sent \in Nat, sent <= Len(StreamOf(c)),
           Sound(m, c, sent), m.at = "reading", m.data # <<>>, NEW e \in Environments
    PROVE  Sound(WriteData(m, e), c, sent) /\ GivenUp(WriteData(m, e), c, sent)
<1> DEFINE i == Len(m.cut) + 1
           w == WriteData(m, e)
<1>1. c \in Cameras /\ Len(c.size) = MjpegParts /\ MjpegParts \in Nat /\ c.lengths \in BOOLEAN
    BY CameraIs
<1>2. m \in Connections /\ m.headers.boundary = c.boundary /\ CutOf(m, c) /\ Reading(m, c, sent)
    BY DEF Sound
<1>3. m.data \in Seq(Symbols) /\ m.req_len \in Nat /\ m.cut \in Seq(Seq(Symbols)) /\ m.header \in BOOLEAN
    BY <1>2 DEF Connections
<1>4. Len(m.cut) < MjpegParts
    BY <1>2, NothingBehind DEF CutOf
<1>5. i \in 1 .. Len(c.size) /\ i - 1 = Len(m.cut) /\ i \in 1 .. MjpegParts
    BY <1>1, <1>3, <1>4
<1>i. i = Len(m.cut) + 1
    OBVIOUS
<1> HIDE DEF i, Symbols
<1>6. HeaderLength(c) \in {2, 3} /\ c.size[i] \in Nat
    BY <1>1, <1>5, HeaderIs
<1>7. ASSUME NEW place \in {"no length", "spins", "too big"}, w = [m EXCEPT !.at = place],
             GivenUp([m EXCEPT !.at = place], c, sent)
      PROVE  Sound(w, c, sent) /\ GivenUp(w, c, sent)
    <2>1. w \in Connections /\ w.headers = m.headers /\ w.cut = m.cut /\ w.at = place
        BY <1>2, <1>7 DEF Connections
    <2> QED
        BY <1>2, <1>7, <2>1 DEF Sound, CutOf
<1>8. ASSUME w = m PROVE Sound(w, c, sent) /\ GivenUp(w, c, sent)
    <2> HIDE DEF w
    <2> QED
        BY <1>8 DEF GivenUp
<1>9. CASE Len(m.data) >= MjpegLimit
    <2>1. w = [m EXCEPT !.at = "too big"]
        BY <1>9 DEF WriteData
    <2>2. Oversized(c) \/ EndOf(c, Len(m.cut) + 1) <= sent
        BY <1>2, <1>4, <1>9, BacklogIs
    <2>3. [m EXCEPT !.at = "too big"].at = "too big" /\ [m EXCEPT !.at = "too big"].cut = m.cut
        BY <1>2 DEF Connections
    <2>4. GivenUp([m EXCEPT !.at = "too big"], c, sent)
        BY <1>4, <2>2, <2>3 DEF GivenUp
    <2> QED
        BY <1>7, <2>1, <2>4
<1>10. CASE ~(Len(m.data) >= MjpegLimit) /\ m.header
    <2>1. w = HeaderDone(m)
        BY <1>10 DEF WriteData
    <2>2. Aligned(m.data, c, EndOf(c, i - 1), sent)
        BY <1>2, <1>5, <1>10 DEF Reading
    <2>3. w = IF Len(m.data) < HeaderLength(c) THEN m
              ELSE IF ~c.lengths /\ ~m.headers.boundary THEN [m EXCEPT !.at = "no length"]
              ELSE [m EXCEPT !.header = FALSE,
                            !.req_len = IF c.lengths THEN c.size[i] ELSE 0,
                            !.data = Rest(m.data, HeaderLength(c))]
        BY <1>1, <1>2, <1>5, <2>1, <2>2, HeaderDoneIs
    <2>4. CASE Len(m.data) < HeaderLength(c)
        BY <1>8, <2>3, <2>4
    <2>5. CASE ~(Len(m.data) < HeaderLength(c)) /\ ~c.lengths /\ ~m.headers.boundary
        <3>1. w = [m EXCEPT !.at = "no length"]
            BY <2>3, <2>5
        <3>2. [m EXCEPT !.at = "no length"].at = "no length"
            BY <1>2 DEF Connections
        <3>3. GivenUp([m EXCEPT !.at = "no length"], c, sent)
            BY <3>2 DEF GivenUp
        <3> QED
            BY <1>7, <3>1, <3>3
    <2>6. CASE ~(Len(m.data) < HeaderLength(c)) /\ ~(~c.lengths /\ ~m.headers.boundary)
        <3> DEFINE r == Rest(m.data, HeaderLength(c))
                   n == IF c.lengths THEN c.size[i] ELSE 0
        <3>1. w = [m EXCEPT !.header = FALSE, !.req_len = n, !.data = r]
            BY <2>3, <2>6
        <3>2. EndOf(c, i - 1) \in Nat
            BY <1>1, <1>5, PartIs
        <3>3. HeaderLength(c) \in 0 .. Len(m.data)
            BY <1>3, <1>6, <2>6
        <3>4. Aligned(r, c, EndOf(c, i - 1) + HeaderLength(c), sent)
            BY <1>1, <2>2, <3>2, <3>3, AlignedRest
        <3>5. r \in Seq(Symbols) /\ n \in Nat
            BY <1>6, <3>4 DEF Aligned
        <3>6. n = IF c.lengths THEN c.size[i] ELSE 0
            OBVIOUS
        <3> HIDE DEF r, n, w
        <3>7. /\ w \in Connections /\ w.headers = m.headers /\ w.cut = m.cut /\ w.at = m.at
              /\ ~w.header /\ w.data = r /\ w.req_len = n
            BY <1>2, <3>1, <3>5 DEF Connections
        <3>8. Reading(w, c, sent)
            BY <1>4, <1>5, <1>i, <3>4, <3>6, <3>7 DEF Reading
        <3>9. CutOf(w, c)
            BY <1>2, <3>7 DEF CutOf
        <3> QED
            BY <1>2, <3>7, <3>8, <3>9 DEF Sound, GivenUp, w
    <2> QED
        BY <2>4, <2>5, <2>6
<1>11. CASE ~(Len(m.data) >= MjpegLimit) /\ ~m.header
    <2>1. Aligned(m.data, c, EndOf(c, i - 1) + HeaderLength(c), sent)
        BY <1>2, <1>5, <1>11 DEF Reading
    <2>2. m.req_len = IF c.lengths THEN c.size[i] ELSE 0
        BY <1>2, <1>i, <1>11 DEF Reading
    <2>3. ASSUME NEW v \in Connections, v.headers = m.headers, v.at = m.at, v.cut = m.cut, v.data = m.data,
                 v.req_len = c.size[i], c.size[i] <= Len(m.data), w = PictureDone(v, e)
          PROVE  Sound(w, c, sent) /\ GivenUp(w, c, sent)
        <3>1. CutOf(v, c)
            BY <1>2, <2>3 DEF CutOf
        <3>2. /\ w \in Connections /\ w.headers = v.headers /\ w.at = v.at
              /\ CutOf(w, c) /\ w.header /\ Len(w.cut) = i
              /\ Aligned(w.data, c, EndOf(c, i), sent)
            BY <1>1, <1>5, <1>i, <2>1, <2>3, <3>1, PictureDoneIs
        <3> HIDE DEF w
        <3>3. Reading(w, c, sent)
            BY <3>2 DEF Reading
        <3> QED
            BY <1>2, <2>3, <3>2, <3>3 DEF Sound, GivenUp
    <2>4. CASE m.req_len > 0
        <3>1. m.req_len = c.size[i]
            BY <2>2, <2>4
        <3>2. CASE Len(m.data) >= m.req_len
            <4>1. w = PictureDone(m, e)
                BY <1>11, <2>4, <3>2 DEF WriteData
            <4>2. c.size[i] <= Len(m.data)
                BY <1>3, <3>1, <3>2
            <4> QED
                BY <1>2, <2>3, <3>1, <4>1, <4>2
        <3>3. CASE ~(Len(m.data) >= m.req_len)
            <4>1. w = m
                BY <1>11, <2>4, <3>3 DEF WriteData
            <4> QED
                BY <1>8, <4>1
        <3> QED
            BY <3>2, <3>3
    <2>5. CASE ~(m.req_len > 0) /\ ~m.headers.boundary
        <3>1. w = m
            BY <1>11, <2>5 DEF WriteData
        <3> QED
            BY <1>8, <3>1
    <2>6. CASE ~(m.req_len > 0) /\ m.headers.boundary
        <3>1. w = BoundarySearch(m, e)
            BY <1>11, <2>6 DEF WriteData
        <3>2. \/ w = m
              \/ c.size[i] = 0 /\ w = [m EXCEPT !.at = "spins"]
              \/ /\ c.size[i] <= Len(m.data)
                 /\ w = PictureDone([m EXCEPT !.req_len = c.size[i]], e)
            BY <1>1, <1>2, <1>5, <2>1, <3>1, BoundarySearchIs
        <3>3. CASE w = m
            BY <1>8, <3>3
        <3>4. CASE c.size[i] = 0 /\ w = [m EXCEPT !.at = "spins"]
            <4>1. [m EXCEPT !.at = "spins"].at = "spins"
                BY <1>2 DEF Connections
            <4>2. NonePictured(c) /\ c.boundary
                BY <1>2, <1>5, <2>6, <3>4 DEF NonePictured
            <4>3. GivenUp([m EXCEPT !.at = "spins"], c, sent)
                BY <4>1, <4>2 DEF GivenUp
            <4> QED
                BY <1>7, <3>4, <4>3
        <3>5. CASE c.size[i] <= Len(m.data) /\ w = PictureDone([m EXCEPT !.req_len = c.size[i]], e)
            <4> DEFINE v == [m EXCEPT !.req_len = c.size[i]]
            <4>1. /\ v \in Connections /\ v.headers = m.headers /\ v.at = m.at /\ v.cut = m.cut
                  /\ v.data = m.data /\ v.req_len = c.size[i]
                BY <1>2, <1>6 DEF Connections
            <4>2. w = PictureDone(v, e)
                BY <3>5
            <4>3. c.size[i] <= Len(m.data)
                BY <3>5
            <4> HIDE DEF v
            <4> QED
                BY <2>3, <4>1, <4>2, <4>3
        <3> QED
            BY <3>2, <3>3, <3>4, <3>5
    <2> QED
        BY <2>4, <2>5, <2>6
<1> QED
    BY <1>3, <1>9, <1>10, <1>11

-----------------------------------------------------------------------------
(* The invariant.                                                          *)

\* Where the thread is in the stream, and what is true when it gave up.
MjpegInv ==
    /\ mjpeg_env \in Environments
    /\ mjpeg_env.sent <= Len(StreamOf(mjpeg_env.camera))
    /\ Sound(mjpeg, mjpeg_env.camera, mjpeg_env.sent)
    /\ GivenUp(mjpeg, mjpeg_env.camera, mjpeg_env.sent)

LEMMA MjpegInvInit == MjpegInit => MjpegInv
<1> SUFFICES ASSUME NEW c \in MjpegCameras,
                    mjpeg = [headers |-> WriteHeaders(c), data |-> <<>>, header |-> TRUE, req_len |-> 0,
                             first |-> TRUE, cut |-> <<>>, shown |-> <<>>, at |-> "reading"],
                    mjpeg_env = [camera |-> c, sent |-> 0, watched |-> TRUE, stop |-> FALSE]
             PROVE  MjpegInv
    BY DEF MjpegInit
<1>1. c \in Cameras /\ Len(c.size) = MjpegParts /\ MjpegParts \in Nat
    BY CameraIs
<1>2. WriteHeaders(c) \in [type : {"multipart", "image/jpeg"}, boundary : BOOLEAN]
      /\ WriteHeaders(c).boundary = c.boundary
    BY DEF WriteHeaders, MjpegCameras
<1>3. mjpeg_env \in Environments
    BY DEF Environments
<1> HIDE DEF Symbols, Cameras
<1>4. mjpeg \in Connections
    <2>1. <<>> \in Seq(Symbols) /\ <<>> \in Seq(Seq(Symbols)) /\ <<>> \in Seq(Nat)
        OBVIOUS
    <2> QED
        BY <1>2, <2>1 DEF Connections
<1>5. Len(c.size) \in Nat /\ StreamOf(c) \in Seq(Symbols)
    <2>1. Len(c.size) \in 0 .. Len(c.size)
        BY <1>1
    <2>2. StreamOf(c) = Upto(c)[Len(c.size)]
        BY <1>1, UptoIs
    <2> QED
        BY <1>1, <2>1, <2>2, UptoType
<1>6. Aligned(<<>>, c, EndOf(c, 0), 0)
    <2>1. Upto(c)[0] = <<>>
        BY <1>1, UptoIs
    <2>2. EndOf(c, 0) = 0
        BY <2>1 DEF EndOf
    <2>3. Len(<<>>) = 0 /\ <<>> \in Seq(Symbols)
        OBVIOUS
    <2> QED
        BY <2>2, <2>3 DEF Aligned
<1>7. Reading(mjpeg, c, 0)
    BY <1>6 DEF Reading
<1>8. CutOf(mjpeg, c)
    BY <1>1 DEF CutOf
<1>9. Sound(mjpeg, c, 0)
    BY <1>2, <1>4, <1>7, <1>8 DEF Sound
<1>10. GivenUp(mjpeg, c, 0)
    BY DEF GivenUp
<1>11. 0 <= Len(StreamOf(c))
    BY <1>5
<1> QED
    BY <1>3, <1>9, <1>10, <1>11 DEF MjpegInv

LEMMA MjpegDataInv == MjpegInv /\ MjpegData => MjpegInv'
<1> DEFINE c == mjpeg_env.camera
           sent == mjpeg_env.sent
           stream == StreamOf(c)
<1> SUFFICES ASSUME MjpegInv, mjpeg.at = "reading", NEW n \in 1 .. MaxMjpegPiece,
                    sent + n <= Len(stream),
                    mjpeg' = WriteData([mjpeg EXCEPT !.data = @ \o SubSeq(stream, sent + 1, sent + n)], mjpeg_env),
                    mjpeg_env' = [mjpeg_env EXCEPT !.sent = @ + n]
             PROVE  MjpegInv'
    BY DEF MjpegData
<1> DEFINE more == mjpeg.data \o SubSeq(stream, sent + 1, sent + n)
           m == [mjpeg EXCEPT !.data = more]
<1>1. mjpeg_env \in Environments /\ Sound(mjpeg, c, sent) /\ Reading(mjpeg, c, sent)
    BY DEF MjpegInv, Sound
<1>2. c \in MjpegCameras /\ sent \in Nat /\ n \in Nat /\ n # 0
    BY <1>1, MjpegAssumption DEF Environments
<1>3. c \in Cameras /\ Len(c.size) = MjpegParts /\ MjpegParts \in Nat
    BY <1>2, CameraIs
<1>4. mjpeg_env' \in Environments /\ mjpeg_env'.camera = c /\ mjpeg_env'.sent = sent + n
    BY <1>1, <1>2 DEF Environments
<1>5. stream \in Seq(Symbols)
    <2>1. Len(c.size) \in 0 .. Len(c.size)
        BY <1>3
    <2>2. StreamOf(c) = Upto(c)[Len(c.size)]
        BY <1>3, UptoIs
    <2> QED
        BY <1>3, <2>1, <2>2, UptoType
<1>6. mjpeg \in Connections /\ Len(mjpeg.cut) \in Nat /\ Len(mjpeg.cut) <= MjpegParts
    <2>1. mjpeg \in Connections /\ Len(mjpeg.cut) <= MjpegParts
        BY <1>1 DEF Sound, CutOf
    <2>2. mjpeg.cut \in Seq(Seq(Symbols))
        BY <2>1 DEF Connections
    <2> QED
        BY <2>1, <2>2
<1> DEFINE place == EndOf(c, Len(mjpeg.cut)) + (IF mjpeg.header THEN 0 ELSE HeaderLength(c))
<1>7. EndOf(c, Len(mjpeg.cut)) \in Nat /\ HeaderLength(c) \in Nat
    <2>1. Len(mjpeg.cut) \in 0 .. Len(c.size)
        BY <1>3, <1>6
    <2>2. Upto(c)[Len(mjpeg.cut)] \in Seq(Symbols)
        BY <1>3, <2>1, UptoType
    <2> QED
        BY <2>2 DEF EndOf, HeaderLength
<1>8. place \in Nat /\ Aligned(mjpeg.data, c, place, sent)
    BY <1>1, <1>7 DEF Reading
<1> HIDE DEF c, sent, place, Symbols, Cameras
<1>9. Aligned(more, c, place, sent + n)
    BY <1>2, <1>3, <1>5, <1>8, AlignedMore
<1> HIDE DEF more
<1>10. more \in Seq(Symbols) /\ place + Len(more) = sent + n
    BY <1>9 DEF Aligned
<1>11. Len(mjpeg.data) \in Nat /\ place + Len(mjpeg.data) = sent /\ Len(more) \in Nat
    <2>1. mjpeg.data \in Seq(Symbols) /\ place + Len(mjpeg.data) = sent
        BY <1>8 DEF Aligned
    <2> QED
        BY <1>10, <2>1
<1>12. more # <<>>
    <2>1. Len(more) # 0
        BY <1>2, <1>8, <1>10, <1>11
    <2> QED
        BY <2>1
<1>13. /\ m \in Connections /\ m.headers = mjpeg.headers /\ m.cut = mjpeg.cut /\ m.at = mjpeg.at
       /\ m.header = mjpeg.header /\ m.req_len = mjpeg.req_len /\ m.data = more
    BY <1>6, <1>10 DEF Connections
<1> HIDE DEF m
<1>14. Reading(m, c, sent + n)
    <2>1. CASE mjpeg.header
        <3>1. place = EndOf(c, Len(mjpeg.cut))
            BY <1>7, <2>1 DEF place
        <3> QED
            BY <1>9, <1>13, <2>1, <3>1 DEF Reading
    <2>2. CASE ~mjpeg.header
        <3>1. place = EndOf(c, Len(mjpeg.cut)) + HeaderLength(c)
            BY <2>2 DEF place
        <3> QED
            BY <1>1, <1>9, <1>13, <2>2, <3>1 DEF Reading
    <2> QED
        BY <2>1, <2>2
<1>15. Sound(m, c, sent + n)
    BY <1>1, <1>13, <1>14 DEF Sound, CutOf
<1>16. sent + n \in Nat /\ sent + n <= Len(StreamOf(c))
    BY <1>2
<1>17. mjpeg' = WriteData(m, mjpeg_env)
    BY DEF m, more, c, sent
<1>18. Sound(WriteData(m, mjpeg_env), c, sent + n) /\ GivenUp(WriteData(m, mjpeg_env), c, sent + n)
    BY <1>1, <1>2, <1>12, <1>13, <1>15, <1>16, WriteDataSound
<1> QED
    BY <1>4, <1>16, <1>17, <1>18 DEF MjpegInv

LEMMA MjpegOthersInv ==
    MjpegInv /\ (MjpegAbort \/ MjpegUsers \/ MjpegStop \/ UNCHANGED mjpegVars) => MjpegInv'
<1> SUFFICES ASSUME MjpegInv, MjpegAbort \/ MjpegUsers \/ MjpegStop \/ UNCHANGED mjpegVars
             PROVE  MjpegInv'
    OBVIOUS
<1>1. mjpeg_env \in Environments /\ Sound(mjpeg, mjpeg_env.camera, mjpeg_env.sent)
      /\ GivenUp(mjpeg, mjpeg_env.camera, mjpeg_env.sent)
      /\ mjpeg_env.sent <= Len(StreamOf(mjpeg_env.camera))
    BY DEF MjpegInv
<1>2. /\ mjpeg_env' \in Environments /\ mjpeg_env'.camera = mjpeg_env.camera
      /\ mjpeg_env'.sent = mjpeg_env.sent
    BY <1>1 DEF Environments, MjpegAbort, MjpegUsers, MjpegStop, mjpegVars
<1>3. CASE MjpegAbort
    <2>1. mjpeg' = [mjpeg EXCEPT !.at = "aborted"] /\ mjpeg \in Connections
        BY <1>1, <1>3 DEF MjpegAbort, Sound
    <2>2. /\ mjpeg' \in Connections /\ mjpeg'.headers = mjpeg.headers /\ mjpeg'.cut = mjpeg.cut
          /\ mjpeg'.at = "aborted"
        BY <2>1 DEF Connections
    <2>3. Sound(mjpeg', mjpeg_env.camera, mjpeg_env.sent)
        BY <1>1, <2>2 DEF Sound, CutOf
    <2>4. GivenUp(mjpeg', mjpeg_env.camera, mjpeg_env.sent)
        BY <2>2 DEF GivenUp
    <2> QED
        BY <1>1, <1>2, <2>3, <2>4 DEF MjpegInv
<1>4. CASE MjpegUsers \/ MjpegStop \/ UNCHANGED mjpegVars
    <2>1. mjpeg' = mjpeg
        BY <1>4 DEF MjpegUsers, MjpegStop, mjpegVars
    <2> QED
        BY <1>1, <1>2, <2>1 DEF MjpegInv
<1> QED
    BY <1>3, <1>4

LEMMA MjpegInvWhole == MjpegInv => MjpegWhole
<1> DEFINE c == mjpeg_env.camera
           sent == mjpeg_env.sent
<1> SUFFICES ASSUME MjpegInv PROVE MjpegWhole
    OBVIOUS
<1>1. c \in MjpegCameras /\ sent \in Nat
    BY DEF MjpegInv, Environments
<1>2. CutOf(mjpeg, c) /\ mjpeg \in Connections /\ GivenUp(mjpeg, c, sent)
    BY DEF MjpegInv, Sound
<1>3. HasEmpty = NonePictured(c) /\ HasHuge = Oversized(c) /\ Arrived = ArrivedOf(c, sent)
    BY DEF HasEmpty, NonePictured, HasHuge, Oversized, Arrived, ArrivedOf
<1> HIDE DEF c, sent
<1>4. Len(mjpeg.cut) \in Nat /\ MjpegParts \in Nat
    <2>1. mjpeg.cut \in Seq(Seq(Symbols))
        BY <1>2 DEF Connections
    <2> QED
        BY <1>1, <2>1, CameraIs
<1>5. ASSUME Len(mjpeg.cut) < MjpegParts, EndOf(c, Len(mjpeg.cut) + 1) <= sent
      PROVE  Arrived > Len(mjpeg.cut)
    <2>1. Len(mjpeg.cut) + 1 \in 1 .. MjpegParts
        BY <1>4, <1>5
    <2>2. ArrivedOf(c, sent) >= Len(mjpeg.cut) + 1
        BY <1>1, <1>5, <2>1, ArrivedIs
    <2>3. ArrivedOf(c, sent) \in Nat
        <3> DEFINE A == {i \in 1 .. MjpegParts : Len(StreamOf([c EXCEPT !.size = SubSeq(@, 1, i)])) <= sent}
        <3>1. IsFiniteSet(1 .. MjpegParts) /\ A \subseteq 1 .. MjpegParts
            BY <1>4, FS_Interval
        <3> HIDE DEF A
        <3>2. Cardinality(A) \in Nat
            BY <3>1, FS_Subset, FS_CardinalityType
        <3> QED
            BY <3>2 DEF A, ArrivedOf
    <2> QED
        BY <1>3, <1>4, <2>2, <2>3
<1>6. \A i \in DOMAIN mjpeg.cut : mjpeg.cut[i] = PictureOf(mjpeg_env.camera, i)
    BY <1>2 DEF CutOf, c
<1>7. mjpeg.at = "spins" => HasEmpty /\ mjpeg_env.camera.boundary
    BY <1>2, <1>3 DEF GivenUp, c
<1>8. mjpeg.at = "too big" => HasEmpty \/ HasHuge \/ Arrived > Len(mjpeg.cut)
    BY <1>2, <1>3, <1>5 DEF GivenUp
<1> QED
    BY <1>6, <1>7, <1>8 DEF MjpegWhole

LEMMA MjpegInvHolds == MjpegSpec => []MjpegInv
<1>1. MjpegInv /\ [MjpegNext]_mjpegVars => MjpegInv'
    BY MjpegDataInv, MjpegOthersInv DEF MjpegNext
<1> QED
    BY <1>1, MjpegInvInit, PTL DEF MjpegSpec

\* Each picture taken from an MJPEG stream is the one that the camera sent, in order,
\* and the source gives up only for a reason.  It is about process() of the MJPEG
\* source, for any number of parts of any sizes, any limit and any division of the
\* stream into pieces.
THEOREM MjpegWholeHolds == MjpegSpec => []MjpegWhole
BY MjpegInvHolds, MjpegInvWhole, PTL

-----------------------------------------------------------------------------
(* PixelCommands: what a client sends.                                     *)

LineLength(ends, k) == ends[k] - ends[k - 1]

LEMMA ClientIs ==
    ASSUME NEW ends \in PxClients
    PROVE  /\ ends[0] = 0 /\ PxCommands \in Nat /\ PxBuffer \in Nat \ {0}
           /\ \A k \in 0 .. PxCommands : ends[k] \in Nat
           /\ \A k \in 1 .. PxCommands : /\ LineLength(ends, k) \in Nat
                                         /\ LineLength(ends, k) >= 2
                                         /\ LineLength(ends, k) <= PxBuffer - 1
BY PxAssumption DEF LineLength

LEMMA EndsGrow ==
    ASSUME NEW ends \in PxClients, NEW i \in 0 .. PxCommands
    PROVE  \A k \in i .. PxCommands : ends[i] + (k - i) <= ends[k]
<1> DEFINE S == {n \in Nat : i + n <= PxCommands => ends[i] + n <= ends[i + n]}
<1>0. i \in Nat /\ PxCommands \in Nat /\ ends[i] \in Nat
    BY ClientIs
<1>1. 0 \in S
    <2>1. i + 0 = i /\ ends[i] + 0 = ends[i]
        BY <1>0
    <2> QED
        BY <1>0, <2>1
<1>2. ASSUME NEW n \in Nat, n \in S PROVE n + 1 \in S
    <2> SUFFICES ASSUME i + (n + 1) <= PxCommands PROVE ends[i] + (n + 1) <= ends[i + (n + 1)]
        OBVIOUS
    <2>1. i + (n + 1) \in 1 .. PxCommands /\ (i + (n + 1)) - 1 = i + n /\ i + n \in 0 .. PxCommands
          /\ i + n <= PxCommands
        BY <1>0
    <2>2. LineLength(ends, i + (n + 1)) >= 2 /\ ends[i + (n + 1)] \in Nat /\ ends[i + n] \in Nat
        BY <2>1, ClientIs
    <2>3. LineLength(ends, i + (n + 1)) = ends[i + (n + 1)] - ends[i + n]
        BY <2>1 DEF LineLength
    <2>4. ends[i] + n <= ends[i + n]
        BY <1>2, <2>1
    <2> QED
        BY <1>0, <2>2, <2>3, <2>4
<1> HIDE DEF S
<1>3. Nat \subseteq S
    BY <1>1, <1>2, NaturalInduction
<1>4. ASSUME NEW k \in i .. PxCommands PROVE ends[i] + (k - i) <= ends[k]
    <2>1. k - i \in Nat /\ i + (k - i) = k /\ k <= PxCommands
        BY <1>0
    <2>2. k - i \in S
        BY <1>3, <2>1
    <2> QED
        BY <2>1, <2>2 DEF S
<1> QED
    BY <1>4

LEMMA EndsOrder ==
    ASSUME NEW ends \in PxClients, NEW i \in 0 .. PxCommands, NEW k \in 0 .. PxCommands
    PROVE  /\ i < k => ends[i] < ends[k]
           /\ i <= k => ends[i] <= ends[k]
           /\ ends[i] < ends[k] => i < k
           /\ ends[i] \in Nat /\ ends[k] \in Nat
<1>1. ends[i] \in Nat /\ ends[k] \in Nat /\ i \in Nat /\ k \in Nat
    BY ClientIs
<1>2. i <= k => ends[i] + (k - i) <= ends[k]
    <2>1. i <= k => k \in i .. PxCommands
        BY <1>1
    <2> QED
        BY <2>1, EndsGrow
<1>3. k <= i => ends[k] + (i - k) <= ends[i]
    <2>1. k <= i => i \in k .. PxCommands
        BY <1>1
    <2> QED
        BY <2>1, EndsGrow
<1> QED
    BY <1>1, <1>2, <1>3

\* A symbol of line k.
LEMMA SentIs ==
    ASSUME NEW ends \in PxClients, NEW k \in 1 .. PxCommands, NEW i \in Nat,
           ends[k - 1] < i, i <= ends[k]
    PROVE  PxSent(ends, i) = IF i = ends[k] THEN Newline ELSE <<k, i - ends[k - 1]>>
<1> DEFINE c == CHOOSE q \in 1 .. PxCommands : ends[q - 1] < i /\ i <= ends[q]
<1>1. c \in 1 .. PxCommands /\ ends[c - 1] < i /\ i <= ends[c]
    OBVIOUS
<1>2. PxSent(ends, i) = IF i = ends[c] THEN Newline ELSE <<c, i - ends[c - 1]>>
    BY DEF PxSent
<1> HIDE DEF c
<1>3. c = k
    <2>0. PxCommands \in Nat
        BY ClientIs
    <2>1. c \in 0 .. PxCommands /\ k \in 0 .. PxCommands /\ c - 1 \in 0 .. PxCommands /\ k - 1 \in 0 .. PxCommands
          /\ c \in Nat /\ k \in Nat
        BY <1>1, <2>0
    <2>2. ends[c - 1] \in Nat /\ ends[k] \in Nat /\ ends[k - 1] \in Nat /\ ends[c] \in Nat
        BY <2>1, ClientIs
    <2>3. ends[c - 1] < ends[k] /\ ends[k - 1] < ends[c]
        BY <1>1, <2>2
    <2>4. c - 1 < k /\ k - 1 < c
        BY <2>1, <2>3, EndsOrder
    <2> QED
        BY <2>1, <2>4
<1> QED
    BY <1>2, <1>3

\* Each symbol is one of a line.
LEMMA LineExists ==
    ASSUME NEW ends \in PxClients, NEW i \in Nat \ {0}, i <= ends[PxCommands]
    PROVE  \E k \in 1 .. PxCommands : ends[k - 1] < i /\ i <= ends[k]
<1> DEFINE T == {k \in 0 .. PxCommands : i <= ends[k]}
<1>0. PxCommands \in Nat /\ ends[0] = 0 /\ \A k \in 0 .. PxCommands : ends[k] \in Nat
    BY ClientIs
<1>1. PxCommands \in T /\ T \subseteq Nat /\ T # {}
    BY <1>0
<1> HIDE DEF T
<1>2. PICK k \in T : \A m \in T : k <= m
    BY <1>1, LeastNatural
<1>3. k \in 0 .. PxCommands /\ i <= ends[k]
    BY <1>2 DEF T
<1>4. k # 0
    BY <1>0, <1>3
<1>5. k - 1 \in 0 .. PxCommands /\ k \in 1 .. PxCommands /\ ~(k <= k - 1)
    BY <1>0, <1>3, <1>4
<1>6. k - 1 \notin T
    BY <1>2, <1>5
<1>7. ends[k - 1] < i
    BY <1>0, <1>5, <1>6 DEF T
<1> QED
    BY <1>3, <1>5, <1>7

\* Symbols behind the end of line k: those of the next line, and where lines end.
LEMMA SymbolsBehind ==
    ASSUME NEW ends \in PxClients, NEW k \in 0 .. PxCommands, NEW j \in Nat,
           ends[k] + 1 + j <= ends[PxCommands]
    PROVE  /\ k + 1 \in 1 .. PxCommands
           /\ PxSent(ends, ends[k] + 1 + j) # Nul
           /\ j + 1 < LineLength(ends, k + 1) => PxSent(ends, ends[k] + 1 + j) = <<k + 1, j + 1>>
           /\ j + 1 = LineLength(ends, k + 1) => PxSent(ends, ends[k] + 1 + j) = Newline
           /\ PxSent(ends, ends[k] + 1 + j) = Newline =>
                \E l \in k + 1 .. PxCommands : ends[l] = ends[k] + 1 + j
<1> DEFINE i == ends[k] + 1 + j
<1>0. PxCommands \in Nat /\ \A q \in 0 .. PxCommands : ends[q] \in Nat
    BY ClientIs
<1>1. ends[k] \in Nat /\ k \in Nat /\ i \in Nat \ {0} /\ i <= ends[PxCommands] /\ ends[k] < i
    BY <1>0
<1>i. i = ends[k] + 1 + j
    OBVIOUS
<1> HIDE DEF i
<1>2. PICK q \in 1 .. PxCommands : ends[q - 1] < i /\ i <= ends[q]
    BY <1>1, LineExists
<1>3. PxSent(ends, i) = IF i = ends[q] THEN Newline ELSE <<q, i - ends[q - 1]>>
    BY <1>1, <1>2, SentIs
<1>4. ends[k] < ends[q] /\ q \in 0 .. PxCommands /\ q \in Nat
    <2>1. q \in 0 .. PxCommands /\ ends[q] \in Nat /\ q \in Nat
        BY <1>0, <1>2
    <2> QED
        BY <1>1, <1>2, <2>1
<1>5. k < q
    BY <1>4, EndsOrder
<1>6. k + 1 \in 1 .. PxCommands /\ k + 1 \in 0 .. PxCommands /\ (k + 1) - 1 = k
    BY <1>0, <1>1, <1>2, <1>5
<1>7. PxSent(ends, i) # Nul
    BY <1>2, <1>3, <1>4 DEF Nul, Newline
<1>8. PxSent(ends, i) = Newline => ends[q] = i
    BY <1>2, <1>3, <1>4 DEF Newline
<1>9. LineLength(ends, k + 1) = ends[k + 1] - ends[k] /\ ends[k + 1] \in Nat
    BY <1>0, <1>6 DEF LineLength
<1>10. ASSUME j + 1 <= LineLength(ends, k + 1)
       PROVE  PxSent(ends, i) = IF i = ends[k + 1] THEN Newline ELSE <<k + 1, i - ends[k]>>
    <2>1. i <= ends[k + 1]
        BY <1>1, <1>9, <1>10, <1>i
    <2> QED
        BY <1>1, <1>6, <2>1, SentIs
<1>11. ASSUME j + 1 < LineLength(ends, k + 1) PROVE PxSent(ends, i) = <<k + 1, j + 1>>
    <2>1. i # ends[k + 1] /\ i - ends[k] = j + 1 /\ j + 1 <= LineLength(ends, k + 1)
        BY <1>1, <1>9, <1>11, <1>i
    <2> QED
        BY <1>10, <2>1
<1>12. ASSUME j + 1 = LineLength(ends, k + 1) PROVE PxSent(ends, i) = Newline
    <2>1. i = ends[k + 1] /\ j + 1 <= LineLength(ends, k + 1)
        BY <1>1, <1>9, <1>12, <1>i
    <2> QED
        BY <1>10, <2>1
<1>13. q \in k + 1 .. PxCommands
    BY <1>1, <1>2, <1>5
<1> QED
    BY <1>6, <1>7, <1>8, <1>11, <1>12, <1>13 DEF i

-----------------------------------------------------------------------------
(* PixelCommands: the buffer.                                              *)

\* Commands executed: pairs of the number of one and whether it was whole, in order.
PxDone(p) ==
    /\ p.done \in Seq(Nat \X BOOLEAN)
    /\ \A i, j \in DOMAIN p.done : i < j => p.done[i][1] < p.done[j][1]
    /\ \A i \in DOMAIN p.done : p.done[i][2]
    /\ ~p.split => \A i \in DOMAIN p.done : p.done[i][1] = i

PxTypes(p) ==
    /\ p = [at |-> p.at, buffer |-> p.buffer, o |-> p.o, old_o |-> p.old_o, sends |-> p.sends,
            got |-> p.got, done |-> p.done, split |-> p.split]
    /\ p.at \in {"read", "scan", "closed"}
    /\ DOMAIN p.buffer = 0 .. PxBuffer - 1
    /\ p.o \in 0 .. PxBuffer - 1 /\ p.old_o \in 0 .. PxBuffer - 1
    /\ p.sends \in PxClients /\ p.got \in Nat /\ p.got <= p.sends[PxCommands]
    /\ p.split \in BOOLEAN

\* Where the search begins there is a 0 in front of the next end of a line that is
\* not of what the buffer holds now.
PxStops(p) ==
    /\ p.o >= 1
    /\ p.buffer[p.o] = Nul
    /\ \/ p.old_o <= p.o
       \/ \E z \in p.old_o .. PxBuffer - 1 :
             p.buffer[z] = Nul /\ \A j \in p.old_o .. z - 1 : p.buffer[j] # Newline

\* The buffer begins behind the end of line k0.
PxBegins(p, k0) ==
    /\ p.got - p.o = p.sends[k0]
    /\ \A i \in DOMAIN p.done : p.done[i][1] <= k0
    /\ ~p.split => Len(p.done) = k0
    /\ \A j \in 0 .. p.o - 1 : p.buffer[j] = PxSent(p.sends, p.sends[k0] + 1 + j)
    /\ p.at = "read" /\ ~p.split /\ k0 < PxCommands => p.o < LineLength(p.sends, k0 + 1)
    /\ p.at = "scan" =>
         /\ PxStops(p)
         /\ ~p.split /\ k0 < PxCommands => p.old_o < LineLength(p.sends, k0 + 1)

PxInvOf(p) ==
    /\ PxTypes(p)
    /\ PxDone(p)
    /\ p.at # "closed" => \E k0 \in 0 .. PxCommands : PxBegins(p, k0)

PxInv == PxInvOf(px)

LEMMA PxInvFirst == PxInit => PxInv
<1> SUFFICES ASSUME PxInit PROVE PxInvOf(px)
    BY DEF PxInv
<1>1. PICK ends \in PxClients :
        px = [at |-> "read", buffer |-> [i \in 0 .. PxBuffer - 1 |-> Nul], o |-> 0, old_o |-> 0,
              sends |-> ends, got |-> 0, done |-> <<>>, split |-> FALSE]
    BY DEF PxInit
<1>2. ends[0] = 0 /\ PxCommands \in Nat /\ PxBuffer \in Nat \ {0} /\ ends[PxCommands] \in Nat
      /\ \A k \in 1 .. PxCommands : LineLength(ends, k) \in Nat /\ LineLength(ends, k) >= 2
    BY ClientIs
<1>3. PxTypes(px)
    BY <1>1, <1>2 DEF PxTypes
<1>4. PxDone(px)
    <2>1. px.done = <<>> /\ <<>> \in Seq(Nat \X BOOLEAN) /\ DOMAIN px.done = {}
        BY <1>1
    <2> QED
        BY <2>1 DEF PxDone
<1>5. PxBegins(px, 0)
    <2>1. px.o = 0 /\ px.got = 0 /\ px.sends = ends /\ px.at = "read" /\ px.done = <<>>
        BY <1>1
    <2>2. DOMAIN px.done = {} /\ Len(px.done) = 0
        BY <2>1
    <2>3. 0 < PxCommands => 0 + 1 \in 1 .. PxCommands
        BY <1>2
    <2> QED
        BY <1>2, <2>1, <2>2, <2>3 DEF PxBegins
<1>6. 0 \in 0 .. PxCommands
    BY <1>2
<1> QED
    BY <1>3, <1>4, <1>5, <1>6 DEF PxInvOf

\* A piece comes in.
LEMMA PxInvRead == PxInv /\ PxRead => PxInv'
<1> SUFFICES ASSUME PxInvOf(px), PxRead PROVE PxInvOf(px')
    BY DEF PxInv
<1>0. PxTypes(px) /\ PxDone(px) /\ px.at = "read"
    BY DEF PxInvOf, PxRead
<1>1. px.sends \in PxClients /\ px.o \in 0 .. PxBuffer - 1 /\ px.got \in Nat /\ DOMAIN px.buffer = 0 .. PxBuffer - 1
      /\ px.old_o \in 0 .. PxBuffer - 1 /\ px.split \in BOOLEAN /\ px.got <= px.sends[PxCommands]
      /\ px = [at |-> px.at, buffer |-> px.buffer, o |-> px.o, old_o |-> px.old_o, sends |-> px.sends,
               got |-> px.got, done |-> px.done, split |-> px.split]
    BY <1>0 DEF PxTypes
<1>2. PxCommands \in Nat /\ PxBuffer \in Nat \ {0} /\ \A k \in 0 .. PxCommands : px.sends[k] \in Nat
    BY <1>1, ClientIs
<1>3. CASE px' = [px EXCEPT !.at = "closed"]
    <2>1. px'.at = "closed" /\ px'.done = px.done /\ px'.split = px.split /\ PxTypes(px')
        BY <1>1, <1>3 DEF PxTypes
    <2> QED
        BY <2>1, <1>0 DEF PxInvOf, PxDone
<1>4. ASSUME NEW n \in 1 .. PxBuffer - 1 - px.o,
             px.got + n <= px.sends[PxCommands],
             px' = [px EXCEPT
                   !.buffer = [i \in DOMAIN @ |->
                                 IF i \in px.o .. px.o + n - 1
                                 THEN PxSent(px.sends, px.got + i - px.o + 1)
                                 ELSE IF i = px.o + n THEN Nul ELSE @[i]],
                   !.old_o = px.o, !.o = @ + n, !.got = @ + n, !.at = "scan"]
      PROVE  PxInvOf(px')
    <2> DEFINE b == [i \in 0 .. PxBuffer - 1 |->
                                 IF i \in px.o .. px.o + n - 1
                                 THEN PxSent(px.sends, px.got + i - px.o + 1)
                                 ELSE IF i = px.o + n THEN Nul ELSE px.buffer[i]]
    <2>1. px' = [at |-> "scan", buffer |-> b, o |-> px.o + n, old_o |-> px.o, sends |-> px.sends,
                 got |-> px.got + n, done |-> px.done, split |-> px.split]
        BY <1>1, <1>4
    <2>2. px'.at = "scan" /\ px'.buffer = b /\ px'.o = px.o + n /\ px'.old_o = px.o /\ px'.sends = px.sends
          /\ px'.got = px.got + n /\ px'.done = px.done /\ px'.split = px.split
        BY <2>1
    <2>n. n \in Nat /\ n >= 1 /\ px.o + n \in 0 .. PxBuffer - 1 /\ px.o \in Nat /\ px.o + n \in Nat
          /\ px.got + n \in Nat /\ DOMAIN b = 0 .. PxBuffer - 1
        BY <1>1, <1>2
    <2>3. PxTypes(px')
        <3>1. px' = [at |-> px'.at, buffer |-> px'.buffer, o |-> px'.o, old_o |-> px'.old_o, sends |-> px'.sends,
                     got |-> px'.got, done |-> px'.done, split |-> px'.split]
            BY <2>1, <2>2
        <3> HIDE DEF b
        <3> QED
            BY <1>1, <1>4, <2>2, <2>n, <3>1 DEF PxTypes
    <2>4. PxDone(px')
        BY <1>0, <2>2 DEF PxDone
    <2>5. PICK k0 \in 0 .. PxCommands : PxBegins(px, k0)
        BY <1>0 DEF PxInvOf
    <2>6. PxBegins(px', k0)
        <3>0. px.got - px.o = px.sends[k0] /\ px.sends[k0] \in Nat
            BY <1>2, <2>5 DEF PxBegins
        <3>1. px'.got - px'.o = px'.sends[k0]
            BY <1>1, <2>n, <2>2, <3>0
        <3>2. (\A i \in DOMAIN px'.done : px'.done[i][1] <= k0) /\ (~px'.split => Len(px'.done) = k0)
            BY <2>2, <2>5 DEF PxBegins
        <3>3. ASSUME NEW j \in 0 .. px'.o - 1
              PROVE  px'.buffer[j] = PxSent(px'.sends, px'.sends[k0] + 1 + j)
            <4>1. j \in 0 .. px.o + n - 1 /\ j \in Nat /\ j \in 0 .. PxBuffer - 1
                BY <2>2, <2>n, <1>2
            <4>2. CASE j < px.o
                <5>1. j \in 0 .. px.o - 1 /\ j \notin px.o .. px.o + n - 1 /\ j # px.o + n
                    BY <4>1, <4>2, <2>n
                <5>2. b[j] = px.buffer[j]
                    BY <4>1, <5>1
                <5> HIDE DEF b
                <5> QED
                    BY <2>2, <2>5, <5>1, <5>2 DEF PxBegins
            <4>3. CASE ~(j < px.o)
                <5>1. j \in px.o .. px.o + n - 1
                    BY <4>1, <4>3, <2>n
                <5>2. b[j] = PxSent(px.sends, px.got + j - px.o + 1)
                    BY <4>1, <5>1
                <5>3. px.got + j - px.o + 1 = px.sends[k0] + 1 + j
                    BY <1>1, <3>0, <4>1, <2>n
                <5> HIDE DEF b
                <5> QED
                    BY <2>2, <5>2, <5>3
            <4> QED
                BY <4>2, <4>3
        <3>4. PxStops(px')
            <4>1. px.o + n \notin px.o .. px.o + n - 1
                BY <2>n
            <4>2. b[px.o + n] = Nul
                BY <4>1, <2>n
            <4>3. px.o <= px.o + n /\ px.o + n >= 1
                BY <2>n
            <4> HIDE DEF b
            <4> QED
                BY <2>2, <4>2, <4>3 DEF PxStops
        <3>5. ~px'.split /\ k0 < PxCommands => px'.old_o < LineLength(px'.sends, k0 + 1)
            BY <2>2, <2>5, <1>0 DEF PxBegins
        <3> QED
            BY <2>2, <3>1, <3>2, <3>3, <3>4, <3>5 DEF PxBegins
    <2> QED
        BY <2>3, <2>4, <2>6 DEF PxInvOf
<1> QED
    BY <1>3, <1>4 DEF PxRead

\* What the search finds, if it finds anything: the first end of a line.
LEMMA FirstLineEnd ==
    ASSUME NEW b, NEW n \in Nat, NEW i \in Nat, DOMAIN b = 0 .. n, LineEnds(b, i) # {}
    PROVE  /\ FirstOf(LineEnds(b, i)) \in LineEnds(b, i)
           /\ \A j \in LineEnds(b, i) : FirstOf(LineEnds(b, i)) <= j
<1>1. LineEnds(b, i) \subseteq Nat
    BY DEF LineEnds
<1>2. \E j \in LineEnds(b, i) : \A m \in LineEnds(b, i) : j <= m
    BY <1>1, LeastNatural
<1> QED
    BY <1>2 DEF FirstOf

LEMMA LineEndIs ==
    ASSUME NEW b, NEW n \in Nat, NEW i \in Nat, DOMAIN b = 0 .. n, NEW j
    PROVE  j \in LineEnds(b, i) <=> /\ j \in 0 .. n /\ j >= i /\ b[j] = Newline
                                    /\ \A k \in i .. j - 1 : b[k] # Nul
BY DEF LineEnds

\* The state of a search, and what follows from the invariant.
PxScanning(p, k0) == PxTypes(p) /\ PxDone(p) /\ p.at = "scan" /\ k0 \in 0 .. PxCommands /\ PxBegins(p, k0)

LEMMA PxScanFacts ==
    ASSUME NEW p, NEW k0, PxScanning(p, k0)
    PROVE  /\ p.sends \in PxClients /\ p.o \in 0 .. PxBuffer - 1 /\ p.got \in Nat /\ DOMAIN p.buffer = 0 .. PxBuffer - 1
           /\ p.old_o \in 0 .. PxBuffer - 1 /\ p.split \in BOOLEAN /\ p.got <= p.sends[PxCommands]
           /\ p = [at |-> p.at, buffer |-> p.buffer, o |-> p.o, old_o |-> p.old_o, sends |-> p.sends,
                   got |-> p.got, done |-> p.done, split |-> p.split]
           /\ PxCommands \in Nat /\ PxBuffer \in Nat \ {0} /\ PxBuffer - 1 \in Nat /\ p.o \in Nat /\ p.old_o \in Nat
           /\ p.sends[k0] \in Nat /\ k0 \in Nat /\ k0 \in 0 .. PxCommands
           /\ p.sends[PxCommands] \in Nat
           /\ p.got = p.sends[k0] + p.o
           /\ p.o >= 1
           /\ k0 < PxCommands => /\ k0 + 1 \in 1 .. PxCommands
                                 /\ LineLength(p.sends, k0 + 1) \in Nat
                                 /\ LineLength(p.sends, k0 + 1) >= 2
                                 /\ LineLength(p.sends, k0 + 1) <= PxBuffer - 1
<1>1. /\ p.sends \in PxClients /\ p.o \in 0 .. PxBuffer - 1 /\ p.got \in Nat /\ DOMAIN p.buffer = 0 .. PxBuffer - 1
      /\ p.old_o \in 0 .. PxBuffer - 1 /\ p.split \in BOOLEAN /\ p.got <= p.sends[PxCommands]
      /\ p = [at |-> p.at, buffer |-> p.buffer, o |-> p.o, old_o |-> p.old_o, sends |-> p.sends,
              got |-> p.got, done |-> p.done, split |-> p.split]
    BY DEF PxScanning, PxTypes
<1>2. k0 \in 0 .. PxCommands /\ p.got - p.o = p.sends[k0] /\ p.o >= 1
    BY DEF PxScanning, PxBegins, PxStops
<1>3. PxCommands \in Nat /\ PxBuffer \in Nat \ {0} /\ \A k \in 0 .. PxCommands : p.sends[k] \in Nat
    BY <1>1, ClientIs
<1>4. p.o \in Nat /\ p.old_o \in Nat /\ PxBuffer - 1 \in Nat /\ k0 \in Nat /\ p.sends[k0] \in Nat
      /\ p.sends[PxCommands] \in Nat
    BY <1>1, <1>2, <1>3
<1>5. p.got = p.sends[k0] + p.o
    BY <1>1, <1>2, <1>4
<1>6. k0 < PxCommands => k0 + 1 \in 1 .. PxCommands
    BY <1>3, <1>4
<1>7. k0 < PxCommands => /\ LineLength(p.sends, k0 + 1) \in Nat
                         /\ LineLength(p.sends, k0 + 1) >= 2
                         /\ LineLength(p.sends, k0 + 1) <= PxBuffer - 1
    BY <1>1, <1>6, ClientIs
<1> QED
    BY <1>1, <1>2, <1>3, <1>4, <1>5, <1>6, <1>7

\* What is in the buffer, in front of the end of what came in.
LEMMA PxHeld ==
    ASSUME NEW p, NEW k0, PxScanning(p, k0), NEW j \in 0 .. p.o - 1
    PROVE  /\ p.buffer[j] = PxSent(p.sends, p.sends[k0] + 1 + j)
           /\ k0 < PxCommands
           /\ p.buffer[j] # Nul
           /\ j + 1 < LineLength(p.sends, k0 + 1) => p.buffer[j] = <<k0 + 1, j + 1>>
           /\ j + 1 = LineLength(p.sends, k0 + 1) => p.buffer[j] = Newline
           /\ p.buffer[j] = Newline =>
                \E l \in k0 + 1 .. PxCommands : p.sends[l] = p.sends[k0] + 1 + j
<1>1. p.buffer[j] = PxSent(p.sends, p.sends[k0] + 1 + j)
    BY DEF PxScanning, PxBegins
<1>2. p.sends \in PxClients /\ k0 \in 0 .. PxCommands /\ p.o \in Nat /\ p.got = p.sends[k0] + p.o
      /\ p.got <= p.sends[PxCommands] /\ p.sends[k0] \in Nat /\ p.sends[PxCommands] \in Nat
      /\ PxCommands \in Nat /\ k0 \in Nat
    BY PxScanFacts
<1>3. j \in Nat /\ p.sends[k0] + 1 + j <= p.sends[PxCommands]
    BY <1>2
<1>4. k0 + 1 \in 1 .. PxCommands
    BY <1>2, <1>3, SymbolsBehind
<1>5. k0 < PxCommands
    BY <1>2, <1>4
<1> DEFINE ends == p.sends
           symbol == PxSent(ends, ends[k0] + 1 + j)
<1>6. ends \in PxClients /\ k0 \in 0 .. PxCommands /\ j \in Nat /\ ends[k0] + 1 + j <= ends[PxCommands]
    BY <1>2, <1>3
<1>7. p.buffer[j] = symbol
    BY <1>1
<1> HIDE DEF ends
<1>8. /\ symbol # Nul
      /\ j + 1 < LineLength(ends, k0 + 1) => symbol = <<k0 + 1, j + 1>>
      /\ j + 1 = LineLength(ends, k0 + 1) => symbol = Newline
      /\ symbol = Newline => \E l \in k0 + 1 .. PxCommands : ends[l] = ends[k0] + 1 + j
    BY <1>6, SymbolsBehind
<1> QED
    BY <1>5, <1>7, <1>8 DEF ends

\* As long as no line was missed, the end of the first line is one that a search sees.
LEMMA PxNextSeen ==
    ASSUME NEW p, NEW k0, PxScanning(p, k0), ~p.split, k0 < PxCommands,
           LineLength(p.sends, k0 + 1) <= p.o
    PROVE  LineLength(p.sends, k0 + 1) - 1 \in LineEnds(p.buffer, p.old_o)
<1> DEFINE n == LineLength(p.sends, k0 + 1)
<1>1. n \in Nat /\ n >= 2 /\ p.o \in Nat /\ p.old_o \in Nat /\ p.o \in 0 .. PxBuffer - 1 /\ PxBuffer - 1 \in Nat
      /\ DOMAIN p.buffer = 0 .. PxBuffer - 1
    BY PxScanFacts
<1>2. p.old_o < n
    BY DEF PxScanning, PxBegins
<1>3. n <= p.o
    OBVIOUS
<1>n. n = LineLength(p.sends, k0 + 1)
    OBVIOUS
<1> HIDE DEF n
<1>4. n - 1 \in 0 .. p.o - 1 /\ (n - 1) + 1 = n /\ n - 1 \in 0 .. PxBuffer - 1 /\ n - 1 >= p.old_o
    BY <1>1, <1>2, <1>3
<1>5. p.buffer[n - 1] = Newline
    BY <1>4, <1>n, PxHeld
<1>6. \A k \in p.old_o .. (n - 1) - 1 : p.buffer[k] # Nul
    <2> SUFFICES ASSUME NEW k \in p.old_o .. (n - 1) - 1 PROVE p.buffer[k] # Nul
        OBVIOUS
    <2>1. k \in 0 .. p.o - 1
        BY <1>1, <1>3
    <2> QED
        BY <2>1, PxHeld
<1> QED
    BY <1>1, <1>4, <1>5, <1>6, <1>n, LineEndIs

\* The first end of a line that a search sees is one of what came in.
LEMMA PxFound ==
    ASSUME NEW p, NEW k0, PxScanning(p, k0), NEW lf \in LineEnds(p.buffer, p.old_o)
    PROVE  /\ lf \in 0 .. p.o - 1
           /\ \E l \in k0 + 1 .. PxCommands : p.sends[l] = p.sends[k0] + 1 + lf
           /\ k0 < PxCommands
           /\ lf + 1 >= LineLength(p.sends, k0 + 1)
<1>1. p.o \in Nat /\ p.old_o \in Nat /\ p.o \in 0 .. PxBuffer - 1 /\ PxBuffer - 1 \in Nat
      /\ DOMAIN p.buffer = 0 .. PxBuffer - 1 /\ p.sends[k0] \in Nat /\ k0 \in 0 .. PxCommands
      /\ p.sends \in PxClients /\ k0 \in Nat /\ PxCommands \in Nat
    BY PxScanFacts
<1>2. lf \in 0 .. PxBuffer - 1 /\ lf >= p.old_o /\ p.buffer[lf] = Newline
      /\ \A k \in p.old_o .. lf - 1 : p.buffer[k] # Nul
    BY <1>1, LineEndIs
<1>3. PxStops(p)
    BY DEF PxScanning, PxBegins
<1>4. Newline # Nul
    BY DEF Newline, Nul
<1>5. ASSUME p.o <= lf PROVE FALSE
    <2>1. p.buffer[p.o] = Nul
        BY <1>3 DEF PxStops
    <2>2. lf # p.o
        BY <1>2, <1>4, <2>1
    <2>3. CASE p.old_o <= p.o
        <3>1. p.o \in p.old_o .. lf - 1
            BY <1>1, <1>2, <1>5, <2>2, <2>3
        <3> QED
            BY <1>2, <2>1, <3>1
    <2>4. CASE \E z \in p.old_o .. PxBuffer - 1 :
                  p.buffer[z] = Nul /\ \A j \in p.old_o .. z - 1 : p.buffer[j] # Newline
        <3>1. PICK z \in p.old_o .. PxBuffer - 1 :
                  p.buffer[z] = Nul /\ \A j \in p.old_o .. z - 1 : p.buffer[j] # Newline
            BY <2>4
        <3>2. lf # z /\ z \in Nat /\ lf \in Nat
            BY <1>1, <1>2, <1>4, <3>1
        <3>3. lf \notin p.old_o .. z - 1 /\ z \notin p.old_o .. lf - 1
            BY <1>2, <3>1
        <3>4. lf < z \/ z < lf
            BY <3>2
        <3> QED
            BY <1>1, <1>2, <3>1, <3>2, <3>3, <3>4
    <2> QED
        BY <1>3, <2>3, <2>4 DEF PxStops
<1>6. lf \in 0 .. p.o - 1
    BY <1>1, <1>2, <1>5
<1>7. PICK l \in k0 + 1 .. PxCommands : p.sends[l] = p.sends[k0] + 1 + lf
    BY <1>2, <1>6, PxHeld
<1>8. k0 < PxCommands
    BY <1>6, PxHeld
<1>9. LineLength(p.sends, k0 + 1) = p.sends[k0 + 1] - p.sends[k0]
    <2>1. (k0 + 1) - 1 = k0
        BY <1>1
    <2> QED
        BY <2>1 DEF LineLength
<1>10. p.sends[k0 + 1] <= p.sends[l] /\ p.sends[k0 + 1] \in Nat
    <2>1. k0 + 1 \in 0 .. PxCommands /\ l \in 0 .. PxCommands /\ k0 + 1 <= l
        BY <1>1, <1>8
    <2> QED
        BY <1>1, <2>1, EndsOrder
<1>11. lf + 1 >= LineLength(p.sends, k0 + 1)
    <2>1. lf \in Nat
        BY <1>2, <1>1
    <2> QED
        BY <1>1, <1>7, <1>9, <1>10, <2>1
<1>12. \E m \in k0 + 1 .. PxCommands : p.sends[m] = p.sends[k0] + 1 + lf
    BY <1>7
<1> QED
    BY <1>6, <1>8, <1>11, <1>12

\* A line that was found is a whole command.
LEMMA PxWhole ==
    ASSUME NEW k0, PxScanning(px, k0), NEW lf \in LineEnds(px.buffer, px.old_o)
    PROVE  /\ Starts([px.buffer EXCEPT ![lf] = Nul])
           /\ HandleCommand([px.buffer EXCEPT ![lf] = Nul]) = <<k0 + 1, TRUE>>
<1> DEFINE b == [px.buffer EXCEPT ![lf] = Nul]
           n == LineLength(px.sends, k0 + 1)
<1>1. /\ lf \in 0 .. px.o - 1 /\ k0 < PxCommands /\ lf + 1 >= n
    BY PxFound
<1>2. px.o \in Nat /\ px.o \in 0 .. PxBuffer - 1 /\ PxBuffer - 1 \in Nat
      /\ DOMAIN px.buffer = 0 .. PxBuffer - 1 /\ k0 \in Nat /\ n \in Nat /\ n >= 2
    BY <1>1, PxScanFacts
<1>n. n = LineLength(px.sends, k0 + 1)
    OBVIOUS
<1>3. \A j \in 0 .. PxBuffer - 1 : j # lf => b[j] = px.buffer[j]
    BY <1>2
<1> HIDE DEF b, n
<1>4. ASSUME NEW j \in 1 .. n - 1 PROVE b[j - 1] = <<k0 + 1, j>>
    <2>1. j - 1 \in 0 .. px.o - 1 /\ (j - 1) + 1 = j /\ j < n /\ j - 1 # lf /\ j - 1 \in 0 .. PxBuffer - 1
        BY <1>1, <1>2
    <2>2. px.buffer[j - 1] = <<k0 + 1, j>>
        BY <2>1, <1>n, PxHeld
    <2> QED
        BY <1>3, <2>1, <2>2
<1>5. b[0] = <<k0 + 1, 1>>
    <2>1. 1 \in 1 .. n - 1 /\ 1 - 1 = 0
        BY <1>2
    <2> QED
        BY <1>4, <2>1
<1>6. Starts(b)
    <2>1. k0 + 1 # 0 /\ b[0][1] = k0 + 1 /\ b[0][2] = 1
        BY <1>2, <1>5
    <2> QED
        BY <1>5, <2>1 DEF Starts, Nul, Newline
<1>7. HandleCommand(b) = <<k0 + 1, TRUE>>
    <2>1. b[0][1] = k0 + 1
        BY <1>5
    <2>2. HandleCommand(b) = <<k0 + 1, \A j \in 1 .. px.sends[k0 + 1] - px.sends[(k0 + 1) - 1] - 1 :
                                          b[j - 1] = <<k0 + 1, j>> >>
        BY <2>1 DEF HandleCommand
    <2>3. px.sends[k0 + 1] - px.sends[(k0 + 1) - 1] = n
        BY <1>n DEF LineLength
    <2>4. HandleCommand(b) = <<k0 + 1, \A j \in 1 .. n - 1 : b[j - 1] = <<k0 + 1, j>> >>
        BY <2>2, <2>3
    <2>5. (\A j \in 1 .. n - 1 : b[j - 1] = <<k0 + 1, j>>) = TRUE
        BY <1>4
    <2> QED
        BY <2>4, <2>5
<1> QED
    BY <1>6, <1>7 DEF b

\* A command more.
LEMMA PxDoneGrows ==
    ASSUME NEW p, NEW q, NEW k0, PxScanning(p, k0), k0 < PxCommands,
           q.done = Append(p.done, <<k0 + 1, TRUE>>), ~q.split => ~p.split
    PROVE  /\ PxDone(q)
           /\ \A i \in DOMAIN q.done : q.done[i][1] <= k0 + 1
           /\ ~q.split => Len(q.done) = k0 + 1
<1>1. PxDone(p) /\ (\A i \in DOMAIN p.done : p.done[i][1] <= k0) /\ (~p.split => Len(p.done) = k0)
    BY DEF PxScanning, PxBegins
<1>2. k0 \in Nat
    BY PxScanFacts
<1>3. p.done \in Seq(Nat \X BOOLEAN)
    BY <1>1 DEF PxDone
<1>4. Len(p.done) \in Nat /\ DOMAIN p.done = 1 .. Len(p.done)
    BY <1>3
<1> DEFINE n == Len(p.done)
<1>5. <<k0 + 1, TRUE>> \in Nat \X BOOLEAN
    <2>1. k0 + 1 \in Nat
        BY <1>2
    <2>2. TRUE \in BOOLEAN
        OBVIOUS
    <2> QED
        BY <2>1, <2>2, Zenon
<1>6. q.done \in Seq(Nat \X BOOLEAN) /\ Len(q.done) = n + 1 /\ DOMAIN q.done = 1 .. n + 1
      /\ (\A i \in 1 .. n : q.done[i] = p.done[i]) /\ q.done[n + 1] = <<k0 + 1, TRUE>>
    <2> DEFINE e == <<k0 + 1, TRUE>>
    <2>1. e \in Nat \X BOOLEAN /\ q.done = Append(p.done, e)
        BY <1>5
    <2>2. e = <<k0 + 1, TRUE>>
        OBVIOUS
    <2> HIDE DEF e
    <2>3. q.done \in Seq(Nat \X BOOLEAN) /\ Len(q.done) = n + 1
          /\ (\A i \in 1 .. n : q.done[i] = p.done[i]) /\ q.done[n + 1] = e
        <3>1. /\ Append(p.done, e) \in Seq(Nat \X BOOLEAN)
              /\ Len(Append(p.done, e)) = Len(p.done) + 1
              /\ \A i \in 1 .. Len(p.done) : Append(p.done, e)[i] = p.done[i]
              /\ Append(p.done, e)[Len(p.done) + 1] = e
            <4> DEFINE T == Nat \X BOOLEAN
            <4>1. p.done \in Seq(T) /\ e \in T
                BY <1>3, <2>1
            <4> HIDE DEF T
            <4>2. /\ Append(p.done, e) \in Seq(T)
                  /\ Len(Append(p.done, e)) = Len(p.done) + 1
                  /\ \A i \in 1 .. Len(p.done) : Append(p.done, e)[i] = p.done[i]
                  /\ Append(p.done, e)[Len(p.done) + 1] = e
                BY <4>1, AppendProperties
            <4> QED
                BY <4>2 DEF T
        <3> QED
            BY <2>1, <3>1
    <2>4. DOMAIN q.done = 1 .. n + 1
        BY <2>3
    <2> QED
        BY <2>2, <2>3, <2>4
<1>n. n \in Nat /\ DOMAIN p.done = 1 .. n /\ n = Len(p.done)
    BY <1>4
<1> HIDE DEF n
<1>7. \A i \in 1 .. n : p.done[i] \in Nat \X BOOLEAN
    BY <1>3, <1>n
<1>8. \A i \in 1 .. n : p.done[i][1] \in Nat
    BY <1>7
<1>9. q.done[n + 1][1] = k0 + 1 /\ q.done[n + 1][2]
    BY <1>6
<1>10. \A i \in 1 .. n + 1 : i \in 1 .. n \/ i = n + 1
    BY <1>n
<1>11. \A i, j \in DOMAIN q.done : i < j => q.done[i][1] < q.done[j][1]
    <2> SUFFICES ASSUME NEW i \in 1 .. n + 1, NEW j \in 1 .. n + 1, i < j
                 PROVE  q.done[i][1] < q.done[j][1]
        BY <1>6
    <2>1. i \in 1 .. n
        BY <1>n
    <2>2. q.done[i][1] = p.done[i][1] /\ p.done[i][1] \in Nat
        BY <1>6, <1>8, <2>1
    <2>3. CASE j \in 1 .. n
        <3>1. q.done[j][1] = p.done[j][1] /\ p.done[i][1] < p.done[j][1]
            BY <1>1, <1>6, <1>n, <2>1, <2>3 DEF PxDone
        <3> QED
            BY <2>2, <3>1
    <2>4. CASE j = n + 1
        <3>1. p.done[i][1] <= k0
            BY <1>1, <1>n, <2>1
        <3>2. q.done[j][1] = k0 + 1
            BY <1>9, <2>4
        <3>3. q.done[i][1] <= k0 /\ q.done[i][1] \in Nat
            BY <2>2, <3>1
        <3> DEFINE u == q.done[i][1]
        <3>4. u <= k0 /\ u \in Nat
            BY <3>3
        <3> HIDE DEF u
        <3>5. u < k0 + 1
            BY <1>2, <3>4
        <3> QED
            BY <3>2, <3>5 DEF u
    <2> QED
        BY <1>10, <2>3, <2>4
<1>12. \A i \in DOMAIN q.done : q.done[i][2]
    <2> SUFFICES ASSUME NEW i \in 1 .. n + 1 PROVE q.done[i][2]
        BY <1>6
    <2>1. i \in 1 .. n => p.done[i][2] /\ q.done[i] = p.done[i]
        BY <1>1, <1>6, <1>n DEF PxDone
    <2> QED
        BY <1>9, <1>10, <2>1
<1>13. ASSUME ~q.split, NEW i \in DOMAIN q.done PROVE q.done[i][1] = i
    <2>1. i \in 1 .. n => p.done[i][1] = i /\ q.done[i] = p.done[i]
        BY <1>1, <1>6, <1>n, <1>13 DEF PxDone
    <2>2. n = k0
        BY <1>1, <1>13, <1>n
    <2> QED
        BY <1>6, <1>9, <1>10, <2>1, <2>2
<1>14. ASSUME NEW i \in DOMAIN q.done PROVE q.done[i][1] <= k0 + 1
    <2>1. i \in 1 .. n => p.done[i][1] <= k0 /\ q.done[i] = p.done[i] /\ p.done[i][1] \in Nat
        BY <1>1, <1>6, <1>8, <1>n
    <2>2. ASSUME i \in 1 .. n PROVE q.done[i][1] <= k0 + 1
        <3>1. q.done[i][1] = p.done[i][1]
            BY <2>1, <2>2
        <3>2. q.done[i][1] <= k0 /\ q.done[i][1] \in Nat
            BY <2>1, <2>2, <3>1
        <3> DEFINE u == q.done[i][1]
        <3>3. u <= k0 /\ u \in Nat
            BY <3>2
        <3> HIDE DEF u
        <3>4. u <= k0 + 1
            BY <1>2, <3>3
        <3> QED
            BY <3>4 DEF u
    <2>3. q.done[n + 1][1] <= k0 + 1
        <3>1. k0 + 1 <= k0 + 1
            BY <1>2
        <3> QED
            BY <1>9, <3>1
    <2> QED
        BY <1>6, <1>10, <2>2, <2>3
<1>15. ~q.split => Len(q.done) = k0 + 1
    BY <1>1, <1>6, <1>n
<1> QED
    BY <1>6, <1>11, <1>12, <1>13, <1>14, <1>15 DEF PxDone

\* One line, or the end of the search.
LEMMA PxInvLine == PxInv /\ PxLine => PxInv'
<1> SUFFICES ASSUME PxInvOf(px), PxLine PROVE PxInvOf(px')
    BY DEF PxInv
<1>1. px.at = "scan"
    BY DEF PxLine
<1>2. PICK k0 \in 0 .. PxCommands : PxScanning(px, k0)
    BY <1>1 DEF PxInvOf, PxScanning
<1>3. PxTypes(px) /\ PxDone(px) /\ PxBegins(px, k0)
    BY <1>2 DEF PxScanning
<1> DEFINE ends == LineEnds(px.buffer, px.old_o)
           lf == FirstOf(ends)
           b == [px.buffer EXCEPT ![lf] = Nul]
           left == px.o - (lf + 1)
           done == Append(px.done, HandleCommand(b))
<1>f. /\ px.sends \in PxClients /\ px.o \in 0 .. PxBuffer - 1 /\ px.got \in Nat /\ DOMAIN px.buffer = 0 .. PxBuffer - 1
      /\ px.old_o \in 0 .. PxBuffer - 1 /\ px.split \in BOOLEAN /\ px.got <= px.sends[PxCommands]
      /\ px = [at |-> px.at, buffer |-> px.buffer, o |-> px.o, old_o |-> px.old_o, sends |-> px.sends,
               got |-> px.got, done |-> px.done, split |-> px.split]
    BY <1>2, PxScanFacts
<1>g. /\ PxCommands \in Nat /\ PxBuffer \in Nat \ {0} /\ PxBuffer - 1 \in Nat /\ px.o \in Nat /\ px.old_o \in Nat
      /\ px.sends[k0] \in Nat /\ k0 \in Nat /\ px.got = px.sends[k0] + px.o
    BY <1>2, PxScanFacts
<1>4. CASE ends = {}
    <2>1. px' = [px EXCEPT !.at = "read"]
        BY <1>4 DEF PxLine
    <2>2. px' = [at |-> "read", buffer |-> px.buffer, o |-> px.o, old_o |-> px.old_o, sends |-> px.sends,
                 got |-> px.got, done |-> px.done, split |-> px.split]
        BY <1>f, <2>1
    <2>3. PxTypes(px') /\ PxDone(px')
        BY <1>3, <2>2 DEF PxTypes, PxDone
    <2>4. ASSUME ~px.split, k0 < PxCommands PROVE px.o < LineLength(px.sends, k0 + 1)
        <3>1. LineLength(px.sends, k0 + 1) \in Nat
            BY <1>2, <2>4, PxScanFacts
        <3>2. ~(LineLength(px.sends, k0 + 1) <= px.o)
            BY <1>2, <1>4, <2>4, PxNextSeen
        <3> QED
            BY <1>g, <3>1, <3>2
    <2>5. PxBegins(px', k0)
        BY <1>3, <2>2, <2>4 DEF PxBegins
    <2> QED
        BY <2>3, <2>5 DEF PxInvOf
<1>5. CASE ends # {}
    <2>1. lf \in ends /\ \A j \in ends : lf <= j
        BY <1>5, <1>f, <1>g, FirstLineEnd
    <2>2. lf \in 0 .. px.o - 1 /\ k0 < PxCommands /\ lf + 1 >= LineLength(px.sends, k0 + 1)
          /\ \E l \in k0 + 1 .. PxCommands : px.sends[l] = px.sends[k0] + 1 + lf
        <3> HIDE DEF lf
        <3> QED
            BY <1>2, <2>1, PxFound
    <2>3. Starts(b) /\ HandleCommand(b) = <<k0 + 1, TRUE>>
        <3> HIDE DEF lf
        <3> QED
            BY <1>2, <2>1, PxWhole
    <2>4. PICK l \in k0 + 1 .. PxCommands : px.sends[l] = px.sends[k0] + 1 + lf
        BY <2>2
    <2>5. px' = IF left = 0
                THEN [px EXCEPT !.done = done, !.buffer = b, !.o = 0, !.at = "read"]
                ELSE IF left < 0
                THEN [px EXCEPT !.done = done, !.buffer = b, !.at = "closed"]
                ELSE [px EXCEPT !.done = done, !.buffer = [LineCut(b, lf, left) EXCEPT ![left] = Nul],
                                !.o = left, !.split = @ \/ px.old_o > 0]
        BY <1>5, <1>f, <2>3 DEF PxLine
    <2>d. done = Append(px.done, <<k0 + 1, TRUE>>)
        BY <2>3
    <2>b. /\ DOMAIN b = 0 .. PxBuffer - 1 /\ b[lf] = Nul
          /\ \A j \in 0 .. PxBuffer - 1 : j # lf => b[j] = px.buffer[j]
        BY <1>f, <1>g, <2>2
    <2>i. left = px.o - (lf + 1)
        OBVIOUS
    <2>e. ends = LineEnds(px.buffer, px.old_o)
        OBVIOUS
    <2> HIDE DEF lf, b, left, done, ends
    <2>6. left \in Nat /\ lf \in Nat /\ left \in 0 .. PxBuffer - 1 /\ px.o = left + lf + 1 /\ l \in 0 .. PxCommands
          /\ l \in Nat /\ k0 + 1 <= l /\ lf \in 0 .. PxBuffer - 1
        <3>1. lf \in Nat /\ lf + 1 <= px.o /\ px.o <= PxBuffer - 1
            BY <1>f, <1>g, <2>2
        <3>2. left \in Nat /\ px.o = left + lf + 1
            BY <1>g, <2>i, <3>1
        <3>3. l \in Nat /\ k0 + 1 <= l /\ l <= PxCommands
            BY <1>g, <2>4
        <3> QED
            BY <1>g, <3>1, <3>2, <3>3
    <2>7. px.got - left = px.sends[l]
        BY <1>g, <2>4, <2>6
    <2>8. ~px.split => l = k0 + 1
        <3> SUFFICES ASSUME ~px.split PROVE l = k0 + 1
            OBVIOUS
        <3>1. LineLength(px.sends, k0 + 1) \in Nat /\ k0 + 1 \in 1 .. PxCommands
            BY <1>2, <2>2, PxScanFacts
        <3>2. LineLength(px.sends, k0 + 1) <= px.o
            BY <1>g, <2>2, <2>6, <3>1
        <3>3. LineLength(px.sends, k0 + 1) - 1 \in ends
            BY <1>2, <2>2, <2>e, <3>2, PxNextSeen
        <3>4. lf <= LineLength(px.sends, k0 + 1) - 1
            BY <2>1, <3>3
        <3>5. lf + 1 = LineLength(px.sends, k0 + 1)
            BY <2>2, <2>6, <3>1, <3>4
        <3>6. LineLength(px.sends, k0 + 1) = px.sends[k0 + 1] - px.sends[k0]
            <4>1. (k0 + 1) - 1 = k0
                BY <1>g
            <4> QED
                BY <4>1 DEF LineLength
        <3>7. k0 + 1 \in 0 .. PxCommands
            BY <3>1, <1>g
        <3>8. px.sends[k0 + 1] \in Nat
            BY <1>f, <3>7, ClientIs
        <3>9. px.sends[l] = px.sends[k0 + 1]
            BY <1>g, <2>4, <2>6, <3>5, <3>6, <3>8
        <3>10. ~(k0 + 1 < l)
            BY <1>f, <2>6, <3>7, <3>8, <3>9, EndsOrder
        <3> QED
            BY <1>g, <2>6, <3>10
    <2>9. ASSUME px'.done = done, ~px'.split => ~px.split
          PROVE  /\ PxDone(px')
                 /\ \A i \in DOMAIN px'.done : px'.done[i][1] <= l
                 /\ ~px'.split => Len(px'.done) = l
        <3>1. /\ PxDone(px')
              /\ \A i \in DOMAIN px'.done : px'.done[i][1] <= k0 + 1
              /\ ~px'.split => Len(px'.done) = k0 + 1
            BY <1>2, <2>2, <2>9, <2>d, PxDoneGrows
        <3>2. ASSUME NEW i \in DOMAIN px'.done PROVE px'.done[i][1] <= l
            <4>1. px'.done \in Seq(Nat \X BOOLEAN)
                BY <3>1 DEF PxDone
            <4>2. px'.done[i] \in Nat \X BOOLEAN
                BY <4>1
            <4>3. px'.done[i][1] \in Nat
                BY <4>2
            <4> QED
                BY <1>g, <2>6, <3>1, <4>3
        <3>3. ~px'.split => l = k0 + 1
            BY <2>8, <2>9
        <3> QED
            BY <3>1, <3>2, <3>3
    <2>10. CASE left = 0
        <3>1. px' = [at |-> "read", buffer |-> b, o |-> 0, old_o |-> px.old_o, sends |-> px.sends,
                     got |-> px.got, done |-> done, split |-> px.split]
            BY <1>f, <2>5, <2>10
        <3>2. px'.at = "read" /\ px'.buffer = b /\ px'.o = 0 /\ px'.old_o = px.old_o /\ px'.sends = px.sends
              /\ px'.got = px.got /\ px'.done = done /\ px'.split = px.split
            BY <3>1
        <3>3. PxTypes(px')
            <4>1. px' = [at |-> px'.at, buffer |-> px'.buffer, o |-> px'.o, old_o |-> px'.old_o, sends |-> px'.sends,
                         got |-> px'.got, done |-> px'.done, split |-> px'.split]
                BY <3>1, <3>2
            <4> QED
                BY <1>f, <1>g, <2>b, <3>2, <4>1 DEF PxTypes
        <3>4. PxDone(px') /\ (\A i \in DOMAIN px'.done : px'.done[i][1] <= l) /\ (~px'.split => Len(px'.done) = l)
            BY <2>9, <3>2
        <3>5. l < PxCommands => 0 < LineLength(px.sends, l + 1)
            <4> SUFFICES ASSUME l < PxCommands PROVE 0 < LineLength(px.sends, l + 1)
                OBVIOUS
            <4>1. l + 1 \in 1 .. PxCommands
                BY <1>g, <2>6
            <4>2. LineLength(px.sends, l + 1) \in Nat /\ LineLength(px.sends, l + 1) >= 2
                BY <1>f, <4>1, ClientIs
            <4> QED
                BY <4>2
        <3>6. px'.got - px'.o = px'.sends[l]
            BY <2>7, <2>10, <3>2
        <3>7. 0 .. px'.o - 1 = {}
            BY <3>2
        <3>8. PxBegins(px', l)
            BY <3>2, <3>4, <3>5, <3>6, <3>7 DEF PxBegins
        <3> QED
            BY <2>6, <3>3, <3>4, <3>8 DEF PxInvOf
    <2>11. CASE left # 0
        <3> DEFINE c == [LineCut(b, lf, left) EXCEPT ![left] = Nul]
        <3>1. px' = [at |-> "scan", buffer |-> c, o |-> left, old_o |-> px.old_o, sends |-> px.sends,
                     got |-> px.got, done |-> done, split |-> px.split \/ px.old_o > 0]
            <4>1. ~(left < 0)
                BY <2>6
            <4>2. px' = [px EXCEPT !.done = done, !.buffer = c, !.o = left, !.split = @ \/ px.old_o > 0]
                BY <2>5, <2>11, <4>1
            <4> HIDE DEF c
            <4> QED
                BY <1>1, <1>f, <4>2
        <3>c. /\ DOMAIN c = 0 .. PxBuffer - 1 /\ c[left] = Nul
              /\ \A j \in 0 .. PxBuffer - 1 : j # left => c[j] = IF j < left THEN b[j + lf + 1] ELSE b[j]
            BY <2>6, <2>b DEF LineCut
        <3> HIDE DEF c
        <3>2. px'.at = "scan" /\ px'.buffer = c /\ px'.o = left /\ px'.old_o = px.old_o /\ px'.sends = px.sends
              /\ px'.got = px.got /\ px'.done = done /\ px'.split = (px.split \/ px.old_o > 0)
            BY <3>1
        <3>3. PxTypes(px')
            <4>1. px' = [at |-> px'.at, buffer |-> px'.buffer, o |-> px'.o, old_o |-> px'.old_o, sends |-> px'.sends,
                         got |-> px'.got, done |-> px'.done, split |-> px'.split]
                BY <3>1, <3>2
            <4>2. px'.split \in BOOLEAN
                BY <3>2
            <4> QED
                BY <1>f, <1>g, <2>6, <3>c, <3>2, <4>1, <4>2 DEF PxTypes
        <3>4. PxDone(px') /\ (\A i \in DOMAIN px'.done : px'.done[i][1] <= l) /\ (~px'.split => Len(px'.done) = l)
            BY <2>9, <3>2
        <3>5. px'.got - px'.o = px'.sends[l]
            BY <2>7, <3>2
        <3>6. ASSUME NEW j \in 0 .. px'.o - 1
              PROVE  px'.buffer[j] = PxSent(px'.sends, px'.sends[l] + 1 + j)
            <4>1. j \in Nat /\ j < left /\ j \in 0 .. PxBuffer - 1 /\ j # left
                BY <1>g, <2>6, <3>2
            <4>2. c[j] = b[j + lf + 1]
                BY <3>c, <4>1
            <4>3. j + lf + 1 \in 0 .. px.o - 1 /\ j + lf + 1 \in 0 .. PxBuffer - 1 /\ j + lf + 1 # lf
                <5>1. j + lf + 1 \in Nat /\ j + lf + 1 <= px.o - 1 /\ j + lf + 1 # lf
                    BY <1>g, <2>6, <4>1
                <5>2. px.o <= PxBuffer - 1
                    BY <1>f
                <5> QED
                    BY <1>g, <5>1, <5>2
            <4>4. b[j + lf + 1] = px.buffer[j + lf + 1]
                BY <2>b, <4>3
            <4>5. px.buffer[j + lf + 1] = PxSent(px.sends, px.sends[k0] + 1 + (j + lf + 1))
                BY <1>2, <4>3, PxHeld
            <4>6. px.sends[k0] + 1 + (j + lf + 1) = px.sends[l] + 1 + j
                BY <1>g, <2>4, <2>6, <4>1
            <4> QED
                BY <3>2, <4>2, <4>4, <4>5, <4>6
        <3>7. PxStops(px')
            <4>1. left >= 1
                BY <2>6, <2>11
            <4>2. ASSUME ~(px.old_o <= left)
                  PROVE  /\ lf \in px.old_o .. PxBuffer - 1
                         /\ c[lf] = Nul
                         /\ \A j \in px.old_o .. lf - 1 : c[j] # Newline
                <5>1. lf \in 0 .. PxBuffer - 1 /\ lf >= px.old_o /\ px.buffer[lf] = Newline
                      /\ \A k \in px.old_o .. lf - 1 : px.buffer[k] # Nul
                    BY <1>f, <1>g, <2>1, <2>e, LineEndIs
                <5>2. lf \in px.old_o .. PxBuffer - 1 /\ ~(lf < left) /\ lf # left
                    BY <1>g, <2>6, <4>2, <5>1
                <5>3. c[lf] = Nul
                    BY <2>b, <3>c, <5>1, <5>2
                <5>4. ASSUME NEW j \in px.old_o .. lf - 1, c[j] = Newline PROVE FALSE
                    <6>1. j \in 0 .. PxBuffer - 1 /\ ~(j < left) /\ j # left /\ j # lf /\ j < lf /\ j \in Nat /\ j >= px.old_o
                        BY <1>g, <2>6, <4>2
                    <6>2. px.buffer[j] = Newline
                        BY <2>b, <3>c, <5>4, <6>1
                    <6>3. \A k \in px.old_o .. j - 1 : px.buffer[k] # Nul
                        <7>1. \A k \in px.old_o .. j - 1 : k \in px.old_o .. lf - 1
                            BY <1>g, <2>6, <6>1
                        <7> QED
                            BY <5>1, <7>1
                    <6>4. j \in ends
                        BY <1>f, <1>g, <2>e, <6>1, <6>2, <6>3, LineEndIs
                    <6> QED
                        BY <2>1, <2>6, <6>1, <6>4
                <5> QED
                    BY <5>2, <5>3, <5>4
            <4> QED
                BY <3>2, <3>c, <4>1, <4>2 DEF PxStops
        <3>8. ASSUME ~px'.split, l < PxCommands PROVE px'.old_o < LineLength(px'.sends, l + 1)
            <4>1. l + 1 \in 1 .. PxCommands
                BY <1>g, <2>6, <3>8
            <4>2. LineLength(px.sends, l + 1) \in Nat /\ LineLength(px.sends, l + 1) >= 2
                BY <1>f, <4>1, ClientIs
            <4>3. px.old_o = 0
                <5>1. ~(px.old_o > 0)
                    BY <3>2, <3>8
                <5> QED
                    BY <1>g, <5>1
            <4> QED
                BY <3>2, <4>2, <4>3
        <3>9. PxBegins(px', l)
            BY <3>2, <3>4, <3>5, <3>6, <3>7, <3>8 DEF PxBegins
        <3> QED
            BY <2>6, <3>3, <3>4, <3>9 DEF PxInvOf
    <2> QED
        BY <2>10, <2>11
<1> QED
    BY <1>4, <1>5

LEMMA PxInvHolds == PxSpec => []PxInv
<1>1. ASSUME PxInv, [PxNext]_pxVars PROVE PxInv'
    <2>1. CASE PxRead
        BY <1>1, <2>1, PxInvRead
    <2>2. CASE PxLine
        BY <1>1, <2>2, PxInvLine
    <2>3. CASE PxClose
        <3>1. px' = [px EXCEPT !.at = "closed"] /\ PxTypes(px) /\ PxDone(px)
            BY <1>1, <2>3 DEF PxClose, PxInv, PxInvOf
        <3>2. px = [at |-> px.at, buffer |-> px.buffer, o |-> px.o, old_o |-> px.old_o, sends |-> px.sends,
                    got |-> px.got, done |-> px.done, split |-> px.split]
            BY <3>1 DEF PxTypes
        <3>3. px' = [at |-> "closed", buffer |-> px.buffer, o |-> px.o, old_o |-> px.old_o, sends |-> px.sends,
                     got |-> px.got, done |-> px.done, split |-> px.split]
            BY <3>1, <3>2
        <3>4. PxTypes(px') /\ PxDone(px') /\ px'.at = "closed"
            BY <3>1, <3>3 DEF PxTypes, PxDone
        <3>5. PxInvOf(px')
            BY <3>4 DEF PxInvOf
        <3> QED
            BY <3>5 DEF PxInv
    <2>4. CASE UNCHANGED pxVars
        BY <1>1, <2>4 DEF pxVars, PxInv
    <2> QED
        BY <1>1, <2>1, <2>2, <2>3, <2>4 DEF PxNext
<1> QED
    BY <1>1, PxInvFirst, PTL DEF PxSpec

\* How many lines end within what was received.
LEMMA PxLinesAre ==
    ASSUME NEW ends \in PxClients, NEW k0 \in 0 .. PxCommands, NEW n \in Nat, ends[k0] <= n,
           k0 < PxCommands => n < ends[k0 + 1]
    PROVE  Cardinality({k \in 1 .. PxCommands : ends[k] <= n}) = k0
<1>1. PxCommands \in Nat /\ k0 \in Nat /\ \A k \in 0 .. PxCommands : ends[k] \in Nat
    BY ClientIs
<1>2. ASSUME NEW k \in 1 .. PxCommands PROVE ends[k] <= n <=> k <= k0
    <2>1. k \in 0 .. PxCommands /\ k \in Nat /\ ends[k] \in Nat /\ ends[k0] \in Nat
        BY <1>1
    <2>2. CASE k <= k0
        <3>1. ends[k] <= ends[k0]
            BY <2>1, <2>2, EndsOrder
        <3> QED
            BY <2>1, <2>2, <3>1
    <2>3. CASE ~(k <= k0)
        <3>1. k0 < PxCommands /\ k0 + 1 \in 0 .. PxCommands /\ k0 + 1 <= k
            BY <1>1, <2>1, <2>3
        <3>2. ends[k0 + 1] <= ends[k] /\ ends[k0 + 1] \in Nat
            BY <2>1, <3>1, EndsOrder
        <3> QED
            BY <2>1, <2>3, <3>1, <3>2
    <2> QED
        BY <2>2, <2>3
<1>3. {k \in 1 .. PxCommands : ends[k] <= n} = 1 .. k0
    BY <1>1, <1>2
<1>4. Cardinality(1 .. k0) = k0
    <2>1. 1 \in Int /\ k0 \in Int
        BY <1>1
    <2>2. Cardinality(1 .. k0) = IF 1 > k0 THEN 0 ELSE k0 - 1 + 1
        BY <2>1, FS_Interval
    <2> QED
        BY <1>1, <2>2
<1> QED
    BY <1>3, <1>4

\* PxInOrder is a consequence of the invariant: commands are executed in order, whole and
\* once, and as long as no piece begins in the middle of a line and brings more than its
\* end, each line that is there is executed.  It is about tcp_receive_thread() of the
\* pixelflood source, for any number of commands of any lengths, any size of the buffer and
\* any division into pieces.
THEOREM PxInOrderHolds == PxSpec => []PxInOrder
<1>1. ASSUME PxInv PROVE PxInOrder
    <2>1. PxTypes(px) /\ PxDone(px)
        BY <1>1 DEF PxInv, PxInvOf
    <2>2. ASSUME ~px.split, px.at = "read" PROVE Len(px.done) = PxLines
        <3>1. PICK k0 \in 0 .. PxCommands : PxBegins(px, k0)
            BY <1>1, <2>2 DEF PxInv, PxInvOf
        <3>2. Len(px.done) = k0 /\ px.got - px.o = px.sends[k0]
              /\ (k0 < PxCommands => px.o < LineLength(px.sends, k0 + 1))
            BY <2>2, <3>1 DEF PxBegins
        <3>3. px.sends \in PxClients /\ px.got \in Nat /\ px.o \in 0 .. PxBuffer - 1
            BY <2>1 DEF PxTypes
        <3>4. PxCommands \in Nat /\ PxBuffer \in Nat \ {0} /\ k0 \in Nat /\ px.o \in Nat
              /\ \A k \in 0 .. PxCommands : px.sends[k] \in Nat
            BY <3>3, ClientIs
        <3>5. px.sends[k0] <= px.got
            BY <3>2, <3>3, <3>4
        <3>6. k0 < PxCommands => px.got < px.sends[k0 + 1]
            <4> SUFFICES ASSUME k0 < PxCommands PROVE px.got < px.sends[k0 + 1]
                OBVIOUS
            <4>1. k0 + 1 \in 0 .. PxCommands /\ (k0 + 1) - 1 = k0
                BY <3>4
            <4>2. LineLength(px.sends, k0 + 1) = px.sends[k0 + 1] - px.sends[k0]
                BY <4>1 DEF LineLength
            <4>3. px.sends[k0 + 1] \in Nat /\ px.sends[k0] \in Nat
                BY <3>4, <4>1
            <4> QED
                BY <3>2, <3>3, <3>4, <4>2, <4>3
        <3>7. PxLines = k0
            BY <3>3, <3>5, <3>6, PxLinesAre DEF PxLines
        <3> QED
            BY <3>2, <3>7
    <2> QED
        BY <2>1, <2>2 DEF PxInOrder, PxDone
<1> QED
    BY <1>1, PxInvHolds, PTL

\* A picture; its values are numbers.
Pictures == [Places -> [Channels -> Int]]
Filters == Len(chain.list)

\* The number of the picture that is being filtered, or of the next one.
Kth == Len(inputs[Filters + 1]) + 1

FilterTypes ==
    /\ chain = [list |-> chain.list, at |-> chain.at, work |-> chain.work, temp |-> chain.temp,
                in_temp |-> chain.in_temp, prev |-> chain.prev, outside |-> chain.outside]
    /\ chain.list \in Seq([kind : FilterKinds, x : Int, y : Int])
    /\ chain.at \in 0 .. Filters + 1
    /\ chain.in_temp \in BOOLEAN /\ chain.outside \in BOOLEAN
    /\ inputs \in [1 .. Filters + 1 -> Seq(Pictures)]
    /\ DOMAIN kept = 1 .. Filters

\* How far the picture is.
PassInv ==
    /\ \A i \in 1 .. Filters + 1 : Len(inputs[i]) = IF chain.at # 0 /\ i < chain.at THEN Kth ELSE Kth - 1
    /\ chain.prev = IF Kth = 1 THEN NoPicture ELSE inputs[Filters + 1][Kth - 1]

\* The two buffers: the picture, and what the last filter that made a new one left.
BufferInv ==
    chain.at # 0 =>
       /\ Current \in Pictures
       /\ LastNew(chain.list, chain.at) = {} => Other = Malloced
       /\ \A j \in LastNew(chain.list, chain.at) : Other = inputs[j][Kth]

\* What filters keep.
LastThree(s) == IF Len(s) <= KeptPictures + 1 THEN s ELSE SubSeq(s, Len(s) - KeptPictures, Len(s))
KeptInv ==
    \A i \in 1 .. Filters :
       /\ chain.list[i].kind \in {"average", "median"} => kept[i] = LastThree(inputs[i])
       /\ chain.list[i].kind = "motion" =>
            kept[i] = IF Len(inputs[i]) < 2 THEN <<>> ELSE <<inputs[i][Len(inputs[i])]>>

BitmapInv ==
    LET copies == CopyFor(chain.list, IF chain.at = 0 THEN 1 ELSE chain.at, Kth)
    IN /\ copies = {} => bitmap = NoPicture
       /\ \A c \in copies : bitmap = Taken(chain.list[c[1]], inputs[c[1]][c[2]])

MadeInv ==
    /\ \A i \in 1 .. Filters : \A k \in 1 .. Len(inputs[i + 1]) : Makes(chain.list, inputs, i, k, inputs[i + 1][k])
    /\ chain.at > 1 => Makes(chain.list, inputs, chain.at - 1, Kth, Current)

OutsideInv == chain.outside => \E i \in 1 .. Filters : StartsOutside(chain.list[i])

FilterInv ==
    FilterTypes /\ PassInv /\ BufferInv /\ KeptInv /\ BitmapInv /\ MadeInv /\ OutsideInv

-----------------------------------------------------------------------------
(* FilterChain: places.                                                    *)

LEMMA SizeIs == Columns \in Nat \ {0} /\ Rows \in Nat \ {0} /\ Columns * Rows \in Nat \ {0}
BY FilterAssumption

LEMMA ColAndRow ==
    ASSUME NEW o \in Nat, NEW c \in Nat \ {0}, NEW r \in Nat \ {0}, o < c * r
    PROVE  /\ o % c \in 0 .. c - 1 /\ o \div c \in 0 .. r - 1
           /\ o = c * (o \div c) + (o % c)
<1>1. o % c \in 0 .. c - 1 /\ o \div c \in Nat /\ o = c * (o \div c) + (o % c)
    OBVIOUS
<1>2. o \div c < r
    OBVIOUS
<1> QED
    BY <1>1, <1>2

LEMMA InPicture ==
    ASSUME NEW x \in Nat, NEW y \in Nat, NEW c \in Nat \ {0}, NEW r \in Nat \ {0}, x < c, y < r
    PROVE  y * c + x \in 0 .. c * r - 1
OBVIOUS

LEMMA PlaceIs ==
    ASSUME NEW o \in Places
    PROVE  o \in Nat /\ Col(o) \in 0 .. Columns - 1 /\ Row(o) \in 0 .. Rows - 1
<1>1. o \in Nat /\ o < Columns * Rows
    BY SizeIs DEF Places
<1> QED
    BY <1>1, SizeIs, ColAndRow DEF Col, Row

LEMMA PlaceMade ==
    ASSUME NEW x \in 0 .. Columns - 1, NEW y \in 0 .. Rows - 1
    PROVE  PlaceOf(x, y) \in Places /\ y * Columns + x \in Places
<1>1. x \in Nat /\ y \in Nat /\ x < Columns /\ y < Rows
    BY SizeIs
<1>2. y * Columns + x \in 0 .. Columns * Rows - 1
    BY <1>1, SizeIs, InPicture
<1> QED
    BY <1>2 DEF PlaceOf, Places

LEMMA FirstPlace == 0 \in Places
BY SizeIs DEF Places

LEMMA PicturesAre ==
    ASSUME NEW p \in Pictures
    PROVE  /\ DOMAIN p = Places /\ p # NoPicture
           /\ \A o \in Places : p[o] \in [Channels -> Int] /\ p[o][1] \in Int /\ p[o][2] \in Int /\ p[o][3] \in Int
<1>1. 1 \in Channels /\ 2 \in Channels /\ 3 \in Channels
    BY DEF Channels
<1>2. DOMAIN p = Places /\ \A o \in Places : p[o] \in [Channels -> Int]
    BY DEF Pictures
<1>3. DOMAIN NoPicture = {}
    BY DEF NoPicture
<1> QED
    BY <1>1, <1>2, <1>3, FirstPlace

LEMMA ThreeValues ==
    ASSUME NEW a \in Int, NEW b \in Int, NEW c \in Int
    PROVE  <<a, b, c>> \in [Channels -> Int]
<1>1. Channels = {1, 2, 3}
    BY DEF Channels
<1> QED
    BY <1>1

LEMMA MallocedIs == Malloced \in Pictures /\ \A o \in Places : ~Defined(Malloced[o])
<1>1. Garbage \in Int
    BY DEF Garbage
<1>2. \A o \in Places : Malloced[o] = <<Garbage, Garbage, Garbage>>
    BY DEF Malloced
<1>3. 1 \in Channels /\ <<Garbage, Garbage, Garbage>>[1] = Garbage
    BY DEF Channels
<1> QED
    BY <1>1, <1>2, <1>3, ThreeValues DEF Malloced, Pictures, Defined

LEMMA OfIs ==
    ASSUME NEW values, NEW v \in Int
    PROVE  Of(values, v) \in Int
BY DEF Of, Garbage

-----------------------------------------------------------------------------
(* Sums.                                                                   *)

Part(s) == CHOOSE x \in s : TRUE
Sums(f, S) ==
    CHOOSE iter : iter = [s \in SUBSET S |-> IF s = {} THEN 0 ELSE f[Part(s)] + iter[s \ {Part(s)}]]
UpTo(S, n) == {s \in SUBSET S : Cardinality(s) <= n}

LEMMA SumOfIs == ASSUME NEW f, NEW S PROVE SumOf(f, S) = Sums(f, S)[S]
BY DEF SumOf, MapThenSumSet, MapThenFoldSet, Sums, Part

LEMMA WithoutPart ==
    ASSUME NEW S, IsFiniteSet(S), NEW n \in Nat, NEW s \in UpTo(S, n + 1), s # {}
    PROVE  Part(s) \in S /\ Part(s) \in s /\ s \ {Part(s)} \in UpTo(S, n)
<1>1. Part(s) \in s /\ s \subseteq S /\ Cardinality(s) <= n + 1
    BY DEF Part, UpTo
<1>2. IsFiniteSet(s) /\ Cardinality(s) \in Nat
    BY <1>1, FS_Subset, FS_CardinalityType
<1>3. Cardinality(s \ {Part(s)}) = Cardinality(s) - 1
    BY <1>1, <1>2, FS_RemoveElement
<1>4. Cardinality(s \ {Part(s)}) <= n
    BY <1>1, <1>2, <1>3
<1> QED
    BY <1>1, <1>4 DEF UpTo

LEMMA UpToGrows ==
    ASSUME NEW S, IsFiniteSet(S)
    PROVE  /\ \A n \in Nat : UpTo(S, n) \subseteq UpTo(S, n + 1)
           /\ UpTo(S, 0) = {{}}
           /\ UpTo(S, Cardinality(S)) = SUBSET S /\ Cardinality(S) \in Nat
<1>1. \A s \in SUBSET S : Cardinality(s) \in Nat /\ Cardinality(s) <= Cardinality(S) /\ IsFiniteSet(s)
    BY FS_Subset, FS_CardinalityType
<1>2. Cardinality(S) \in Nat
    BY FS_CardinalityType
<1>3. \A s \in SUBSET S : Cardinality(s) <= 0 <=> s = {}
    <2> SUFFICES ASSUME NEW s \in SUBSET S PROVE Cardinality(s) <= 0 <=> s = {}
        OBVIOUS
    <2>1. Cardinality(s) \in Nat /\ IsFiniteSet(s)
        BY <1>1
    <2>2. Cardinality(s) = 0 <=> s = {}
        BY <2>1, FS_EmptySet
    <2> QED
        BY <2>1, <2>2
<1>4. ASSUME NEW n \in Nat PROVE UpTo(S, n) \subseteq UpTo(S, n + 1)
    <2>1. \A s \in SUBSET S : Cardinality(s) <= n => Cardinality(s) <= n + 1
        BY <1>1
    <2> QED
        BY <2>1 DEF UpTo
<1>5. UpTo(S, 0) = {{}}
    BY <1>3 DEF UpTo
<1>6. UpTo(S, Cardinality(S)) = SUBSET S
    BY <1>1 DEF UpTo
<1> QED
    BY <1>2, <1>4, <1>5, <1>6

\* The function that adds up the values of a part of S exists.
SumsUpTo(f, S, n) ==
    {g \in [UpTo(S, n) -> Int] :
        \A s \in UpTo(S, n) : g[s] = IF s = {} THEN 0 ELSE f[Part(s)] + g[s \ {Part(s)}]}

LEMMA SumsGrow ==
    ASSUME NEW S, IsFiniteSet(S), NEW f, \A x \in S : f[x] \in Int, NEW n \in Nat, NEW g \in SumsUpTo(f, S, n)
    PROVE  SumsUpTo(f, S, n + 1) # {}
<1> DEFINE h == [s \in UpTo(S, n + 1) |-> IF s = {} THEN 0 ELSE f[Part(s)] + g[s \ {Part(s)}]]
<1>1. g \in [UpTo(S, n) -> Int]
      /\ \A s \in UpTo(S, n) : g[s] = IF s = {} THEN 0 ELSE f[Part(s)] + g[s \ {Part(s)}]
    BY DEF SumsUpTo
<1>2. \A s \in UpTo(S, n + 1) : s # {} => Part(s) \in S /\ s \ {Part(s)} \in UpTo(S, n)
    BY WithoutPart
<1>3. UpTo(S, n) \subseteq UpTo(S, n + 1)
    BY UpToGrows
<1>4. \A s \in UpTo(S, n + 1) : h[s] = IF s = {} THEN 0 ELSE f[Part(s)] + g[s \ {Part(s)}]
    OBVIOUS
<1>5. h \in [UpTo(S, n + 1) -> Int]
    <2> SUFFICES ASSUME NEW s \in UpTo(S, n + 1)
                 PROVE  (IF s = {} THEN 0 ELSE f[Part(s)] + g[s \ {Part(s)}]) \in Int
        OBVIOUS
    <2>1. s # {} => f[Part(s)] \in Int /\ g[s \ {Part(s)}] \in Int
        BY <1>1, <1>2
    <2> QED
        BY <2>1
<1> HIDE DEF h
<1>6. \A s \in UpTo(S, n) : h[s] = g[s]
    BY <1>1, <1>3, <1>4
<1>7. ASSUME NEW s \in UpTo(S, n + 1) PROVE h[s] = IF s = {} THEN 0 ELSE f[Part(s)] + h[s \ {Part(s)}]
    BY <1>2, <1>4, <1>6
<1>8. h \in SumsUpTo(f, S, n + 1)
    BY <1>5, <1>7 DEF SumsUpTo
<1> QED
    BY <1>8

LEMMA SumIsInt ==
    ASSUME NEW S, IsFiniteSet(S), NEW f, \A x \in S : f[x] \in Int
    PROVE  SumOf(f, S) \in Int
<1> DEFINE N == {n \in Nat : SumsUpTo(f, S, n) # {}}
           g == Sums(f, S)
           M == {n \in Nat : \A s \in UpTo(S, n) : g[s] \in Int}
<1>1. 0 \in N
    <2> DEFINE h == [s \in UpTo(S, 0) |-> 0]
    <2>1. \A s \in UpTo(S, 0) : s = {} /\ h[s] = 0
        BY UpToGrows
    <2>2. h \in [UpTo(S, 0) -> Int]
        OBVIOUS
    <2> HIDE DEF h
    <2>3. h \in SumsUpTo(f, S, 0)
        BY <2>1, <2>2 DEF SumsUpTo
    <2> QED
        BY <2>3
<1>2. \A n \in Nat : n \in N => n + 1 \in N
    BY SumsGrow
<1> HIDE DEF N
<1>3. Nat \subseteq N
    BY <1>1, <1>2, NaturalInduction
<1>4. PICK h \in SumsUpTo(f, S, Cardinality(S)) : TRUE
    BY <1>3, UpToGrows DEF N
<1>5. h = [s \in SUBSET S |-> IF s = {} THEN 0 ELSE f[Part(s)] + h[s \ {Part(s)}]]
    BY <1>4, UpToGrows DEF SumsUpTo
<1>6. g = [s \in SUBSET S |-> IF s = {} THEN 0 ELSE f[Part(s)] + g[s \ {Part(s)}]]
    BY <1>5 DEF Sums
<1> HIDE DEF g
<1>7. 0 \in M
    <2>1. \A s \in UpTo(S, 0) : s = {} /\ s \in SUBSET S
        BY UpToGrows
    <2>2. g[{}] = 0
        <3>1. {} \in SUBSET S
            OBVIOUS
        <3>2. g[{}] = IF {} = {} THEN 0 ELSE f[Part({})] + g[{} \ {Part({})}]
            BY <1>6, <3>1, Zenon
        <3> QED
            BY <3>2
    <2>3. ASSUME NEW s \in UpTo(S, 0) PROVE g[s] \in Int
        <3>1. g[s] = 0
            BY <2>1, <2>2
        <3> QED
            BY <3>1
    <2> QED
        BY <2>3
<1>8. ASSUME NEW n \in Nat, n \in M PROVE n + 1 \in M
    <2> SUFFICES ASSUME NEW s \in UpTo(S, n + 1) PROVE g[s] \in Int
        OBVIOUS
    <2>1. s \in SUBSET S
        BY DEF UpTo
    <2>2. CASE s = {}
        BY <1>6, <2>2
    <2>3. CASE s # {}
        <3>1. Part(s) \in S /\ s \ {Part(s)} \in UpTo(S, n)
            BY <2>3, WithoutPart
        <3>2. f[Part(s)] \in Int /\ g[s \ {Part(s)}] \in Int
            BY <1>8, <3>1
        <3>3. g[s] = f[Part(s)] + g[s \ {Part(s)}]
            BY <1>6, <2>1, <2>3
        <3> QED
            BY <3>2, <3>3
    <2> QED
        BY <2>2, <2>3
<1> HIDE DEF M
<1>9. Nat \subseteq M
    BY <1>7, <1>8, NaturalInduction
<1>10. S \in UpTo(S, Cardinality(S)) /\ Cardinality(S) \in M
    BY <1>9, UpToGrows
<1>11. g[S] \in Int
    BY <1>10 DEF M
<1> QED
    BY <1>11, SumOfIs DEF g

-----------------------------------------------------------------------------
(* The darkest and the brightest pixel.                                    *)

Widenings(p, n) ==
    {g \in [0 .. n -> [low : Int, high : Int]] :
        \A k \in 0 .. n : g[k] = IF k = 0 THEN [low |-> 255, high |-> 0]
                                 ELSE Widened(g[k - 1], Brightness(p[k - 1]))}
Widest(p) ==
    CHOOSE upto : upto = [k \in 0 .. Columns * Rows |->
        IF k = 0 THEN [low |-> 255, high |-> 0] ELSE Widened(upto[k - 1], Brightness(p[k - 1]))]

LEMMA ExtremesIs == ASSUME NEW p PROVE Extremes(p) = Widest(p)[Columns * Rows]
BY DEF Extremes, Widest

LEMMA BrightnessIs == ASSUME NEW p \in Pictures, NEW o \in Places PROVE Brightness(p[o]) \in Int
<1>1. p[o][1] \in Int /\ p[o][2] \in Int /\ p[o][3] \in Int
    BY PicturesAre
<1> QED
    BY <1>1 DEF Brightness

LEMMA WidenedIs ==
    ASSUME NEW e \in [low : Int, high : Int], NEW g \in Int
    PROVE  /\ Widened(e, g) \in [low : Int, high : Int]
           /\ g < e.low => Widened(e, g) = [low |-> g, high |-> e.high]
           /\ ~(g < e.low) /\ g > e.high => Widened(e, g) = [low |-> e.low, high |-> g]
           /\ ~(g < e.low) /\ ~(g > e.high) => Widened(e, g) = e
BY DEF Widened

LEMMA WideningsExist ==
    ASSUME NEW p \in Pictures
    PROVE  Widenings(p, Columns * Rows) # {}
<1> DEFINE N == {n \in Nat : n <= Columns * Rows => Widenings(p, n) # {}}
<1>0. Columns * Rows \in Nat
    BY SizeIs
<1>1. 0 \in N
    <2> DEFINE h == [k \in 0 .. 0 |-> [low |-> 255, high |-> 0]]
    <2>1. h \in [0 .. 0 -> [low : Int, high : Int]] /\ \A k \in 0 .. 0 : k = 0 /\ h[k] = [low |-> 255, high |-> 0]
        OBVIOUS
    <2> HIDE DEF h
    <2>2. h \in Widenings(p, 0)
        BY <2>1 DEF Widenings
    <2> QED
        BY <2>2
<1>2. ASSUME NEW n \in Nat, n \in N PROVE n + 1 \in N
    <2> SUFFICES ASSUME n + 1 <= Columns * Rows PROVE Widenings(p, n + 1) # {}
        OBVIOUS
    <2>1. n \in Places /\ n <= Columns * Rows
        BY <1>0 DEF Places
    <2>2. PICK g \in Widenings(p, n) : TRUE
        BY <1>2, <2>1
    <2>3. /\ g \in [0 .. n -> [low : Int, high : Int]]
          /\ \A k \in 0 .. n : g[k] = IF k = 0 THEN [low |-> 255, high |-> 0]
                                      ELSE Widened(g[k - 1], Brightness(p[k - 1]))
        BY <2>2 DEF Widenings
    <2> DEFINE w == Widened(g[n], Brightness(p[n]))
               h == [k \in 0 .. n + 1 |-> IF k <= n THEN g[k] ELSE w]
    <2>4. g[n] \in [low : Int, high : Int]
        BY <2>3
    <2>5. w \in [low : Int, high : Int]
        BY <2>1, <2>4, BrightnessIs, WidenedIs
    <2>w. w = Widened(g[n], Brightness(p[n]))
        OBVIOUS
    <2> HIDE DEF w
    <2>6. h \in [0 .. n + 1 -> [low : Int, high : Int]]
        BY <2>3, <2>5
    <2>7. (\A k \in 0 .. n : h[k] = g[k]) /\ h[n + 1] = w
        OBVIOUS
    <2> HIDE DEF h
    <2>8. ASSUME NEW k \in 0 .. n + 1
          PROVE  h[k] = IF k = 0 THEN [low |-> 255, high |-> 0] ELSE Widened(h[k - 1], Brightness(p[k - 1]))
        <3>1. CASE k = 0
            <4>1. 0 \in 0 .. n
                OBVIOUS
            <4> QED
                BY <2>3, <2>7, <3>1, <4>1
        <3>2. CASE k # 0 /\ k <= n
            <4>1. k \in 0 .. n /\ k - 1 \in 0 .. n
                BY <3>2
            <4> QED
                BY <2>3, <2>7, <3>2, <4>1
        <3>3. CASE k = n + 1
            <4>1. n \in 0 .. n /\ k # 0 /\ k - 1 = n
                BY <3>3
            <4> QED
                BY <2>7, <2>w, <3>3, <4>1
        <3> QED
            BY <3>1, <3>2, <3>3
    <2>9. h \in Widenings(p, n + 1)
        BY <2>6, <2>8 DEF Widenings
    <2> QED
        BY <2>9
<1> HIDE DEF N
<1>3. Nat \subseteq N
    BY <1>1, <1>2, NaturalInduction
<1> QED
    BY <1>0, <1>3 DEF N

\* What the extremes of the first k places are.
RangeOf(p, k, e) ==
    /\ e \in [low : Int, high : Int]
    /\ e.low <= 255 /\ \A b \in 0 .. k - 1 : e.low <= Brightness(p[b])
    /\ e.low = 255 \/ \E b \in 0 .. k - 1 : e.low = Brightness(p[b])
    /\ e.high >= 0 /\ \A b \in 0 .. k - 1 : RecordLow(p, b) \/ Brightness(p[b]) <= e.high
    /\ e.high = 0 \/ \E b \in 0 .. k - 1 : ~RecordLow(p, b) /\ e.high = Brightness(p[b])

LEMMA RangeGrows ==
    ASSUME NEW p \in Pictures, NEW k \in Places, NEW e, RangeOf(p, k, e)
    PROVE  RangeOf(p, k + 1, Widened(e, Brightness(p[k])))
<1> DEFINE g == Brightness(p[k])
           w == Widened(e, g)
<1>1. k \in Nat /\ \A b \in 0 .. k : b \in Places
    BY SizeIs DEF Places
<1>2. g \in Int /\ \A b \in 0 .. k : Brightness(p[b]) \in Int
    BY <1>1, BrightnessIs
<1>g. g = Brightness(p[k])
    OBVIOUS
<1> HIDE DEF g
<1>3. /\ e \in [low : Int, high : Int]
      /\ e.low <= 255 /\ \A b \in 0 .. k - 1 : e.low <= Brightness(p[b])
      /\ e.low = 255 \/ \E b \in 0 .. k - 1 : e.low = Brightness(p[b])
      /\ e.high >= 0 /\ \A b \in 0 .. k - 1 : RecordLow(p, b) \/ Brightness(p[b]) <= e.high
      /\ e.high = 0 \/ \E b \in 0 .. k - 1 : ~RecordLow(p, b) /\ e.high = Brightness(p[b])
    BY DEF RangeOf
<1>4. /\ w \in [low : Int, high : Int]
      /\ g < e.low => w = [low |-> g, high |-> e.high]
      /\ ~(g < e.low) /\ g > e.high => w = [low |-> e.low, high |-> g]
      /\ ~(g < e.low) /\ ~(g > e.high) => w = e
    BY <1>2, <1>3, WidenedIs
<1> HIDE DEF w
<1>5. RecordLow(p, k) <=> g < e.low
    <2>1. RecordLow(p, k) <=> g < 255 /\ \A b \in 0 .. k - 1 : Brightness(p[b]) > g
        BY <1>g DEF RecordLow
    <2>2. ASSUME g < e.low PROVE g < 255 /\ \A b \in 0 .. k - 1 : Brightness(p[b]) > g
        <3>1. g < 255
            BY <1>2, <1>3, <2>2
        <3>2. ASSUME NEW b \in 0 .. k - 1 PROVE Brightness(p[b]) > g
            <4>1. e.low <= Brightness(p[b]) /\ Brightness(p[b]) \in Int /\ e.low \in Int
                BY <1>1, <1>2, <1>3
            <4> QED
                BY <1>2, <2>2, <4>1
        <3> QED
            BY <3>1, <3>2
    <2>3. ASSUME g < 255, \A b \in 0 .. k - 1 : Brightness(p[b]) > g PROVE g < e.low
        <3>1. CASE e.low = 255
            BY <2>3, <3>1
        <3>2. CASE \E b \in 0 .. k - 1 : e.low = Brightness(p[b])
            <4>1. PICK b \in 0 .. k - 1 : e.low = Brightness(p[b])
                BY <3>2
            <4>2. Brightness(p[b]) > g /\ Brightness(p[b]) \in Int
                BY <1>1, <1>2, <2>3
            <4> QED
                BY <1>2, <4>1, <4>2
        <3> QED
            BY <1>3, <3>1, <3>2
    <2> QED
        BY <2>1, <2>2, <2>3
<1>6. (k + 1) - 1 = k /\ k \in 0 .. k /\ (\A b \in 0 .. k : b \in 0 .. k - 1 \/ b = k) /\ 0 .. k - 1 \subseteq 0 .. k
    BY <1>1
<1>7. e.low \in Int /\ e.high \in Int /\ w.low \in Int /\ w.high \in Int
    BY <1>3, <1>4
<1>8. w.low <= e.low /\ w.low <= g /\ (w.low = e.low \/ w.low = g)
    BY <1>2, <1>4, <1>7
<1>9. w.high >= e.high /\ (g < e.low \/ g <= w.high) /\ (w.high = e.high \/ (~(g < e.low) /\ w.high = g))
    BY <1>2, <1>4, <1>7
<1>10. w.low <= 255 /\ w.high >= 0
    BY <1>3, <1>7, <1>8, <1>9
<1>11. \A b \in 0 .. k : w.low <= Brightness(p[b])
    <2> SUFFICES ASSUME NEW b \in 0 .. k PROVE w.low <= Brightness(p[b])
        OBVIOUS
    <2>1. CASE b = k
        BY <1>8, <1>g, <2>1
    <2>2. CASE b \in 0 .. k - 1
        <3>1. e.low <= Brightness(p[b]) /\ Brightness(p[b]) \in Int
            BY <1>2, <1>3, <2>2
        <3> QED
            BY <1>7, <1>8, <3>1
    <2> QED
        BY <1>6, <2>1, <2>2
<1>12. \A b \in 0 .. k : RecordLow(p, b) \/ Brightness(p[b]) <= w.high
    <2> SUFFICES ASSUME NEW b \in 0 .. k PROVE RecordLow(p, b) \/ Brightness(p[b]) <= w.high
        OBVIOUS
    <2>1. CASE b = k
        BY <1>5, <1>9, <1>g, <2>1
    <2>2. CASE b \in 0 .. k - 1
        <3>1. (RecordLow(p, b) \/ Brightness(p[b]) <= e.high) /\ Brightness(p[b]) \in Int
            BY <1>2, <1>3, <2>2
        <3>2. Brightness(p[b]) <= e.high => Brightness(p[b]) <= w.high
            BY <1>7, <1>9, <3>1
        <3> QED
            BY <3>1, <3>2
    <2> QED
        BY <1>6, <2>1, <2>2
<1>13. w.low = 255 \/ \E b \in 0 .. k : w.low = Brightness(p[b])
    BY <1>3, <1>6, <1>8, <1>g
<1>14. w.high = 0 \/ \E b \in 0 .. k : ~RecordLow(p, b) /\ w.high = Brightness(p[b])
    BY <1>3, <1>5, <1>6, <1>9, <1>g
<1>15. RangeOf(p, k + 1, w)
    BY <1>4, <1>6, <1>10, <1>11, <1>12, <1>13, <1>14 DEF RangeOf
<1> QED
    BY <1>15 DEF w, g

LEMMA ExtremesRange ==
    ASSUME NEW p \in Pictures
    PROVE  RangeOf(p, Columns * Rows, Extremes(p))
<1> DEFINE n == Columns * Rows
           w == Widest(p)
           N == {k \in Nat : k <= n => RangeOf(p, k, w[k])}
<1>0. n \in Nat
    BY SizeIs
<1>1. PICK g \in Widenings(p, n) : TRUE
    BY WideningsExist
<1>2. g = [k \in 0 .. n |-> IF k = 0 THEN [low |-> 255, high |-> 0] ELSE Widened(g[k - 1], Brightness(p[k - 1]))]
    BY <1>1 DEF Widenings
<1>3. w = [k \in 0 .. n |-> IF k = 0 THEN [low |-> 255, high |-> 0] ELSE Widened(w[k - 1], Brightness(p[k - 1]))]
    BY <1>2 DEF Widest
<1>n. n = Columns * Rows
    OBVIOUS
<1> HIDE DEF w, n
<1>4. 0 \in N
    <2>1. w[0] = [low |-> 255, high |-> 0]
        <3>1. 0 \in 0 .. n
            BY <1>0
        <3> QED
            BY <1>3, <3>1
    <2>2. 0 .. 0 - 1 = {}
        OBVIOUS
    <2>3. RangeOf(p, 0, w[0])
        BY <2>1, <2>2 DEF RangeOf
    <2> QED
        BY <2>3
<1>5. ASSUME NEW k \in Nat, k \in N PROVE k + 1 \in N
    <2> SUFFICES ASSUME k + 1 <= n PROVE RangeOf(p, k + 1, w[k + 1])
        OBVIOUS
    <2>1. k + 1 \in 0 .. n /\ k + 1 # 0 /\ (k + 1) - 1 = k /\ k <= n
        BY <1>0
    <2>2. w[k + 1] = Widened(w[k], Brightness(p[k]))
        BY <1>3, <2>1
    <2>3. k \in Places
        BY <1>0, <1>n DEF Places
    <2>4. RangeOf(p, k, w[k])
        BY <1>5, <2>1
    <2> QED
        BY <2>2, <2>3, <2>4, RangeGrows
<1> HIDE DEF N
<1>6. Nat \subseteq N
    BY <1>4, <1>5, NaturalInduction
<1>7. RangeOf(p, n, w[n])
    BY <1>0, <1>6 DEF N
<1> QED
    BY <1>7, ExtremesIs DEF w, n

LEMMA LeastOfAll ==
    ASSUME NEW S, NEW m \in S, S \subseteq Int, \A x \in S : m <= x
    PROVE  Min(S) = m
<1>1. Min(S) \in S /\ \A x \in S : Min(S) <= x
    BY DEF Min
<1>2. Min(S) <= m /\ m <= Min(S) /\ Min(S) \in Int /\ m \in Int
    BY <1>1
<1> QED
    BY <1>2

LEMMA GreatestOfAll ==
    ASSUME NEW S, NEW m \in S, S \subseteq Int, \A x \in S : m >= x
    PROVE  Max(S) = m
<1>1. Max(S) \in S /\ \A x \in S : Max(S) >= x
    BY DEF Max
<1>2. Max(S) >= m /\ m >= Max(S) /\ Max(S) \in Int /\ m \in Int
    BY <1>1
<1> QED
    BY <1>2

\* Where every value is known, the contrast is that between the extremes.
LEMMA ContrastIs ==
    ASSUME NEW p \in Pictures, \A o \in Places : Defined(p[o])
    PROVE  Contrasted(p) = Boosted(p)
<1> DEFINE e == Extremes(p)
           lows == {255} \cup {Brightness(p[o]) : o \in Places}
           highs == {0} \cup {Brightness(p[o]) : o \in {r \in Places : ~RecordLow(p, r)}}
<1>1. RangeOf(p, Columns * Rows, e)
    BY ExtremesRange
<1> HIDE DEF e
<1>2. Places = 0 .. Columns * Rows - 1
    BY DEF Places
<1>3. /\ e.low \in Int /\ e.high \in Int
      /\ e.low <= 255 /\ \A b \in Places : e.low <= Brightness(p[b])
      /\ e.low = 255 \/ \E b \in Places : e.low = Brightness(p[b])
      /\ e.high >= 0 /\ \A b \in Places : RecordLow(p, b) \/ Brightness(p[b]) <= e.high
      /\ e.high = 0 \/ \E b \in Places : ~RecordLow(p, b) /\ e.high = Brightness(p[b])
    BY <1>1, <1>2 DEF RangeOf
<1>4. \A o \in Places : Brightness(p[o]) \in Int
    BY BrightnessIs
<1>5. Min(lows) = e.low
    <2>1. lows \subseteq Int
        BY <1>4
    <2>2. e.low \in lows
        BY <1>3
    <2>3. \A x \in lows : e.low <= x
        BY <1>3
    <2> HIDE DEF lows
    <2> QED
        BY <2>1, <2>2, <2>3, LeastOfAll
<1>6. Max(highs) = e.high
    <2>1. highs \subseteq Int
        BY <1>4
    <2>2. e.high \in highs
        BY <1>3
    <2>3. \A x \in highs : e.high >= x
        <3> SUFFICES ASSUME NEW x \in highs PROVE e.high >= x
            OBVIOUS
        <3>1. CASE x = 0
            BY <1>3, <3>1
        <3>2. CASE \E o \in Places : ~RecordLow(p, o) /\ x = Brightness(p[o])
            <4>1. PICK o \in Places : ~RecordLow(p, o) /\ x = Brightness(p[o])
                BY <3>2
            <4>2. Brightness(p[o]) <= e.high /\ x \in Int
                BY <1>3, <1>4, <4>1
            <4> QED
                BY <1>3, <4>1, <4>2
        <3> QED
            BY <3>1, <3>2
    <2> HIDE DEF highs
    <2> QED
        BY <2>1, <2>2, <2>3, GreatestOfAll
<1>7. Boosted(p) =
        IF e.low = e.high \/ (e.low = 0 /\ e.high = 255) THEN p
        ELSE [o \in Places |-> [c \in Channels |-> Stretched(p[o][c], e.low, e.high)]]
    BY <1>5, <1>6 DEF Boosted
<1>8. Contrasted(p) =
        IF e.low = e.high \/ (e.low = 0 /\ e.high = 255) THEN p
        ELSE [o \in Places |-> [c \in Channels |-> Stretched(p[o][c], e.low, e.high)]]
    BY DEF Contrasted, e
<1> QED
    BY <1>7, <1>8

-----------------------------------------------------------------------------
(* The mean and the middle of two values.                                  *)

LEMMA TwoValues ==
    ASSUME NEW s \in [1 .. KeptPictures -> Int]
    PROVE  /\ Len(s) = 2 /\ DOMAIN s = {1, 2} /\ s[1] \in Int /\ s[2] \in Int
           /\ IsFiniteSet(DOMAIN s)
<1>1. 1 .. KeptPictures = {1, 2} /\ 1 .. KeptPictures = 1 .. 2
    BY DEF KeptPictures
<1>2. s \in [1 .. 2 -> Int]
    BY <1>1
<1>3. Len(s) = 2
    <2>1. s \in Seq(Int)
        BY <1>2, SeqDef
    <2>2. Len(s) \in Nat /\ DOMAIN s = 1 .. Len(s)
        BY <2>1, LenProperties
    <2>3. 1 .. Len(s) = 1 .. 2
        BY <1>2, <2>2
    <2> DEFINE n == Len(s)
    <2>4. n \in Nat /\ 1 .. n = 1 .. 2
        BY <2>2, <2>3
    <2> HIDE DEF n
    <2>5. 2 \in 1 .. 2 /\ 3 \notin 1 .. 2
        OBVIOUS
    <2>6. 2 \in 1 .. n /\ 3 \notin 1 .. n
        BY <2>4, <2>5, Zenon
    <2>7. n = 2
        BY <2>4, <2>6
    <2> QED
        BY <2>7 DEF n
<1>4. IsFiniteSet({1, 2})
    <2>1. IsFiniteSet({1})
        BY FS_Singleton
    <2>2. IsFiniteSet({1} \cup {2})
        BY <2>1, FS_AddElement, Zenon
    <2>3. {1} \cup {2} = {1, 2}
        OBVIOUS
    <2> QED
        BY <2>2, <2>3
<1> QED
    BY <1>1, <1>3, <1>4

LEMMA MeanIs == ASSUME NEW s \in [1 .. KeptPictures -> Int] PROVE Mean(s) \in Int
<1>1. SumOf(s, DOMAIN s) \in Int
    <2>1. \A x \in DOMAIN s : s[x] \in Int
        BY TwoValues
    <2>2. IsFiniteSet(DOMAIN s)
        BY TwoValues
    <2> QED
        BY <2>1, <2>2, SumIsInt
<1>2. SumOf(s, DOMAIN s) \div Len(s) \in Int
    BY <1>1, TwoValues
<1> QED
    BY <1>2, OfIs DEF Mean

LEMMA SortedTwo ==
    ASSUME NEW s \in [1 .. KeptPictures -> Int]
    PROVE  /\ Sorted(s)[2] \in {s[1], s[2]}
           /\ s[1] <= Sorted(s)[2] /\ s[2] <= Sorted(s)[2]
<1>1. DOMAIN s = {1, 2} /\ s[1] \in Int /\ s[2] \in Int
    BY TwoValues
<1>2. Orders(s) # {}
    <2>1. CASE s[1] <= s[2]
        <3> DEFINE p == [i \in {1, 2} |-> i]
        <3>1. p \in [{1, 2} -> {1, 2}] /\ p[1] = 1 /\ p[2] = 2
            OBVIOUS
        <3> HIDE DEF p
        <3>2. \A j \in {1, 2} : \E i \in {1, 2} : p[i] = j
            BY <3>1
        <3>3. \A i, j \in {1, 2} : i < j => s[p[i]] <= s[p[j]]
            BY <2>1, <3>1
        <3>4. p \in Orders(s)
            BY <1>1, <3>1, <3>2, <3>3 DEF Orders
        <3> QED
            BY <3>4
    <2>2. CASE ~(s[1] <= s[2])
        <3> DEFINE p == [i \in {1, 2} |-> 3 - i]
        <3>1. p \in [{1, 2} -> {1, 2}] /\ p[1] = 2 /\ p[2] = 1
            OBVIOUS
        <3> HIDE DEF p
        <3>2. \A j \in {1, 2} : \E i \in {1, 2} : p[i] = j
            BY <3>1
        <3>3. s[2] <= s[1]
            BY <1>1, <2>2
        <3>4. \A i, j \in {1, 2} : i < j => s[p[i]] <= s[p[j]]
            BY <3>1, <3>3
        <3>5. p \in Orders(s)
            BY <1>1, <3>1, <3>2, <3>4 DEF Orders
        <3> QED
            BY <3>5
    <2> QED
        BY <2>1, <2>2
<1> DEFINE p == CHOOSE p \in Orders(s) : TRUE
<1>3. p \in Orders(s)
    BY <1>2
<1>4. Sorted(s)[2] = s[p[2]]
    BY <1>1 DEF Sorted
<1> HIDE DEF p
<1>5. /\ p[1] \in {1, 2} /\ p[2] \in {1, 2}
      /\ \A j \in {1, 2} : \E i \in {1, 2} : p[i] = j
      /\ \A i, j \in {1, 2} : i < j => s[p[i]] <= s[p[j]]
    BY <1>1, <1>3 DEF Orders
<1>6. s[p[1]] <= s[p[2]]
    BY <1>5
<1>7. (p[1] = 1 /\ p[2] = 2) \/ (p[1] = 2 /\ p[2] = 1)
    BY <1>5
<1> QED
    BY <1>1, <1>4, <1>6, <1>7

LEMMA MiddleIs ==
    ASSUME NEW s \in [1 .. KeptPictures -> Int]
    PROVE  Middle(s) \in Int /\ IsMedian(Middle(s), s)
<1> DEFINE v == Sorted(s)[2]
<1>1. /\ Len(s) = 2 /\ DOMAIN s = {1, 2} /\ s[1] \in Int /\ s[2] \in Int
      /\ v \in {s[1], s[2]} /\ s[1] <= v /\ s[2] <= v
    BY TwoValues, SortedTwo
<1>2. Middle(s) = IF \E i \in {1, 2} : s[i] = Garbage THEN Garbage ELSE v
    <2>1. 2 \div 2 + 1 = 2
        OBVIOUS
    <2>2. Middle(s) = Of({s[i] : i \in {1, 2}}, v)
        BY <1>1, <2>1 DEF Middle
    <2> QED
        BY <2>2 DEF Of
<1> HIDE DEF v
<1>3. CASE \E i \in {1, 2} : s[i] = Garbage
    <2>1. Middle(s) = Garbage
        BY <1>2, <1>3
    <2> QED
        BY <1>1, <1>3, <2>1 DEF IsMedian, Garbage
<1>4. CASE ~\E i \in {1, 2} : s[i] = Garbage
    <2> DEFINE below == {n \in DOMAIN s : s[n] < v}
               upto == {n \in DOMAIN s : s[n] <= v}
    <2>1. Middle(s) = v /\ v \in Int
        BY <1>1, <1>2, <1>4
    <2>2. upto = {1, 2} /\ Cardinality({1, 2}) = 2
        <3>1. upto = {1, 2}
            <4>1. s[1] <= v /\ s[2] <= v /\ DOMAIN s = {1, 2}
                BY <1>1
            <4> QED
                BY <4>1
        <3>2. IsFiniteSet({1}) /\ Cardinality({1}) = 1
            BY FS_Singleton
        <3>3. Cardinality({1} \cup {2}) = IF 2 \in {1} THEN Cardinality({1}) ELSE Cardinality({1}) + 1
            BY <3>2, FS_AddElement, Zenon
        <3>4. {1} \cup {2} = {1, 2} /\ 2 \notin {1}
            OBVIOUS
        <3>5. Cardinality({1} \cup {2}) = Cardinality({1}) + 1
            BY <3>3, <3>4, Zenon
        <3>6. Cardinality({1} \cup {2}) = 2
            <4> DEFINE c == Cardinality({1})
            <4>1. c = 1
                BY <3>2
            <4>2. Cardinality({1} \cup {2}) = c + 1
                BY <3>5
            <4> HIDE DEF c
            <4>3. c + 1 = 2
                BY <4>1
            <4> QED
                BY <4>2, <4>3, Zenon
        <3>7. Cardinality({1, 2}) = 2
            BY <3>4, <3>6, Zenon
        <3> QED
            BY <3>1, <3>7, Zenon
    <2>3. below \in SUBSET {1, 2} /\ below # {1, 2}
        BY <1>1
    <2>4. below = {} \/ below = {1} \/ below = {2}
        <3> DEFINE b == below
        <3>1. b \in SUBSET {1, 2} /\ b # {1, 2}
            BY <2>3
        <3> HIDE DEF b
        <3>2. b = {} \/ b = {1} \/ b = {2}
            BY <3>1
        <3> QED
            BY <3>2 DEF b
    <2> HIDE DEF below, upto
    <2>5. Cardinality(below) <= 1
        <3>1. Cardinality({}) = 0 /\ Cardinality({1}) = 1 /\ Cardinality({2}) = 1
            BY FS_EmptySet, FS_Singleton
        <3>2. Cardinality(below) = 0 \/ Cardinality(below) = 1
            BY <2>4, <3>1, Zenon
        <3> QED
            BY <3>2
    <2>6. Cardinality(upto) = 2 /\ Len(s) \div 2 = 1
        BY <1>1, <2>2
    <2> QED
        BY <2>1, <2>5, <2>6 DEF IsMedian, below, upto
<1> QED
    BY <1>3, <1>4

-----------------------------------------------------------------------------
(* What filters make are pictures.                                         *)

Boxes == [BoxPlaces -> [Channels -> Int]]

LEMMA PlacesFinite == ASSUME NEW S, S \subseteq Places PROVE IsFiniteSet(S)
<1>1. Columns * Rows - 1 \in Int
    BY SizeIs
<1>2. IsFiniteSet(Places)
    BY <1>1, FS_Interval DEF Places
<1> QED
    BY <1>2, FS_Subset

LEMMA TotalIs ==
    ASSUME NEW p \in Pictures, NEW S, S \subseteq Places, NEW c \in Channels
    PROVE  Total(p, S, c) \in Int
<1> DEFINE f == [o \in S |-> p[o][c]]
<1>1. \A o \in S : f[o] \in Int
    BY PicturesAre
<1> HIDE DEF f
<1>2. IsFiniteSet(S)
    BY PlacesFinite
<1>3. SumOf(f, S) \in Int
    BY <1>1, <1>2, SumIsInt
<1> QED
    BY <1>3 DEF Total, f

LEMMA MirroredIs == ASSUME NEW p \in Pictures PROVE MirrorH(p) \in Pictures /\ MirrorV(p) \in Pictures
<1>1. ASSUME NEW o \in Places
      PROVE  /\ Row(o) * Columns + Columns - 1 - Col(o) \in Places
             /\ (Rows - 1 - Row(o)) * Columns + Col(o) \in Places
    <2> DEFINE x == Col(o)
               y == Row(o)
    <2>1. x \in 0 .. Columns - 1 /\ y \in 0 .. Rows - 1
        BY PlaceIs
    <2> HIDE DEF x, y
    <2>2. Columns - 1 - x \in 0 .. Columns - 1 /\ Rows - 1 - y \in 0 .. Rows - 1
        BY <2>1, SizeIs
    <2>3. y * Columns + (Columns - 1 - x) \in Places /\ (Rows - 1 - y) * Columns + x \in Places
        BY <2>1, <2>2, PlaceMade
    <2>4. y * Columns + Columns - 1 - x = y * Columns + (Columns - 1 - x)
        <3>1. y * Columns \in Int
            BY <2>1, SizeIs
        <3> QED
            BY <2>1, <3>1, SizeIs
    <2>5. y * Columns + Columns - 1 - x \in Places
        BY <2>3, <2>4
    <2> QED
        BY <2>3, <2>5 DEF x, y
<1>2. \A o \in Places : p[o] \in [Channels -> Int]
    BY PicturesAre
<1> QED
    BY <1>1, <1>2 DEF MirrorH, MirrorV, Pictures

LEMMA GrayedIs ==
    ASSUME NEW p \in Pictures, NEW mode \in {"fast", "cie", "pal", "lightness"}
    PROVE  Grayed(p, mode) \in Pictures
<1> DEFINE value(r, g, b) ==
             LET low == AtMost(r, AtMost(g, b))
                 high == -AtMost(-r, AtMost(-g, -b))
             IN CASE mode = "fast"      -> (r + g + b) \div 3
                  [] mode = "cie"       -> (r * 2126 + g * 7152 + b * 722) \div (21226 + 7152 + 722)
                  [] mode = "pal"       -> (r * 299 + g * 587 + b * 114) \div 1000
                  [] mode = "lightness" -> (low + high) \div 2
<1>1. ASSUME NEW r \in Int, NEW g \in Int, NEW b \in Int PROVE value(r, g, b) \in Int
    <2>1. (r + g + b) \div 3 \in Int
        OBVIOUS
    <2>2. (r * 2126 + g * 7152 + b * 722) \div (21226 + 7152 + 722) \in Int
        OBVIOUS
    <2>3. (r * 299 + g * 587 + b * 114) \div 1000 \in Int
        OBVIOUS
    <2>4. (AtMost(r, AtMost(g, b)) + -AtMost(-r, AtMost(-g, -b))) \div 2 \in Int
        <3>1. AtMost(r, AtMost(g, b)) \in Int /\ AtMost(-r, AtMost(-g, -b)) \in Int
            BY DEF AtMost
        <3> DEFINE l == AtMost(r, AtMost(g, b))
                   h == AtMost(-r, AtMost(-g, -b))
        <3> HIDE DEF l, h
        <3>2. l \in Int /\ h \in Int
            BY <3>1 DEF l, h
        <3>3. (l + -h) \div 2 \in Int
            BY <3>2
        <3> QED
            BY <3>3 DEF l, h
    <2>5. CASE mode = "fast"
        BY <2>1, <2>5
    <2>6. CASE mode = "cie"
        BY <2>2, <2>6
    <2>7. CASE mode = "pal"
        BY <2>3, <2>7
    <2>8. CASE mode = "lightness"
        BY <2>4, <2>8
    <2> QED
        BY <2>5, <2>6, <2>7, <2>8
<1>2. Grayed(p, mode) = [o \in Places |-> [c \in Channels |->
          Of({p[o][1], p[o][2], p[o][3]}, value(p[o][1], p[o][2], p[o][3]))]]
    BY DEF Grayed
<1> HIDE DEF value
<1>3. ASSUME NEW o \in Places
      PROVE  Of({p[o][1], p[o][2], p[o][3]}, value(p[o][1], p[o][2], p[o][3])) \in Int
    <2>1. p[o][1] \in Int /\ p[o][2] \in Int /\ p[o][3] \in Int
        BY PicturesAre
    <2>2. value(p[o][1], p[o][2], p[o][3]) \in Int
        BY <1>1, <2>1
    <2> QED
        BY <2>2, OfIs
<1> QED
    BY <1>2, <1>3 DEF Pictures

LEMMA DenoisedIs ==
    ASSUME NEW p \in Pictures, NEW out \in Pictures
    PROVE  /\ Denoised(p, out) \in Pictures
           /\ \A o \in Places : Denoised(p, out)[o] = IF Inner(o) THEN Denoised(p, p)[o] ELSE out[o]
<1> DEFINE mean(o) == [c \in Channels |-> Of(Values(p, Neighbours(o), c), Total(p, Neighbours(o), c) \div 8)]
<1>1. ASSUME NEW o \in Places PROVE mean(o) \in [Channels -> Int]
    <2>1. ASSUME NEW c \in Channels
          PROVE  Of(Values(p, Neighbours(o), c), Total(p, Neighbours(o), c) \div 8) \in Int
        <3>1. Neighbours(o) \subseteq Places
            BY DEF Neighbours
        <3>2. Total(p, Neighbours(o), c) \in Int
            BY <3>1, TotalIs
        <3>3. Total(p, Neighbours(o), c) \div 8 \in Int
            BY <3>2
        <3> QED
            BY <3>3, OfIs
    <2> QED
        BY <2>1
<1>2. \A q : Denoised(p, q) = [o \in Places |-> IF Inner(o) THEN mean(o) ELSE q[o]]
    BY DEF Denoised
<1> HIDE DEF mean
<1>3. \A o \in Places : out[o] \in [Channels -> Int]
    BY PicturesAre
<1>4. Denoised(p, out) \in Pictures
    BY <1>1, <1>2, <1>3 DEF Pictures
<1>5. ASSUME NEW o \in Places PROVE Denoised(p, out)[o] = IF Inner(o) THEN Denoised(p, p)[o] ELSE out[o]
    <2>1. Denoised(p, out)[o] = IF Inner(o) THEN mean(o) ELSE out[o]
        BY <1>2
    <2>2. Denoised(p, p)[o] = IF Inner(o) THEN mean(o) ELSE p[o]
        BY <1>2
    <2> QED
        BY <2>1, <2>2
<1> QED
    BY <1>4, <1>5

LEMMA NewIs ==
    ASSUME NEW f, f.kind \in NewPicture, NEW p \in Pictures, NEW out \in Pictures
    PROVE  ApplyIo(f, p, out) \in Pictures
<1>1. CASE f.kind = "mirror-h"
    BY <1>1, MirroredIs DEF ApplyIo
<1>2. CASE f.kind = "mirror-v"
    BY <1>2, MirroredIs DEF ApplyIo
<1>3. CASE f.kind = "noise"
    BY <1>3, DenoisedIs DEF ApplyIo
<1>4. CASE f.kind \in {"fast", "cie", "pal", "lightness"}
    <2>1. Grayed(p, f.kind) \in Pictures
        BY <1>4, GrayedIs
    <2>2. ApplyIo(f, p, out) = Grayed(p, f.kind)
        BY <1>4 DEF ApplyIo
    <2> QED
        BY <2>1, <2>2
<1> QED
    BY <1>1, <1>2, <1>3, <1>4 DEF NewPicture

\* Only filter_noise_neighavg leaves of a new picture what was there.
LEMMA NewOfItsOwn ==
    ASSUME NEW f, f.kind \in NewPicture \ {"noise"}, NEW p, NEW out
    PROVE  ApplyIo(f, p, out) = ApplyIo(f, p, Malloced)
BY DEF ApplyIo, NewPicture

LEMMA ValuesAt ==
    ASSUME NEW frames, frames[1] \in Pictures, frames[2] \in Pictures, NEW o \in Places, NEW c \in Channels
    PROVE  [i \in 1 .. KeptPictures |-> frames[i][o][c]] \in [1 .. KeptPictures -> Int]
<1>1. \A i \in 1 .. KeptPictures : i = 1 \/ i = 2
    BY DEF KeptPictures
<1>2. frames[1][o][c] \in Int /\ frames[2][o][c] \in Int
    BY PicturesAre
<1> QED
    BY <1>1, <1>2

LEMMA PerValueIs ==
    ASSUME NEW frames, frames[1] \in Pictures, frames[2] \in Pictures, NEW kind
    PROVE  PerValue(kind, frames) \in Pictures
<1>1. ASSUME NEW o \in Places, NEW c \in Channels
      PROVE  OneOf(kind, [i \in 1 .. KeptPictures |-> frames[i][o][c]]) \in Int
    <2> DEFINE s == [i \in 1 .. KeptPictures |-> frames[i][o][c]]
    <2>1. s \in [1 .. KeptPictures -> Int]
        BY ValuesAt
    <2> HIDE DEF s
    <2>2. Mean(s) \in Int /\ Middle(s) \in Int
        BY <2>1, MeanIs, MiddleIs
    <2>3. OneOf(kind, s) \in Int
        BY <2>2 DEF OneOf
    <2> QED
        BY <2>3 DEF s
<1> QED
    BY <1>1 DEF PerValue, Pictures

LEMMA MotionOnlyIs ==
    ASSUME NEW p \in Pictures, NEW before
    PROVE  MotionOnly(p, before) \in Pictures
<1>1. <<0, 0, 0>> \in [Channels -> Int]
    BY ThreeValues
<1>2. \A o \in Places : p[o] \in [Channels -> Int] /\ Malloced[o] \in [Channels -> Int]
    BY PicturesAre, MallocedIs
<1> QED
    BY <1>1, <1>2 DEF MotionOnly, Pictures

LEMMA StretchedIs ==
    ASSUME NEW v \in Int, NEW low \in Int, NEW high \in Int, low # high
    PROVE  Stretched(v, low, high) \in Int
<1> DEFINE range == Size(high - low)
           n == IF high < low THEN (low - v) * 255 ELSE (v - low) * 255
<1>1. range \in Nat \ {0} /\ n \in Int
    BY DEF Size
<1>2. Stretched(v, low, high) = IF n <= -range \/ n >= 256 * range THEN Garbage ELSE IF n < 0 THEN 0 ELSE n \div range
    BY DEF Stretched
<1> HIDE DEF range, n
<1>3. n \div range \in Int
    BY <1>1
<1> QED
    BY <1>2, <1>3 DEF Garbage

LEMMA ContrastedIs == ASSUME NEW p \in Pictures PROVE Contrasted(p) \in Pictures
<1> DEFINE e == Extremes(p)
<1>1. e.low \in Int /\ e.high \in Int
    BY ExtremesRange DEF RangeOf
<1>2. Contrasted(p) = IF \E o \in Places : ~Defined(p[o]) THEN Malloced
                      ELSE IF e.low = e.high \/ (e.low = 0 /\ e.high = 255) THEN p
                      ELSE [o \in Places |-> [c \in Channels |-> Stretched(p[o][c], e.low, e.high)]]
    BY DEF Contrasted
<1> HIDE DEF e
<1>3. CASE e.low # e.high
    <2>1. \A o \in Places, c \in Channels : Stretched(p[o][c], e.low, e.high) \in Int
        BY <1>1, <1>3, StretchedIs, PicturesAre
    <2>2. [o \in Places |-> [c \in Channels |-> Stretched(p[o][c], e.low, e.high)]] \in Pictures
        BY <2>1 DEF Pictures
    <2> QED
        BY <1>2, <2>2, MallocedIs
<1> QED
    BY <1>2, <1>3, MallocedIs

LEMMA MaskedIs == ASSUME NEW p \in Pictures PROVE HardMasked(p) \in Pictures /\ SoftMasked(p) \in Pictures
<1>0. \A o \in Places : p[o] \in [Channels -> Int]
    BY PicturesAre
<1>1. HardMasked(p) \in Pictures
    <2>1. <<0, 0, 0>> \in [Channels -> Int]
        BY ThreeValues
    <2> QED
        BY <1>0, <2>1 DEF HardMasked, Pictures
<1>2. SoftMasked(p) \in Pictures
    <2> DEFINE sofar(o) == {m \in Masked : m <= o}
               mean(o) == [c \in Channels |-> Of(Values(p, sofar(o), c), Total(p, sofar(o), c) \div Cardinality(sofar(o)))]
    <2>1. ASSUME NEW o \in Masked PROVE mean(o) \in [Channels -> Int]
        <3>1. o \in Places /\ sofar(o) \subseteq Places /\ o \in sofar(o)
            BY PlaceIs DEF Masked
        <3> HIDE DEF sofar
        <3>2. Cardinality(sofar(o)) \in Nat \ {0}
            BY <3>1, PlacesFinite, FS_CardinalityType, FS_EmptySet
        <3>3. ASSUME NEW c \in Channels
              PROVE  Of(Values(p, sofar(o), c), Total(p, sofar(o), c) \div Cardinality(sofar(o))) \in Int
            <4>1. Total(p, sofar(o), c) \in Int
                BY <3>1, TotalIs
            <4>2. Total(p, sofar(o), c) \div Cardinality(sofar(o)) \in Int
                BY <3>2, <4>1
            <4> QED
                BY <4>2, OfIs
        <3> QED
            BY <3>3
    <2>2. SoftMasked(p) = [o \in Places |-> IF o \in Masked THEN mean(o) ELSE p[o]]
        BY DEF SoftMasked
    <2> HIDE DEF mean
    <2> QED
        BY <1>0, <2>1, <2>2 DEF Pictures
<1> QED
    BY <1>1, <1>2

LEMMA PaintedIs ==
    ASSUME NEW p \in Pictures, NEW S, NEW colour \in [Channels -> Int]
    PROVE  Painted(p, S, colour) \in Pictures
<1>1. \A o \in Places : p[o] \in [Channels -> Int]
    BY PicturesAre
<1> QED
    BY <1>1 DEF Painted, Pictures

LEMMA MarkedIs ==
    ASSUME NEW p \in Pictures, NEW kind, NEW before
    PROVE  Marked(kind, p, before) \in Pictures
<1>1. MarkColour \in [Channels -> Int]
    BY ThreeValues DEF MarkColour
<1>2. \A S : Painted(p, S, MarkColour) \in Pictures
    BY <1>1, PaintedIs
<1> DEFINE border == [o \in Places |-> IF Col(o) \in {0, Columns - 1} \/ Row(o) \in {0, Rows - 1}
                                       THEN [p[o] EXCEPT ![1] = 255] ELSE p[o]]
<1>3. border \in Pictures
    <2>1. ASSUME NEW o \in Places
          PROVE  p[o] \in [Channels -> Int] /\ [p[o] EXCEPT ![1] = 255] \in [Channels -> Int]
        <3>1. p[o] \in [Channels -> Int]
            BY PicturesAre
        <3> DEFINE a == p[o]
        <3> HIDE DEF a
        <3>2. a \in [Channels -> Int]
            BY <3>1 DEF a
        <3>3. DOMAIN a = Channels /\ \A c \in Channels : a[c] \in Int
            BY <3>2
        <3>4. [c \in Channels |-> IF c = 1 THEN 255 ELSE a[c]] \in [Channels -> Int]
            BY <3>3
        <3>5. [a EXCEPT ![1] = 255] = [c \in Channels |-> IF c = 1 THEN 255 ELSE a[c]]
            BY <3>3
        <3>6. [a EXCEPT ![1] = 255] \in [Channels -> Int]
            BY <3>4, <3>5, Zenon
        <3> QED
            BY <3>1, <3>6 DEF a
    <2> QED
        BY <2>1 DEF Pictures
<1>4. \/ Marked(kind, p, before) = Malloced
      \/ Marked(kind, p, before) = p
      \/ Marked(kind, p, before) = border
      \/ \E S : Marked(kind, p, before) = Painted(p, S, MarkColour)
    BY DEF Marked
<1> HIDE DEF border
<1> QED
    BY <1>2, <1>3, <1>4, MallocedIs

LEMMA TakenIs ==
    ASSUME NEW f, NEW p \in Pictures
    PROVE  Taken(f, p) \in Boxes /\ Taken(f, p) # NoPicture
<1>1. \A b \in BoxPlaces : Spot(f, b) \in Places => p[Spot(f, b)] \in [Channels -> Int]
    BY PicturesAre
<1>2. Malloced[0] \in [Channels -> Int]
    BY MallocedIs, PicturesAre, FirstPlace
<1>3. Taken(f, p) \in Boxes
    BY <1>1, <1>2 DEF Taken, Boxes
<1>4. 0 \in BoxPlaces
    BY DEF BoxPlaces, Box
<1>5. DOMAIN Taken(f, p) = BoxPlaces /\ DOMAIN NoPicture = {}
    BY DEF Taken, NoPicture
<1> QED
    BY <1>3, <1>4, <1>5

LEMMA PutIs ==
    ASSUME NEW f, NEW p \in Pictures, NEW bits \in Boxes
    PROVE  PutBitmap(f, p, bits) \in Pictures
<1>1. ASSUME NEW o \in Places, \E b \in PutPlaces(f) : Spot(f, b) = o
      PROVE  bits[CHOOSE b \in PutPlaces(f) : Spot(f, b) = o] \in [Channels -> Int]
    <2>1. (CHOOSE b \in PutPlaces(f) : Spot(f, b) = o) \in BoxPlaces
        BY <1>1 DEF PutPlaces
    <2> QED
        BY <2>1 DEF Boxes
<1>2. \A o \in Places : p[o] \in [Channels -> Int]
    BY PicturesAre
<1> QED
    BY <1>1, <1>2 DEF PutBitmap, Pictures

LEMMA RememberIs ==
    ASSUME NEW keep \in Seq(Pictures), NEW p \in Pictures
    PROVE  Remember(keep, p) \in Seq(Pictures)
<1>1. Len(keep) > KeptPictures => Tail(keep) \in Seq(Pictures)
    BY DEF KeptPictures
<1> QED
    BY <1>1 DEF Remember

LEMMA OldestIs ==
    ASSUME NEW keep \in Seq(Pictures), NEW p \in Pictures, NEW kind
    PROVE  Oldest(kind, Remember(keep, p), p) \in Pictures
<1> DEFINE s == Remember(keep, p)
<1>1. s \in Seq(Pictures)
    BY RememberIs
<1> HIDE DEF s
<1>2. ~(Len(s) < KeptPictures) => s[1] \in Pictures /\ s[2] \in Pictures
    BY <1>1 DEF KeptPictures
<1>3. Oldest(kind, s, p) \in Pictures
    BY <1>2, PerValueIs DEF Oldest
<1> QED
    BY <1>3 DEF s

LEMMA PictureMade ==
    ASSUME NEW f, NEW p, NEW keep, NEW before, NEW bits
    PROVE  /\ f.kind \in {"average", "median"} => Apply(f, p, keep, before, bits).picture =
                Oldest(f.kind, Remember(keep, p), p)
           /\ f.kind = "motion" => Apply(f, p, keep, before, bits).picture =
                IF before = NoPicture THEN p ELSE MotionOnly(p, IF keep = <<>> THEN Malloced ELSE keep[1])
           /\ f.kind = "contrast" => Apply(f, p, keep, before, bits).picture = Contrasted(p)
           /\ f.kind = "copy" => Apply(f, p, keep, before, bits).picture = p
           /\ f.kind = "bitmap" => Apply(f, p, keep, before, bits).picture =
                IF bits = NoPicture THEN p ELSE PutBitmap(f, p, bits)
<1>1. CASE f.kind \in {"average", "median"}
    BY <1>1 DEF Apply, Markers, Effect
<1>2. CASE f.kind = "motion"
    BY <1>2 DEF Apply, Markers, Effect
<1>3. CASE f.kind = "contrast"
    BY <1>3 DEF Apply, Markers, Effect
<1>4. CASE f.kind = "copy"
    BY <1>4 DEF Apply, Markers, Effect
<1>5. CASE f.kind = "bitmap"
    BY <1>5 DEF Apply, Markers, Effect
<1> QED
    BY <1>1, <1>2, <1>3, <1>4, <1>5

LEMMA MaskMade ==
    ASSUME NEW f, NEW p, NEW keep, NEW before, NEW bits
    PROVE  /\ f.kind = "mask" => Apply(f, p, keep, before, bits).picture = HardMasked(p)
           /\ f.kind = "soft-mask" => Apply(f, p, keep, before, bits).picture = SoftMasked(p)
BY DEF Apply, Markers, Effect

LEMMA PaintMade ==
    ASSUME NEW f, NEW p, NEW keep, NEW before, NEW bits
    PROVE  /\ f.kind = "draw" => Apply(f, p, keep, before, bits).picture = Painted(p, DrawnPlaces(f), <<255, 0, 0>>)
           /\ f.kind = "overlay" => Apply(f, p, keep, before, bits).picture = Painted(p, Overlaid(f), <<0, 0, 254>>)
BY DEF Apply, Markers, Effect

LEMMA MarkMade ==
    ASSUME NEW f, NEW p, NEW keep, NEW before, NEW bits, f.kind \in Markers
    PROVE  Apply(f, p, keep, before, bits).picture = IF before = NoPicture THEN p ELSE Marked(f.kind, p, before)
BY DEF Apply, Markers, Effect

LEMMA AverageKept ==
    ASSUME NEW f, NEW p, NEW keep, NEW before, NEW bits, f.kind = "average" \/ f.kind = "median"
    PROVE  Apply(f, p, keep, before, bits).keep = Remember(keep, p)
BY DEF Apply, Markers, Effect

LEMMA MotionKept ==
    ASSUME NEW f, NEW p, NEW keep, NEW before, NEW bits, f.kind = "motion"
    PROVE  Apply(f, p, keep, before, bits).keep = IF before = NoPicture THEN keep ELSE <<p>>
BY DEF Apply, Markers, Effect

LEMMA OutsideMade ==
    ASSUME NEW f, f.kind \in FilterKinds \ NewPicture, NEW p, NEW keep, NEW before, NEW bits,
           Apply(f, p, keep, before, bits).outside
    PROVE  \/ f.kind = "draw" /\ ~DrawnPlaces(f) \subseteq Places
           \/ f.kind = "overlay" /\ ~Overlaid(f) \subseteq Places
           \/ f.kind = "copy" /\ \E o \in BoxPlaces : Spot(f, o) \notin Places
           \/ f.kind = "bitmap" /\ (PutTooFar(f) \/ \E o \in PutPlaces(f) : Spot(f, o) \notin Places)
<1>1. CASE f.kind \in {"average", "median"}
    BY <1>1 DEF Apply, Markers, Effect
<1>2. CASE f.kind = "motion"
    BY <1>2 DEF Apply, Markers, Effect
<1>3. CASE f.kind \in {"contrast", "mask", "soft-mask"}
    BY <1>3 DEF Apply, Markers, Effect
<1>4. CASE f.kind = "draw"
    BY <1>4 DEF Apply, Markers, Effect
<1>5. CASE f.kind = "overlay"
    BY <1>5 DEF Apply, Markers, Effect
<1>6. CASE f.kind = "copy"
    BY <1>6 DEF Apply, Markers, Effect
<1>7. CASE f.kind = "bitmap"
    BY <1>7 DEF Apply, Markers, Effect
<1>8. CASE f.kind \in Markers
    BY <1>8 DEF Apply, Markers, Effect
<1> QED
    BY <1>1, <1>2, <1>3, <1>4, <1>5, <1>6, <1>7, <1>8 DEF FilterKinds, Keepers

LEMMA ChangedIs ==
    ASSUME NEW f, f.kind \in FilterKinds \ NewPicture, NEW p \in Pictures, NEW keep,
           f.kind = "average" \/ f.kind = "median" => keep \in Seq(Pictures),
           NEW before, NEW bits, bits = NoPicture \/ bits \in Boxes
    PROVE  Apply(f, p, keep, before, bits).picture \in Pictures
<1>1. CASE f.kind \in {"average", "median"}
    <2>1. keep \in Seq(Pictures)
        BY <1>1
    <2> QED
        BY <1>1, <2>1, PictureMade, OldestIs
<1>2. CASE f.kind = "motion"
    BY <1>2, PictureMade, MotionOnlyIs
<1>3. CASE f.kind = "contrast"
    BY <1>3, PictureMade, ContrastedIs
<1>4. CASE f.kind = "mask" \/ f.kind = "soft-mask"
    <2>1. HardMasked(p) \in Pictures /\ SoftMasked(p) \in Pictures
        BY MaskedIs
    <2>2. CASE f.kind = "mask"
        BY <2>1, <2>2, MaskMade
    <2>3. CASE f.kind = "soft-mask"
        BY <2>1, <2>3, MaskMade
    <2> QED
        BY <1>4, <2>2, <2>3
<1>5. CASE f.kind = "draw"
    <2>1. <<255, 0, 0>> \in [Channels -> Int]
        BY ThreeValues
    <2>2. Painted(p, DrawnPlaces(f), <<255, 0, 0>>) \in Pictures
        BY <2>1, PaintedIs
    <2> QED
        BY <1>5, <2>2, PaintMade
<1>6. CASE f.kind = "overlay"
    <2>1. <<0, 0, 254>> \in [Channels -> Int]
        BY ThreeValues
    <2>2. Painted(p, Overlaid(f), <<0, 0, 254>>) \in Pictures
        BY <2>1, PaintedIs
    <2> QED
        BY <1>6, <2>2, PaintMade
<1>7. CASE f.kind = "copy"
    BY <1>7, PictureMade
<1>8. CASE f.kind = "bitmap"
    BY <1>8, PictureMade, PutIs
<1>9. CASE f.kind \in Markers
    BY <1>9, MarkMade, MarkedIs
<1> QED
    BY <1>1, <1>2, <1>3, <1>4, <1>5, <1>6, <1>7, <1>8, <1>9 DEF FilterKinds, Keepers

-----------------------------------------------------------------------------
(* What filters keep of their pictures.                                    *)

LEMMA SeqOfFunction ==
    ASSUME NEW n \in Nat, NEW T, NEW s \in [1 .. n -> T]
    PROVE  s \in Seq(T) /\ Len(s) = n
<1>1. s \in Seq(T)
    BY SeqDef
<1> DEFINE m == Len(s)
<1>2. m \in Nat /\ DOMAIN s = 1 .. m
    BY <1>1, LenProperties
<1>3. 1 .. m = 1 .. n
    BY <1>2
<1> HIDE DEF m
<1>4. m <= n
    <2>1. CASE m = 0
        BY <2>1
    <2>2. CASE m # 0
        <3>1. m \in 1 .. m
            BY <1>2, <2>2
        <3>2. m \in 1 .. n
            BY <1>3, <3>1, Zenon
        <3> QED
            BY <3>2
    <2> QED
        BY <2>1, <2>2
<1>5. n <= m
    <2>1. CASE n = 0
        BY <1>2, <2>1
    <2>2. CASE n # 0
        <3>1. n \in 1 .. n
            BY <2>2
        <3>2. n \in 1 .. m
            BY <1>3, <3>1, Zenon
        <3> QED
            BY <1>2, <3>2
    <2> QED
        BY <2>1, <2>2
<1>6. m = n
    BY <1>2, <1>4, <1>5
<1> QED
    BY <1>1, <1>6 DEF m

LEMMA LastThreeIs ==
    ASSUME NEW T, NEW s \in Seq(T)
    PROVE  /\ LastThree(s) \in Seq(T)
           /\ Len(LastThree(s)) = IF Len(s) <= 3 THEN Len(s) ELSE 3
           /\ \A n \in 1 .. Len(LastThree(s)) : LastThree(s)[n] = s[IF Len(s) <= 3 THEN n ELSE Len(s) - 3 + n]
<1> DEFINE l == Len(s)
<1>1. l \in Nat /\ \A n \in 1 .. l : s[n] \in T
    BY LenProperties
<1>2. LastThree(s) = IF l <= 3 THEN s ELSE SubSeq(s, l - 2, l)
    BY DEF LastThree, KeptPictures
<1>3. CASE l <= 3
    BY <1>2, <1>3
<1>4. CASE ~(l <= 3)
    <2>1. LastThree(s) = SubSeq(s, l - 2, l)
        BY <1>2, <1>4
    <2> HIDE DEF l
    <2>2. \A n \in l - 2 .. l : s[n] \in T
        BY <1>1, <1>4
    <2>3. l - 2 \in Int /\ l \in Int /\ l - 2 <= l /\ l - (l - 2) + 1 = 3
        BY <1>1
    <2>4. /\ SubSeq(s, l - 2, l) \in Seq(T)
          /\ Len(SubSeq(s, l - 2, l)) = IF l - 2 <= l THEN l - (l - 2) + 1 ELSE 0
          /\ \A i \in 1 .. l - (l - 2) + 1 : SubSeq(s, l - 2, l)[i] = s[(l - 2) + i - 1]
        BY <2>2, <2>3, SubSeqProperties
    <2>5. \A i \in 1 .. 3 : (l - 2) + i - 1 = l - 3 + i
        BY <1>1
    <2>6. /\ SubSeq(s, l - 2, l) \in Seq(T)
          /\ Len(SubSeq(s, l - 2, l)) = 3
          /\ \A i \in 1 .. 3 : SubSeq(s, l - 2, l)[i] = s[l - 3 + i]
        BY <2>3, <2>4, <2>5
    <2> QED
        BY <1>4, <2>1, <2>6 DEF l
<1> QED
    BY <1>3, <1>4

LEMMA RememberLast ==
    ASSUME NEW T, NEW s \in Seq(T), NEW p \in T
    PROVE  Remember(LastThree(s), p) = LastThree(Append(s, p))
<1> DEFINE l == Len(s)
           t == Append(s, p)
           a == LastThree(s)
           d == LastThree(t)
<1>1. l \in Nat
    BY LenProperties
<1>2. t \in Seq(T) /\ Len(t) = l + 1 /\ t[l + 1] = p /\ \A n \in 1 .. l : t[n] = s[n]
    BY AppendProperties
<1>3. /\ a \in Seq(T) /\ Len(a) = IF l <= 3 THEN l ELSE 3
      /\ \A n \in 1 .. Len(a) : a[n] = s[IF l <= 3 THEN n ELSE l - 3 + n]
    BY LastThreeIs
<1>t. t = Append(s, p)
    OBVIOUS
<1>l. l = Len(s)
    OBVIOUS
<1> HIDE DEF t
<1>4. /\ d \in Seq(T) /\ Len(d) = IF l + 1 <= 3 THEN l + 1 ELSE 3
      /\ \A n \in 1 .. Len(d) : d[n] = t[IF l + 1 <= 3 THEN n ELSE l + 1 - 3 + n]
    BY <1>2, LastThreeIs
<1>5. CASE l <= 2
    <2>1. a = s
        BY <1>1, <1>5 DEF LastThree, KeptPictures
    <2>2. d = t
        BY <1>1, <1>2, <1>5 DEF LastThree, KeptPictures
    <2>3. Remember(a, p) = Append(s, p)
        BY <1>5, <2>1 DEF Remember, KeptPictures
    <2> QED
        BY <1>t, <2>2, <2>3
<1>6. CASE l > 2
    <2> HIDE DEF l
    <2>1. Len(a) = 3 /\ \A n \in 1 .. 3 : a[n] = s[l - 3 + n]
        <3>1. Len(a) = 3
            BY <1>1, <1>3, <1>6
        <3>2. \A n \in 1 .. 3 : n = IF l <= 3 THEN n ELSE n
            OBVIOUS
        <3>3. l <= 3 => l - 3 = 0
            BY <1>1, <1>6
        <3> QED
            BY <1>1, <1>3, <3>1, <3>3
    <2>2. Len(d) = 3 /\ \A n \in 1 .. 3 : d[n] = t[l - 2 + n]
        <3>1. Len(d) = 3
            BY <1>1, <1>4, <1>6
        <3>2. \A n \in 1 .. 3 : l + 1 - 3 + n = l - 2 + n
            BY <1>1
        <3>3. ~(l + 1 <= 3)
            BY <1>1, <1>6
        <3> QED
            BY <1>4, <3>1, <3>2, <3>3
    <2> HIDE DEF a, d
    <2>3. a # <<>>
        BY <2>1
    <2>4. Tail(a) \in Seq(T) /\ Len(Tail(a)) = 2 /\ \A n \in 1 .. 2 : Tail(a)[n] = a[n + 1]
        <3>1. Tail(a) \in Seq(T) /\ Len(Tail(a)) = Len(a) - 1
              /\ \A n \in 1 .. Len(Tail(a)) : Tail(a)[n] = a[n + 1]
            BY <1>3, <2>3, HeadTailProperties
        <3>2. Len(Tail(a)) = 2
            BY <2>1, <3>1
        <3> QED
            BY <3>1, <3>2
    <2> DEFINE b == Tail(a)
               c == Append(b, p)
    <2>b. b = Tail(a)
        OBVIOUS
    <2>6. Remember(a, p) = c
        BY <2>1 DEF Remember, KeptPictures
    <2> HIDE DEF b
    <2>5. b \in Seq(T) /\ Len(b) = 2 /\ b[1] = a[2] /\ b[2] = a[3]
        <3>1. 1 \in 1 .. 2 /\ 2 \in 1 .. 2 /\ 1 + 1 = 2 /\ 2 + 1 = 3
            OBVIOUS
        <3>2. b \in Seq(T) /\ Len(b) = 2 /\ \A n \in 1 .. 2 : b[n] = a[n + 1]
            BY <2>4, <2>b
        <3> QED
            BY <3>1, <3>2
    <2>7. c \in Seq(T) /\ Len(c) = 3 /\ c[3] = p /\ c[1] = b[1] /\ c[2] = b[2]
        <3>0. b \in Seq(T)
            BY <2>5
        <3>1. c \in Seq(T) /\ Len(c) = Len(b) + 1 /\ c[Len(b) + 1] = p /\ \A n \in 1 .. Len(b) : c[n] = b[n]
            BY <3>0, AppendProperties
        <3> HIDE DEF c
        <3>2. 2 + 1 = 3 /\ 1 \in 1 .. 2 /\ 2 \in 1 .. 2
            OBVIOUS
        <3> QED
            BY <2>5, <3>1, <3>2
    <2> HIDE DEF c
    <2>8. a[2] = s[l - 1] /\ a[3] = s[l]
        BY <1>1, <2>1
    <2>9. d[1] = t[l - 1] /\ d[2] = t[l] /\ d[3] = t[l + 1]
        BY <1>1, <2>2
    <2>10. l - 1 \in 1 .. l /\ l \in 1 .. l
        BY <1>1, <1>6
    <2>11. c[1] = d[1] /\ c[2] = d[2] /\ c[3] = d[3]
        BY <1>2, <2>5, <2>7, <2>8, <2>9, <2>10
    <2>12. \A n \in 1 .. 3 : c[n] = d[n]
        BY <2>11
    <2>13. c = d
        BY <1>4, <2>2, <2>7, <2>12, SeqEqual
    <2> QED
        BY <2>6, <2>13 DEF a, d, t
<1> QED
    BY <1>1, <1>5, <1>6

\* The last three are the pictures that count for the last one.
LEMMA WindowIs ==
    ASSUME NEW t \in Seq(Pictures), Len(t) >= 2, NEW kind
    PROVE  /\ PerValue(kind, LastThree(t)) = PerValue(kind, Window(t, Len(t)))
           /\ Window(t, Len(t))[1] \in Pictures /\ Window(t, Len(t))[2] \in Pictures
<1> DEFINE k == Len(t)
           a == LastThree(t)
           w == Window(t, k)
<1>1. k \in Nat /\ k >= 2 /\ \A n \in 1 .. k : t[n] \in Pictures
    BY LenProperties
<1>2. Len(a) = (IF k <= 3 THEN k ELSE 3) /\ \A n \in 1 .. Len(a) : a[n] = t[IF k <= 3 THEN n ELSE k - 3 + n]
    BY LastThreeIs
<1>3. \A n \in 1 .. 2 : w[n] = t[IF k = 2 THEN n ELSE k - 2 + n - 1]
    BY DEF Window, KeptPictures
<1> HIDE DEF k, a, w
<1>4. 1 .. KeptPictures = 1 .. 2
    BY DEF KeptPictures
<1>5. ASSUME NEW n \in 1 .. 2 PROVE a[n] = w[n] /\ w[n] \in Pictures
    <2>1. n \in 1 .. Len(a)
        BY <1>1, <1>2
    <2> DEFINE x == IF k <= 3 THEN n ELSE k - 3 + n
               y == IF k = 2 THEN n ELSE k - 2 + n - 1
    <2>2. x = y /\ y \in 1 .. k
        BY <1>1
    <2>3. a[n] = t[x] /\ w[n] = t[y]
        BY <1>2, <1>3, <2>1
    <2> HIDE DEF x, y
    <2> QED
        BY <1>1, <2>2, <2>3
<1> DEFINE va(o, c) == [i \in 1 .. KeptPictures |-> a[i][o][c]]
           vw(o, c) == [i \in 1 .. KeptPictures |-> w[i][o][c]]
<1>6. ASSUME NEW o, NEW c PROVE va(o, c) = vw(o, c)
    <2>1. \A i \in 1 .. KeptPictures : a[i] = w[i]
        BY <1>4, <1>5
    <2> QED
        BY <2>1
<1>7. PerValue(kind, a) = PerValue(kind, w)
    <2>1. PerValue(kind, a) = [o \in Places |-> [c \in Channels |-> OneOf(kind, va(o, c))]]
        BY DEF PerValue
    <2>2. PerValue(kind, w) = [o \in Places |-> [c \in Channels |-> OneOf(kind, vw(o, c))]]
        BY DEF PerValue
    <2> HIDE DEF va, vw
    <2> QED
        BY <1>6, <2>1, <2>2
<1>8. w[1] \in Pictures /\ w[2] \in Pictures
    BY <1>5
<1> QED
    BY <1>7, <1>8 DEF a, w, k

-----------------------------------------------------------------------------
(* What each filter makes is what it is to make.                           *)

LEMMA KeptMakes ==
    ASSUME NEW list, NEW seen, NEW i, NEW k \in Nat \ {0}, NEW q,
           list[i].kind = "average" \/ list[i].kind = "median", seen[i] \in Seq(Pictures), Len(seen[i]) = k,
           q = IF k < 2 THEN seen[i][k] ELSE PerValue(list[i].kind, LastThree(seen[i]))
    PROVE  Makes(list, seen, i, k, q)
<1> DEFINE w == Window(seen[i], k)
<1>1. CASE k < 2
    <2>1. q = seen[i][k] /\ ~(k >= 2)
        BY <1>1
    <2>2. CASE list[i].kind = "average"
        BY <1>1, <2>1, <2>2 DEF Makes, KeptPictures, NewPicture, Markers
    <2>3. CASE list[i].kind = "median"
        BY <1>1, <2>1, <2>3 DEF Makes, KeptPictures, NewPicture, Markers
    <2> QED
        BY <2>2, <2>3
<1>2. CASE k >= 2 /\ list[i].kind = "average"
    <2>1. q = PerValue("average", w)
        BY <1>2, WindowIs
    <2> QED
        BY <1>2, <2>1 DEF Makes, KeptPictures, NewPicture, Markers
<1>3. CASE k >= 2 /\ list[i].kind = "median"
    <2>1. q = PerValue("median", w) /\ w[1] \in Pictures /\ w[2] \in Pictures
        BY <1>3, WindowIs
    <2> HIDE DEF w
    <2>2. ASSUME NEW o \in Places, NEW c \in Channels
          PROVE  IsMedian(q[o][c], [n \in 1 .. KeptPictures |-> w[n][o][c]])
        <3> DEFINE v == [n \in 1 .. KeptPictures |-> w[n][o][c]]
        <3>1. v \in [1 .. KeptPictures -> Int]
            BY <2>1, ValuesAt
        <3>2. q[o][c] = OneOf("median", v)
            BY <2>1 DEF PerValue
        <3> HIDE DEF v
        <3>3. q[o][c] = Middle(v)
            BY <3>2 DEF OneOf
        <3> QED
            BY <3>1, <3>3, MiddleIs DEF v
    <2>3. \A o \in Places, c \in Channels :
            IsMedian(q[o][c], [n \in 1 .. KeptPictures |-> Window(seen[i], k)[n][o][c]])
        BY <2>2 DEF w
    <2> QED
        BY <1>3, <2>3 DEF Makes, KeptPictures, NewPicture, Markers
<1> QED
    BY <1>1, <1>2, <1>3

LEMMA MotionMakes ==
    ASSUME NEW list, NEW seen, NEW i, NEW k \in Nat \ {0}, NEW q, list[i].kind = "motion",
           q = IF k = 1 THEN seen[i][k] ELSE MotionOnly(seen[i][k], IF k = 2 THEN Malloced ELSE seen[i][k - 1])
    PROVE  Makes(list, seen, i, k, q)
<1>1. CASE k = 1
    BY <1>1 DEF Makes, NewPicture, Markers
<1>2. CASE k = 2
    <2>1. \A o \in Places : q[o] = Malloced[o]
        BY <1>2, MallocedIs DEF MotionOnly
    <2>2. \A o \in Places : ~Defined(q[o])
        BY <2>1, MallocedIs
    <2> QED
        BY <1>2, <2>2 DEF Makes, NewPicture, Markers
<1>3. CASE k > 2
    BY <1>3 DEF Makes, NewPicture, Markers
<1> QED
    BY <1>1, <1>2, <1>3

LEMMA NoiseMakes ==
    ASSUME NEW list, NEW seen, NEW i, NEW k \in Nat \ {0}, list[i].kind = "noise",
           seen[i][k] \in Pictures, NEW out \in Pictures,
           LastNew(list, i) = {} => out = Malloced,
           \A j \in LastNew(list, i) : out = seen[j][k]
    PROVE  Makes(list, seen, i, k, Denoised(seen[i][k], out))
<1> DEFINE p == seen[i][k]
           q == Denoised(p, out)
<1>1. \A o \in Places : q[o] = IF Inner(o) THEN Denoised(p, p)[o] ELSE out[o]
    BY DenoisedIs
<1>2. ASSUME NEW o \in Places
      PROVE  IF Inner(o) THEN q[o] = Denoised(p, p)[o]
             ELSE IF LastNew(list, i) = {} THEN ~Defined(q[o])
             ELSE \A j \in LastNew(list, i) : q[o] = seen[j][k][o]
    <2>1. q[o] = IF Inner(o) THEN Denoised(p, p)[o] ELSE out[o]
        BY <1>1
    <2> HIDE DEF q
    <2>2. CASE Inner(o)
        BY <2>1, <2>2
    <2>3. CASE ~Inner(o) /\ LastNew(list, i) = {}
        <3>1. q[o] = Malloced[o]
            BY <2>1, <2>3
        <3>2. ~Defined(Malloced[o])
            BY MallocedIs
        <3>3. ~Defined(q[o])
            BY <3>1, <3>2
        <3> QED
            BY <2>3, <3>3
    <2>4. CASE ~Inner(o) /\ LastNew(list, i) # {}
        BY <2>1, <2>4
    <2> QED
        BY <2>2, <2>3, <2>4
<1> HIDE DEF q
<1>3. Makes(list, seen, i, k, q)
    BY <1>2 DEF Makes, NewPicture, Markers
<1> QED
    BY <1>3 DEF q

LEMMA ContrastMakes ==
    ASSUME NEW list, NEW seen, NEW i, NEW k, list[i].kind = "contrast", seen[i][k] \in Pictures
    PROVE  Makes(list, seen, i, k, Contrasted(seen[i][k]))
<1>1. (\A o \in Places : Defined(seen[i][k][o])) => Contrasted(seen[i][k]) = Boosted(seen[i][k])
    BY ContrastIs
<1> QED
    BY <1>1 DEF Makes, NewPicture, Markers

LEMMA CopyMakes ==
    ASSUME NEW list, NEW seen, NEW i, NEW k, list[i].kind = "copy"
    PROVE  Makes(list, seen, i, k, seen[i][k])
BY DEF Makes, NewPicture, Markers

LEMMA PutIsPasted ==
    ASSUME NEW f, NEW p, NEW of, NEW from
    PROVE  Pasted(f, p, PutBitmap(f, p, Taken(of, from)), of, from)
<1> DEFINE bits == Taken(of, from)
           q == PutBitmap(f, p, bits)
<1>1. \A o \in Places : q[o] = IF \E b \in PutPlaces(f) : Spot(f, b) = o
                               THEN bits[CHOOSE b \in PutPlaces(f) : Spot(f, b) = o] ELSE p[o]
    BY DEF PutBitmap
<1> HIDE DEF q, bits
<1>2. ASSUME NEW o \in Places
      PROVE  IF {b \in PutPlaces(f) : Spot(f, b) = o} = {} THEN q[o] = p[o]
             ELSE \E b \in {b \in PutPlaces(f) : Spot(f, b) = o} : q[o] = bits[b]
    <2>1. CASE \E b \in PutPlaces(f) : Spot(f, b) = o
        <3> DEFINE c == CHOOSE b \in PutPlaces(f) : Spot(f, b) = o
        <3>1. c \in PutPlaces(f) /\ Spot(f, c) = o
            BY <2>1
        <3>2. q[o] = bits[c]
            BY <1>1, <2>1
        <3> HIDE DEF c
        <3> QED
            BY <3>1, <3>2
    <2>2. CASE ~\E b \in PutPlaces(f) : Spot(f, b) = o
        BY <1>1, <2>2
    <2> QED
        BY <2>1, <2>2
<1> QED
    BY <1>2 DEF Pasted, bits, q

LEMMA BitmapMakes ==
    ASSUME NEW list, NEW seen, NEW i, NEW k, list[i].kind = "bitmap", NEW bits,
           CopyFor(list, i, k) = {} => bits = NoPicture,
           \A c \in CopyFor(list, i, k) :
              bits = Taken(list[c[1]], seen[c[1]][c[2]]) /\ seen[c[1]][c[2]] \in Pictures
    PROVE  Makes(list, seen, i, k, IF bits = NoPicture THEN seen[i][k] ELSE PutBitmap(list[i], seen[i][k], bits))
<1> DEFINE p == seen[i][k]
           q == IF bits = NoPicture THEN p ELSE PutBitmap(list[i], p, bits)
<1>1. CASE CopyFor(list, i, k) = {}
    <2>1. q = seen[i][k]
        BY <1>1
    <2> HIDE DEF q
    <2>2. Makes(list, seen, i, k, q)
        BY <1>1, <2>1 DEF Makes, NewPicture, Markers
    <2> QED
        BY <2>2 DEF q
<1>2. CASE CopyFor(list, i, k) # {}
    <2>1. ASSUME NEW c \in CopyFor(list, i, k) PROVE Pasted(list[i], p, q, list[c[1]], seen[c[1]][c[2]])
        <3>1. bits = Taken(list[c[1]], seen[c[1]][c[2]])
            OBVIOUS
        <3>2. bits # NoPicture
            BY <3>1, TakenIs
        <3>3. q = PutBitmap(list[i], p, Taken(list[c[1]], seen[c[1]][c[2]]))
            BY <3>1, <3>2
        <3> QED
            BY <3>3, PutIsPasted
    <2> HIDE DEF q
    <2>2. Makes(list, seen, i, k, q)
        BY <1>2, <2>1 DEF Makes, NewPicture, Markers
    <2> QED
        BY <2>2 DEF q
<1> QED
    BY <1>1, <1>2

LEMMA MarkerMakes ==
    ASSUME NEW list, NEW seen, NEW i, NEW k, list[i].kind \in Markers, NEW before,
           before = IF k = 1 THEN NoPicture ELSE seen[Len(seen)][k - 1],
           k # 1 => before # NoPicture
    PROVE  Makes(list, seen, i, k, IF before = NoPicture THEN seen[i][k] ELSE Marked(list[i].kind, seen[i][k], before))
<1> DEFINE q == IF before = NoPicture THEN seen[i][k] ELSE Marked(list[i].kind, seen[i][k], before)
<1>1. q = IF k = 1 THEN seen[i][k] ELSE Marked(list[i].kind, seen[i][k], seen[Len(seen)][k - 1])
    OBVIOUS
<1> HIDE DEF q
<1>2. Makes(list, seen, i, k, q)
    BY <1>1 DEF Makes, NewPicture, Markers
<1> QED
    BY <1>2 DEF q

LEMMA PaintMakes ==
    ASSUME NEW list, NEW seen, NEW i, NEW k,
           \/ list[i].kind = "mask" \/ list[i].kind = "soft-mask"
           \/ list[i].kind = "draw" \/ list[i].kind = "overlay",
           NEW keep, NEW before, NEW bits
    PROVE  Makes(list, seen, i, k, Apply(list[i], seen[i][k], keep, before, bits).picture)
<1> DEFINE q == Apply(list[i], seen[i][k], keep, before, bits).picture
<1>1. q = Apply(list[i], seen[i][k], <<>>, NoPicture, NoPicture).picture
    <2>1. CASE list[i].kind = "mask"
        BY <2>1, MaskMade
    <2>2. CASE list[i].kind = "soft-mask"
        BY <2>2, MaskMade
    <2>3. CASE list[i].kind = "draw"
        BY <2>3, PaintMade
    <2>4. CASE list[i].kind = "overlay"
        BY <2>4, PaintMade
    <2> QED
        BY <2>1, <2>2, <2>3, <2>4
<1> HIDE DEF q
<1>2. Makes(list, seen, i, k, q)
    BY <1>1 DEF Makes, NewPicture, Markers
<1> QED
    BY <1>2 DEF q

LEMMA NewMakes ==
    ASSUME NEW list, NEW seen, NEW i, NEW k \in Nat \ {0}, list[i].kind \in NewPicture,
           seen[i][k] \in Pictures, NEW out \in Pictures,
           LastNew(list, i) = {} => out = Malloced,
           \A j \in LastNew(list, i) : out = seen[j][k]
    PROVE  Makes(list, seen, i, k, ApplyIo(list[i], seen[i][k], out))
<1>1. CASE list[i].kind = "noise"
    <2>1. ApplyIo(list[i], seen[i][k], out) = Denoised(seen[i][k], out)
        BY <1>1 DEF ApplyIo
    <2> QED
        BY <1>1, <2>1, NoiseMakes
<1>2. CASE list[i].kind # "noise"
    <2> DEFINE q == ApplyIo(list[i], seen[i][k], out)
    <2>1. q = ApplyIo(list[i], seen[i][k], Malloced)
        BY <1>2, NewOfItsOwn
    <2> HIDE DEF q
    <2>2. Makes(list, seen, i, k, q)
        BY <1>2, <2>1 DEF Makes, NewPicture, Markers
    <2> QED
        BY <2>2 DEF q
<1> QED
    BY <1>1, <1>2

LEMMA ChangeMakes ==
    ASSUME NEW list, NEW seen, NEW i, NEW k \in Nat \ {0}, list[i].kind \in FilterKinds \ NewPicture,
           NEW s \in Seq(Pictures), NEW p \in Pictures, Len(s) = k - 1, seen[i] = Append(s, p), NEW keep,
           list[i].kind \in {"average", "median"} => keep = LastThree(s),
           list[i].kind = "motion" => keep = IF Len(s) < 2 THEN <<>> ELSE <<s[Len(s)]>>,
           NEW before, before = IF k = 1 THEN NoPicture ELSE seen[Len(seen)][k - 1],
           k # 1 => before # NoPicture,
           NEW bits, CopyFor(list, i, k) = {} => bits = NoPicture,
           \A c \in CopyFor(list, i, k) :
              bits = Taken(list[c[1]], seen[c[1]][c[2]]) /\ seen[c[1]][c[2]] \in Pictures
    PROVE  Makes(list, seen, i, k, Apply(list[i], p, keep, before, bits).picture)
<1> DEFINE f == list[i]
           t == seen[i]
           q == Apply(f, p, keep, before, bits).picture
<1>1. t \in Seq(Pictures) /\ Len(t) = k /\ t[k] = p /\ \A n \in 1 .. k - 1 : t[n] = s[n]
    BY AppendProperties
<1>2. CASE f.kind \in {"average", "median"}
    <2>1. q = Oldest(f.kind, Remember(keep, p), p)
        BY <1>2, PictureMade
    <2>2. Remember(keep, p) = LastThree(t)
        BY <1>2, RememberLast
    <2>3. Len(LastThree(t)) < KeptPictures <=> k < 2
        <3>1. Len(LastThree(t)) = IF Len(t) <= 3 THEN Len(t) ELSE 3
            BY <1>1, LastThreeIs
        <3> QED
            BY <1>1, <3>1 DEF KeptPictures
    <2>4. q = IF k < 2 THEN t[k] ELSE PerValue(f.kind, LastThree(t))
        BY <1>1, <2>1, <2>2, <2>3 DEF Oldest
    <2> HIDE DEF q
    <2>5. Makes(list, seen, i, k, q)
        <3>1. seen[i] \in Seq(Pictures) /\ Len(seen[i]) = k
            BY <1>1
        <3>2. q = IF k < 2 THEN seen[i][k] ELSE PerValue(list[i].kind, LastThree(seen[i]))
            BY <2>4
        <3>3. list[i].kind \in {"average", "median"}
            BY <1>2
        <3> QED
            BY <3>1, <3>2, <3>3, KeptMakes
    <2> QED
        BY <2>5 DEF q
<1>3. CASE f.kind = "motion"
    <2>1. q = IF before = NoPicture THEN p ELSE MotionOnly(p, IF keep = <<>> THEN Malloced ELSE keep[1])
        BY <1>3, PictureMade
    <2>2. keep = IF k <= 2 THEN <<>> ELSE <<s[k - 1]>>
        BY <1>3
    <2>3. (IF keep = <<>> THEN Malloced ELSE keep[1]) = IF k <= 2 THEN Malloced ELSE s[k - 1]
        <3> DEFINE v == s[k - 1]
        <3>1. keep = IF k <= 2 THEN <<>> ELSE <<v>>
            BY <2>2
        <3> HIDE DEF v
        <3>2. <<v>> # <<>> /\ <<v>>[1] = v
            OBVIOUS
        <3>3. (IF keep = <<>> THEN Malloced ELSE keep[1]) = IF k <= 2 THEN Malloced ELSE v
            BY <3>1, <3>2
        <3> QED
            BY <3>3 DEF v
    <2>4. before = NoPicture <=> k = 1
        OBVIOUS
    <2> HIDE DEF q
    <2>5. k > 2 => s[k - 1] = t[k - 1]
        <3>1. k > 2 => k - 1 \in 1 .. k - 1
            OBVIOUS
        <3> QED
            BY <1>1, <3>1
    <2>6. q = IF k = 1 THEN t[k] ELSE MotionOnly(t[k], IF k = 2 THEN Malloced ELSE t[k - 1])
        <3>1. CASE k = 1
            BY <1>1, <2>1, <2>4, <3>1
        <3>2. CASE k = 2
            <4>1. q = MotionOnly(p, Malloced)
                BY <2>1, <2>3, <2>4, <3>2
            <4> QED
                BY <1>1, <3>2, <4>1
        <3>3. CASE k > 2
            <4>1. q = MotionOnly(p, s[k - 1])
                BY <2>1, <2>3, <2>4, <3>3
            <4> QED
                BY <1>1, <2>5, <3>3, <4>1
        <3> QED
            BY <3>1, <3>2, <3>3
    <2>7. Makes(list, seen, i, k, q)
        BY <1>3, <2>6, MotionMakes
    <2> QED
        BY <2>7 DEF q
<1>4. CASE f.kind = "contrast"
    <2>1. q = Contrasted(t[k])
        BY <1>1, <1>4, PictureMade
    <2> HIDE DEF q
    <2>2. Makes(list, seen, i, k, q)
        BY <1>1, <1>4, <2>1, ContrastMakes
    <2> QED
        BY <2>2 DEF q
<1>5. CASE f.kind = "copy"
    <2>1. q = t[k]
        BY <1>1, <1>5, PictureMade
    <2> HIDE DEF q
    <2>2. Makes(list, seen, i, k, q)
        BY <1>5, <2>1, CopyMakes
    <2> QED
        BY <2>2 DEF q
<1>6. CASE f.kind = "bitmap"
    <2>1. q = IF bits = NoPicture THEN t[k] ELSE PutBitmap(f, t[k], bits)
        BY <1>1, <1>6, PictureMade
    <2> HIDE DEF q
    <2>2. Makes(list, seen, i, k, q)
        BY <1>6, <2>1, BitmapMakes
    <2> QED
        BY <2>2 DEF q
<1>7. CASE f.kind \in Markers
    <2>1. q = IF before = NoPicture THEN t[k] ELSE Marked(f.kind, t[k], before)
        BY <1>1, <1>7, MarkMade
    <2> HIDE DEF q
    <2>2. Makes(list, seen, i, k, q)
        BY <1>7, <2>1, MarkerMakes
    <2> QED
        BY <2>2 DEF q
<1>8. CASE f.kind \in {"mask", "soft-mask", "draw", "overlay"}
    <2>1. Makes(list, seen, i, k, Apply(list[i], seen[i][k], keep, before, bits).picture)
        BY <1>8, PaintMakes
    <2>2. seen[i][k] = p
        BY <1>1
    <2> QED
        BY <2>1, <2>2
<1> QED
    BY <1>2, <1>3, <1>4, <1>5, <1>6, <1>7, <1>8 DEF FilterKinds, Keepers

LEMMA AverageKeeps ==
    ASSUME NEW f, f.kind = "average" \/ f.kind = "median",
           NEW s \in Seq(Pictures), NEW p \in Pictures, NEW before, NEW bits
    PROVE  Apply(f, p, LastThree(s), before, bits).keep = LastThree(Append(s, p))
<1>1. Apply(f, p, LastThree(s), before, bits).keep = Remember(LastThree(s), p)
    BY AverageKept
<1>2. Remember(LastThree(s), p) = LastThree(Append(s, p))
    BY RememberLast
<1> QED
    BY <1>1, <1>2

LEMMA MotionKeeps ==
    ASSUME NEW f, f.kind = "motion",
           NEW s \in Seq(Pictures), NEW p \in Pictures, NEW keep,
           Len(s) = 0 => keep = <<>>,
           NEW before, before = NoPicture <=> Len(s) = 0, NEW bits
    PROVE  Apply(f, p, keep, before, bits).keep = IF Len(s) = 0 THEN <<>> ELSE <<p>>
<1>1. Apply(f, p, keep, before, bits).keep = IF before = NoPicture THEN keep ELSE <<p>>
    BY MotionKept
<1> QED
    BY <1>1

-----------------------------------------------------------------------------
(* Memory outside of the pictures.                                         *)

LEMMA SpotInside ==
    ASSUME NEW f, NEW o \in BoxPlaces, FromEnd(f.x, Columns) \in Int, FromEnd(f.y, Rows) \in Int,
           0 <= FromEnd(f.x, Columns), FromEnd(f.x, Columns) + (o % Box) < Columns,
           0 <= FromEnd(f.y, Rows), FromEnd(f.y, Rows) + (o \div Box) < Rows
    PROVE  Spot(f, o) \in Places
<1> DEFINE x == FromEnd(f.x, Columns)
           y == FromEnd(f.y, Rows)
           a == o % Box
           b == o \div Box
<1>1. a \in Nat /\ b \in Nat
    BY DEF BoxPlaces, Box
<1>2. x \in Int /\ y \in Int /\ 0 <= x /\ 0 <= y /\ x + a < Columns /\ y + b < Rows
    OBVIOUS
<1>3. Spot(f, o) = PlaceOf(x + a, y + b)
    BY DEF Spot
<1> HIDE DEF x, y, a, b
<1>4. x + a \in 0 .. Columns - 1 /\ y + b \in 0 .. Rows - 1
    BY <1>1, <1>2, SizeIs
<1> QED
    BY <1>3, <1>4, PlaceMade

LEMMA OutsideIs ==
    ASSUME NEW f, f.kind \in FilterKinds \ NewPicture, f.x \in Int, f.y \in Int,
           NEW p, NEW keep, NEW before, NEW bits, Apply(f, p, keep, before, bits).outside
    PROVE  StartsOutside(f)
<1> DEFINE x == f.x
           y == f.y
           fx == FromEnd(f.x, Columns)
           fy == FromEnd(f.y, Rows)
<1>s. Columns \in Nat \ {0} /\ Rows \in Nat \ {0}
    BY SizeIs
<1>xy. x \in Int /\ y \in Int
    OBVIOUS
<1>fxy. fx = (IF x < 0 THEN x + Columns ELSE x) /\ fy = (IF y < 0 THEN y + Rows ELSE y)
    BY DEF FromEnd
<1>o. \A o \in BoxPlaces : o % Box \in 0 .. 1 /\ o \div Box \in 0 .. 1
    BY DEF BoxPlaces, Box
<1>1. CASE f.kind = "draw" /\ ~DrawnPlaces(f) \subseteq Places
    <2> SUFFICES ASSUME ~(x < -2), ~(y < -2) PROVE FALSE
        BY <1>1 DEF StartsOutside, Box
    <2> DEFINE x0 == IF x < 0 THEN x + 2 ELSE x
               y0 == IF y < 0 THEN y + 2 ELSE y
    <2>1. x0 \in Nat /\ y0 \in Nat
        BY <1>xy
    <2>2. DrawnPlaces(f) = {PlaceOf(m, n) : m \in AtMost(x0, Columns) .. AtMost(x0 + 2, Columns) - 1,
                                             n \in AtMost(y0, Rows) .. AtMost(y0 + 2, Rows) - 1}
        BY DEF DrawnPlaces, Box
    <2> HIDE DEF x0, y0
    <2>3. \A m \in AtMost(x0, Columns) .. AtMost(x0 + 2, Columns) - 1 : m \in 0 .. Columns - 1
        BY <1>s, <2>1 DEF AtMost
    <2>4. \A n \in AtMost(y0, Rows) .. AtMost(y0 + 2, Rows) - 1 : n \in 0 .. Rows - 1
        BY <1>s, <2>1 DEF AtMost
    <2>5. DrawnPlaces(f) \subseteq Places
        BY <2>2, <2>3, <2>4, PlaceMade
    <2> QED
        BY <1>1, <2>5
<1>2. CASE f.kind = "overlay" /\ ~Overlaid(f) \subseteq Places
    <2> SUFFICES ASSUME ~(x < 0), ~(y < 0) PROVE FALSE
        BY <1>2 DEF StartsOutside
    <2>1. Overlaid(f) = {PlaceOf(x + m, y + n) : m \in 0 .. AtMost(Columns - x, AtMost(2, Columns)) - 1,
                                                  n \in 0 .. AtMost(Rows - y, AtMost(2, Rows)) - 1}
        BY DEF Overlaid, Box
    <2> HIDE DEF x, y
    <2>2. \A m \in 0 .. AtMost(Columns - x, AtMost(2, Columns)) - 1 : x + m \in 0 .. Columns - 1
        BY <1>s, <1>xy DEF AtMost
    <2>3. \A n \in 0 .. AtMost(Rows - y, AtMost(2, Rows)) - 1 : y + n \in 0 .. Rows - 1
        BY <1>s, <1>xy DEF AtMost
    <2>4. Overlaid(f) \subseteq Places
        BY <2>1, <2>2, <2>3, PlaceMade
    <2> QED
        BY <1>2, <2>4
<1>3. CASE f.kind = "copy" /\ \E o \in BoxPlaces : Spot(f, o) \notin Places
    <2> SUFFICES ASSUME fx \in 0 .. Columns - 2, fy \in 0 .. Rows - 2 PROVE FALSE
        BY <1>3 DEF StartsOutside, Box
    <2> HIDE DEF fx, fy
    <2>1. ASSUME NEW o \in BoxPlaces PROVE Spot(f, o) \in Places
        <3>1. o % Box \in 0 .. 1 /\ o \div Box \in 0 .. 1
            BY <1>o
        <3>2. fx \in Int /\ fy \in Int /\ 0 <= fx /\ fx + (o % Box) < Columns /\ 0 <= fy /\ fy + (o \div Box) < Rows
            BY <1>s, <3>1
        <3> QED
            BY <3>2, SpotInside DEF fx, fy
    <2> QED
        BY <1>3, <2>1
<1>4. CASE f.kind = "bitmap" /\ (PutTooFar(f) \/ \E o \in PutPlaces(f) : Spot(f, o) \notin Places)
    <2> SUFFICES ASSUME ~(x < -Columns), ~(y < -Rows), ~(x > Columns) PROVE FALSE
        BY <1>4 DEF StartsOutside
    <2> HIDE DEF fx, fy
    <2>1. fx \in Int /\ fy \in Int /\ 0 <= fx /\ fx <= Columns /\ 0 <= fy
        BY <1>s, <1>xy, <1>fxy
    <2>2. ~PutTooFar(f)
        BY <1>s, <2>1 DEF PutTooFar, fx
    <2>3. ASSUME NEW o \in PutPlaces(f) PROVE Spot(f, o) \in Places
        <3>1. o \in BoxPlaces /\ o % Box < Columns - fx /\ o \div Box < Rows - fy
            BY DEF PutPlaces, fx, fy
        <3>2. o % Box \in 0 .. 1 /\ o \div Box \in 0 .. 1
            BY <1>o, <3>1
        <3>3. fx + (o % Box) < Columns /\ fy + (o \div Box) < Rows
            BY <1>s, <2>1, <3>1, <3>2
        <3> QED
            BY <2>1, <3>1, <3>3, SpotInside DEF fx, fy
    <2> QED
        BY <1>4, <2>2, <2>3
<1> QED
    BY <1>1, <1>2, <1>3, <1>4, OutsideMade

-----------------------------------------------------------------------------
(* The filters before one.                                                 *)

FilterRecords == [kind : FilterKinds, x : Int, y : Int]

LEMMA NewBefore ==
    ASSUME NEW list, NEW a \in Nat \ {0}
    PROVE  /\ LastNew(list, 1) = {}
           /\ \A j \in LastNew(list, a) : j \in 1 .. a - 1
           /\ list[a].kind \in NewPicture => LastNew(list, a + 1) = {a}
           /\ list[a].kind \notin NewPicture => LastNew(list, a + 1) = LastNew(list, a)
<1>1. LastNew(list, 1) = {}
    BY DEF LastNew
<1>2. \A j \in LastNew(list, a) : j \in 1 .. a - 1
    BY DEF LastNew
<1>3. \A j : j \in LastNew(list, a + 1) <=>
           j \in 1 .. a /\ list[j].kind \in NewPicture /\ \A m \in j + 1 .. a : list[m].kind \notin NewPicture
    BY DEF LastNew
<1>4. ASSUME list[a].kind \in NewPicture PROVE LastNew(list, a + 1) = {a}
    <2>1. a \in LastNew(list, a + 1)
        BY <1>3, <1>4
    <2>2. ASSUME NEW j \in LastNew(list, a + 1) PROVE j = a
        <3>1. j \in 1 .. a /\ \A m \in j + 1 .. a : list[m].kind \notin NewPicture
            BY <1>3
        <3>2. j # a => a \in j + 1 .. a
            BY <3>1
        <3> QED
            BY <1>4, <3>1, <3>2
    <2> QED
        BY <2>1, <2>2
<1>5. ASSUME list[a].kind \notin NewPicture PROVE LastNew(list, a + 1) = LastNew(list, a)
    <2>1. \A j : j \in LastNew(list, a) <=>
               j \in 1 .. a - 1 /\ list[j].kind \in NewPicture /\ \A m \in j + 1 .. a - 1 : list[m].kind \notin NewPicture
        BY DEF LastNew
    <2>2. ASSUME NEW j PROVE j \in LastNew(list, a + 1) <=> j \in LastNew(list, a)
        <3>1. j \in 1 .. a /\ list[j].kind \in NewPicture => j \in 1 .. a - 1
            BY <1>5
        <3>2. ASSUME j \in 1 .. a - 1
              PROVE  (\A m \in j + 1 .. a : list[m].kind \notin NewPicture)
                        <=> \A m \in j + 1 .. a - 1 : list[m].kind \notin NewPicture
            <4>1. \A m \in j + 1 .. a : m \in j + 1 .. a - 1 \/ m = a
                BY <3>2
            <4>2. \A m \in j + 1 .. a - 1 : m \in j + 1 .. a
                BY <3>2
            <4> QED
                BY <1>5, <4>1, <4>2
        <3>3. j \in 1 .. a - 1 => j \in 1 .. a
            OBVIOUS
        <3> QED
            BY <1>3, <2>1, <3>1, <3>2, <3>3
    <2> QED
        BY <2>2
<1> QED
    BY <1>1, <1>2, <1>4, <1>5

LEMMA MaxIs ==
    ASSUME NEW n \in Nat, NEW S, S \subseteq 1 .. n, S # {}
    PROVE  Max(S) \in S /\ \A x \in S : x <= Max(S)
<1> DEFINE T == {m \in Nat : \A x \in S : x <= m}
<1>1. T \subseteq Nat /\ n \in T
    OBVIOUS
<1> HIDE DEF T
<1>2. PICK m \in T : \A y \in T : m <= y
    BY <1>1, LeastNatural
<1>3. m \in Nat /\ \A x \in S : x <= m
    BY <1>2 DEF T
<1>4. m \in S
    <2> SUFFICES ASSUME m \notin S PROVE FALSE
        OBVIOUS
    <2>1. \A x \in S : x \in Nat /\ x > 0 /\ x <= m /\ x # m
        BY <1>3
    <2>2. PICK x \in S : TRUE
        OBVIOUS
    <2>3. m - 1 \in Nat /\ \A y \in S : y <= m - 1
        BY <1>3, <2>1, <2>2
    <2>4. m - 1 \in T
        BY <2>3 DEF T
    <2> QED
        BY <1>2, <1>3, <2>4
<1>5. \A x \in S : m >= x
    BY <1>3
<1>6. Max(S) = m
    <2>1. S \subseteq Int
        OBVIOUS
    <2> QED
        BY <1>4, <1>5, <2>1, GreatestOfAll
<1> QED
    BY <1>3, <1>4, <1>6

LEMMA CopiesAre ==
    ASSUME NEW list \in Seq(FilterRecords)
    PROVE  Copies(list) \subseteq 1 .. Len(list) /\ Len(list) \in Nat
           /\ \A j \in 1 .. Len(list) : j \in Copies(list) <=> list[j].kind = "copy"
BY LenProperties DEF Copies

LEMMA CopyBefore ==
    ASSUME NEW list \in Seq(FilterRecords), NEW i \in Nat, NEW k \in Nat \ {0}, NEW c \in CopyFor(list, i, k)
    PROVE  /\ c[1] \in 1 .. Len(list) /\ list[c[1]].kind = "copy"
           /\ \/ c[1] < i /\ c[2] = k
              \/ c[2] = k - 1 /\ k > 1
<1> DEFINE S == {j \in Copies(list) : j < i}
<1>1. Copies(list) \subseteq 1 .. Len(list) /\ Len(list) \in Nat
      /\ \A j \in 1 .. Len(list) : j \in Copies(list) <=> list[j].kind = "copy"
    BY CopiesAre
<1>2. CopyFor(list, i, k) = IF S # {} THEN {<<Max(S), k>>}
                            ELSE IF k > 1 /\ Copies(list) # {} THEN {<<Max(Copies(list)), k - 1>>} ELSE {}
    BY DEF CopyFor
<1>3. \A j \in S : j \in Copies(list) /\ j < i
    OBVIOUS
<1> HIDE DEF S
<1>4. CASE S # {}
    <2> DEFINE m == Max(S)
    <2>1. c = <<m, k>>
        BY <1>2, <1>4
    <2>2. m \in S
        BY <1>1, <1>3, <1>4, MaxIs
    <2> HIDE DEF m
    <2>3. c[1] = m /\ c[2] = k
        BY <2>1
    <2> QED
        BY <1>1, <1>3, <2>2, <2>3
<1>5. CASE S = {}
    <2> DEFINE m == Max(Copies(list))
    <2>1. c = <<m, k - 1>> /\ k > 1 /\ Copies(list) # {}
        BY <1>2, <1>5
    <2>2. m \in Copies(list)
        BY <1>1, <2>1, MaxIs
    <2> HIDE DEF m
    <2>3. c[1] = m /\ c[2] = k - 1
        BY <2>1
    <2> QED
        BY <1>1, <2>1, <2>2, <2>3
<1> QED
    BY <1>4, <1>5

LEMMA CopyAfter ==
    ASSUME NEW list \in Seq(FilterRecords), NEW k \in Nat \ {0}
    PROVE  /\ CopyFor(list, 1, 1) = {}
           /\ CopyFor(list, 1, k + 1) = CopyFor(list, Len(list) + 1, k)
           /\ \A a \in 1 .. Len(list) :
                 CopyFor(list, a + 1, k) = IF list[a].kind = "copy" THEN {<<a, k>>} ELSE CopyFor(list, a, k)
<1> DEFINE C == Copies(list)
           S(i) == {j \in C : j < i}
<1>1. C \subseteq 1 .. Len(list) /\ Len(list) \in Nat
      /\ \A j \in 1 .. Len(list) : j \in C <=> list[j].kind = "copy"
    BY CopiesAre
<1>2. \A i, h : CopyFor(list, i, h) = IF S(i) # {} THEN {<<Max(S(i)), h>>}
                                      ELSE IF h > 1 /\ C # {} THEN {<<Max(C), h - 1>>} ELSE {}
    BY DEF CopyFor
<1> HIDE DEF C
<1>3. \A i, j : j \in S(i) <=> j \in C /\ j < i
    OBVIOUS
<1> HIDE DEF S
<1>s. S(1) = {} /\ S(Len(list) + 1) = C
    <2>1. \A j \in C : ~(j < 1) /\ j < Len(list) + 1
        BY <1>1
    <2>2. \A j : j \notin S(1)
        BY <1>3, <2>1
    <2>3. \A j : j \in S(Len(list) + 1) <=> j \in C
        BY <1>3, <2>1
    <2> QED
        BY <2>2, <2>3
<1>4. ASSUME NEW a \in 1 .. Len(list)
      PROVE  CopyFor(list, a + 1, k) = IF list[a].kind = "copy" THEN {<<a, k>>} ELSE CopyFor(list, a, k)
    <2>1. CASE list[a].kind = "copy"
        <3>1. a \in C
            BY <1>1, <2>1
        <3>2. a \in S(a + 1) /\ S(a + 1) \subseteq Int /\ \A j \in S(a + 1) : a >= j
            <4>1. \A j \in C : j \in Nat
                BY <1>1
            <4>2. a < a + 1 /\ \A j \in Nat : j < a + 1 => a >= j
                OBVIOUS
            <4>3. a \in S(a + 1)
                BY <1>3, <3>1, <4>2
            <4>4. ASSUME NEW j \in S(a + 1) PROVE j \in Int /\ a >= j
                <5>1. j \in C /\ j < a + 1
                    BY <1>3
                <5> QED
                    BY <4>1, <5>1
            <4> QED
                BY <4>3, <4>4
        <3>3. Max(S(a + 1)) = a /\ S(a + 1) # {}
            BY <3>2, GreatestOfAll
        <3> QED
            BY <1>2, <2>1, <3>3
    <2>2. CASE list[a].kind # "copy"
        <3>1. a \notin C
            BY <1>1, <2>2
        <3>2. S(a + 1) = S(a)
            <4>1. \A j \in C : j < a + 1 <=> j < a
                BY <1>1, <3>1
            <4>2. \A j : j \in S(a + 1) <=> j \in S(a)
                BY <1>3, <4>1
            <4> QED
                BY <4>2
        <3>3. CopyFor(list, a + 1, k) = IF S(a + 1) # {} THEN {<<Max(S(a + 1)), k>>}
                                        ELSE IF k > 1 /\ C # {} THEN {<<Max(C), k - 1>>} ELSE {}
            BY <1>2
        <3>4. CopyFor(list, a, k) = IF S(a) # {} THEN {<<Max(S(a)), k>>}
                                    ELSE IF k > 1 /\ C # {} THEN {<<Max(C), k - 1>>} ELSE {}
            BY <1>2
        <3>5. CopyFor(list, a + 1, k) = CopyFor(list, a, k)
            BY <3>2, <3>3, <3>4, Zenon
        <3> QED
            BY <2>2, <3>5
    <2> QED
        BY <2>1, <2>2
<1>5. CopyFor(list, 1, 1) = {}
    BY <1>2, <1>s
<1>6. CopyFor(list, 1, k + 1) = IF C # {} THEN {<<Max(C), k>>} ELSE {}
    <2>1. k + 1 > 1 /\ (k + 1) - 1 = k
        OBVIOUS
    <2> QED
        BY <1>2, <1>s, <2>1
<1>7. CopyFor(list, Len(list) + 1, k) = IF C # {} THEN {<<Max(C), k>>} ELSE {}
    BY <1>2, <1>s
<1> QED
    BY <1>4, <1>5, <1>6, <1>7

-----------------------------------------------------------------------------
(* What a filter made stays right when filters get more pictures.          *)

LEMMA MakesStays ==
    ASSUME NEW list \in Seq(FilterRecords),
           NEW seen \in [1 .. Len(list) + 1 -> Seq(Pictures)], NEW more \in [1 .. Len(list) + 1 -> Seq(Pictures)],
           \A j \in 1 .. Len(list) + 1 : \A m \in 1 .. Len(seen[j]) : more[j][m] = seen[j][m],
           NEW i \in 1 .. Len(list), NEW k \in Nat \ {0},
           \A j \in 1 .. i : Len(seen[j]) >= k,
           \A j \in 1 .. Len(list) + 1 : Len(seen[j]) >= k - 1,
           NEW q, Makes(list, seen, i, k, q)
    PROVE  Makes(list, more, i, k, q)
<1>1. Len(list) \in Nat /\ Len(list) + 1 \in Nat /\ i \in Nat \ {0} /\ i <= Len(list)
    BY LenProperties
<1>2. \A j \in 1 .. Len(list) + 1 : Len(seen[j]) \in Nat
    <2>1. \A j \in 1 .. Len(list) + 1 : seen[j] \in Seq(Pictures)
        OBVIOUS
    <2> QED
        BY <2>1, LenProperties
<1>3. Len(seen) = Len(list) + 1 /\ Len(more) = Len(list) + 1
    BY <1>1, SeqOfFunction
<1>4. \A j \in 1 .. i : more[j][k] = seen[j][k]
    <2> SUFFICES ASSUME NEW j \in 1 .. i PROVE more[j][k] = seen[j][k]
        OBVIOUS
    <2>1. j \in 1 .. Len(list) + 1 /\ Len(seen[j]) >= k
        BY <1>1
    <2>2. k \in 1 .. Len(seen[j])
        BY <1>2, <2>1
    <2> QED
        BY <2>1, <2>2
<1>5. k > 1 => \A j \in 1 .. Len(list) + 1 : more[j][k - 1] = seen[j][k - 1]
    <2> SUFFICES ASSUME k > 1, NEW j \in 1 .. Len(list) + 1 PROVE more[j][k - 1] = seen[j][k - 1]
        OBVIOUS
    <2>1. k - 1 \in 1 .. Len(seen[j])
        BY <1>2
    <2> QED
        BY <2>1
<1>6. more[i][k] = seen[i][k] /\ (k > 1 => more[i][k - 1] = seen[i][k - 1])
    BY <1>1, <1>4, <1>5
<1>7. k >= 2 => Window(more[i], k) = Window(seen[i], k)
    <2> SUFFICES ASSUME k >= 2 PROVE Window(more[i], k) = Window(seen[i], k)
        OBVIOUS
    <2> DEFINE y(n) == IF k = KeptPictures THEN n ELSE k - KeptPictures + n - 1
    <2>1. ASSUME NEW n \in 1 .. KeptPictures PROVE more[i][y(n)] = seen[i][y(n)]
        <3>1. y(n) \in 1 .. k
            BY DEF KeptPictures
        <3> HIDE DEF y
        <3>2. i \in 1 .. Len(list) + 1 /\ Len(seen[i]) >= k
            BY <1>1
        <3>3. y(n) \in 1 .. Len(seen[i])
            BY <1>2, <3>1, <3>2
        <3> QED
            BY <3>2, <3>3
    <2>2. Window(more[i], k) = [n \in 1 .. KeptPictures |-> more[i][y(n)]]
        BY DEF Window
    <2>3. Window(seen[i], k) = [n \in 1 .. KeptPictures |-> seen[i][y(n)]]
        BY DEF Window
    <2> HIDE DEF y
    <2> QED
        BY <2>1, <2>2, <2>3
<1>8. \A j \in LastNew(list, i) : more[j][k] = seen[j][k]
    <2>1. \A j \in LastNew(list, i) : j \in 1 .. i
        BY <1>1, NewBefore
    <2> QED
        BY <1>4, <2>1
<1>9. \A c \in CopyFor(list, i, k) : more[c[1]][c[2]] = seen[c[1]][c[2]]
    <2> SUFFICES ASSUME NEW c \in CopyFor(list, i, k) PROVE more[c[1]][c[2]] = seen[c[1]][c[2]]
        OBVIOUS
    <2>1. /\ c[1] \in 1 .. Len(list)
          /\ \/ c[1] < i /\ c[2] = k
             \/ c[2] = k - 1 /\ k > 1
        <3>1. i \in Nat
            BY <1>1
        <3> QED
            BY <3>1, CopyBefore
    <2>2. c[1] \in 1 .. Len(list) + 1 /\ (c[1] < i => c[1] \in 1 .. i)
        BY <1>1, <2>1
    <2>3. CASE c[1] < i /\ c[2] = k
        BY <1>4, <2>2, <2>3
    <2>4. CASE c[2] = k - 1 /\ k > 1
        BY <1>5, <2>2, <2>4
    <2> QED
        BY <2>1, <2>3, <2>4
<1>10. k > 1 => more[Len(more)][k - 1] = seen[Len(seen)][k - 1]
    <2> SUFFICES ASSUME k > 1 PROVE more[Len(more)][k - 1] = seen[Len(seen)][k - 1]
        OBVIOUS
    <2> DEFINE n == Len(list) + 1
               a == Len(more)
               b == Len(seen)
               m == k - 1
    <2>1. n \in 1 .. n
        BY <1>1
    <2>2. more[n][m] = seen[n][m]
        BY <1>5, <2>1
    <2>3. a = n /\ b = n
        BY <1>3
    <2> HIDE DEF n, a, b, m
    <2>4. more[a][m] = seen[b][m]
        BY <2>2, <2>3
    <2> QED
        BY <2>4 DEF a, b, m
<1>11. list[i].kind \in FilterKinds
    <2>1. list[i] \in FilterRecords
        OBVIOUS
    <2> QED
        BY <2>1 DEF FilterRecords
<1>12. CASE list[i].kind = "average"
    BY <1>6, <1>7, <1>12 DEF Makes, NewPicture, Markers, KeptPictures
<1>13. CASE list[i].kind = "median"
    BY <1>6, <1>7, <1>13 DEF Makes, NewPicture, Markers, KeptPictures
<1>14. CASE list[i].kind = "motion"
    BY <1>6, <1>14 DEF Makes, NewPicture, Markers
<1>15. CASE list[i].kind = "noise"
    BY <1>6, <1>8, <1>15 DEF Makes, NewPicture, Markers
<1>16. CASE list[i].kind = "contrast"
    BY <1>6, <1>16 DEF Makes, NewPicture, Markers
<1>17. CASE list[i].kind = "copy"
    BY <1>6, <1>17 DEF Makes, NewPicture, Markers
<1>18. CASE list[i].kind = "bitmap"
    BY <1>6, <1>9, <1>18 DEF Makes, NewPicture, Markers
<1>19. CASE list[i].kind \in NewPicture \ {"noise"}
    BY <1>6, <1>19 DEF Makes, NewPicture, Markers
<1>20. CASE list[i].kind \in Markers
    BY <1>6, <1>10, <1>20 DEF Makes, NewPicture, Markers
<1>21. CASE list[i].kind \in {"mask", "soft-mask", "draw", "overlay"}
    BY <1>6, <1>21 DEF Makes, NewPicture, Markers
<1> QED
    BY <1>11, <1>12, <1>13, <1>14, <1>15, <1>16, <1>17, <1>18, <1>19, <1>20, <1>21 DEF FilterKinds, Keepers

-----------------------------------------------------------------------------
(* A filter gets one more picture.                                         *)

LEMMA Grown ==
    ASSUME NEW n \in Nat, NEW seen \in [1 .. n -> Seq(Pictures)], NEW a \in 1 .. n, NEW p \in Pictures,
           NEW more, more = [seen EXCEPT ![a] = Append(@, p)]
    PROVE  /\ more \in [1 .. n -> Seq(Pictures)]
           /\ more[a] = Append(seen[a], p)
           /\ \A j \in 1 .. n : j # a => more[j] = seen[j]
           /\ \A j \in 1 .. n : Len(more[j]) = IF j = a THEN Len(seen[a]) + 1 ELSE Len(seen[j])
           /\ more[a][Len(seen[a]) + 1] = p
           /\ \A j \in 1 .. n : \A m \in 1 .. Len(seen[j]) : more[j][m] = seen[j][m]
<1>1. seen[a] \in Seq(Pictures)
    OBVIOUS
<1>2. /\ Append(seen[a], p) \in Seq(Pictures)
      /\ Len(Append(seen[a], p)) = Len(seen[a]) + 1
      /\ Append(seen[a], p)[Len(seen[a]) + 1] = p
      /\ \A m \in 1 .. Len(seen[a]) : Append(seen[a], p)[m] = seen[a][m]
    BY <1>1, AppendProperties
<1>3. more[a] = Append(seen[a], p) /\ (\A j \in 1 .. n : j # a => more[j] = seen[j])
    OBVIOUS
<1>4. more \in [1 .. n -> Seq(Pictures)]
    BY <1>2
<1>5. \A j \in 1 .. n : Len(more[j]) = IF j = a THEN Len(seen[a]) + 1 ELSE Len(seen[j])
    BY <1>2, <1>3
<1>6. \A j \in 1 .. n : \A m \in 1 .. Len(seen[j]) : more[j][m] = seen[j][m]
    BY <1>2, <1>3
<1> QED
    BY <1>2, <1>3, <1>4, <1>5, <1>6

\* What holds of the pictures of list when filter a, or what is behind the last one, gets
\* its k-th one.
Ready(list, seen, a, k) ==
    /\ list \in Seq(FilterRecords)
    /\ seen \in [1 .. Len(list) + 1 -> Seq(Pictures)]
    /\ a \in 1 .. Len(list) + 1
    /\ k \in Nat \ {0}
    /\ \A j \in 1 .. Len(list) + 1 : Len(seen[j]) = IF j < a THEN k ELSE k - 1

LEMMA ReadySeen ==
    ASSUME NEW list, NEW seen, NEW a, NEW k, Ready(list, seen, a, k)
    PROVE  /\ Len(list) \in Nat /\ Len(list) + 1 \in Nat
           /\ \A j \in LastNew(list, a) : j \in 1 .. a - 1 /\ k \in 1 .. Len(seen[j]) /\ seen[j][k] \in Pictures
           /\ a <= Len(list) => \A c \in CopyFor(list, a, k) :
                 c[1] \in 1 .. Len(list) /\ c[2] \in 1 .. Len(seen[c[1]]) /\ seen[c[1]][c[2]] \in Pictures
           /\ \A c \in CopyFor(list, Len(list) + 1, k) : a = Len(list) + 1 =>
                 c[1] \in 1 .. Len(list) /\ c[2] \in 1 .. Len(seen[c[1]]) /\ seen[c[1]][c[2]] \in Pictures
<1> USE DEF Ready
<1>1. Len(list) \in Nat /\ Len(list) + 1 \in Nat /\ a \in Nat \ {0} /\ k \in Nat \ {0}
    BY LenProperties
<1>2. ASSUME NEW j \in 1 .. Len(list) + 1, NEW m \in 1 .. Len(seen[j]) PROVE seen[j][m] \in Pictures
    <2>1. seen[j] \in Seq(Pictures)
        OBVIOUS
    <2> QED
        BY <2>1
<1>3. ASSUME NEW j \in LastNew(list, a)
      PROVE  j \in 1 .. a - 1 /\ k \in 1 .. Len(seen[j]) /\ seen[j][k] \in Pictures
    <2>1. j \in 1 .. a - 1
        BY <1>1, NewBefore
    <2>2. j \in 1 .. Len(list) + 1 /\ Len(seen[j]) = k
        BY <1>1, <2>1
    <2>3. k \in 1 .. Len(seen[j])
        BY <1>1, <2>2
    <2> QED
        BY <1>2, <2>1, <2>2, <2>3
<1>4. ASSUME NEW c \in CopyFor(list, a, k)
      PROVE  c[1] \in 1 .. Len(list) /\ c[2] \in 1 .. Len(seen[c[1]]) /\ seen[c[1]][c[2]] \in Pictures
    <2>1. c[1] \in 1 .. Len(list) /\ ((c[1] < a /\ c[2] = k) \/ (c[2] = k - 1 /\ k > 1))
        <3>1. list \in Seq(FilterRecords) /\ a \in Nat
            BY <1>1
        <3> QED
            BY <1>1, <3>1, CopyBefore
    <2>2. c[1] \in 1 .. Len(list) + 1
        BY <1>1, <2>1
    <2>3. Len(seen[c[1]]) = IF c[1] < a THEN k ELSE k - 1
        BY <2>2
    <2>4. c[2] \in 1 .. Len(seen[c[1]])
        BY <1>1, <2>1, <2>3
    <2> QED
        BY <1>2, <2>1, <2>2, <2>4
<1> QED
    BY <1>1, <1>3, <1>4

LEMMA MadeStays ==
    ASSUME NEW list, NEW seen, NEW a, NEW k, Ready(list, seen, a, k), NEW p \in Pictures,
           \A i \in 1 .. Len(list) : \A m \in 1 .. Len(seen[i + 1]) : Makes(list, seen, i, m, seen[i + 1][m]),
           a > 1 => Makes(list, seen, a - 1, k, p),
           NEW more, more = [seen EXCEPT ![a] = Append(@, p)]
    PROVE  \A i \in 1 .. Len(list) : \A m \in 1 .. Len(more[i + 1]) : Makes(list, more, i, m, more[i + 1][m])
<1> DEFINE n == Len(list) + 1
<1>1. /\ list \in Seq(FilterRecords) /\ Len(list) \in Nat /\ n \in Nat
      /\ seen \in [1 .. n -> Seq(Pictures)] /\ a \in 1 .. n /\ k \in Nat \ {0}
      /\ \A j \in 1 .. n : Len(seen[j]) = IF j < a THEN k ELSE k - 1
    BY LenProperties DEF Ready
<1>2. /\ more \in [1 .. n -> Seq(Pictures)]
      /\ \A j \in 1 .. n : j # a => more[j] = seen[j]
      /\ \A j \in 1 .. n : Len(more[j]) = IF j = a THEN Len(seen[a]) + 1 ELSE Len(seen[j])
      /\ more[a][Len(seen[a]) + 1] = p
      /\ \A j \in 1 .. n : \A m \in 1 .. Len(seen[j]) : more[j][m] = seen[j][m]
    BY <1>1, Grown
<1>3. ASSUME NEW i \in 1 .. Len(list), NEW m \in Nat \ {0}, m <= k, i < a \/ m < k,
             NEW q, Makes(list, seen, i, m, q)
      PROVE  Makes(list, more, i, m, q)
    <2>1. \A j \in 1 .. i : Len(seen[j]) >= m
        <3> SUFFICES ASSUME NEW j \in 1 .. i PROVE Len(seen[j]) >= m
            OBVIOUS
        <3>1. j \in 1 .. n /\ (i < a => j < a)
            BY <1>1
        <3>2. Len(seen[j]) = IF j < a THEN k ELSE k - 1
            BY <1>1, <3>1
        <3> QED
            BY <1>1, <1>3, <3>1, <3>2
    <2>2. \A j \in 1 .. n : Len(seen[j]) >= m - 1
        BY <1>1, <1>3
    <2> QED
        BY <1>1, <1>2, <1>3, <2>1, <2>2, MakesStays
<1>4. ASSUME NEW i \in 1 .. Len(list), NEW m \in 1 .. Len(more[i + 1])
      PROVE  Makes(list, more, i, m, more[i + 1][m])
    <2> DEFINE h == i + 1
    <2>1. h \in 1 .. n /\ h - 1 = i /\ i \in Nat
        BY <1>1
    <2>2. Len(seen[h]) = (IF h < a THEN k ELSE k - 1)
          /\ Len(more[h]) = IF h = a THEN Len(seen[h]) + 1 ELSE Len(seen[h])
        BY <1>1, <1>2, <2>1
    <2>3. m \in Nat \ {0} /\ m <= k /\ (i < a \/ m < k)
        BY <1>1, <2>1, <2>2
    <2>4. CASE m \in 1 .. Len(seen[h])
        <3>1. more[h][m] = seen[h][m]
            BY <1>2, <2>1, <2>4
        <3>2. Makes(list, seen, i, m, seen[h][m])
            BY <2>4
        <3>3. Makes(list, more, i, m, seen[h][m])
            BY <1>3, <2>3, <3>2
        <3> QED
            BY <3>1, <3>3
    <2>5. CASE m \notin 1 .. Len(seen[h])
        <3>1. h = a /\ m = k /\ Len(seen[a]) + 1 = m
            BY <1>1, <2>1, <2>2, <2>5
        <3>2. more[h][m] = p
            BY <1>2, <3>1
        <3>3. a > 1 /\ a - 1 = i
            BY <2>1, <3>1
        <3>4. Makes(list, seen, i, m, p)
            BY <3>1, <3>3
        <3>5. Makes(list, more, i, m, p)
            BY <1>3, <2>3, <3>4
        <3> QED
            BY <3>2, <3>5
    <2> QED
        BY <2>4, <2>5
<1> QED
    BY <1>4

-----------------------------------------------------------------------------
(* The invariant.                                                          *)

\* The invariant without what filters made, as the next picture finds it.
LEMMA InvReady ==
    ASSUME FilterInv
    PROVE  /\ Filters \in Nat /\ Filters + 1 \in 1 .. Filters + 1 /\ Filters = Len(chain.list)
           /\ Kth \in Nat \ {0} /\ DOMAIN inputs = 1 .. Filters + 1 /\ Len(inputs) = Filters + 1
           /\ chain.at \in 0 .. Filters + 1
           /\ chain.at # 0 => Ready(chain.list, inputs, chain.at, Kth)
           /\ chain.at # 0 => Current \in Pictures /\ Other \in Pictures
           /\ Kth > 1 => inputs[Filters + 1][Kth - 1] \in Pictures /\ Kth - 1 \in 1 .. Len(inputs[Filters + 1])
<1> DEFINE n == Filters + 1
<1>1. chain.list \in Seq(FilterRecords) /\ chain.at \in 0 .. n /\ inputs \in [1 .. n -> Seq(Pictures)]
    BY DEF FilterInv, FilterTypes, FilterRecords
<1>2. Filters \in Nat /\ Filters = Len(chain.list)
    BY <1>1, LenProperties DEF Filters
<1>3. n \in 1 .. n /\ n \in Nat /\ inputs[n] \in Seq(Pictures)
    BY <1>1, <1>2
<1>4. Len(inputs[n]) \in Nat /\ Kth = Len(inputs[n]) + 1
    BY <1>3, LenProperties DEF Kth
<1>5. Kth \in Nat \ {0}
    BY <1>4
<1>6. DOMAIN inputs = 1 .. n /\ Len(inputs) = n
    BY <1>1, <1>3, SeqOfFunction
<1>7. ASSUME Kth > 1 PROVE inputs[n][Kth - 1] \in Pictures /\ Kth - 1 \in 1 .. Len(inputs[n])
    <2>1. Kth - 1 \in 1 .. Len(inputs[n])
        BY <1>4, <1>7
    <2> QED
        BY <1>3, <2>1
<1>8. ASSUME chain.at # 0 PROVE Ready(chain.list, inputs, chain.at, Kth)
    <2>1. \A j \in 1 .. n : Len(inputs[j]) = IF j < chain.at THEN Kth ELSE Kth - 1
        BY <1>8 DEF FilterInv, PassInv
    <2>2. chain.at \in 1 .. n
        BY <1>1, <1>2, <1>8
    <2>3. Len(chain.list) + 1 = n
        BY <1>2
    <2> HIDE DEF n
    <2> QED
        BY <1>1, <1>5, <2>1, <2>2, <2>3 DEF Ready
<1>9. ASSUME chain.at # 0 PROVE Current \in Pictures /\ Other \in Pictures
    <2>1. /\ Current \in Pictures
          /\ LastNew(chain.list, chain.at) = {} => Other = Malloced
          /\ \A j \in LastNew(chain.list, chain.at) : Other = inputs[j][Kth]
        BY <1>9 DEF FilterInv, BufferInv
    <2>2. \A j \in LastNew(chain.list, chain.at) : inputs[j][Kth] \in Pictures
        BY <1>8, <1>9, ReadySeen
    <2>3. Malloced \in Pictures
        BY MallocedIs
    <2>4. CASE LastNew(chain.list, chain.at) = {}
        BY <2>1, <2>3, <2>4
    <2>5. CASE LastNew(chain.list, chain.at) # {}
        <3>1. PICK j \in LastNew(chain.list, chain.at) : TRUE
            BY <2>5
        <3> QED
            BY <2>1, <2>2, <3>1
    <2> QED
        BY <2>1, <2>4, <2>5
<1> QED
    BY <1>1, <1>2, <1>3, <1>5, <1>6, <1>7, <1>8, <1>9

LEMMA InitSafe == FilterInit => FilterInv
<1> SUFFICES ASSUME FilterInit PROVE FilterInv
    OBVIOUS
<1>1. PICK list \in FilterLists :
          /\ chain = [list |-> list, at |-> 0, work |-> NoPicture, temp |-> NoPicture,
                      in_temp |-> FALSE, prev |-> NoPicture, outside |-> FALSE]
          /\ kept = [i \in DOMAIN list |-> <<>>]
          /\ inputs = [i \in 1 .. Len(list) + 1 |-> <<>>]
    BY DEF FilterInit
<1>2. bitmap = NoPicture
    BY DEF FilterInit
<1>3. list \in Seq(FilterRecords)
    BY FilterAssumption DEF FilterRecords
<1>4. Len(list) \in Nat /\ DOMAIN list = 1 .. Len(list)
    BY <1>3, LenProperties
<1>5. chain.list = list /\ chain.at = 0 /\ chain.prev = NoPicture /\ Filters = Len(list)
    BY <1>1 DEF Filters
<1>6. \A i \in 1 .. Filters + 1 : inputs[i] = <<>> /\ Len(inputs[i]) = 0
    BY <1>1, <1>5
<1>7. Filters + 1 \in 1 .. Filters + 1 /\ Kth = 1
    BY <1>4, <1>5, <1>6 DEF Kth
<1>8. FilterTypes
    <2>1. chain = [list |-> chain.list, at |-> chain.at, work |-> chain.work, temp |-> chain.temp,
                   in_temp |-> chain.in_temp, prev |-> chain.prev, outside |-> chain.outside]
        BY <1>1
    <2>2. inputs \in [1 .. Filters + 1 -> Seq(Pictures)]
        BY <1>1, <1>5
    <2>3. DOMAIN kept = 1 .. Filters
        BY <1>1, <1>4, <1>5
    <2>4. chain.in_temp \in BOOLEAN /\ chain.outside \in BOOLEAN
        BY <1>1
    <2> QED
        BY <1>3, <1>4, <1>5, <2>1, <2>2, <2>3, <2>4 DEF FilterTypes, FilterRecords
<1>9. PassInv
    BY <1>5, <1>6, <1>7 DEF PassInv
<1>10. BufferInv
    BY <1>5 DEF BufferInv
<1>11. KeptInv
    <2>1. ASSUME NEW i \in 1 .. Filters PROVE kept[i] = <<>> /\ inputs[i] = <<>> /\ Len(inputs[i]) = 0
        <3>1. i \in DOMAIN list /\ i \in 1 .. Filters + 1
            BY <1>4, <1>5
        <3> QED
            BY <1>1, <1>6, <3>1
    <2>2. LastThree(<<>>) = <<>>
        BY DEF LastThree, KeptPictures
    <2> QED
        BY <2>1, <2>2 DEF KeptInv
<1>12. BitmapInv
    <2>1. CopyFor(chain.list, 1, 1) = {}
        BY <1>3, <1>5, CopyAfter
    <2> QED
        BY <1>2, <1>5, <1>7, <2>1 DEF BitmapInv
<1>13. MadeInv
    <2>1. ASSUME NEW i \in 1 .. Filters PROVE Len(inputs[i + 1]) = 0
        <3>1. i + 1 \in 1 .. Filters + 1
            BY <1>4, <1>5
        <3> QED
            BY <1>6, <3>1
    <2> QED
        BY <1>5, <2>1 DEF MadeInv
<1>14. OutsideInv
    BY <1>1 DEF OutsideInv
<1> QED
    BY <1>8, <1>9, <1>10, <1>11, <1>12, <1>13, <1>14 DEF FilterInv

LEMMA ArriveSafe ==
    ASSUME FilterInv, Arrive
    PROVE  FilterInv'
<1>1. PICK p \in Scenes :
          chain' = [chain EXCEPT !.at = 1, !.work = p, !.temp = NoPicture, !.in_temp = FALSE]
    BY DEF Arrive
<1>2. chain.at = 0 /\ kept' = kept /\ bitmap' = bitmap /\ inputs' = inputs
    BY DEF Arrive
<1>3. chain = [list |-> chain.list, at |-> chain.at, work |-> chain.work, temp |-> chain.temp,
               in_temp |-> chain.in_temp, prev |-> chain.prev, outside |-> chain.outside]
    BY DEF FilterInv, FilterTypes
<1>4. chain' = [list |-> chain.list, at |-> 1, work |-> p, temp |-> NoPicture,
                in_temp |-> FALSE, prev |-> chain.prev, outside |-> chain.outside]
    BY <1>1, <1>3
<1>5. /\ chain'.list = chain.list /\ chain'.at = 1 /\ chain'.work = p /\ chain'.temp = NoPicture
      /\ chain'.in_temp = FALSE /\ chain'.prev = chain.prev /\ chain'.outside = chain.outside
    BY <1>4
<1>6. Filters' = Filters /\ Kth' = Kth
    BY <1>2, <1>5 DEF Filters, Kth
<1>7. Filters \in Nat /\ Filters + 1 \in 1 .. Filters + 1
    BY InvReady
<1>8. p \in Pictures
    <2>1. p \in [Places -> [Channels -> 0 .. 255]]
        BY FilterAssumption
    <2>2. 0 .. 255 \subseteq Int
        OBVIOUS
    <2> QED
        BY <2>1, <2>2 DEF Pictures
<1>9. Current' = p /\ Other' = Malloced
    BY <1>5 DEF Current, Other
<1>10. FilterTypes'
    <2>1. 1 \in 0 .. Filters + 1
        BY <1>7
    <2> QED
        BY <1>2, <1>4, <1>5, <1>6, <2>1 DEF FilterTypes, FilterInv
<1>11. PassInv'
    BY <1>2, <1>5, <1>6, <1>7 DEF PassInv, FilterInv
<1>12. BufferInv'
    <2>1. LastNew(chain.list, 1) = {}
        BY NewBefore
    <2> QED
        BY <1>5, <1>8, <1>9, <2>1 DEF BufferInv
<1>13. KeptInv'
    BY <1>2, <1>5, <1>6 DEF KeptInv, FilterInv
<1>14. BitmapInv'
    BY <1>2, <1>5, <1>6 DEF BitmapInv, FilterInv
<1>15. MadeInv'
    BY <1>2, <1>5, <1>6 DEF MadeInv, FilterInv
<1>16. OutsideInv'
    BY <1>2, <1>5, <1>6 DEF OutsideInv, FilterInv
<1> QED
    BY <1>10, <1>11, <1>12, <1>13, <1>14, <1>15, <1>16 DEF FilterInv

LEMMA MakeNewSafe ==
    ASSUME FilterInv, MakeNew
    PROVE  FilterInv'
<1> DEFINE a == chain.at
           f == chain.list[a]
           out == ApplyIo(f, Current, Other)
<1>1. /\ chain' = [chain EXCEPT !.at = @ + 1, !.in_temp = ~@,
                                !.work = IF chain.in_temp THEN out ELSE @,
                                !.temp = IF chain.in_temp THEN @ ELSE out]
      /\ f.kind \in NewPicture /\ kept' = kept /\ bitmap' = bitmap
      /\ inputs' = [inputs EXCEPT ![a] = Append(@, Current)]
      /\ a \in 1 .. Filters
    BY DEF MakeNew, InChain, Seen, Filters
<1>2. chain = [list |-> chain.list, at |-> chain.at, work |-> chain.work, temp |-> chain.temp,
               in_temp |-> chain.in_temp, prev |-> chain.prev, outside |-> chain.outside]
      /\ chain.in_temp \in BOOLEAN
    BY DEF FilterInv, FilterTypes
<1>3. /\ Filters \in Nat /\ Filters + 1 \in 1 .. Filters + 1 /\ Filters = Len(chain.list)
      /\ Kth \in Nat \ {0} /\ a # 0
    BY <1>1, InvReady
<1>4. Ready(chain.list, inputs, a, Kth) /\ Current \in Pictures /\ Other \in Pictures
    BY <1>3, InvReady
<1>5. out \in Pictures
    BY <1>1, <1>4, NewIs
<1> HIDE DEF out
<1>6. chain' = [list |-> chain.list, at |-> a + 1, work |-> IF chain.in_temp THEN out ELSE chain.work,
                temp |-> IF chain.in_temp THEN chain.temp ELSE out,
                in_temp |-> ~chain.in_temp, prev |-> chain.prev, outside |-> chain.outside]
    BY <1>1, <1>2
<1>7. /\ chain'.list = chain.list /\ chain'.at = a + 1 /\ chain'.prev = chain.prev /\ chain'.outside = chain.outside
      /\ chain'.in_temp = ~chain.in_temp
      /\ chain'.work = (IF chain.in_temp THEN out ELSE chain.work)
      /\ chain'.temp = (IF chain.in_temp THEN chain.temp ELSE out)
    BY <1>6
<1>8. Current' = out /\ Other' = Current
    <2>1. CASE chain.in_temp
        <3>1. chain.temp # NoPicture /\ Current = chain.temp
            BY <1>4, <2>1, PicturesAre DEF Current
        <3> QED
            BY <1>7, <2>1, <3>1 DEF Current, Other
    <2>2. CASE ~chain.in_temp
        BY <1>7, <2>2 DEF Current, Other
    <2> QED
        BY <2>1, <2>2
<1>9. Filters' = Filters
    BY <1>7 DEF Filters
<1>10. /\ inputs' \in [1 .. Filters + 1 -> Seq(Pictures)]
       /\ \A j \in 1 .. Filters + 1 : j # a => inputs'[j] = inputs[j]
       /\ \A j \in 1 .. Filters + 1 : Len(inputs'[j]) = IF j = a THEN Len(inputs[a]) + 1 ELSE Len(inputs[j])
       /\ inputs'[a][Len(inputs[a]) + 1] = Current
       /\ \A j \in 1 .. Filters + 1 : \A m \in 1 .. Len(inputs[j]) : inputs'[j][m] = inputs[j][m]
    <2>1. Filters + 1 \in Nat /\ a \in 1 .. Filters + 1 /\ inputs \in [1 .. Filters + 1 -> Seq(Pictures)]
        BY <1>1, <1>3, <1>4 DEF Ready
    <2> QED
        BY <1>1, <1>4, <2>1, Grown
<1>11. \A j \in 1 .. Filters + 1 : Len(inputs[j]) = IF j < a THEN Kth ELSE Kth - 1
    BY <1>3, <1>4 DEF Ready
<1>12. Kth' = Kth
    BY <1>1, <1>3, <1>9, <1>10 DEF Kth
<1>13. inputs'[a][Kth] = Current /\ a \in 1 .. Filters + 1
    <2>1. a \in 1 .. Filters + 1
        BY <1>1, <1>3
    <2>2. Len(inputs[a]) + 1 = Kth
        BY <1>3, <1>11, <2>1
    <2> QED
        BY <1>10, <2>1, <2>2
<1>14. FilterTypes'
    <2>1. a + 1 \in 0 .. Filters + 1
        BY <1>1, <1>3
    <2>2. DOMAIN kept' = 1 .. Filters
        BY <1>1 DEF FilterTypes, FilterInv
    <2>3. chain.list \in Seq([kind : FilterKinds, x : Int, y : Int]) /\ chain.outside \in BOOLEAN
        BY DEF FilterTypes, FilterInv
    <2>4. chain' = [list |-> chain'.list, at |-> chain'.at, work |-> chain'.work, temp |-> chain'.temp,
                    in_temp |-> chain'.in_temp, prev |-> chain'.prev, outside |-> chain'.outside]
        BY <1>6
    <2> QED
        BY <1>2, <1>7, <1>9, <1>10, <2>1, <2>2, <2>3, <2>4 DEF FilterTypes
<1>15. PassInv'
    <2>1. ASSUME NEW j \in 1 .. Filters + 1 PROVE Len(inputs'[j]) = IF j < a + 1 THEN Kth ELSE Kth - 1
        <3>1. Len(inputs[j]) = (IF j < a THEN Kth ELSE Kth - 1)
              /\ Len(inputs'[j]) = IF j = a THEN Len(inputs[j]) + 1 ELSE Len(inputs[j])
            BY <1>10, <1>11
        <3> QED
            BY <1>1, <1>3, <3>1
    <2>2. a + 1 # 0
        BY <1>1, <1>3
    <2>3. inputs'[Filters + 1] = inputs[Filters + 1]
        BY <1>1, <1>3, <1>10
    <2> QED
        BY <1>7, <1>9, <1>12, <2>1, <2>2, <2>3 DEF PassInv, FilterInv
<1>16. BufferInv'
    <2>1. LastNew(chain.list, a + 1) = {a}
        BY <1>1, <1>3, NewBefore
    <2> QED
        BY <1>5, <1>7, <1>8, <1>12, <1>13, <2>1 DEF BufferInv
<1>17. KeptInv'
    <2>1. ASSUME NEW i \in 1 .. Filters, i = a
          PROVE  chain.list[i].kind \notin {"average", "median"} /\ chain.list[i].kind # "motion"
        BY <1>1, <2>1 DEF NewPicture
    <2>2. ASSUME NEW i \in 1 .. Filters, i # a PROVE inputs'[i] = inputs[i]
        <3>1. i \in 1 .. Filters + 1
            BY <1>3
        <3> QED
            BY <1>10, <2>2, <3>1
    <2> QED
        BY <1>1, <1>7, <1>9, <2>1, <2>2 DEF KeptInv, FilterInv
<1>18. BitmapInv'
    <2>1. CopyFor(chain.list, a + 1, Kth) = CopyFor(chain.list, a, Kth)
        <3>1. f.kind # "copy"
            BY <1>1 DEF NewPicture
        <3>2. chain.list \in Seq(FilterRecords) /\ a \in 1 .. Len(chain.list)
            BY <1>1, <1>3, <1>4 DEF Ready
        <3> QED
            BY <1>3, <3>1, <3>2, CopyAfter
    <2>2. \A c \in CopyFor(chain.list, a, Kth) : inputs'[c[1]][c[2]] = inputs[c[1]][c[2]]
        <3> SUFFICES ASSUME NEW c \in CopyFor(chain.list, a, Kth) PROVE inputs'[c[1]][c[2]] = inputs[c[1]][c[2]]
            OBVIOUS
        <3>1. c[1] \in 1 .. Filters /\ c[2] \in 1 .. Len(inputs[c[1]])
            BY <1>1, <1>3, <1>4, ReadySeen
        <3>2. c[1] \in 1 .. Filters + 1
            BY <1>3, <3>1
        <3> QED
            BY <1>10, <3>1, <3>2
    <2>3. /\ CopyFor(chain.list, a, Kth) = {} => bitmap = NoPicture
          /\ \A c \in CopyFor(chain.list, a, Kth) : bitmap = Taken(chain.list[c[1]], inputs[c[1]][c[2]])
        BY <1>3 DEF BitmapInv, FilterInv
    <2>4. a + 1 # 0
        BY <1>1, <1>3
    <2> QED
        BY <1>1, <1>7, <1>12, <2>1, <2>2, <2>3, <2>4 DEF BitmapInv
<1>19. MadeInv'
    <2>1. \A i \in 1 .. Filters : \A m \in 1 .. Len(inputs'[i + 1]) :
              Makes(chain.list, inputs', i, m, inputs'[i + 1][m])
        <3>1. \A i \in 1 .. Filters : \A m \in 1 .. Len(inputs[i + 1]) :
                  Makes(chain.list, inputs, i, m, inputs[i + 1][m])
            BY DEF MadeInv, FilterInv
        <3>2. a > 1 => Makes(chain.list, inputs, a - 1, Kth, Current)
            BY DEF MadeInv, FilterInv
        <3> QED
            BY <1>1, <1>3, <1>4, <3>1, <3>2, MadeStays
    <2>2. Makes(chain.list, inputs', a, Kth, out)
        <3>1. LastNew(chain.list, a) = {} => Other = Malloced
            BY <1>3 DEF BufferInv, FilterInv
        <3>2. ASSUME NEW j \in LastNew(chain.list, a) PROVE Other = inputs'[j][Kth]
            <4>1. j \in 1 .. a - 1 /\ Kth \in 1 .. Len(inputs[j])
                BY <1>4, ReadySeen
            <4>2. j \in 1 .. Filters + 1
                BY <1>1, <1>3, <4>1
            <4>3. Other = inputs[j][Kth]
                BY <1>3 DEF BufferInv, FilterInv
            <4> QED
                BY <1>10, <4>1, <4>2, <4>3
        <3>3. Makes(chain.list, inputs', a, Kth, ApplyIo(chain.list[a], inputs'[a][Kth], Other))
            BY <1>1, <1>3, <1>4, <1>13, <3>1, <3>2, NewMakes
        <3> QED
            BY <1>13, <3>3 DEF out
    <2>3. chain'.at - 1 = a
        BY <1>1, <1>3, <1>7
    <2>4. Makes(chain'.list, inputs', chain'.at - 1, Kth', Current')
        BY <1>7, <1>8, <1>12, <2>2, <2>3, Zenon
    <2>5. \A i \in 1 .. Filters' : \A m \in 1 .. Len(inputs'[i + 1]) :
              Makes(chain'.list, inputs', i, m, inputs'[i + 1][m])
        BY <1>7, <1>9, <2>1, Zenon
    <2> QED
        BY <2>4, <2>5 DEF MadeInv
<1>20. OutsideInv'
    BY <1>7, <1>9 DEF OutsideInv, FilterInv
<1> QED
    BY <1>14, <1>15, <1>16, <1>17, <1>18, <1>19, <1>20 DEF FilterInv

LEMMA ChangeInPlaceSafe ==
    ASSUME FilterInv, ChangeInPlace
    PROVE  FilterInv'
<1> DEFINE a == chain.at
           f == chain.list[a]
           effect == Apply(f, Current, kept[a], chain.prev, bitmap)
           out == effect.picture
<1>1. /\ chain' = [chain EXCEPT !.at = @ + 1, !.outside = @ \/ effect.outside,
                                !.work = IF chain.in_temp THEN @ ELSE out,
                                !.temp = IF chain.in_temp THEN out ELSE @]
      /\ f.kind \notin NewPicture
      /\ kept' = [kept EXCEPT ![a] = effect.keep]
      /\ bitmap' = IF f.kind = "copy" THEN Taken(f, Current) ELSE bitmap
      /\ inputs' = [inputs EXCEPT ![a] = Append(@, Current)]
      /\ a \in 1 .. Filters
    BY DEF ChangeInPlace, InChain, Seen, Filters
<1>2. chain = [list |-> chain.list, at |-> chain.at, work |-> chain.work, temp |-> chain.temp,
               in_temp |-> chain.in_temp, prev |-> chain.prev, outside |-> chain.outside]
      /\ chain.in_temp \in BOOLEAN /\ chain.outside \in BOOLEAN
    BY DEF FilterInv, FilterTypes
<1>3. /\ Filters \in Nat /\ Filters + 1 \in 1 .. Filters + 1 /\ Filters = Len(chain.list)
      /\ Kth \in Nat \ {0} /\ a # 0
    BY <1>1, InvReady
<1>4. Ready(chain.list, inputs, a, Kth) /\ Current \in Pictures /\ Other \in Pictures
    BY <1>3, InvReady
<1>5. f \in FilterRecords /\ f.kind \in FilterKinds \ NewPicture /\ f.x \in Int /\ f.y \in Int
    <2>1. chain.list \in Seq(FilterRecords) /\ a \in 1 .. Len(chain.list)
        BY <1>1, <1>3, <1>4 DEF Ready
    <2>2. f \in FilterRecords
        BY <2>1
    <2> QED
        BY <1>1, <2>2 DEF FilterRecords
<1> HIDE DEF effect
<1>6. chain' = [list |-> chain.list, at |-> a + 1, work |-> IF chain.in_temp THEN chain.work ELSE out,
                temp |-> IF chain.in_temp THEN out ELSE chain.temp,
                in_temp |-> chain.in_temp, prev |-> chain.prev,
                outside |-> chain.outside \/ effect.outside]
    BY <1>1, <1>2
<1> HIDE DEF out
<1>7. /\ chain'.list = chain.list /\ chain'.at = a + 1 /\ chain'.prev = chain.prev
      /\ chain'.in_temp = chain.in_temp /\ chain'.outside = (chain.outside \/ effect.outside)
      /\ chain'.work = (IF chain.in_temp THEN chain.work ELSE out)
      /\ chain'.temp = (IF chain.in_temp THEN out ELSE chain.temp)
    BY <1>6
<1>8. Current' = out /\ Other' = Other
    <2>1. CASE chain.in_temp
        BY <1>7, <2>1 DEF Current, Other
    <2>2. CASE ~chain.in_temp
        BY <1>7, <2>2 DEF Current, Other
    <2> QED
        BY <2>1, <2>2
<1>9. Filters' = Filters
    BY <1>7 DEF Filters
<1>10. /\ inputs' \in [1 .. Filters + 1 -> Seq(Pictures)]
       /\ inputs'[a] = Append(inputs[a], Current)
       /\ \A j \in 1 .. Filters + 1 : j # a => inputs'[j] = inputs[j]
       /\ \A j \in 1 .. Filters + 1 : Len(inputs'[j]) = IF j = a THEN Len(inputs[a]) + 1 ELSE Len(inputs[j])
       /\ inputs'[a][Len(inputs[a]) + 1] = Current
       /\ \A j \in 1 .. Filters + 1 : \A m \in 1 .. Len(inputs[j]) : inputs'[j][m] = inputs[j][m]
    <2>1. Filters + 1 \in Nat /\ a \in 1 .. Filters + 1 /\ inputs \in [1 .. Filters + 1 -> Seq(Pictures)]
        BY <1>1, <1>3, <1>4 DEF Ready
    <2> QED
        BY <1>1, <1>4, <2>1, Grown
<1>11. \A j \in 1 .. Filters + 1 : Len(inputs[j]) = IF j < a THEN Kth ELSE Kth - 1
    BY <1>3, <1>4 DEF Ready
<1>12. Kth' = Kth
    BY <1>1, <1>3, <1>9, <1>10 DEF Kth
<1>13. inputs'[a][Kth] = Current /\ a \in 1 .. Filters + 1 /\ Len(inputs[a]) = Kth - 1
    <2>1. a \in 1 .. Filters + 1
        BY <1>1, <1>3
    <2>2. Len(inputs[a]) + 1 = Kth /\ Len(inputs[a]) = Kth - 1
        BY <1>3, <1>11, <2>1
    <2> QED
        BY <1>10, <2>1, <2>2
\* What is given to the filter.
<1>14. inputs[a] \in Seq(Pictures)
       /\ (f.kind \in {"average", "median"} => kept[a] = LastThree(inputs[a]))
       /\ (f.kind = "motion" => kept[a] = IF Len(inputs[a]) < 2 THEN <<>> ELSE <<inputs[a][Len(inputs[a])]>>)
    <2>1. inputs[a] \in Seq(Pictures)
        BY <1>3, <1>4, <1>13 DEF Ready
    <2> QED
        BY <1>1, <2>1 DEF KeptInv, FilterInv
<1>15. /\ chain.prev = (IF Kth = 1 THEN NoPicture ELSE inputs'[Len(inputs')][Kth - 1])
       /\ Kth # 1 => chain.prev # NoPicture
    <2>1. chain.prev = IF Kth = 1 THEN NoPicture ELSE inputs[Filters + 1][Kth - 1]
        BY DEF PassInv, FilterInv
    <2>2. ASSUME Kth # 1 PROVE inputs[Filters + 1][Kth - 1] \in Pictures /\ Kth - 1 \in 1 .. Len(inputs[Filters + 1])
        <3>1. Kth > 1
            BY <1>3, <2>2
        <3> QED
            BY <3>1, InvReady
    <2>3. Kth # 1 => inputs[Filters + 1][Kth - 1] # NoPicture
        BY <2>2, PicturesAre
    <2>4. Kth # 1 => inputs'[Filters + 1][Kth - 1] = inputs[Filters + 1][Kth - 1]
        BY <1>3, <1>10, <2>2
    <2>5. Len(inputs') = Filters + 1
        <3>1. Filters + 1 \in Nat
            BY <1>3
        <3> QED
            BY <1>10, <3>1, SeqOfFunction
    <2> QED
        BY <2>1, <2>3, <2>4, <2>5
<1>16. /\ CopyFor(chain.list, a, Kth) = {} => bitmap = NoPicture
       /\ \A c \in CopyFor(chain.list, a, Kth) :
             bitmap = Taken(chain.list[c[1]], inputs'[c[1]][c[2]]) /\ inputs'[c[1]][c[2]] \in Pictures
    <2>1. /\ CopyFor(chain.list, a, Kth) = {} => bitmap = NoPicture
          /\ \A c \in CopyFor(chain.list, a, Kth) : bitmap = Taken(chain.list[c[1]], inputs[c[1]][c[2]])
        BY <1>3 DEF BitmapInv, FilterInv
    <2>2. ASSUME NEW c \in CopyFor(chain.list, a, Kth)
          PROVE  inputs'[c[1]][c[2]] = inputs[c[1]][c[2]] /\ inputs[c[1]][c[2]] \in Pictures
        <3>1. c[1] \in 1 .. Filters /\ c[2] \in 1 .. Len(inputs[c[1]]) /\ inputs[c[1]][c[2]] \in Pictures
            BY <1>1, <1>3, <1>4, ReadySeen
        <3>2. c[1] \in 1 .. Filters + 1
            BY <1>3, <3>1
        <3> QED
            BY <1>10, <3>1, <3>2
    <2> QED
        BY <2>1, <2>2
<1>17. bitmap = NoPicture \/ bitmap \in Boxes
    <2>1. CASE CopyFor(chain.list, a, Kth) = {}
        BY <1>16, <2>1
    <2>2. CASE CopyFor(chain.list, a, Kth) # {}
        <3>1. PICK c \in CopyFor(chain.list, a, Kth) : TRUE
            BY <2>2
        <3>2. bitmap = Taken(chain.list[c[1]], inputs'[c[1]][c[2]]) /\ inputs'[c[1]][c[2]] \in Pictures
            BY <1>16, <3>1
        <3> QED
            BY <3>2, TakenIs
    <2> QED
        BY <2>1, <2>2
\* What the filter makes of it.
<1>18. out \in Pictures
    <2>1. f.kind = "average" \/ f.kind = "median" => kept[a] \in Seq(Pictures)
        BY <1>14, LastThreeIs
    <2> QED
        BY <1>4, <1>5, <1>17, <2>1, ChangedIs DEF out, effect
<1>19. Makes(chain.list, inputs', a, Kth, out)
    <2> DEFINE s == inputs[a]
               more == inputs'
    <2>1. s \in Seq(Pictures) /\ Len(s) = Kth - 1 /\ more[a] = Append(s, Current)
        BY <1>10, <1>13, <1>14
    <2> HIDE DEF s, more
    <2>2. /\ f.kind \in {"average", "median"} => kept[a] = LastThree(s)
          /\ f.kind = "motion" => kept[a] = IF Len(s) < 2 THEN <<>> ELSE <<s[Len(s)]>>
        BY <1>14 DEF s
    <2>3. /\ chain.prev = (IF Kth = 1 THEN NoPicture ELSE more[Len(more)][Kth - 1])
          /\ Kth # 1 => chain.prev # NoPicture
        BY <1>15 DEF more
    <2>4. /\ CopyFor(chain.list, a, Kth) = {} => bitmap = NoPicture
          /\ \A c \in CopyFor(chain.list, a, Kth) :
                bitmap = Taken(chain.list[c[1]], more[c[1]][c[2]]) /\ more[c[1]][c[2]] \in Pictures
        BY <1>16 DEF more
    <2>5. Makes(chain.list, more, a, Kth, Apply(chain.list[a], Current, kept[a], chain.prev, bitmap).picture)
        BY <1>3, <1>4, <1>5, <2>1, <2>2, <2>3, <2>4, ChangeMakes
    <2> QED
        BY <2>5 DEF more, out, effect
<1>20. /\ f.kind \in {"average", "median"} => effect.keep = LastThree(inputs'[a])
       /\ f.kind = "motion" =>
            effect.keep = IF Len(inputs'[a]) < 2 THEN <<>> ELSE <<inputs'[a][Len(inputs'[a])]>>
    <2>1. chain.prev = NoPicture <=> Len(inputs[a]) = 0
        BY <1>3, <1>13, <1>15
    <2>2. ASSUME f.kind = "average" \/ f.kind = "median" PROVE effect.keep = LastThree(inputs'[a])
        <3>1. kept[a] = LastThree(inputs[a])
            BY <1>14, <2>2
        <3>2. effect.keep = LastThree(Append(inputs[a], Current))
            BY <1>4, <1>14, <2>2, <3>1, AverageKeeps DEF effect
        <3> QED
            BY <1>10, <3>2
    <2>3. ASSUME f.kind = "motion"
          PROVE  effect.keep = IF Len(inputs'[a]) < 2 THEN <<>> ELSE <<inputs'[a][Len(inputs'[a])]>>
        <3>1. Len(inputs[a]) = 0 => kept[a] = <<>>
            BY <1>14, <2>3
        <3>2. effect.keep = IF Len(inputs[a]) = 0 THEN <<>> ELSE <<Current>>
            BY <1>4, <1>14, <2>1, <2>3, <3>1, MotionKeeps DEF effect
        <3>3. Len(inputs'[a]) = Kth /\ (Len(inputs[a]) = 0 <=> Kth < 2)
            BY <1>3, <1>10, <1>13
        <3> QED
            BY <1>13, <3>2, <3>3
    <2> QED
        BY <2>2, <2>3
<1>21. effect.outside => StartsOutside(f)
    BY <1>5, OutsideIs DEF effect
\* The conjuncts.
<1>22. FilterTypes'
    <2>1. a + 1 \in 0 .. Filters + 1
        BY <1>1, <1>3
    <2>2. DOMAIN kept' = 1 .. Filters
        BY <1>1 DEF FilterTypes, FilterInv
    <2>3. chain.list \in Seq([kind : FilterKinds, x : Int, y : Int])
        BY DEF FilterTypes, FilterInv
    <2>4. chain' = [list |-> chain'.list, at |-> chain'.at, work |-> chain'.work, temp |-> chain'.temp,
                    in_temp |-> chain'.in_temp, prev |-> chain'.prev, outside |-> chain'.outside]
        BY <1>6
    <2> QED
        BY <1>2, <1>7, <1>9, <1>10, <2>1, <2>2, <2>3, <2>4 DEF FilterTypes
<1>23. PassInv'
    <2>1. ASSUME NEW j \in 1 .. Filters + 1 PROVE Len(inputs'[j]) = IF j < a + 1 THEN Kth ELSE Kth - 1
        <3>1. Len(inputs[j]) = (IF j < a THEN Kth ELSE Kth - 1)
              /\ Len(inputs'[j]) = IF j = a THEN Len(inputs[j]) + 1 ELSE Len(inputs[j])
            BY <1>10, <1>11
        <3> QED
            BY <1>1, <1>3, <3>1
    <2>2. a + 1 # 0
        BY <1>1, <1>3
    <2>3. inputs'[Filters + 1] = inputs[Filters + 1]
        BY <1>1, <1>3, <1>10
    <2> QED
        BY <1>7, <1>9, <1>12, <2>1, <2>2, <2>3 DEF PassInv, FilterInv
<1>24. BufferInv'
    <2>1. LastNew(chain.list, a + 1) = LastNew(chain.list, a)
        BY <1>1, <1>3, NewBefore
    <2>2. ASSUME NEW j \in LastNew(chain.list, a) PROVE Other = inputs'[j][Kth]
        <3>1. j \in 1 .. a - 1 /\ Kth \in 1 .. Len(inputs[j])
            BY <1>4, ReadySeen
        <3>2. j \in 1 .. Filters + 1
            BY <1>1, <1>3, <3>1
        <3>3. Other = inputs[j][Kth]
            BY <1>3 DEF BufferInv, FilterInv
        <3> QED
            BY <1>10, <3>1, <3>2, <3>3
    <2>3. LastNew(chain.list, a) = {} => Other = Malloced
        BY <1>3 DEF BufferInv, FilterInv
    <2> QED
        BY <1>7, <1>8, <1>12, <1>18, <2>1, <2>2, <2>3 DEF BufferInv
<1>25. KeptInv'
    <2>1. ASSUME NEW i \in 1 .. Filters
          PROVE  /\ chain.list[i].kind \in {"average", "median"} => kept'[i] = LastThree(inputs'[i])
                 /\ chain.list[i].kind = "motion" =>
                      kept'[i] = IF Len(inputs'[i]) < 2 THEN <<>> ELSE <<inputs'[i][Len(inputs'[i])]>>
        <3>1. DOMAIN kept = 1 .. Filters
            BY DEF FilterTypes, FilterInv
        <3>2. CASE i = a
            <4>1. kept'[a] = effect.keep
                BY <1>1, <3>1
            <4> QED
                BY <1>20, <3>2, <4>1
        <3>3. CASE i # a
            <4>1. i \in 1 .. Filters + 1
                BY <1>3
            <4>2. kept'[i] = kept[i] /\ inputs'[i] = inputs[i]
                BY <1>1, <1>10, <3>1, <3>3, <4>1
            <4> QED
                BY <4>2 DEF KeptInv, FilterInv
        <3> QED
            BY <3>2, <3>3
    <2> QED
        BY <1>7, <1>9, <2>1 DEF KeptInv
<1>26. BitmapInv'
    <2>1. CopyFor(chain.list, a + 1, Kth) = IF f.kind = "copy" THEN {<<a, Kth>>} ELSE CopyFor(chain.list, a, Kth)
        <3>1. chain.list \in Seq(FilterRecords) /\ a \in 1 .. Len(chain.list)
            BY <1>1, <1>3, <1>4 DEF Ready
        <3> QED
            BY <1>3, <3>1, CopyAfter
    <2> DEFINE copies == CopyFor(chain.list, a + 1, Kth)
    <2>2. (copies = {} => bitmap' = NoPicture)
          /\ \A c \in copies : bitmap' = Taken(chain.list[c[1]], inputs'[c[1]][c[2]])
        <3>1. CASE f.kind = "copy"
            <4>1. copies = {<<a, Kth>>} /\ bitmap' = Taken(f, Current)
                BY <1>1, <2>1, <3>1
            <4> HIDE DEF copies
            <4> SUFFICES ASSUME NEW c \in copies PROVE bitmap' = Taken(chain.list[c[1]], inputs'[c[1]][c[2]])
                BY <4>1
            <4>2. c[1] = a /\ c[2] = Kth
                <5>1. c = <<a, Kth>>
                    BY <4>1
                <5> QED
                    BY <5>1
            <4> QED
                BY <1>13, <4>1, <4>2
        <3>2. CASE f.kind # "copy"
            BY <1>1, <1>16, <2>1, <3>2
        <3> QED
            BY <3>1, <3>2
    <2>3. a + 1 # 0
        BY <1>1, <1>3
    <2> QED
        BY <1>7, <1>12, <2>2, <2>3 DEF BitmapInv
<1>27. MadeInv'
    <2>1. \A i \in 1 .. Filters : \A m \in 1 .. Len(inputs'[i + 1]) :
              Makes(chain.list, inputs', i, m, inputs'[i + 1][m])
        <3>1. \A i \in 1 .. Filters : \A m \in 1 .. Len(inputs[i + 1]) :
                  Makes(chain.list, inputs, i, m, inputs[i + 1][m])
            BY DEF MadeInv, FilterInv
        <3>2. a > 1 => Makes(chain.list, inputs, a - 1, Kth, Current)
            BY DEF MadeInv, FilterInv
        <3> QED
            BY <1>1, <1>3, <1>4, <3>1, <3>2, MadeStays
    <2>2. chain'.at - 1 = a
        BY <1>1, <1>3, <1>7
    <2>3. Makes(chain'.list, inputs', chain'.at - 1, Kth', Current')
        BY <1>7, <1>8, <1>12, <1>19, <2>2, Zenon
    <2>4. \A i \in 1 .. Filters' : \A m \in 1 .. Len(inputs'[i + 1]) :
              Makes(chain'.list, inputs', i, m, inputs'[i + 1][m])
        BY <1>7, <1>9, <2>1, Zenon
    <2> QED
        BY <2>3, <2>4 DEF MadeInv
<1>28. OutsideInv'
    <2>1. chain.outside => \E i \in 1 .. Filters : StartsOutside(chain.list[i])
        BY DEF OutsideInv, FilterInv
    <2> QED
        BY <1>1, <1>7, <1>9, <1>21, <2>1 DEF OutsideInv
<1> QED
    BY <1>22, <1>23, <1>24, <1>25, <1>26, <1>27, <1>28 DEF FilterInv

LEMMA HandOutSafe ==
    ASSUME FilterInv, HandOut
    PROVE  FilterInv'
<1> DEFINE n == Filters + 1
<1>1. /\ chain' = [chain EXCEPT !.at = 0, !.prev = Current, !.work = NoPicture, !.temp = NoPicture]
      /\ kept' = kept /\ bitmap' = bitmap /\ chain.at = n
      /\ inputs' = [inputs EXCEPT ![n] = Append(@, Current)]
    BY DEF HandOut, Filters
<1>2. chain = [list |-> chain.list, at |-> chain.at, work |-> chain.work, temp |-> chain.temp,
               in_temp |-> chain.in_temp, prev |-> chain.prev, outside |-> chain.outside]
      /\ chain.in_temp \in BOOLEAN /\ chain.outside \in BOOLEAN
    BY DEF FilterInv, FilterTypes
<1>3. Filters \in Nat /\ n \in 1 .. n /\ Filters = Len(chain.list) /\ Kth \in Nat \ {0} /\ n # 0
    BY InvReady
<1>4. Ready(chain.list, inputs, n, Kth) /\ Current \in Pictures
    BY <1>1, <1>3, InvReady
<1>5. chain' = [list |-> chain.list, at |-> 0, work |-> NoPicture, temp |-> NoPicture,
                in_temp |-> chain.in_temp, prev |-> Current, outside |-> chain.outside]
    BY <1>1, <1>2
<1>6. /\ chain'.list = chain.list /\ chain'.at = 0 /\ chain'.in_temp = chain.in_temp
      /\ chain'.prev = Current /\ chain'.outside = chain.outside
    BY <1>5
<1>7. Filters' = Filters
    BY <1>6 DEF Filters
<1>8. /\ inputs' \in [1 .. n -> Seq(Pictures)]
      /\ \A j \in 1 .. n : j # n => inputs'[j] = inputs[j]
      /\ \A j \in 1 .. n : Len(inputs'[j]) = IF j = n THEN Len(inputs[n]) + 1 ELSE Len(inputs[j])
      /\ inputs'[n][Len(inputs[n]) + 1] = Current
      /\ \A j \in 1 .. n : \A m \in 1 .. Len(inputs[j]) : inputs'[j][m] = inputs[j][m]
    <2>1. n \in Nat /\ inputs \in [1 .. n -> Seq(Pictures)]
        BY <1>3, <1>4 DEF Ready
    <2> QED
        BY <1>1, <1>3, <1>4, <2>1, Grown
<1>9. \A j \in 1 .. n : Len(inputs[j]) = IF j < n THEN Kth ELSE Kth - 1
    BY <1>3, <1>4 DEF Ready
<1>10. Len(inputs[n]) = Kth - 1 /\ Len(inputs[n]) + 1 = Kth /\ Len(inputs'[n]) = Kth
    BY <1>3, <1>8, <1>9
<1>11. Kth' = Kth + 1 /\ Kth' # 1 /\ Kth' - 1 = Kth
    <2>1. Kth' = Len(inputs'[n]) + 1
        BY <1>7 DEF Kth
    <2> QED
        BY <1>3, <1>10, <2>1
<1>12. FilterTypes'
    <2>1. 0 \in 0 .. n
        BY <1>3
    <2>2. chain.list \in Seq([kind : FilterKinds, x : Int, y : Int]) /\ DOMAIN kept = 1 .. Filters
        BY DEF FilterTypes, FilterInv
    <2>3. chain' = [list |-> chain'.list, at |-> chain'.at, work |-> chain'.work, temp |-> chain'.temp,
                    in_temp |-> chain'.in_temp, prev |-> chain'.prev, outside |-> chain'.outside]
        BY <1>5
    <2> QED
        BY <1>1, <1>2, <1>6, <1>7, <1>8, <2>1, <2>2, <2>3 DEF FilterTypes
<1>13. PassInv'
    <2>1. ASSUME NEW j \in 1 .. n PROVE Len(inputs'[j]) = Kth' - 1
        <3>1. Len(inputs[j]) = IF j < n THEN Kth ELSE Kth - 1
            BY <1>9
        <3>2. j = n \/ j < n
            BY <1>3
        <3> QED
            BY <1>3, <1>8, <1>10, <1>11, <3>1, <3>2
    <2>2. chain'.prev = inputs'[n][Kth]
        BY <1>6, <1>8, <1>10
    <2> QED
        BY <1>6, <1>7, <1>11, <2>1, <2>2 DEF PassInv
<1>14. BufferInv'
    BY <1>6 DEF BufferInv
<1>15. KeptInv'
    <2>1. ASSUME NEW i \in 1 .. Filters PROVE inputs'[i] = inputs[i]
        <3>1. i \in 1 .. n /\ i # n
            BY <1>3
        <3> QED
            BY <1>8, <3>1
    <2> QED
        BY <1>1, <1>6, <1>7, <2>1 DEF KeptInv, FilterInv
<1>16. BitmapInv'
    <2>1. CopyFor(chain.list, 1, Kth + 1) = CopyFor(chain.list, n, Kth)
        <3>1. chain.list \in Seq(FilterRecords)
            BY <1>4 DEF Ready
        <3> QED
            BY <1>3, <3>1, CopyAfter
    <2>2. ASSUME NEW c \in CopyFor(chain.list, n, Kth) PROVE inputs'[c[1]][c[2]] = inputs[c[1]][c[2]]
        <3>1. c[1] \in 1 .. Filters /\ c[2] \in 1 .. Len(inputs[c[1]])
            BY <1>3, <1>4, ReadySeen
        <3>2. c[1] \in 1 .. n
            BY <1>3, <3>1
        <3> QED
            BY <1>8, <3>1, <3>2
    <2>3. /\ CopyFor(chain.list, n, Kth) = {} => bitmap = NoPicture
          /\ \A c \in CopyFor(chain.list, n, Kth) : bitmap = Taken(chain.list[c[1]], inputs[c[1]][c[2]])
        BY <1>1, <1>3 DEF BitmapInv, FilterInv
    <2> QED
        BY <1>1, <1>6, <1>11, <2>1, <2>2, <2>3 DEF BitmapInv
<1>17. MadeInv'
    <2>1. \A i \in 1 .. Filters : \A m \in 1 .. Len(inputs'[i + 1]) :
              Makes(chain.list, inputs', i, m, inputs'[i + 1][m])
        <3>1. \A i \in 1 .. Filters : \A m \in 1 .. Len(inputs[i + 1]) :
                  Makes(chain.list, inputs, i, m, inputs[i + 1][m])
            BY DEF MadeInv, FilterInv
        <3>2. n > 1 => Makes(chain.list, inputs, n - 1, Kth, Current)
            BY <1>1 DEF MadeInv, FilterInv
        <3> QED
            BY <1>1, <1>3, <1>4, <3>1, <3>2, MadeStays
    <2>2. \A i \in 1 .. Filters' : \A m \in 1 .. Len(inputs'[i + 1]) :
              Makes(chain'.list, inputs', i, m, inputs'[i + 1][m])
        BY <1>6, <1>7, <2>1, Zenon
    <2> QED
        BY <1>6, <2>2 DEF MadeInv
<1>18. OutsideInv'
    BY <1>6, <1>7 DEF OutsideInv, FilterInv
<1> QED
    BY <1>12, <1>13, <1>14, <1>15, <1>16, <1>17, <1>18 DEF FilterInv

LEMMA FilterInvHolds == FilterSpec => []FilterInv
<1>1. FilterInit => FilterInv
    BY InitSafe
<1>2. FilterInv /\ [FilterNext]_filterVars => FilterInv'
    <2> SUFFICES ASSUME FilterInv, [FilterNext]_filterVars PROVE FilterInv'
        OBVIOUS
    <2>1. CASE Arrive
        BY <2>1, ArriveSafe
    <2>2. CASE MakeNew
        BY <2>2, MakeNewSafe
    <2>3. CASE ChangeInPlace
        BY <2>3, ChangeInPlaceSafe
    <2>4. CASE HandOut
        BY <2>4, HandOutSafe
    <2>5. CASE UNCHANGED filterVars
        <3>1. chain' = chain /\ kept' = kept /\ bitmap' = bitmap /\ inputs' = inputs
            BY <2>5 DEF filterVars
        <3> QED
            BY <3>1 DEF FilterInv, FilterTypes, PassInv, BufferInv, KeptInv, BitmapInv, MadeInv,
                        OutsideInv, Filters, Kth, Current, Other
    <2> QED
        BY <2>1, <2>2, <2>3, <2>4, <2>5 DEF FilterNext
<1> QED
    BY <1>1, <1>2, PTL DEF FilterSpec

\* For every list of filters, wherever their boxes are, for pictures of every size and
\* contents and for any number of them: each filter makes of every picture what it is to
\* make, also after more have come, and memory outside of the pictures is touched only for
\* a box with a place outside of them (apply_filters() and the filters themselves).
THEOREM FiltersSoundHolds == FilterSpec => []FiltersSound
<1>1. FilterInv => FiltersSound
    <2> SUFFICES ASSUME FilterInv PROVE FiltersSound
        OBVIOUS
    <2>1. chain.list \in Seq(FilterRecords) /\ inputs \in [1 .. Filters + 1 -> Seq(Pictures)]
        BY DEF FilterInv, FilterTypes, FilterRecords
    <2>2. DOMAIN chain.list = 1 .. Filters /\ Filters \in Nat
        BY <2>1, LenProperties DEF Filters
    <2>3. ASSUME NEW i \in DOMAIN chain.list, NEW k \in DOMAIN inputs[i + 1]
          PROVE  Makes(chain.list, inputs, i, k, inputs[i + 1][k])
        <3>1. i \in 1 .. Filters /\ i + 1 \in 1 .. Filters + 1
            BY <2>2
        <3>2. inputs[i + 1] \in Seq(Pictures)
            BY <2>1, <3>1
        <3>3. DOMAIN inputs[i + 1] = 1 .. Len(inputs[i + 1])
            BY <3>2, LenProperties
        <3> QED
            BY <3>1, <3>3 DEF FilterInv, MadeInv
    <2>4. chain.outside => \E i \in DOMAIN chain.list : StartsOutside(chain.list[i])
        BY <2>2 DEF FilterInv, OutsideInv
    <2> QED
        BY <2>3, <2>4 DEF FiltersSound
<1> QED
    BY <1>1, FilterInvHolds, PTL

-----------------------------------------------------------------------------
(* FrameBuffer.                                                            *)

USE FrameAssumption

LEMMA InitInv == Init => WakeupInv
  <1> SUFFICES ASSUME Init PROVE WakeupInv
    OBVIOUS
  <1>1. /\ now \in 1 .. MaxTime
        /\ captured \in 0 .. MaxImages
        /\ vf \in Frames \cup {None}
        /\ producer \in [at : ProducerPlaces, ts : Times]
    BY DEF Init, ProducerPlaces, Times
  <1>2. /\ at \in [Readers -> ReaderPlaces]
        /\ work \in [Readers -> Frames \cup {None}]
        /\ prev \in [Readers -> Times]
        /\ exec_th \in {None, "running", "ended"}
    BY DEF Init, ReaderPlaces, Times
  <1>3. ask \in [Readers -> Requests]
    <2>1. [op |-> "get_frame", image |-> FALSE, after |-> 0] \in Requests
      BY DEF Requests, Times
    <2> QED
      BY <2>1 DEF Init
  <1>4. got \in [Readers -> Results]
    <2>1. Nothing \in Results
      BY DEF Nothing, Results, Times
    <2> QED
      BY <2>1 DEF Init
  <1>5. crashed \in BOOLEAN
    BY Zenon DEF Init
  <1>6. NoLostWakeup /\ CopiedHasFrame /\ StoredIsCaptured
    BY DEF Init, NoLostWakeup, CopiedHasFrame, StoredIsCaptured
  <1> QED
    BY <1>1, <1>2, <1>3, <1>4, <1>5, <1>6 DEF WakeupInv, TypeOK

(* What a consumer changes is its own; the frame is not.                   *)
LEMMA ReaderStep ==
    ASSUME WakeupInv, NEW r \in Readers, TypeOK',
           UNCHANGED <<captured, vf, producer>>,
           \A q \in Readers \ {r} : at'[q] = at[q] /\ ask'[q] = ask[q] /\ work'[q] = work[q],
           at'[r] = "waiting" => ~Newer(r)',
           at'[r] = "copied" => vf # None /\ work'[r] # None
    PROVE  WakeupInv'
  BY DEF WakeupInv, NoLostWakeup, CopiedHasFrame, StoredIsCaptured, Newer

(* The type of the variables when a consumer changes its entries only.     *)
LEMMA ReaderTypes ==
    ASSUME TypeOK, NEW r \in Readers, NEW place \in ReaderPlaces,
           UNCHANGED <<now, captured, vf, producer>>,
           at' = [at EXCEPT ![r] = place],
           NEW q \in Requests, ask' = ask \/ ask' = [ask EXCEPT ![r] = q],
           NEW w \in Frames \cup {None}, work' = work \/ work' = [work EXCEPT ![r] = w],
           NEW g \in Results, got' = got \/ got' = [got EXCEPT ![r] = g],
           NEW p \in Times, prev' = prev \/ prev' = [prev EXCEPT ![r] = p],
           exec_th' \in {None, "running", "ended"},
           crashed' \in BOOLEAN
    PROVE  TypeOK'
  <1>1. /\ now' \in 1 .. MaxTime
        /\ captured' \in 0 .. MaxImages
        /\ vf' \in Frames \cup {None}
        /\ producer' \in [at : ProducerPlaces, ts : Times]
    BY DEF TypeOK, Frames
  <1>2. at' \in [Readers -> ReaderPlaces]
    BY DEF TypeOK
  <1>3. ask' \in [Readers -> Requests]
    BY DEF TypeOK
  <1>4. work' \in [Readers -> Frames \cup {None}]
    BY DEF TypeOK
  <1>5. got' \in [Readers -> Results]
    BY DEF TypeOK
  <1>6. prev' \in [Readers -> Times]
    BY DEF TypeOK
  <1> QED
    BY <1>1, <1>2, <1>3, <1>4, <1>5, <1>6 DEF TypeOK

(* A call returns f: the consumer is idle and remembers the time stamp.    *)
LEMMA GiveInv ==
    ASSUME WakeupInv, NEW r \in Readers, NEW f \in Results, Give(r, f),
           UNCHANGED <<now, captured, vf, producer, ask, script>>,
           NEW w \in Frames \cup {None}, work' = work \/ work' = [work EXCEPT ![r] = w]
    PROVE  WakeupInv'
  <1>1. PICK p \in Times : prev' = [prev EXCEPT ![r] = p]
    <2>1. prev[r] \in Times /\ f.ts \in Times
      BY DEF WakeupInv, TypeOK, Results
    <2> QED
      BY <2>1 DEF Give
  <1>2. at' = [at EXCEPT ![r] = "idle"] /\ got' = [got EXCEPT ![r] = f]
    BY DEF Give, Goto
  <1>3. TypeOK'
    <2>1. "idle" \in ReaderPlaces
      BY DEF ReaderPlaces
    <2>2. exec_th' \in {None, "running", "ended"} /\ ask[r] \in Requests
      BY DEF WakeupInv, TypeOK, script
    <2>3. crashed' \in BOOLEAN
      BY Zenon DEF WakeupInv, TypeOK, script
    <2> QED
      BY <1>1, <1>2, <2>1, <2>2, <2>3, ReaderTypes DEF WakeupInv
  <1>4. \A q \in Readers \ {r} : at'[q] = at[q] /\ ask'[q] = ask[q] /\ work'[q] = work[q]
    BY <1>2 DEF WakeupInv, TypeOK
  <1>5. at'[r] = "idle"
    BY <1>2 DEF WakeupInv, TypeOK
  <1> QED
    BY <1>3, <1>4, <1>5, ReaderStep

(* The consumer goes on to some place, with its copy and its request.      *)
LEMMA GoInv ==
    ASSUME WakeupInv, NEW r \in Readers, NEW place \in ReaderPlaces, Goto(r, place),
           UNCHANGED <<now, captured, vf, producer, got, prev>>,
           NEW q \in Requests, ask' = ask \/ ask' = [ask EXCEPT ![r] = q],
           NEW w \in Frames \cup {None}, work' = work \/ work' = [work EXCEPT ![r] = w],
           exec_th' \in {None, "running", "ended"}, crashed' \in BOOLEAN,
           place = "waiting" => ~Newer(r) /\ ask' = ask,
           place = "copied" => vf # None /\ work'[r] # None
    PROVE  WakeupInv'
  <1>1. at' = [at EXCEPT ![r] = place] /\ at'[r] = place
    BY DEF Goto, WakeupInv, TypeOK
  <1>2. got[r] \in Results /\ prev[r] \in Times
    BY DEF WakeupInv, TypeOK
  <1>3. TypeOK'
    BY <1>1, <1>2, ReaderTypes DEF WakeupInv
  <1>4. \A c \in Readers \ {r} : at'[c] = at[c] /\ ask'[c] = ask[c] /\ work'[c] = work[c]
    BY <1>1 DEF WakeupInv, TypeOK
  <1>5. at'[r] = "waiting" => ~Newer(r)'
    BY <1>1 DEF Newer
  <1> QED
    BY <1>1, <1>3, <1>4, <1>5, ReaderStep

(* What a consumer holds, in the form the lemmas above need it.            *)
LEMMA ReaderFacts ==
    ASSUME WakeupInv, NEW r \in Readers
    PROVE  /\ ask[r] \in Requests
           /\ work[r] \in Frames \cup {None}
           /\ exec_th \in {None, "running", "ended"}
           /\ Nothing \in Results /\ Failure \in Results
           /\ \A img \in 1 .. MaxImages, ts \in Times : Stored(img, ts) \in Results
  BY DEF WakeupInv, TypeOK, Nothing, Failure, Stored, Results, Times

LEMMA AskInv == ASSUME WakeupInv, NEW r \in Readers, Ask(r) PROVE WakeupInv'
  <1>1. PICK q \in Requests : ask' = [ask EXCEPT ![r] = q]
    <2>1. prev[r] \in Times /\ now \in Times /\ 0 \in Times
      BY DEF WakeupInv, TypeOK, Times
    <2>2. CASE \E op \in {"get_frame", "get_frame_to"}, h \in {FALSE, ShowsFailure}, a \in {prev[r], now} :
                 ask' = [ask EXCEPT ![r] = [op |-> op, image |-> h, after |-> a]]
      <3>1. PICK op \in {"get_frame", "get_frame_to"}, h \in {FALSE, ShowsFailure}, a \in {prev[r], now} :
                 ask' = [ask EXCEPT ![r] = [op |-> op, image |-> h, after |-> a]]
        BY <2>2
      <3>2. h \in BOOLEAN
        BY Zenon
      <3>3. [op |-> op, image |-> h, after |-> a] \in Requests
        BY <2>1, <3>2 DEF Requests
      <3> QED
        BY <3>1, <3>3
    <2>3. CASE ask' = [ask EXCEPT ![r] = [op |-> "wait_for_meta", image |-> FALSE, after |-> 0]]
      <3>1. [op |-> "wait_for_meta", image |-> FALSE, after |-> 0] \in Requests
        BY <2>1 DEF Requests
      <3> QED
        BY <2>3, <3>1
    <2> QED
      BY <2>2, <2>3 DEF Ask
  <1>2. crashed' \in BOOLEAN
    BY Zenon DEF Ask, script, WakeupInv, TypeOK
  <1>3. "test" \in ReaderPlaces /\ "test" # "waiting" /\ "test" # "copied"
    BY DEF ReaderPlaces
  <1>4. exec_th' \in {None, "running", "ended"} /\ work[r] \in Frames \cup {None}
    BY ReaderFacts DEF Ask, script
  <1>5. Goto(r, "test") /\ UNCHANGED <<now, captured, vf, producer, work, got, prev>>
    BY DEF Ask
  <1> QED
    BY <1>1, <1>2, <1>3, <1>4, <1>5, GoInv

LEMMA SpuriousInv == ASSUME WakeupInv, NEW r \in Readers, Spurious(r) PROVE WakeupInv'
  <1>1. crashed' \in BOOLEAN
    BY Zenon DEF Spurious, script, WakeupInv, TypeOK
  <1>2. "woken" \in ReaderPlaces
    BY DEF ReaderPlaces
  <1> QED
    BY <1>1, <1>2, ReaderFacts, GoInv DEF Spurious, script

LEMMA TakeFrameInv == ASSUME WakeupInv, NEW r \in Readers, TakeFrame(r) PROVE WakeupInv'
  <1>1. crashed' \in BOOLEAN
    BY Zenon DEF TakeFrame, script, WakeupInv, TypeOK
  <1>2. "idle" \in ReaderPlaces /\ "copied" \in ReaderPlaces
    BY DEF ReaderPlaces
  <1>3. vf \in Frames /\ vf # None
    BY DEF TakeFrame, Newer, WakeupInv, TypeOK
  <1>4. CASE Goto(r, "idle") /\ UNCHANGED <<work, got, prev>>
    BY <1>1, <1>2, <1>4, ReaderFacts, GoInv DEF TakeFrame, script
  <1>5. CASE Give(r, Stored(vf.img, vf.ts)) /\ UNCHANGED work
    <2>1. Stored(vf.img, vf.ts) \in Results
      BY <1>3, ReaderFacts DEF Frames
    <2> QED
      BY <1>5, <2>1, ReaderFacts, GiveInv DEF TakeFrame
  <1>6. CASE /\ work' = [work EXCEPT ![r] = vf]
             /\ Goto(r, "copied")
             /\ UNCHANGED <<got, prev>>
    <2>1. work'[r] # None
      BY <1>3, <1>6 DEF WakeupInv, TypeOK
    <2> QED
      BY <1>1, <1>2, <1>3, <1>6, <2>1, ReaderFacts, GoInv DEF TakeFrame, script
  <1> QED
    BY <1>4, <1>5, <1>6 DEF TakeFrame

LEMMA ReturnCopyInv == ASSUME WakeupInv, NEW r \in Readers, ReturnCopy(r) PROVE WakeupInv'
  <1>1. work[r] \in Frames /\ vf \in Frames
    BY DEF ReturnCopy, WakeupInv, CopiedHasFrame, TypeOK
  <1>2. PICK ts \in Times : Give(r, Stored(work[r].img, ts))
    BY <1>1 DEF ReturnCopy, Frames
  <1>3. Stored(work[r].img, ts) \in Results
    BY <1>1, ReaderFacts DEF Frames
  <1> QED
    BY <1>2, <1>3, GiveInv DEF ReturnCopy

LEMMA WaitInv == ASSUME WakeupInv, NEW r \in Readers, Wait(r) PROVE WakeupInv'
  <1>1. crashed' \in BOOLEAN
    BY Zenon DEF Wait, script, WakeupInv, TypeOK
  <1>2. "waiting" \in ReaderPlaces
    BY DEF ReaderPlaces
  <1> QED
    BY <1>1, <1>2, ReaderFacts, GoInv DEF Wait, script

LEMMA TimedOutInv == ASSUME WakeupInv, NEW r \in Readers, TimedOut(r) PROVE WakeupInv'
  <1>1. crashed' \in BOOLEAN
    BY Zenon DEF TimedOut, script, WakeupInv, TypeOK
  <1>2. "failed" \in ReaderPlaces /\ "check" \in ReaderPlaces
    BY DEF ReaderPlaces
  <1>3. CASE Give(r, Nothing)
    BY <1>3, ReaderFacts, GiveInv DEF TimedOut
  <1>4. CASE (Goto(r, "failed") \/ Goto(r, "check")) /\ UNCHANGED <<got, prev>>
    BY <1>1, <1>2, <1>4, ReaderFacts, GoInv DEF TimedOut, script
  <1> QED
    BY <1>3, <1>4 DEF TimedOut

LEMMA ExecInv ==
    ASSUME WakeupInv, NEW r \in Readers, ExecCheck(r) \/ ExecJoin(r) \/ ExecSpawn(r)
    PROVE  WakeupInv'
  <1>1. crashed' \in BOOLEAN
    BY Zenon DEF ExecCheck, ExecJoin, ExecSpawn, script, WakeupInv, TypeOK
  <1>2. "spawn" \in ReaderPlaces /\ "join" \in ReaderPlaces /\ "failed" \in ReaderPlaces
    BY DEF ReaderPlaces
  <1>3. exec_th' \in {None, "running", "ended"}
    BY DEF ExecCheck, ExecJoin, ExecSpawn, script, WakeupInv, TypeOK
  <1>4. /\ UNCHANGED <<now, captured, vf, producer, ask, work, got, prev>>
        /\ Goto(r, "spawn") \/ Goto(r, "join") \/ Goto(r, "failed")
    BY DEF ExecCheck, ExecJoin, ExecSpawn
  <1> QED
    BY <1>1, <1>2, <1>3, <1>4, ReaderFacts, GoInv

LEMMA ReturnFailureInv == ASSUME WakeupInv, NEW r \in Readers, ReturnFailure(r) PROVE WakeupInv'
  BY ReaderFacts, GiveInv DEF ReturnFailure

(* The frame that is stored is a captured one.                             *)
LEMMA NewIsFrame ==
    ASSUME captured \in 0 .. MaxImages, producer \in [at : ProducerPlaces, ts : Times],
           StoredIsCaptured, producer.at \in {"replace", "replace_scaled"}
    PROVE  NewFrame \in Frames /\ NewFrame # None
  <1>1. NewFrame \in Frames
    BY DEF NewFrame, Frames, StoredIsCaptured
  <1> QED
    BY <1>1

(* The steps of the capturing thread, of the clock and of the script.      *)
LEMMA ProducerInv ==
    ASSUME WakeupInv, Capture \/ DeleteFrame \/ SetFrame \/ SetScaledFrame \/ ScaledNotify \/ FakeFrame
    PROVE  WakeupInv'
  <1>1. crashed' \in BOOLEAN
    BY Zenon DEF Capture, DeleteFrame, SetFrame, SetScaledFrame, ScaledNotify, FakeFrame,
                 script, WakeupInv, TypeOK
  <1>2. /\ UNCHANGED <<now, ask, work, got, prev, exec_th>>
        /\ at' \in [Readers -> ReaderPlaces]
        /\ \A r \in Readers : at'[r] = "copied" <=> at[r] = "copied"
        /\ \A r \in Readers : at'[r] = "waiting" => at'[r] = at[r]
    BY DEF Capture, DeleteFrame, SetFrame, SetScaledFrame, ScaledNotify, FakeFrame,
           NotifyAll, reading, script, WakeupInv, TypeOK, ReaderPlaces
  <1>3. /\ captured' \in 0 .. MaxImages
        /\ producer' \in [at : ProducerPlaces, ts : Times]
        /\ vf' \in Frames \cup {None}
        /\ vf # None => vf' # None
        /\ StoredIsCaptured'
    <2>1. /\ now \in Times /\ 0 \in Times /\ MaxImages \in Nat
          /\ captured \in 0 .. MaxImages /\ vf \in Frames \cup {None}
          /\ producer \in [at : ProducerPlaces, ts : Times]
          /\ StoredIsCaptured
      BY DEF WakeupInv, TypeOK, Times
    <2>2. [at |-> "capture", ts |-> 0] \in [at : ProducerPlaces, ts : Times]
      BY <2>1 DEF ProducerPlaces
    <2>3. [at |-> "notify", ts |-> 0] \in [at : ProducerPlaces, ts : Times]
      BY <2>1 DEF ProducerPlaces
    <2>4. CASE Capture
      <3>1. PICK place \in {"delete", "delete_scaled"} : producer' = [at |-> place, ts |-> now]
        BY <2>4 DEF Capture
      <3>2. place \in ProducerPlaces
        BY DEF ProducerPlaces
      <3>3. producer' \in [at : ProducerPlaces, ts : Times]
        BY <2>1, <3>1, <3>2
      <3>4. captured' \in 0 .. MaxImages /\ captured' > 0
        BY <2>1, <2>4 DEF Capture
      <3> QED
        BY <2>1, <2>4, <3>3, <3>4 DEF Capture, StoredIsCaptured
    <2>5. CASE DeleteFrame
      BY <2>1, <2>5 DEF DeleteFrame, StoredIsCaptured, ProducerPlaces
    <2>6. CASE SetFrame \/ SetScaledFrame
      <3>1. NewFrame \in Frames /\ NewFrame # None
        BY <2>1, <2>6, NewIsFrame DEF SetFrame, SetScaledFrame
      <3> QED
        BY <2>1, <2>2, <2>3, <2>6, <3>1 DEF SetFrame, SetScaledFrame, StoredIsCaptured
    <2>7. CASE ScaledNotify
      BY <2>1, <2>2, <2>7 DEF ScaledNotify, StoredIsCaptured
    <2>8. CASE FakeFrame
      <3>1. vf # None => [vf EXCEPT !.ts = now] \in Frames /\ [vf EXCEPT !.ts = now] # None
        BY <2>1 DEF Frames
      <3> QED
        BY <2>1, <2>8, <3>1 DEF FakeFrame, StoredIsCaptured
    <2> QED
      BY <2>4, <2>5, <2>6, <2>7, <2>8
  <1>4. TypeOK'
    BY <1>1, <1>2, <1>3 DEF WakeupInv, TypeOK
  <1>5. CopiedHasFrame'
    BY <1>2, <1>3 DEF WakeupInv, CopiedHasFrame
  <1>6. NoLostWakeup'
    <2>1. CASE Capture \/ DeleteFrame
      BY <2>1 DEF Capture, DeleteFrame, reading, WakeupInv, NoLostWakeup, Newer
    <2>2. CASE SetFrame \/ ScaledNotify \/ FakeFrame
      <3>1. \A r \in Readers : at'[r] # "waiting"
        BY <2>2 DEF SetFrame, ScaledNotify, FakeFrame, NotifyAll, WakeupInv, TypeOK
      <3> QED
        BY <3>1 DEF NoLostWakeup
    <2>3. CASE SetScaledFrame
      BY <2>3 DEF SetScaledFrame, NoLostWakeup
    <2> QED
      BY <2>1, <2>2, <2>3
  <1> QED
    BY <1>3, <1>4, <1>5, <1>6 DEF WakeupInv

LEMMA OtherInv == ASSUME WakeupInv, Tick \/ ScriptEnds \/ UNCHANGED vars PROVE WakeupInv'
  <1>1. crashed' \in BOOLEAN
    BY Zenon DEF Tick, ScriptEnds, vars, script, WakeupInv, TypeOK
  <1>2. /\ UNCHANGED <<captured, vf, producer, at, ask, work, got, prev>>
        /\ now' \in 1 .. MaxTime
        /\ exec_th' \in {None, "running", "ended"}
    BY DEF Tick, ScriptEnds, vars, reading, script, WakeupInv, TypeOK
  <1> QED
    BY <1>1, <1>2 DEF WakeupInv, TypeOK, NoLostWakeup, CopiedHasFrame, StoredIsCaptured, Newer

LEMMA NextInv == ASSUME WakeupInv, [Next]_vars PROVE WakeupInv'
  <1>1. CASE Tick \/ ScriptEnds \/ UNCHANGED vars
    BY <1>1, OtherInv
  <1>2. CASE Capture \/ FakeFrame \/ Produce
    BY <1>2, ProducerInv DEF Produce
  <1>3. ASSUME NEW r \in Readers, Ask(r) \/ Spurious(r) \/ Read(r) PROVE WakeupInv'
    BY <1>3, AskInv, SpuriousInv, TakeFrameInv, ReturnCopyInv, WaitInv, TimedOutInv,
       ExecInv, ReturnFailureInv DEF Read
  <1> QED
    BY <1>1, <1>2, <1>3 DEF Next, Running

\* In every reachable state of every instance, no consumer waits while there
\* is a frame newer than it asked for, save while set_scaled_frame() is about
\* to notify: set_frame(), set_scaled_frame(), fake_frame() and the waiting
\* loops of get_frame(), get_frame_to() and wait_for_meta() lose no wake-up.
THEOREM NobodySleepsThroughAFrame == Spec => []WakeupInv
  <1>1. Init => WakeupInv
    BY InitInv
  <1>2. WakeupInv /\ [Next]_vars => WakeupInv'
    BY NextInv
  <1> QED
    BY <1>1, <1>2, PTL DEF Spec

-----------------------------------------------------------------------------
(* The order of what a consumer is shown.                                  *)

\* An image that is about to be stored is newer than the one that is stored,
\* which is no older than any a consumer holds or was shown.
ImagesGrow ==
    /\ vf # None => vf.img <= captured
    /\ producer.at \in {"delete", "delete_scaled", "replace", "replace_scaled"} /\ vf # None
          => vf.img < captured
    /\ \A r \in Readers :
          /\ got[r].kind = "stored" => vf # None /\ got[r].img <= vf.img
          /\ at[r] = "copied" =>
                /\ vf # None /\ work[r].img <= vf.img
                /\ got[r].kind = "stored" => got[r].img <= work[r].img

OrderInv == WakeupInv /\ ImagesGrow

LEMMA InitOrder == Init => OrderInv
  BY InitInv DEF Init, OrderInv, ImagesGrow, Nothing

(* Images are numbers.                                                     *)
LEMMA ImageTypes ==
    ASSUME WakeupInv
    PROVE  /\ captured \in Int
           /\ vf # None => vf.img \in Int /\ vf.ts \in Int
           /\ \A r \in Readers : /\ got[r].img \in Int /\ got[r].ts \in Int
                                 /\ ask[r].after \in Int
                                 /\ work[r] # None => work[r].img \in Int
  <1>1. /\ captured \in Int
        /\ vf # None => vf \in Frames
        /\ \A r \in Readers : /\ got[r] \in Results /\ ask[r] \in Requests
                              /\ work[r] # None => work[r] \in Frames
    BY DEF WakeupInv, TypeOK
  <1> QED
    BY <1>1 DEF Frames, Results, Requests, Times

(* A step of a consumer concerns what this one holds and was shown.        *)
LEMMA ReaderOrder ==
    ASSUME ImagesGrow, NEW r \in Readers,
           UNCHANGED <<captured, vf, producer>>,
           \A q \in Readers \ {r} : at'[q] = at[q] /\ work'[q] = work[q] /\ got'[q] = got[q],
           got'[r].kind = "stored" => vf # None /\ got'[r].img <= vf.img,
           at'[r] = "copied" =>
                /\ vf # None /\ work'[r].img <= vf.img
                /\ got'[r].kind = "stored" => got'[r].img <= work'[r].img
    PROVE  ImagesGrow'
  BY DEF ImagesGrow

(* What FramesAdvance says of one consumer.                                *)
Advances(r) ==
    LET returns == ask[r].op # "wait_for_meta" /\ at[r] # "idle" /\ at'[r] = "idle"
    IN  returns /\ got[r].kind = "stored" /\ got'[r].kind = "stored"
          /\ ask[r].after = got[r].ts
        => \/ got'[r].img > got[r].img
           \/ got'[r].img = got[r].img /\ (work[r] = None => got'[r].ts > got[r].ts)

(* Only a call that ends with a frame shows one.                           *)
LEMMA ReaderAdvances ==
    ASSUME OrderInv, NEW r \in Readers, Ask(r) \/ Spurious(r) \/ Read(r)
    PROVE  ImagesGrow' /\ Advances(r) /\ \A q \in Readers \ {r} : at'[q] = at[q]
  <1> USE DEF OrderInv
  <1>0. /\ at \in [Readers -> ReaderPlaces] /\ work \in [Readers -> Frames \cup {None}]
        /\ got \in [Readers -> Results]
    BY DEF WakeupInv, TypeOK
  <1>1. /\ vf # None => vf.img \in Int /\ vf.ts \in Int
        /\ got[r].img \in Int /\ got[r].ts \in Int /\ ask[r].after \in Int
        /\ work[r] # None => work[r].img \in Int
    BY ImageTypes
  <1>2. /\ got[r].kind = "stored" => vf # None /\ got[r].img <= vf.img
        /\ at[r] = "copied" =>
              /\ vf # None /\ work[r] # None /\ work[r].img <= vf.img
              /\ got[r].kind = "stored" => got[r].img <= work[r].img
    BY DEF ImagesGrow, WakeupInv, CopiedHasFrame
  <1>3. CASE \/ Ask(r) \/ Spurious(r) \/ Wait(r)
             \/ ExecCheck(r) \/ ExecJoin(r) \/ ExecSpawn(r)
    <2>1. /\ UNCHANGED <<captured, vf, producer, work, got>>
          /\ at'[r] \notin {"idle", "copied"}
          /\ \A q \in Readers \ {r} : at'[q] = at[q]
      <3>1. CASE Ask(r)
        <4>1. UNCHANGED <<captured, vf, producer, work, got>> /\ Goto(r, "test")
          BY <3>1 DEF Ask
        <4> QED
          BY <1>0, <4>1 DEF Goto
      <3>2. CASE Spurious(r)
        BY <1>0, <3>2 DEF Spurious, Goto
      <3>3. CASE Wait(r)
        BY <1>0, <3>3 DEF Wait, Goto
      <3>4. CASE ExecCheck(r)
        <4>1. /\ UNCHANGED <<captured, vf, producer, work, got>>
              /\ Goto(r, IF exec_th = None THEN "spawn" ELSE "join")
          BY <3>4 DEF ExecCheck
        <4>2. CASE exec_th = None
          BY <1>0, <4>1, <4>2 DEF Goto
        <4>3. CASE exec_th # None
          BY <1>0, <4>1, <4>3 DEF Goto
        <4> QED
          BY <4>2, <4>3
      <3>5. CASE ExecJoin(r)
        <4>1. UNCHANGED <<captured, vf, producer, work, got>> /\ Goto(r, "spawn")
          BY <3>5 DEF ExecJoin
        <4> QED
          BY <1>0, <4>1 DEF Goto
      <3>6. CASE ExecSpawn(r)
        BY <1>0, <3>6 DEF ExecSpawn, Goto
      <3> QED
        BY <1>3, <3>1, <3>2, <3>3, <3>4, <3>5, <3>6
    <2>2. ImagesGrow'
      BY <1>2, <2>1, ReaderOrder
    <2> QED
      BY <2>1, <2>2 DEF Advances
  <1>4. CASE TakeFrame(r)
    <2>0. /\ UNCHANGED <<captured, vf, producer>> /\ Newer(r) /\ at[r] # "copied"
      BY <1>4 DEF TakeFrame
    <2>1. CASE ask[r].op = "wait_for_meta" /\ Goto(r, "idle") /\ UNCHANGED <<work, got, prev>>
      <3>1. at'[r] = "idle" /\ \A q \in Readers \ {r} : at'[q] = at[q]
        BY <1>0, <2>1 DEF Goto
      <3>2. ImagesGrow'
        BY <1>2, <2>0, <2>1, <3>1, ReaderOrder
      <3> QED
        BY <2>1, <3>1, <3>2 DEF Advances
    <2>2. CASE Give(r, Stored(vf.img, vf.ts)) /\ UNCHANGED work
      <3>1. /\ at'[r] = "idle" /\ got'[r] = Stored(vf.img, vf.ts)
            /\ \A q \in Readers \ {r} : at'[q] = at[q] /\ got'[q] = got[q]
        BY <1>0, <2>2 DEF Give, Goto
      <3>2. got'[r].img = vf.img /\ got'[r].ts = vf.ts
        BY <3>1 DEF Stored
      <3>3. vf # None /\ vf.ts > ask[r].after
        BY <2>0 DEF Newer
      <3>4. ImagesGrow'
        BY <1>1, <2>0, <2>2, <3>1, <3>2, <3>3, ReaderOrder
      <3>5. Advances(r)
        BY <1>1, <1>2, <3>2, <3>3 DEF Advances
      <3> QED
        BY <3>1, <3>4, <3>5
    <2>3. CASE work' = [work EXCEPT ![r] = vf] /\ Goto(r, "copied") /\ UNCHANGED <<got, prev>>
      <3>1. /\ at'[r] = "copied" /\ work'[r] = vf
            /\ \A q \in Readers \ {r} : at'[q] = at[q] /\ work'[q] = work[q]
        BY <1>0, <2>3 DEF Goto
      <3>2. vf # None
        BY <2>0 DEF Newer
      <3>3. ImagesGrow'
        BY <1>1, <1>2, <2>0, <2>3, <3>1, <3>2, ReaderOrder
      <3> QED
        BY <3>1, <3>3 DEF Advances
    <2> QED
      BY <1>4, <2>1, <2>2, <2>3 DEF TakeFrame
  <1>5. CASE ReturnCopy(r)
    <2>1. PICK ts : Give(r, Stored(work[r].img, ts))
      BY <1>5 DEF ReturnCopy
    <2>2. /\ at[r] = "copied" /\ work' = [work EXCEPT ![r] = None]
          /\ UNCHANGED <<captured, vf, producer>>
      BY <1>5 DEF ReturnCopy
    <2>3. /\ at'[r] = "idle" /\ got'[r] = Stored(work[r].img, ts)
          /\ \A q \in Readers \ {r} :
                at'[q] = at[q] /\ got'[q] = got[q] /\ work'[q] = work[q]
      BY <1>0, <2>1, <2>2 DEF Give, Goto
    <2>4. got'[r].img = work[r].img
      BY <2>3 DEF Stored
    <2>5. ImagesGrow'
      BY <1>2, <2>2, <2>3, <2>4, ReaderOrder
    <2>6. Advances(r)
      BY <1>1, <1>2, <2>2, <2>4 DEF Advances
    <2> QED
      BY <2>3, <2>5, <2>6
  <1>6. CASE TimedOut(r) \/ ReturnFailure(r)
    <2>1. /\ UNCHANGED <<captured, vf, producer, work>>
          /\ at'[r] \notin {"copied"}
          /\ got'[r].kind = "stored" => got'[r] = got[r] /\ at'[r] # "idle"
          /\ \A q \in Readers \ {r} : at'[q] = at[q] /\ got'[q] = got[q]
      <3>1. \/ /\ Goto(r, "failed") \/ Goto(r, "check")
               /\ got' = got
            \/ \E f \in {Nothing, Failure} : Give(r, f)
        BY <1>6 DEF TimedOut, ReturnFailure
      <3>2. UNCHANGED <<captured, vf, producer, work>>
        BY <1>6 DEF TimedOut, ReturnFailure
      <3> QED
        BY <1>0, <3>1, <3>2 DEF Give, Goto, Nothing, Failure
    <2>2. ImagesGrow'
      BY <1>2, <2>1, ReaderOrder
    <2> QED
      BY <2>1, <2>2 DEF Advances
  <1> QED
    BY <1>3, <1>4, <1>5, <1>6 DEF Read

(* The capturing thread stores newer images only, and shows nobody any.    *)
LEMMA ProducerOrder ==
    ASSUME OrderInv, Capture \/ FakeFrame \/ Produce
    PROVE  ImagesGrow' /\ \A r \in Readers : at[r] # "idle" => at'[r] # "idle"
  <1> USE DEF OrderInv
  <1>0. /\ at \in [Readers -> ReaderPlaces] /\ captured \in Int
        /\ producer \in [at : ProducerPlaces, ts : Times]
        /\ vf # None => vf \in Frames /\ vf.img \in Int
        /\ None \notin Frames
    BY ImageTypes DEF WakeupInv, TypeOK
  <1>1. \A r \in Readers : /\ got[r].img \in Int
                           /\ work[r] # None => work[r].img \in Int
                           /\ at[r] = "copied" => work[r] # None
    BY ImageTypes DEF WakeupInv, CopiedHasFrame
  <1>2. CASE Capture
    <2>1. /\ captured' = captured + 1 /\ UNCHANGED <<vf, at, work, got>>
      BY <1>2 DEF Capture, reading
    <2> QED
      BY <1>0, <2>1 DEF ImagesGrow
  <1>3. CASE DeleteFrame
    <2>1. /\ UNCHANGED <<captured, vf, at, work, got>>
          /\ producer.at \in {"delete", "delete_scaled"}
      BY <1>3 DEF DeleteFrame, reading
    <2> QED
      BY <1>0, <2>1 DEF ImagesGrow
  <1>4. CASE SetFrame \/ SetScaledFrame
    <2>1. /\ producer.at \in {"replace", "replace_scaled"} /\ vf' = NewFrame
          /\ producer'.at \in {"capture", "notify"} /\ UNCHANGED <<captured, work, got>>
          /\ \A r \in Readers : at'[r] = IF at[r] = "waiting" THEN at'[r] ELSE at[r]
          /\ \A r \in Readers : at[r] = "waiting" => at'[r] \in {"waiting", "woken"}
      BY <1>0, <1>4 DEF SetFrame, SetScaledFrame, NotifyAll, reading
    <2>2. vf'.img = captured /\ vf' # None
      <3>1. vf' \in Frames
        BY <1>0, <2>1 DEF NewFrame, Frames, Times, WakeupInv, StoredIsCaptured, TypeOK
      <3>2. vf'.img = captured
        BY <2>1 DEF NewFrame
      <3> QED
        BY <1>0, <3>1, <3>2
    <2>3. vf # None => vf.img < captured
      BY <2>1 DEF ImagesGrow
    <2>4. \A r \in Readers :
             /\ got[r].kind = "stored" => got[r].img <= captured
             /\ at[r] = "copied" => work[r].img <= captured
      BY <1>0, <1>1, <2>3 DEF ImagesGrow
    <2>5. ImagesGrow'
      BY <1>0, <2>1, <2>2, <2>4 DEF ImagesGrow
    <2> QED
      BY <2>1, <2>5
  <1>5. CASE ScaledNotify \/ FakeFrame
    <2>1. /\ UNCHANGED <<captured, work, got>>
          /\ producer'.at = "capture"
          /\ vf' # None <=> vf # None
          /\ vf # None => vf'.img = vf.img
          /\ \A r \in Readers : at'[r] = IF at[r] = "waiting" THEN "woken" ELSE at[r]
      <3>1. CASE ScaledNotify
        BY <1>0, <3>1 DEF ScaledNotify, NotifyAll
      <3>2. CASE FakeFrame
        <4>1. now \in Times
          BY DEF WakeupInv, TypeOK, Times
        <4>2. vf # None => [vf EXCEPT !.ts = now] \in Frames /\ [vf EXCEPT !.ts = now].img = vf.img
          BY <1>0, <4>1 DEF Frames
        <4> QED
          BY <1>0, <3>2, <4>2 DEF FakeFrame, NotifyAll
      <3> QED
        BY <1>5, <3>1, <3>2
    <2>2. ImagesGrow'
      BY <1>0, <2>1 DEF ImagesGrow
    <2> QED
      BY <2>1, <2>2
  <1> QED
    BY <1>2, <1>3, <1>4, <1>5 DEF Produce

LEMMA NextOrder ==
    ASSUME OrderInv, [Next]_vars
    PROVE  OrderInv' /\ \A r \in Readers : Advances(r)
  <1>0. WakeupInv'
    BY NextInv DEF OrderInv
  <1>1. CASE Tick \/ ScriptEnds \/ UNCHANGED vars
    <2>1. UNCHANGED <<captured, vf, producer, at, work, got>>
      BY <1>1 DEF Tick, ScriptEnds, vars, reading
    <2> QED
      BY <1>0, <2>1 DEF OrderInv, ImagesGrow, Advances
  <1>2. CASE Capture \/ FakeFrame \/ Produce
    <2>1. \A r \in Readers : Advances(r)
      BY <1>2, ProducerOrder DEF Advances
    <2> QED
      BY <1>0, <1>2, <2>1, ProducerOrder DEF OrderInv
  <1>3. ASSUME NEW r \in Readers, Ask(r) \/ Spurious(r) \/ Read(r)
        PROVE  OrderInv' /\ \A q \in Readers : Advances(q)
    <2>1. \A q \in Readers \ {r} : Advances(q)
      BY <1>3, ReaderAdvances DEF Advances
    <2> QED
      BY <1>0, <1>3, <2>1, ReaderAdvances DEF OrderInv
  <1> QED
    BY <1>1, <1>2, <1>3 DEF Next, Running

\* A consumer that passes the time stamp of its last frame is never shown an
\* older image, and the same one only as a frame that counts as new, for any
\* number of consumers and however the clock is set.
THEOREM FramesAdvanceAlways == Spec => FramesAdvance
  <1> DEFINE EachAdvances == \A r \in Readers : Advances(r)
  <1>1. Init => OrderInv
    BY InitOrder
  <1>2. OrderInv /\ [Next]_vars => OrderInv' /\ EachAdvances
    BY NextOrder
  <1>3. FramesAdvance <=> [][EachAdvances]_vars
    BY PTL DEF FramesAdvance, Advances
  <1> HIDE DEF EachAdvances
  <1> QED
    BY <1>1, <1>2, <1>3, PTL DEF Spec

=============================================================================
