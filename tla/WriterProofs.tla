---------------------------- MODULE WriterProofs -----------------------------
(***************************************************************************)
(* StreamWriter: the memory, the queue and the output of ten targets, for  *)
(* any number of frames of the camera and of frames of before the motion.  *)
(*                                                                         *)
(* While a target runs, and during each of its steps, there is an account  *)
(* of its frames (Account): which are its own, X, apart from those that    *)
(* wait in the queue, each of which is there once (Owns); that what was    *)
(* stored, what it has in hand and what waits is the recording S (Taped);  *)
(* and what can be said of its file (Filed).  Each operator of the module  *)
(* has a lemma that says what it makes of such an account; a frame, or the *)
(* end, of a target is a chain of them.                                    *)
(***************************************************************************)
EXTENDS StreamWriter, SequenceTheorems, FiniteSetTheorems, WellFoundedInduction, TLAPS

\* What is in memory: any numbers, and where frames can come from.
Origins == {"trigger", "camera", "filtered", "copy", "scaled"}
Buffers == Int \X Origins
WriterPlaces == {"off", "loop", "get", "leave", "failed", "done"}
Writers ==
    [kind : WriterKinds, filtered : BOOLEAN, max_time : BOOLEAN, at : WriterPlaces, ts : Int,
     uses : Int, handed : Seq(Int), taken : Seq(Int), written : Seq(Int),
     pre_record : Seq(Buffers), prev : Buffers \cup {Null}, live : SUBSET Buffers,
     fault : BOOLEAN, open : BOOLEAN, rotates : BOOLEAN, in_file : Int, empty : BOOLEAN,
     unstored : BOOLEAN]

\* What an operator leaves alone: the thread and its frames, its file, its memory.
SameThread(v, w) ==
    /\ w.kind = v.kind /\ w.filtered = v.filtered /\ w.max_time = v.max_time /\ w.ts = v.ts
    /\ w.handed = v.handed /\ w.taken = v.taken /\ w.at = v.at /\ w.uses = v.uses
SameFile(v, w) ==
    /\ w.written = v.written /\ w.open = v.open /\ w.rotates = v.rotates
    /\ w.in_file = v.in_file /\ w.empty = v.empty /\ w.unstored = v.unstored
SameMemory(v, w) ==
    /\ w.pre_record = v.pre_record /\ w.prev = v.prev /\ w.live = v.live /\ w.fault = v.fault
SameQueue(v, w) == w.pre_record = v.pre_record /\ w.prev = v.prev

LEMMA NewEffect ==
    ASSUME NEW v \in Writers, NEW b \in Buffers
    PROVE  /\ New(v, b) \in Writers /\ SameThread(v, New(v, b)) /\ SameFile(v, New(v, b))
           /\ SameQueue(v, New(v, b)) /\ New(v, b).fault = v.fault
           /\ New(v, b).live = v.live \cup {b}
BY DEF New, Writers, SameThread, SameFile, SameQueue

LEMMA UseEffect ==
    ASSUME NEW v \in Writers, NEW b
    PROVE  /\ Use(v, b) \in Writers /\ SameThread(v, Use(v, b)) /\ SameFile(v, Use(v, b))
           /\ SameQueue(v, Use(v, b)) /\ Use(v, b).live = v.live
           /\ Use(v, b).fault = (v.fault \/ b \notin v.live)
BY DEF Use, Writers, SameThread, SameFile, SameQueue

LEMMA BuffersAreThere == \A b \in Buffers : b # Null
BY DEF Buffers, Origins, Null

LEMMA DeleteEffect ==
    ASSUME NEW v \in Writers, NEW b \in Buffers
    PROVE  /\ Delete(v, b) \in Writers /\ SameThread(v, Delete(v, b))
           /\ SameFile(v, Delete(v, b)) /\ SameQueue(v, Delete(v, b))
           /\ Delete(v, b).live = v.live \ {b}
           /\ Delete(v, b).fault = (v.fault \/ b \notin v.live)
<1> DEFINE u == Use(v, b)
           l == v.live \ {b}
<1>1. /\ u \in Writers /\ SameThread(v, u) /\ SameFile(v, u) /\ SameQueue(v, u)
      /\ u.live = v.live /\ u.fault = (v.fault \/ b \notin v.live)
    BY UseEffect
<1>2. Delete(v, b) = [u EXCEPT !.live = u.live \ {b}]
    BY BuffersAreThere DEF Delete
<1> HIDE DEF u
<1>3. [u EXCEPT !.live = l] \in Writers /\ [u EXCEPT !.live = l].live = l
      /\ SameThread(u, [u EXCEPT !.live = l]) /\ SameFile(u, [u EXCEPT !.live = l])
      /\ SameQueue(u, [u EXCEPT !.live = l]) /\ [u EXCEPT !.live = l].fault = u.fault
    <2>1. l \in SUBSET Buffers
        BY DEF Writers
    <2> HIDE DEF l
    <2> QED
        BY <1>1, <2>1 DEF Writers, SameThread, SameFile, SameQueue
<1> QED
    BY <1>1, <1>2, <1>3 DEF SameThread, SameFile, SameQueue

LEMMA DeleteNothing ==
    ASSUME NEW v
    PROVE  Delete(v, Null) = v
BY DEF Delete

LEMMA SetPrevEffect ==
    ASSUME NEW v \in Writers, NEW b \in Buffers \cup {Null}
    PROVE  /\ SetPrev(v, b) \in Writers /\ SameThread(v, SetPrev(v, b))
           /\ SameFile(v, SetPrev(v, b)) /\ SetPrev(v, b).prev = b
           /\ SetPrev(v, b).pre_record = v.pre_record
           /\ SetPrev(v, b).live = v.live /\ SetPrev(v, b).fault = v.fault
BY DEF SetPrev, Writers, SameThread, SameFile

LEMMA PushEffect ==
    ASSUME NEW v \in Writers, NEW b \in Buffers
    PROVE  /\ Push(v, b) \in Writers /\ SameThread(v, Push(v, b)) /\ SameFile(v, Push(v, b))
           /\ Push(v, b).prev = v.prev /\ Push(v, b).live = v.live /\ Push(v, b).fault = v.fault
           /\ Push(v, b).pre_record = Append(v.pre_record, b)
<1> DEFINE q == Append(v.pre_record, b)
<1>1. q \in Seq(Buffers) /\ Push(v, b) = [v EXCEPT !.pre_record = q]
    BY DEF Push, Writers
<1> HIDE DEF q
<1>2. /\ [v EXCEPT !.pre_record = q] \in Writers /\ [v EXCEPT !.pre_record = q].pre_record = q
      /\ SameThread(v, [v EXCEPT !.pre_record = q]) /\ SameFile(v, [v EXCEPT !.pre_record = q])
      /\ [v EXCEPT !.pre_record = q].prev = v.prev /\ [v EXCEPT !.pre_record = q].live = v.live
      /\ [v EXCEPT !.pre_record = q].fault = v.fault
    BY <1>1 DEF Writers, SameThread, SameFile
<1> QED
    BY <1>1, <1>2 DEF q

LEMMA PopEffect ==
    ASSUME NEW v \in Writers, v.pre_record # <<>>
    PROVE  /\ Pop(v) \in Writers /\ SameThread(v, Pop(v)) /\ SameFile(v, Pop(v))
           /\ Pop(v).prev = v.prev /\ Pop(v).live = v.live /\ Pop(v).fault = v.fault
           /\ Pop(v).pre_record = Tail(v.pre_record) /\ First(v) \in Buffers
<1> DEFINE q == Tail(v.pre_record)
<1>1. q \in Seq(Buffers) /\ Pop(v) = [v EXCEPT !.pre_record = q] /\ First(v) \in Buffers
    BY DEF Pop, Writers, First
<1> HIDE DEF q
<1>2. /\ [v EXCEPT !.pre_record = q] \in Writers /\ [v EXCEPT !.pre_record = q].pre_record = q
      /\ SameThread(v, [v EXCEPT !.pre_record = q]) /\ SameFile(v, [v EXCEPT !.pre_record = q])
      /\ [v EXCEPT !.pre_record = q].prev = v.prev /\ [v EXCEPT !.pre_record = q].live = v.live
      /\ [v EXCEPT !.pre_record = q].fault = v.fault
    BY <1>1 DEF Writers, SameThread, SameFile
<1> QED
    BY <1>1, <1>2 DEF q

\* Frame b is stored, or left out because of the schedule.
Stores(v, w, b, allow) ==
    /\ w.open = v.open /\ w.rotates = v.rotates /\ w.empty = v.empty
    /\ allow => /\ w.written = Append(v.written, b[1]) /\ w.in_file = v.in_file + 1
                /\ w.unstored = v.unstored
    /\ ~allow => w.written = v.written /\ w.in_file = v.in_file /\ w.unstored

LEMMA StoreEffect ==
    ASSUME NEW v \in Writers, NEW b \in Buffers, NEW allow \in BOOLEAN
    PROVE  LET w == Store(v, b, allow) IN
           /\ w \in Writers /\ SameThread(v, w) /\ SameQueue(v, w) /\ Stores(v, w, b, allow)
           /\ w.live = v.live
           /\ w.fault = (v.fault \/ (allow /\ b \notin v.live))
<1>1. CASE allow
    <2> DEFINE u == Use(v, b)
               s == Append(v.written, b[1])
               n == v.in_file + 1
               w == [u EXCEPT !.written = s, !.in_file = n]
    <2>1. /\ u \in Writers /\ SameThread(v, u) /\ SameFile(v, u) /\ SameQueue(v, u)
          /\ u.live = v.live /\ u.fault = (v.fault \/ b \notin v.live)
        BY UseEffect
    <2>2. b[1] \in Int /\ s \in Seq(Int) /\ n \in Int
        BY DEF Buffers, Writers
    <2>3. Store(v, b, allow) = w
        BY <1>1, <2>1 DEF Store, SameFile, Writers
    <2> HIDE DEF u, s, n
    <2>4. /\ w \in Writers /\ SameThread(u, w) /\ SameQueue(u, w) /\ w.live = u.live
          /\ w.fault = u.fault /\ w.written = s /\ w.in_file = n
          /\ w.open = u.open /\ w.rotates = u.rotates /\ w.empty = u.empty
          /\ w.unstored = u.unstored
        BY <2>1, <2>2 DEF Writers, SameThread, SameQueue
    <2> HIDE DEF w
    <2> QED
        BY <1>1, <2>1, <2>3, <2>4 DEF SameThread, SameFile, SameQueue, Stores, s, n
<1>2. CASE ~allow
    <2> DEFINE w == [v EXCEPT !.unstored = TRUE]
    <2>1. Store(v, b, allow) = w
        BY <1>2 DEF Store
    <2>2. /\ w \in Writers /\ SameThread(v, w) /\ SameQueue(v, w) /\ w.live = v.live
          /\ w.fault = v.fault /\ w.written = v.written /\ w.in_file = v.in_file
          /\ w.open = v.open /\ w.rotates = v.rotates /\ w.empty = v.empty /\ w.unstored
        BY DEF Writers, SameThread, SameQueue
    <2> HIDE DEF w
    <2>3. w.fault = (v.fault \/ (allow /\ b \notin v.live))
        <3>1. v.fault \in BOOLEAN /\ w.fault = v.fault
            BY <2>2 DEF Writers
        <3> QED
            BY <1>2, <3>1, Zenon
    <2>4. Stores(v, w, b, allow)
        BY <1>2, <2>2 DEF Stores
    <2> QED
        BY <2>1, <2>2, <2>3, <2>4
<1> QED
    BY <1>1, <1>2

-----------------------------------------------------------------------------
\* Which targets write a file of their own, and which have no queue.
FileKinds == {"extpipe", "plugin", "gwavi", "avi"}
Unqueued == {"newsource", "pixelflood", "loopback"}

\* The plugin's target with frames of before the motion uses what it deleted.
Tracked(v) == v.kind = "plugin" => v.handed = <<>>

\* The frames of X are the thread's own: those of the queue are others, each
\* once in it, and nothing else is in memory unless the target loses frames.
Owns(v, X) ==
    /\ ~v.fault /\ X \subseteq v.live
    /\ \A i \in 1 .. Len(v.pre_record) : v.pre_record[i] \in v.live /\ v.pre_record[i] \notin X
    /\ \A i, j \in 1 .. Len(v.pre_record) : v.pre_record[i] = v.pre_record[j] => i = j
    /\ LosesFrames(v) \/ \A b \in v.live : b \in X \/ \E i \in 1 .. Len(v.pre_record) : v.pre_record[i] = b
    /\ \A b \in v.live : b[2] = "trigger" \/ b[1] <= v.ts

\* What is stored, then what is in hand, then what is in the queue, is S.
Numbers(q) == [i \in 1 .. Len(q) |-> q[i][1]]
Waiting(v) == IF v.kind \in Unqueued THEN <<>> ELSE Numbers(v.pre_record)
Taped(v, hand, S) == v.unstored \/ (v.written \o hand) \o Waiting(v) = S

\* "any" file, one just "opened", one that is not empty: "held", none: "closed".
Filed(v, file) ==
    /\ v.in_file >= 0
    /\ v.empty => v.unstored \/ (file = "closed" /\ v.kind = "plugin" /\ v.taken = <<>>)
    /\ v.open => v.kind \in FileKinds
    /\ file \in {"opened", "held"} => v.open
    /\ v.open /\ file # "opened" => v.in_file > 0 \/ v.unstored
    /\ file = "closed" => ~v.open

Account(u, v, X, hand, S, N, file) ==
    /\ v \in Writers /\ SameThread(u, v)
    /\ Tracked(v) => Owns(v, X) /\ Taped(v, hand, S) /\ Len(v.pre_record) = N
    /\ Filed(v, file)

\* What the lemmas say of an account.
With(X, b) == X \cup {b}
Without(X, b) == X \ {b}
InHand(b) == <<b[1]>>
Nothing == <<>>
Later(S, b) == Append(S, b[1])

\* Its own frame between two rounds, what it has to record, its file.
Previous(v) == IF v.prev = Null THEN {} ELSE {v.prev}
Recording(v) == IF v.kind \in Unqueued THEN v.taken ELSE v.handed \o v.taken
FileNow(v) == IF v.kind \in {"extpipe", "plugin"} /\ v.taken # <<>> THEN "held" ELSE "any"

\* A target that runs, and one that has ended.
Running(v) ==
    /\ v.at \in {"off", "loop", "get", "leave", "failed"}
    /\ Account(v, v, Previous(v), Nothing, Recording(v), Len(v.handed), FileNow(v))
    /\ v.uses = IF v.at = "off" THEN 0 ELSE 1
    /\ v.at = "off" => v.taken = <<>>
    /\ v.kind = "loopback" => v.handed = <<>>
    /\ v.kind = "gstreamer" => v.prev = Null
    /\ v.at \in {"leave", "failed"} => v.kind = "loopback"

Ended(v) ==
    /\ v.at = "done" /\ v \in Writers
    /\ v.fault => ~Tracked(v)
    /\ LosesFrames(v) \/ v.live \subseteq Reachable(v)
    /\ v.uses = IF v.kind = "pipewire" THEN -1 ELSE 0
    /\ v.live = {} \/ LosesFrames(v) \/ v.kind \in {"newsource", "pixelflood"}
    /\ ~v.unstored =>
         LET all == v.handed \o v.taken IN
         CASE v.kind \in {"jpeg", "extpipe", "gwavi", "avi", "gstreamer"} ->
                  \/ v.written = all
                  \/ v.kind = "extpipe" /\ v.taken = <<>>
           [] v.kind \in {"newsource", "pixelflood", "loopback"} -> v.written = v.taken
           [] v.kind = "pipewire" -> v.written = SubSeq(all, 1, Len(v.taken))
           [] v.kind = "plugin" -> v.handed = <<>> => v.written = v.taken
    /\ ~v.open
    /\ v.empty /\ ~v.unstored => v.kind = "plugin" /\ v.taken = <<>>

\* The inductive invariant.
WriterInv ==
    /\ Running(writer) \/ Ended(writer)
    /\ writer_env \in [cur : Int, stop : BOOLEAN, ready : BOOLEAN]

-----------------------------------------------------------------------------
LEMMA LossesStay ==
    ASSUME NEW v, NEW w, SameThread(v, w), v.unstored => w.unstored, LosesFrames(v)
    PROVE  LosesFrames(w)
BY DEF SameThread, LosesFrames

LEMMA FiledStays ==
    ASSUME NEW v, NEW w, NEW file, SameThread(v, w), SameFile(v, w), Filed(v, file)
    PROVE  Filed(w, file)
BY DEF SameThread, SameFile, Filed

LEMMA TapedStays ==
    ASSUME NEW v, NEW w, NEW hand, NEW S, SameThread(v, w), SameFile(v, w),
           w.pre_record = v.pre_record, Taped(v, hand, S)
    PROVE  Taped(w, hand, S)
BY DEF SameThread, SameFile, Taped, Waiting

LEMMA OwnsStays ==
    ASSUME NEW v, NEW w, NEW X, SameThread(v, w), v.unstored => w.unstored,
           w.pre_record = v.pre_record, w.live = v.live, w.fault = v.fault, Owns(v, X)
    PROVE  Owns(w, X)
<1>1. LosesFrames(v) => LosesFrames(w)
    BY LossesStay
<1> QED
    BY <1>1 DEF Owns, SameThread

LEMMA SameThreads ==
    ASSUME NEW u, NEW v, NEW w, SameThread(u, v), SameThread(v, w)
    PROVE  SameThread(u, w)
BY DEF SameThread

LEMMA TrackedStays ==
    ASSUME NEW v, NEW w, SameThread(v, w)
    PROVE  Tracked(v) = Tracked(w)
BY DEF SameThread, Tracked

\* Nothing changes but the previous frame, or a frame is used that is there.
LEMMA AccountStays ==
    ASSUME NEW u, NEW v, NEW X, NEW hand, NEW S, NEW N, NEW file,
           Account(u, v, X, hand, S, N, file),
           NEW w \in Writers, SameThread(v, w), SameFile(v, w), w.pre_record = v.pre_record,
           w.live = v.live, Tracked(v) => w.fault = v.fault
    PROVE  Account(u, w, X, hand, S, N, file)
<1>1. SameThread(u, v) /\ Filed(v, file)
    BY DEF Account
<1>2. SameThread(u, w) /\ Filed(w, file)
    BY <1>1, SameThreads, FiledStays
<1>3. ASSUME Tracked(w)
      PROVE  Owns(w, X) /\ Taped(w, hand, S) /\ Len(w.pre_record) = N
    <2>1. Owns(v, X) /\ Taped(v, hand, S) /\ Len(v.pre_record) = N /\ w.fault = v.fault
        BY <1>3, TrackedStays DEF Account
    <2>2. v.unstored => w.unstored
        BY DEF SameFile
    <2> QED
        BY <2>1, <2>2, OwnsStays, TapedStays
<1> QED
    BY <1>2, <1>3 DEF Account

LEMMA UseAccount ==
    ASSUME NEW u, NEW v, NEW X, NEW hand, NEW S, NEW N, NEW file,
           Account(u, v, X, hand, S, N, file), NEW b, Tracked(v) => b \in X
    PROVE  Account(u, Use(v, b), X, hand, S, N, file)
<1> DEFINE w == Use(v, b)
<1>1. v \in Writers
    BY DEF Account
<1>2. w \in Writers /\ SameThread(v, w) /\ SameFile(v, w) /\ SameQueue(v, w)
      /\ w.live = v.live /\ w.fault = (v.fault \/ b \notin v.live)
    BY <1>1, UseEffect
<1>3. Tracked(v) => w.fault = v.fault
    <2>1. v.fault \in BOOLEAN
        BY <1>1 DEF Writers
    <2>2. Tracked(v) => b \in v.live
        BY DEF Account, Owns
    <2> HIDE DEF w
    <2> QED
        BY <1>2, <2>1, <2>2, Zenon
<1>4. w.pre_record = v.pre_record
    BY <1>2 DEF SameQueue
<1> HIDE DEF w
<1>5. Account(u, w, X, hand, S, N, file)
    BY <1>2, <1>3, <1>4, AccountStays
<1> QED
    BY <1>5 DEF w

LEMMA SetPrevAccount ==
    ASSUME NEW u, NEW v, NEW X, NEW hand, NEW S, NEW N, NEW file,
           Account(u, v, X, hand, S, N, file), NEW b \in Buffers \cup {Null}
    PROVE  Account(u, SetPrev(v, b), X, hand, S, N, file)
<1> DEFINE w == SetPrev(v, b)
<1>1. v \in Writers
    BY DEF Account
<1>2. w \in Writers /\ SameThread(v, w) /\ SameFile(v, w)
      /\ w.pre_record = v.pre_record /\ w.live = v.live /\ w.fault = v.fault
    BY <1>1, SetPrevEffect
<1> HIDE DEF w
<1>3. Account(u, w, X, hand, S, N, file)
    BY <1>2, AccountStays
<1> QED
    BY <1>3 DEF w

LEMMA NewAccount ==
    ASSUME NEW u, NEW v, NEW X, NEW hand, NEW S, NEW N, NEW file,
           Account(u, v, X, hand, S, N, file),
           NEW b \in Buffers, Tracked(v) => b \notin v.live, b[1] <= v.ts
    PROVE  Account(u, New(v, b), With(X, b), hand, S, N, file)
<1> DEFINE w == New(v, b)
           Y == With(X, b)
<1>1. v \in Writers
    BY DEF Account
<1>2. /\ w \in Writers /\ SameThread(v, w) /\ SameFile(v, w) /\ SameQueue(v, w)
      /\ w.fault = v.fault /\ w.live = v.live \cup {b}
    BY <1>1, NewEffect
<1>3. w.pre_record = v.pre_record /\ w.ts = v.ts /\ v.unstored = w.unstored
    BY <1>2 DEF SameQueue, SameThread, SameFile
<1>4. LosesFrames(v) => LosesFrames(w)
    BY <1>2, <1>3, LossesStay
<1> HIDE DEF w
<1>5. ASSUME Owns(v, X), b \notin v.live PROVE Owns(w, Y)
    <2> DEFINE l == w.live
    <2>1. X \subseteq v.live => Y \subseteq l
        BY <1>2 DEF With
    <2>2. \A c : c \in v.live => c \in l
        BY <1>2
    <2>3. \A c : c \in l => c \in v.live \/ c = b
        BY <1>2
    <2>4. \A c : c \in Y <=> c \in X \/ c = b
        BY DEF With
    <2> HIDE DEF l, Y
    <2> QED
        BY <1>2, <1>3, <1>4, <1>5, <2>1, <2>2, <2>3, <2>4 DEF Owns, l
<1>6. SameThread(u, w) /\ Filed(w, file)
    BY <1>2, SameThreads, FiledStays DEF Account
<1>7. ASSUME Tracked(w) PROVE Owns(w, Y) /\ Taped(w, hand, S) /\ Len(w.pre_record) = N
    BY <1>2, <1>3, <1>5, <1>7, TrackedStays, TapedStays DEF Account
<1>8. Account(u, w, Y, hand, S, N, file)
    BY <1>2, <1>6, <1>7 DEF Account
<1> QED
    BY <1>8 DEF w

LEMMA DeleteAccount ==
    ASSUME NEW u, NEW v, NEW X, NEW hand, NEW S, NEW N, NEW file,
           Account(u, v, X, hand, S, N, file), NEW b \in Buffers, Tracked(v) => b \in X
    PROVE  Account(u, Delete(v, b), Without(X, b), hand, S, N, file)
<1> DEFINE w == Delete(v, b)
           Y == Without(X, b)
<1>1. v \in Writers
    BY DEF Account
<1>2. /\ w \in Writers /\ SameThread(v, w) /\ SameFile(v, w) /\ SameQueue(v, w)
      /\ w.live = v.live \ {b} /\ w.fault = (v.fault \/ b \notin v.live)
    BY <1>1, DeleteEffect
<1>3. w.pre_record = v.pre_record /\ w.ts = v.ts /\ v.unstored = w.unstored
    BY <1>2 DEF SameQueue, SameThread, SameFile
<1>4. LosesFrames(v) => LosesFrames(w)
    BY <1>2, <1>3, LossesStay
<1> HIDE DEF w
<1>5. ASSUME Owns(v, X), b \in X PROVE Owns(w, Y)
    <2> DEFINE l == w.live
    <2>1. \A c : c \in l <=> c \in v.live /\ c # b
        BY <1>2
    <2>2. \A c : c \in Y <=> c \in X /\ c # b
        BY DEF Without
    <2>3. ~w.fault
        BY <1>2, <1>5 DEF Owns
    <2> HIDE DEF l, Y
    <2>4. Y \subseteq l
        BY <1>5, <2>1, <2>2 DEF Owns
    <2> QED
        BY <1>3, <1>4, <1>5, <2>1, <2>2, <2>3, <2>4 DEF Owns, l
<1>6. SameThread(u, w) /\ Filed(w, file)
    BY <1>2, SameThreads, FiledStays DEF Account
<1>7. ASSUME Tracked(w) PROVE Owns(w, Y) /\ Taped(w, hand, S) /\ Len(w.pre_record) = N
    BY <1>2, <1>3, <1>5, <1>7, TrackedStays, TapedStays DEF Account
<1>8. Account(u, w, Y, hand, S, N, file)
    BY <1>2, <1>6, <1>7 DEF Account
<1> QED
    BY <1>8 DEF w

-----------------------------------------------------------------------------
LEMMA NumbersAre ==
    ASSUME NEW q \in Seq(Buffers)
    PROVE  /\ Numbers(q) \in Seq(Int) /\ Len(Numbers(q)) = Len(q)
           /\ \A i \in 1 .. Len(q) : Numbers(q)[i] = q[i][1]
<1>1. \A i \in 1 .. Len(q) : q[i][1] \in Int
    BY DEF Buffers
<1>2. Len(q) \in Nat
    OBVIOUS
<1> QED
    BY <1>1, <1>2 DEF Numbers

LEMMA NumbersAppend ==
    ASSUME NEW q \in Seq(Buffers), NEW b \in Buffers
    PROVE  Numbers(Append(q, b)) = Append(Numbers(q), b[1])
<1> DEFINE r == Append(q, b)
           n == b[1]
           s == Numbers(q)
           t == Numbers(r)
<1>1. /\ r \in Seq(Buffers) /\ Len(r) = Len(q) + 1 /\ r[Len(q) + 1] = b
      /\ \A i \in 1 .. Len(q) : r[i] = q[i]
    OBVIOUS
<1>2. n \in Int
    BY DEF Buffers
<1> HIDE DEF r
<1>3. /\ s \in Seq(Int) /\ Len(s) = Len(q) /\ \A i \in 1 .. Len(q) : s[i] = q[i][1]
      /\ t \in Seq(Int) /\ Len(t) = Len(r) /\ \A i \in 1 .. Len(r) : t[i] = r[i][1]
    BY <1>1, NumbersAre
<1>4. Len(q) \in Nat
    OBVIOUS
<1> HIDE DEF s, t, n
<1>5. Append(s, n) \in Seq(Int) /\ Len(Append(s, n)) = Len(s) + 1
      /\ Append(s, n)[Len(s) + 1] = n /\ \A i \in 1 .. Len(s) : Append(s, n)[i] = s[i]
    BY <1>2, <1>3
<1>6. \A i \in 1 .. Len(t) : t[i] = Append(s, n)[i]
    <2> SUFFICES ASSUME NEW i \in 1 .. Len(t) PROVE t[i] = Append(s, n)[i]
        OBVIOUS
    <2>1. CASE i = Len(q) + 1
        BY <2>1, <1>1, <1>3, <1>4, <1>5 DEF n
    <2>2. CASE i # Len(q) + 1
        BY <2>2, <1>1, <1>3, <1>4, <1>5
    <2> QED
        BY <2>1, <2>2
<1>7. t = Append(s, n)
    BY <1>1, <1>3, <1>5, <1>6, SeqEqual
<1> QED
    BY <1>7 DEF s, t, n, r

LEMMA NumbersTail ==
    ASSUME NEW q \in Seq(Buffers), q # <<>>
    PROVE  Numbers(q) = <<Head(q)[1]>> \o Numbers(Tail(q))
<1> DEFINE r == Tail(q)
           b == Head(q)
           n == b[1]
           s == Numbers(q)
           t == Numbers(r)
<1>1. /\ r \in Seq(Buffers) /\ Len(r) = Len(q) - 1 /\ b = q[1] /\ b \in Buffers
      /\ \A i \in 1 .. Len(r) : r[i] = q[i + 1]
    OBVIOUS
<1>2. n \in Int
    BY <1>1 DEF Buffers
<1>3. Len(q) \in Nat \ {0}
    OBVIOUS
<1> HIDE DEF r
<1>4. /\ s \in Seq(Int) /\ Len(s) = Len(q) /\ \A i \in 1 .. Len(q) : s[i] = q[i][1]
      /\ t \in Seq(Int) /\ Len(t) = Len(r) /\ \A i \in 1 .. Len(r) : t[i] = r[i][1]
    BY <1>1, NumbersAre
<1>5. s[1] = n
    BY <1>1, <1>3, <1>4
<1>6. \A i \in 1 .. Len(t) : t[i] = s[i + 1]
    <2> SUFFICES ASSUME NEW i \in 1 .. Len(t) PROVE t[i] = s[i + 1]
        OBVIOUS
    <2>1. i \in 1 .. Len(r) /\ i + 1 \in 1 .. Len(q)
        BY <1>1, <1>3, <1>4
    <2>2. t[i] = r[i][1] /\ s[i + 1] = q[i + 1][1] /\ r[i] = q[i + 1]
        BY <2>1, <1>1, <1>4
    <2> QED
        BY <2>2
<1> HIDE DEF s, t, n, b
<1>7. DEFINE c == <<n>> \o t
<1>8. /\ c \in Seq(Int) /\ Len(c) = Len(t) + 1 /\ c[1] = n
      /\ \A i \in 1 .. Len(t) : c[i + 1] = t[i]
    <2> DEFINE h == <<n>>
    <2>1. h \in Seq(Int) /\ Len(h) = 1 /\ h[1] = n
        BY <1>2
    <2> HIDE DEF h
    <2>2. t \in Seq(Int) /\ Len(t) \in Nat
        BY <1>4
    <2>3. /\ h \o t \in Seq(Int) /\ Len(h \o t) = Len(h) + Len(t)
          /\ \A i \in 1 .. Len(h) + Len(t) :
               (h \o t)[i] = IF i <= Len(h) THEN h[i] ELSE t[i - Len(h)]
        BY <2>1, <2>2, ConcatProperties
    <2>4. \A i \in 1 .. Len(t) : (h \o t)[i + 1] = t[i]
        <3> SUFFICES ASSUME NEW i \in 1 .. Len(t) PROVE (h \o t)[i + 1] = t[i]
            OBVIOUS
        <3>1. i + 1 \in 1 .. Len(h) + Len(t) /\ ~(i + 1 <= Len(h)) /\ (i + 1) - Len(h) = i
            BY <2>1, <2>2
        <3> QED
            BY <2>3, <3>1
    <2>5. (h \o t)[1] = n
        <3>1. 1 \in 1 .. Len(h) + Len(t) /\ 1 <= Len(h)
            BY <2>1, <2>2
        <3> QED
            BY <2>1, <2>3, <3>1
    <2> QED
        BY <2>1, <2>3, <2>4, <2>5 DEF h, c
<1> HIDE DEF c
<1>9. \A i \in 1 .. Len(s) : s[i] = c[i]
    <2> SUFFICES ASSUME NEW i \in 1 .. Len(s) PROVE s[i] = c[i]
        OBVIOUS
    <2>1. CASE i = 1
        BY <2>1, <1>5, <1>8
    <2>2. CASE i # 1
        <3>1. i - 1 \in 1 .. Len(t) /\ (i - 1) + 1 = i
            BY <2>2, <1>1, <1>3, <1>4
        <3> QED
            BY <3>1, <1>6, <1>8
    <2> QED
        BY <2>1, <2>2
<1>10. s = c
    BY <1>1, <1>3, <1>4, <1>8, <1>9, SeqEqual
<1> QED
    BY <1>10 DEF s, t, n, b, r, c

LEMMA TapePush ==
    ASSUME NEW s \in Seq(Int), NEW q \in Seq(Int), NEW n \in Int
    PROVE  s \o Append(q, n) = Append(s \o q, n)
<1>1. Append(q, n) = q \o <<n>> /\ <<n>> \in Seq(Int)
    BY AppendIsConcat
<1>2. s \o q \in Seq(Int)
    BY ConcatProperties
<1>3. Append(s \o q, n) = (s \o q) \o <<n>>
    BY <1>2, AppendIsConcat
<1> QED
    BY <1>1, <1>3, ConcatAssociative

LEMMA TapePop ==
    ASSUME NEW s \in Seq(Int), NEW q \in Seq(Int), NEW n \in Int
    PROVE  (s \o <<>>) \o (<<n>> \o q) = (s \o <<n>>) \o q
<1>1. s \o <<>> = s /\ <<n>> \in Seq(Int)
    BY ConcatEmptySeq
<1> QED
    BY <1>1, ConcatAssociative

LEMMA TapeStore ==
    ASSUME NEW s \in Seq(Int), NEW q \in Seq(Int), NEW n \in Int
    PROVE  (s \o <<n>>) \o q = (Append(s, n) \o <<>>) \o q
<1>1. Append(s, n) = s \o <<n>> /\ Append(s, n) \in Seq(Int)
    BY AppendIsConcat
<1>2. Append(s, n) \o <<>> = Append(s, n)
    BY <1>1, ConcatEmptySeq
<1> QED
    BY <1>1, <1>2

-----------------------------------------------------------------------------
\* A frame of the thread goes into the queue.
LEMMA PushAccount ==
    ASSUME NEW u, NEW v, NEW X, NEW hand, NEW S, NEW N \in Int, NEW file,
           Account(u, v, X, hand, S, N, file), hand \in Seq(Int), v.kind \notin Unqueued,
           NEW b \in Buffers, Tracked(v) => b \in X
    PROVE  Account(u, Push(v, b), Without(X, b), hand, Later(S, b), N + 1, file)
<1> DEFINE w == Push(v, b)
           Y == Without(X, b)
           q == v.pre_record
           r == Append(q, b)
<1>1. v \in Writers /\ q \in Seq(Buffers) /\ v.written \in Seq(Int)
    BY DEF Account, Writers
<1>2. /\ w \in Writers /\ SameThread(v, w) /\ SameFile(v, w) /\ w.pre_record = r
      /\ w.live = v.live /\ w.fault = v.fault
    BY <1>1, PushEffect
<1>3. w.ts = v.ts /\ w.kind = v.kind /\ v.unstored = w.unstored /\ w.written = v.written
    BY <1>2 DEF SameThread, SameFile
<1>4. LosesFrames(v) => LosesFrames(w)
    BY <1>2, <1>3, LossesStay
<1>5. /\ Len(r) = Len(q) + 1 /\ r[Len(q) + 1] = b /\ \A i \in 1 .. Len(q) : r[i] = q[i]
      /\ Len(q) \in Nat
    BY <1>1
<1> HIDE DEF w, r
<1>6. ASSUME Owns(v, X), b \in X PROVE Owns(w, Y)
    <2>1. \A c : c \in Y <=> c \in X /\ c # b
        BY DEF Without
    <2> HIDE DEF Y
    <2>2. Y \subseteq w.live /\ ~w.fault
        BY <1>2, <1>6, <2>1 DEF Owns
    <2>3. \A i \in 1 .. Len(r) : r[i] \in w.live /\ r[i] \notin Y
        BY <1>2, <1>5, <1>6, <2>1 DEF Owns
    <2>4. \A i, j \in 1 .. Len(r) : r[i] = r[j] => i = j
        <3>1. \A i \in 1 .. Len(q) : q[i] # b /\ r[i] = q[i]
            BY <1>5, <1>6 DEF Owns
        <3>2. \A i, j \in 1 .. Len(q) : q[i] = q[j] => i = j
            BY <1>6 DEF Owns
        <3>3. \A i \in 1 .. Len(r) : i \in 1 .. Len(q) \/ i = Len(q) + 1
            BY <1>5
        <3> QED
            BY <1>5, <3>1, <3>2, <3>3
    <2>5. LosesFrames(w) \/ \A c \in w.live : c \in Y \/ \E i \in 1 .. Len(r) : r[i] = c
        <3> SUFFICES ASSUME ~LosesFrames(w), NEW c \in w.live
                     PROVE  c \in Y \/ \E i \in 1 .. Len(r) : r[i] = c
            OBVIOUS
        <3>1. c \in X \/ \E i \in 1 .. Len(q) : q[i] = c
            BY <1>2, <1>4, <1>6 DEF Owns
        <3>2. CASE c \in X
            BY <3>2, <2>1, <1>5
        <3>3. CASE \E i \in 1 .. Len(q) : q[i] = c
            BY <3>3, <1>5
        <3> QED
            BY <3>1, <3>2, <3>3
    <2>6. \A c \in w.live : c[2] = "trigger" \/ c[1] <= w.ts
        BY <1>2, <1>3, <1>6 DEF Owns
    <2> QED
        BY <1>2, <2>2, <2>3, <2>4, <2>5, <2>6 DEF Owns
<1>7. Taped(v, hand, S) => Taped(w, hand, Later(S, b))
    <2>1. Numbers(q) \in Seq(Int) /\ Numbers(r) = Append(Numbers(q), b[1]) /\ b[1] \in Int
        BY <1>1, NumbersAre, NumbersAppend DEF r, Buffers
    <2> DEFINE before == v.written \o hand
               waits == Numbers(q)
               n == b[1]
    <2>2. before \in Seq(Int)
        BY <1>1, ConcatProperties
    <2>3. w.written \o hand = before
        BY <1>3
    <2>4. Waiting(v) = waits /\ Waiting(w) = Append(waits, n)
        BY <1>2, <1>3, <2>1 DEF Waiting
    <2> HIDE DEF before, waits, n
    <2>5. waits \in Seq(Int) /\ n \in Int
        BY <2>1 DEF waits, n
    <2>6. before \o Append(waits, n) = Append(before \o waits, n)
        BY <2>2, <2>5, TapePush
    <2>7. Taped(v, hand, S) => v.unstored \/ before \o waits = S
        BY <2>4 DEF Taped, before
    <2>8. v.unstored \/ before \o Append(waits, n) = Append(S, n) => Taped(w, hand, Append(S, n))
        BY <1>3, <2>3, <2>4 DEF Taped
    <2>9. Taped(v, hand, S) => Taped(w, hand, Append(S, n))
        BY <2>6, <2>7, <2>8
    <2> QED
        BY <2>9 DEF n, Later
<1>8. SameThread(u, w) /\ Filed(w, file)
    BY <1>2, SameThreads, FiledStays DEF Account
<1>9. ASSUME Tracked(w)
      PROVE  Owns(w, Y) /\ Taped(w, hand, Later(S, b)) /\ Len(w.pre_record) = N + 1
    <2>1. Tracked(v)
        BY <1>2, <1>9, TrackedStays
    <2>2. Owns(v, X) /\ Taped(v, hand, S) /\ Len(q) = N /\ b \in X
        BY <2>1 DEF Account
    <2> QED
        BY <1>2, <1>5, <1>6, <1>7, <2>2
<1>10. Account(u, w, Y, hand, Later(S, b), N + 1, file)
    BY <1>2, <1>8, <1>9 DEF Account
<1> QED
    BY <1>10 DEF w

\* The first frame of the queue becomes one of the thread, in hand.
LEMMA PopAccount ==
    ASSUME NEW u, NEW v, NEW X, NEW S, NEW N \in Int, NEW file,
           Account(u, v, X, Nothing, S, N, file), v.kind \notin Unqueued, v.pre_record # <<>>
    PROVE  /\ Account(u, Pop(v), With(X, First(v)), InHand(First(v)), S, N - 1, file)
           /\ First(v) \in Buffers
           /\ Tracked(v) => First(v) \notin X
<1> DEFINE w == Pop(v)
           b == First(v)
           Y == With(X, b)
           q == v.pre_record
           r == Tail(q)
<1>1. v \in Writers /\ q \in Seq(Buffers) /\ v.written \in Seq(Int)
    BY DEF Account, Writers
<1>2. /\ w \in Writers /\ SameThread(v, w) /\ SameFile(v, w) /\ w.pre_record = r
      /\ w.live = v.live /\ w.fault = v.fault /\ b \in Buffers
    BY <1>1, PopEffect
<1>3. w.ts = v.ts /\ w.kind = v.kind /\ v.unstored = w.unstored /\ w.written = v.written
    BY <1>2 DEF SameThread, SameFile
<1>4. LosesFrames(v) => LosesFrames(w)
    BY <1>2, <1>3, LossesStay
<1>5. /\ Len(r) = Len(q) - 1 /\ q[1] = b /\ \A i \in 1 .. Len(r) : r[i] = q[i + 1]
      /\ Len(q) \in Nat \ {0}
    BY <1>1 DEF First
<1>6. Numbers(q) = <<b[1]>> \o Numbers(r) /\ b[1] \in Int /\ Numbers(r) \in Seq(Int)
    <2>1. r \in Seq(Buffers)
        BY <1>1
    <2> HIDE DEF r
    <2> QED
        BY <1>1, <1>2, <2>1, NumbersTail, NumbersAre DEF First, Buffers, r
<1> HIDE DEF w, r, b
<1>7. ASSUME Owns(v, X) PROVE Owns(w, Y) /\ b \notin X
    <2>1. \A c : c \in Y <=> c \in X \/ c = b
        BY DEF With
    <2> HIDE DEF Y
    <2>2. \A i \in 1 .. Len(r) : i + 1 \in 1 .. Len(q) /\ i + 1 # 1
        BY <1>5
    <2>3. 1 \in 1 .. Len(q)
        BY <1>5
    <2>4. Y \subseteq w.live /\ ~w.fault /\ b \notin X
        BY <1>2, <1>5, <1>7, <2>1, <2>3 DEF Owns
    <2>5. \A i \in 1 .. Len(r) : r[i] \in w.live /\ r[i] \notin Y
        BY <1>2, <1>5, <1>7, <2>1, <2>2, <2>3 DEF Owns
    <2>6. \A i, j \in 1 .. Len(r) : r[i] = r[j] => i = j
        <3> SUFFICES ASSUME NEW i \in 1 .. Len(r), NEW j \in 1 .. Len(r), r[i] = r[j] PROVE i = j
            OBVIOUS
        <3>1. i + 1 = j + 1
            BY <1>5, <1>7, <2>2 DEF Owns
        <3> QED
            BY <3>1
    <2>7. LosesFrames(w) \/ \A c \in w.live : c \in Y \/ \E i \in 1 .. Len(r) : r[i] = c
        <3> SUFFICES ASSUME ~LosesFrames(w), NEW c \in w.live
                     PROVE  c \in Y \/ \E i \in 1 .. Len(r) : r[i] = c
            OBVIOUS
        <3>1. c \in X \/ \E i \in 1 .. Len(q) : q[i] = c
            BY <1>2, <1>4, <1>7 DEF Owns
        <3>2. CASE c \in X
            BY <3>2, <2>1
        <3>3. ASSUME NEW i \in 1 .. Len(q), q[i] = c PROVE c \in Y \/ \E k \in 1 .. Len(r) : r[k] = c
            <4>1. CASE i = 1
                BY <3>3, <4>1, <1>5, <2>1
            <4>2. CASE i # 1
                <5>1. i - 1 \in 1 .. Len(r) /\ (i - 1) + 1 = i
                    BY <4>2, <1>5
                <5> QED
                    BY <5>1, <3>3, <1>5
            <4> QED
                BY <4>1, <4>2
        <3> QED
            BY <3>1, <3>2, <3>3
    <2>8. \A c \in w.live : c[2] = "trigger" \/ c[1] <= w.ts
        BY <1>2, <1>3, <1>7 DEF Owns
    <2> QED
        BY <1>2, <2>4, <2>5, <2>6, <2>7, <2>8 DEF Owns
<1>8. Taped(v, Nothing, S) => Taped(w, InHand(b), S)
    <2>1. (v.written \o <<>>) \o (<<b[1]>> \o Numbers(r)) = (v.written \o <<b[1]>>) \o Numbers(r)
        BY <1>1, <1>6, TapePop
    <2> QED
        BY <1>2, <1>3, <1>6, <2>1 DEF Taped, Waiting, Nothing, InHand
<1>9. SameThread(u, w) /\ Filed(w, file)
    BY <1>2, SameThreads, FiledStays DEF Account
<1>10. ASSUME Tracked(w)
       PROVE  Owns(w, Y) /\ Taped(w, InHand(b), S) /\ Len(w.pre_record) = N - 1 /\ b \notin X
    <2>1. Tracked(v)
        BY <1>2, <1>10, TrackedStays
    <2>2. Owns(v, X) /\ Taped(v, Nothing, S) /\ Len(q) = N
        BY <2>1 DEF Account
    <2> QED
        BY <1>2, <1>5, <1>7, <1>8, <2>2
<1>11. Account(u, w, Y, InHand(b), S, N - 1, file)
    BY <1>2, <1>9, <1>10 DEF Account
<1>12. Tracked(v) = Tracked(w)
    BY <1>2, TrackedStays
<1> QED
    BY <1>2, <1>10, <1>11, <1>12 DEF w, b

\* What is in hand is stored, or left out because of the schedule.
LEMMA StoreAccount ==
    ASSUME NEW u, NEW v, NEW X, NEW b \in Buffers, NEW S, NEW N, NEW file \in {"any", "opened", "held"},
           Account(u, v, X, InHand(b), S, N, file), NEW allow \in BOOLEAN,
           allow /\ Tracked(v) => b \in X
    PROVE  Account(u, Store(v, b, allow), X, Nothing, S, N, IF file = "any" THEN "any" ELSE "held")
<1> DEFINE w == Store(v, b, allow)
           next == IF file = "any" THEN "any" ELSE "held"
<1>1. v \in Writers /\ v.written \in Seq(Int) /\ v.in_file \in Int /\ Filed(v, file)
      /\ v.pre_record \in Seq(Buffers) /\ b[1] \in Int /\ v.fault \in BOOLEAN
    BY DEF Account, Writers, Buffers
<1>2. /\ w \in Writers /\ SameThread(v, w) /\ SameQueue(v, w) /\ Stores(v, w, b, allow)
      /\ w.live = v.live /\ w.fault = (v.fault \/ (allow /\ b \notin v.live))
    BY <1>1, StoreEffect
<1>3. w.pre_record = v.pre_record /\ w.kind = v.kind /\ (v.unstored => w.unstored)
    BY <1>2 DEF SameQueue, SameThread, Stores
<1> HIDE DEF w
<1>4. ASSUME Owns(v, X), allow => b \in X PROVE Owns(w, X)
    <2>1. (allow => b \in v.live) /\ ~v.fault
        BY <1>4 DEF Owns
    <2>2. w.fault = v.fault
        BY <1>1, <1>2, <2>1, Zenon
    <2> QED
        BY <1>2, <1>3, <1>4, <2>2, OwnsStays
<1>5. Taped(v, InHand(b), S) => Taped(w, Nothing, S)
    <2>1. Waiting(v) \in Seq(Int) /\ Waiting(w) = Waiting(v)
        <3>1. Numbers(v.pre_record) \in Seq(Int) /\ <<>> \in Seq(Int)
            BY <1>1, NumbersAre, EmptySeq
        <3> QED
            BY <1>3, <3>1 DEF Waiting
    <2>2. (v.written \o <<b[1]>>) \o Waiting(v) = (Append(v.written, b[1]) \o <<>>) \o Waiting(v)
        BY <1>1, <2>1, TapeStore
    <2> QED
        BY <1>2, <2>1, <2>2 DEF Taped, Stores, InHand, Nothing
<1>6. SameThread(u, w)
    BY <1>2, SameThreads DEF Account
<1>7. Filed(w, next)
    BY <1>1, <1>2, <1>3 DEF Filed, Stores
<1>8. ASSUME Tracked(w) PROVE Owns(w, X) /\ Taped(w, Nothing, S) /\ Len(w.pre_record) = N
    <2>1. Tracked(v)
        BY <1>2, <1>8, TrackedStays
    <2> QED
        BY <1>3, <1>4, <1>5, <2>1 DEF Account
<1> HIDE DEF next
<1>9. Account(u, w, X, Nothing, S, N, next)
    BY <1>2, <1>6, <1>7, <1>8 DEF Account
<1> QED
    BY <1>9 DEF w, next

\* A file is opened or closed.
LEMMA FileAccount ==
    ASSUME NEW u, NEW v, NEW X, NEW hand, NEW S, NEW N, NEW file,
           Account(u, v, X, hand, S, N, file),
           NEW w \in Writers, SameThread(v, w), SameMemory(v, w),
           w.written = v.written, w.unstored = v.unstored, NEW next, Filed(w, next)
    PROVE  Account(u, w, X, hand, S, N, next)
<1>1. w.pre_record = v.pre_record /\ w.live = v.live /\ w.fault = v.fault /\ w.kind = v.kind
    BY DEF SameMemory, SameThread
<1>2. SameThread(u, w)
    BY SameThreads DEF Account
<1>3. Owns(v, X) => Owns(w, X)
    BY <1>1, OwnsStays
<1>4. Taped(v, hand, S) => Taped(w, hand, S)
    BY <1>1 DEF Taped, Waiting
<1> QED
    BY <1>1, <1>2, <1>3, <1>4, TrackedStays DEF Account

LEMMA OpenFileEffect ==
    ASSUME NEW v \in Writers
    PROVE  LET w == OpenFile(v) IN
           /\ w \in Writers /\ SameThread(v, w) /\ SameMemory(v, w)
           /\ w.written = v.written /\ w.unstored = v.unstored /\ w.empty = v.empty
           /\ w.open /\ w.in_file \in {v.in_file, 0}
<1>1. CASE v.open
    BY <1>1 DEF OpenFile, SameThread, SameMemory
<1>2. CASE ~v.open
    <2> DEFINE n == 0
               w == [v EXCEPT !.open = TRUE, !.in_file = n]
    <2>1. OpenFile(v) = w
        BY <1>2 DEF OpenFile
    <2>2. n \in Int
        OBVIOUS
    <2> HIDE DEF n
    <2>3. /\ w \in Writers /\ SameThread(v, w) /\ SameMemory(v, w)
          /\ w.written = v.written /\ w.unstored = v.unstored /\ w.empty = v.empty
          /\ w.open /\ w.in_file = n
        BY <2>2 DEF Writers, SameThread, SameMemory
    <2> HIDE DEF w
    <2> QED
        BY <2>1, <2>3 DEF n
<1> QED
    BY <1>1, <1>2

LEMMA CloseFileEffect ==
    ASSUME NEW v \in Writers
    PROVE  LET w == CloseFile(v) IN
           /\ w \in Writers /\ SameThread(v, w) /\ SameMemory(v, w)
           /\ w.written = v.written /\ w.unstored = v.unstored /\ w.in_file = v.in_file
           /\ ~w.open /\ (w.empty => v.empty \/ (v.open /\ v.in_file = 0))
<1>1. CASE ~v.open
    BY <1>1 DEF CloseFile, SameThread, SameMemory
<1>2. CASE v.open
    <2> DEFINE e == v.empty \/ v.in_file = 0
               w == [v EXCEPT !.open = FALSE, !.empty = e]
    <2>1. CloseFile(v) = w
        BY <1>2 DEF CloseFile
    <2>2. e \in BOOLEAN
        OBVIOUS
    <2>3. e => v.empty \/ v.in_file = 0
        OBVIOUS
    <2> HIDE DEF e
    <2>4. /\ w \in Writers /\ SameThread(v, w) /\ SameMemory(v, w)
          /\ w.written = v.written /\ w.unstored = v.unstored /\ w.in_file = v.in_file
          /\ ~w.open /\ w.empty = e
        BY <2>2 DEF Writers, SameThread, SameMemory
    <2> HIDE DEF w
    <2> QED
        BY <1>2, <2>1, <2>3, <2>4
<1> QED
    BY <1>1, <1>2

LEMMA OpenFileAccount ==
    ASSUME NEW u, NEW v, NEW X, NEW hand, NEW S, NEW N, NEW file,
           Account(u, v, X, hand, S, N, file), v.kind \in FileKinds, file # "closed"
    PROVE  Account(u, OpenFile(v), X, hand, S, N, "opened")
<1> DEFINE w == OpenFile(v)
<1>1. v \in Writers /\ Filed(v, file)
    BY DEF Account
<1>2. /\ w \in Writers /\ SameThread(v, w) /\ SameMemory(v, w)
      /\ w.written = v.written /\ w.unstored = v.unstored /\ w.empty = v.empty
      /\ w.open /\ w.in_file \in {v.in_file, 0}
    BY <1>1, OpenFileEffect
<1> HIDE DEF w
<1>3. Filed(w, "opened")
    BY <1>1, <1>2 DEF Filed, SameThread
<1>4. Account(u, w, X, hand, S, N, "opened")
    BY <1>2, <1>3, FileAccount
<1> QED
    BY <1>4 DEF w

LEMMA CloseFileAccount ==
    ASSUME NEW u, NEW v, NEW X, NEW hand, NEW S, NEW N, NEW file \in {"any", "held"},
           Account(u, v, X, hand, S, N, file)
    PROVE  Account(u, CloseFile(v), X, hand, S, N, "any") /\ ~CloseFile(v).open
<1> DEFINE w == CloseFile(v)
<1>1. v \in Writers /\ Filed(v, file)
    BY DEF Account
<1>2. /\ w \in Writers /\ SameThread(v, w) /\ SameMemory(v, w)
      /\ w.written = v.written /\ w.unstored = v.unstored /\ w.in_file = v.in_file
      /\ ~w.open /\ (w.empty => v.empty \/ (v.open /\ v.in_file = 0))
    BY <1>1, CloseFileEffect
<1> HIDE DEF w
<1>3. Filed(w, "any")
    BY <1>1, <1>2 DEF Filed, SameThread
<1>4. Account(u, w, X, hand, S, N, "any")
    BY <1>2, <1>3, FileAccount
<1> QED
    BY <1>2, <1>4 DEF w

LEMMA CutFileAccount ==
    ASSUME NEW u, NEW v, NEW X, NEW hand, NEW S, NEW N, NEW file \in {"any", "held"},
           Account(u, v, X, hand, S, N, file), v.kind \in FileKinds, NEW cut \in BOOLEAN
    PROVE  Account(u, CutFile(v, cut), X, hand, S, N, "opened") /\ SameMemory(v, CutFile(v, cut))
<1> DEFINE w == CloseFile(v)
<1>1. Account(u, w, X, hand, S, N, "any")
    BY CloseFileAccount
<1>2. w.kind = v.kind /\ w \in Writers /\ v \in Writers /\ SameMemory(v, w)
    BY CloseFileEffect DEF Account, SameThread
<1> HIDE DEF w
<1>3. Account(u, OpenFile(w), X, hand, S, N, "opened")
    BY <1>1, <1>2, OpenFileAccount
<1>4. Account(u, OpenFile(v), X, hand, S, N, "opened")
    BY OpenFileAccount
<1>5. SameMemory(v, OpenFile(v)) /\ SameMemory(v, OpenFile(w))
    BY <1>2, OpenFileEffect DEF SameMemory
<1> QED
    BY <1>3, <1>4, <1>5 DEF CutFile, w

LEMMA RotatedAccount ==
    ASSUME NEW u, NEW v, NEW X, NEW hand, NEW S, NEW N,
           Account(u, v, X, hand, S, N, "any"), NEW allow \in BOOLEAN, NEW cut \in BOOLEAN
    PROVE  Account(u, Rotated(v, allow, cut), X, hand, S, N, "any")
<1> DEFINE w == CloseFile(v)
           x == [w EXCEPT !.rotates = TRUE]
<1>1. Account(u, w, X, hand, S, N, "any") /\ w \in Writers
    BY CloseFileAccount DEF Account
<1>2. Rotated(v, allow, cut) = v \/ Rotated(v, allow, cut) = x
    BY DEF Rotated
<1> HIDE DEF w
<1>3. /\ x \in Writers /\ SameThread(w, x) /\ SameMemory(w, x) /\ x.written = w.written
      /\ x.unstored = w.unstored /\ x.in_file = w.in_file /\ x.empty = w.empty /\ x.open = w.open
    BY <1>1 DEF Writers, SameThread, SameMemory
<1> HIDE DEF x
<1>4. Filed(x, "any")
    BY <1>1, <1>3 DEF Account, Filed, SameThread
<1>5. Account(u, x, X, hand, S, N, "any")
    BY <1>1, <1>3, <1>4, FileAccount
<1> QED
    BY <1>2, <1>5

\* Frames that nobody can delete any more.
LEMMA ForgetAccount ==
    ASSUME NEW u, NEW v, NEW X, NEW hand, NEW S, NEW N, NEW file,
           Account(u, v, X, hand, S, N, file), NEW Y,
           Tracked(v) => Y \subseteq X /\ (LosesFrames(v) \/ X \subseteq Y)
    PROVE  Account(u, v, Y, hand, S, N, file)
<1>1. ASSUME Owns(v, X), Y \subseteq X, LosesFrames(v) \/ X \subseteq Y PROVE Owns(v, Y)
    BY <1>1 DEF Owns
<1> QED
    BY <1>1 DEF Account

\* A target without a queue has the frame in hand.
LEMMA TakeAccount ==
    ASSUME NEW u, NEW v, NEW X, NEW S, NEW N, NEW file, Account(u, v, X, Nothing, S, N, file),
           v.kind \in Unqueued, NEW b \in Buffers
    PROVE  Account(u, v, X, InHand(b), Later(S, b), N, file)
<1> DEFINE n == b[1]
<1>1. v.written \in Seq(Int) /\ n \in Int
    BY DEF Account, Writers, Buffers
<1>2. Taped(v, Nothing, S) => Taped(v, <<n>>, Append(S, n))
    <2> HIDE DEF n
    <2>1. (v.written \o <<>>) \o <<>> = v.written
        BY <1>1, ConcatEmptySeq
    <2>2. (v.written \o <<n>>) \o <<>> = Append(v.written, n)
        <3>1. v.written \o <<n>> = Append(v.written, n) /\ Append(v.written, n) \in Seq(Int)
            BY <1>1, AppendIsConcat
        <3> QED
            BY <3>1, ConcatEmptySeq
    <2> QED
        BY <2>1, <2>2 DEF Taped, Waiting, Nothing
<1> QED
    BY <1>2 DEF Account, InHand, Later

-----------------------------------------------------------------------------
\* The steps that all targets share.

LEMMA SameUpToNow ==
    ASSUME NEW u, NEW v, NEW X, NEW hand, NEW S, NEW N, NEW file,
           Account(u, v, X, hand, S, N, file)
    PROVE  /\ v \in Writers /\ v.kind = u.kind /\ v.filtered = u.filtered /\ v.ts = u.ts
           /\ v.handed = u.handed /\ v.taken = u.taken /\ v.at = u.at /\ v.uses = u.uses
           /\ v.max_time = u.max_time /\ Tracked(v) = Tracked(u)
           /\ Kept(v) = Kept(u) /\ Got(v) = Got(u) /\ Recording(v) = Recording(u)
BY DEF Account, SameThread, Tracked, Kept, Got, Recording

LEMMA BuffersOfNow ==
    ASSUME NEW v \in Writers
    PROVE  /\ Got(v) \in Buffers /\ Kept(v) \in Buffers
           /\ Buffer(v.ts, "copy") \in Buffers /\ Buffer(v.ts, "scaled") \in Buffers
           /\ Got(v)[1] = v.ts /\ Kept(v)[1] = v.ts
           /\ Buffer(v.ts, "copy")[1] = v.ts /\ Buffer(v.ts, "scaled")[1] = v.ts
           /\ (v.filtered => Kept(v) # Got(v)) /\ (~v.filtered => Kept(v) = Got(v))
           /\ Buffer(v.ts, "copy") \notin {Got(v), Kept(v)}
           /\ Buffer(v.ts, "scaled") \notin {Got(v), Kept(v)}
BY DEF Writers, Got, Kept, Buffer, Buffers, Origins

LEMMA PreviousIsThere ==
    ASSUME NEW u, NEW v, NEW X, NEW hand, NEW S, NEW N, NEW file,
           Account(u, v, X, hand, S, N, file), Tracked(v)
    PROVE  X \subseteq v.live /\ Null \notin X /\ X \subseteq Buffers
BY BuffersAreThere DEF Account, Owns, Writers

LEMMA DeletePrevAccount ==
    ASSUME NEW u, NEW v, NEW X, NEW hand, NEW S, NEW N, NEW file,
           Account(u, v, X, hand, S, N, file), NEW b \in Buffers \cup {Null},
           Tracked(v) => b = Null \/ b \in X
    PROVE  Account(u, Delete(v, b), Without(X, b), hand, S, N, file)
<1>1. CASE b # Null
    BY <1>1, DeleteAccount
<1>2. CASE b = Null
    <2>1. Delete(v, b) = v
        BY <1>2, DeleteNothing
    <2> DEFINE Y == Without(X, b)
    <2>2. Tracked(v) => Y \subseteq X /\ X \subseteq Y
        BY <1>2, PreviousIsThere DEF Without
    <2> HIDE DEF Y
    <2>3. Account(u, v, Y, hand, S, N, file)
        BY <2>2, ForgetAccount
    <2> QED
        BY <2>1, <2>3 DEF Y
<1> QED
    BY <1>1, <1>2

LEMMA UsePrevAccount ==
    ASSUME NEW u, NEW v, NEW X, NEW hand, NEW S, NEW N, NEW file,
           Account(u, v, X, hand, S, N, file), Tracked(v) => v.prev = Null \/ v.prev \in X
    PROVE  /\ Account(u, UsePrev(v), X, hand, S, N, file)
           /\ UsePrev(v).live = v.live /\ SameQueue(v, UsePrev(v)) /\ SameThread(v, UsePrev(v))
<1>1. CASE v.prev = Null
    BY <1>1 DEF UsePrev, SameQueue, SameThread
<1>2. CASE v.prev # Null
    <2>1. UsePrev(v) = Use(v, v.prev) /\ v \in Writers
        BY <1>2 DEF UsePrev, Account
    <2>2. Use(v, v.prev).live = v.live /\ SameQueue(v, Use(v, v.prev)) /\ SameThread(v, Use(v, v.prev))
        BY <2>1, UseEffect
    <2>3. Account(u, Use(v, v.prev), X, hand, S, N, file)
        BY <1>2, UseAccount
    <2> QED
        BY <2>1, <2>2, <2>3
<1> QED
    BY <1>1, <1>2

\* The filters make a frame of the frame that was taken.
LEMMA FilterAccount ==
    ASSUME NEW u, NEW v, NEW X, NEW hand, NEW S, NEW N, NEW file,
           Account(u, v, X, hand, S, N, file), v.filtered,
           Tracked(v) => /\ v.prev = Null \/ v.prev \in X
                         /\ Kept(v) \notin v.live
    PROVE  LET w == New(UsePrev(v), Kept(v)) IN
           /\ Account(u, w, With(X, Kept(v)), hand, S, N, file)
           /\ w.live = v.live \cup {Kept(v)} /\ SameQueue(v, w)
<1> DEFINE a == UsePrev(v)
           w == New(a, Kept(v))
<1>1. /\ Account(u, a, X, hand, S, N, file)
      /\ a.live = v.live /\ SameQueue(v, a) /\ SameThread(v, a)
    BY UsePrevAccount
<1>2. a \in Writers /\ v \in Writers
    BY <1>1 DEF Account
<1>3. Kept(v) \in Buffers /\ Kept(v)[1] <= a.ts /\ (Tracked(a) => Kept(v) \notin a.live)
    <2>1. Kept(v) \in Buffers /\ Kept(v)[1] = v.ts /\ v.ts \in Int
        BY <1>2, BuffersOfNow DEF Writers
    <2> HIDE DEF a
    <2>2. a.ts = v.ts
        BY <1>1 DEF SameThread
    <2>3. Tracked(a) = Tracked(v)
        BY <1>1, TrackedStays
    <2>4. Kept(v)[1] <= a.ts
        BY <2>1, <2>2
    <2> QED
        BY <1>1, <2>1, <2>3, <2>4
<1> HIDE DEF a
<1>4. Account(u, w, With(X, Kept(v)), hand, S, N, file)
    BY <1>1, <1>3, NewAccount
<1>5. w.live = a.live \cup {Kept(v)} /\ SameQueue(a, w)
    BY <1>2, <1>3, NewEffect
<1> HIDE DEF w
<1>6. w.live = v.live \cup {Kept(v)} /\ SameQueue(v, w)
    BY <1>1, <1>5 DEF SameQueue
<1> QED
    BY <1>4, <1>6 DEF w, a

LEMMA FilteredAccount ==
    ASSUME NEW u, NEW v, NEW X, NEW hand, NEW S, NEW N, NEW file,
           Account(u, v, X, hand, S, N, file),
           Tracked(v) => /\ v.prev = Null \/ v.prev \in X
                         /\ Got(v) \in X /\ (v.filtered => Kept(v) \notin v.live)
    PROVE  LET w == Filtered(v) IN
           /\ Account(u, w, With(Without(X, Got(v)), Kept(v)), hand, S, N, file)
           /\ \A b \in w.live : b \in v.live \/ (v.filtered /\ b = Kept(v))
           /\ SameQueue(v, w)
<1> DEFINE Y == With(Without(X, Got(v)), Kept(v))
<1>0. v \in Writers
    BY DEF Account
<1>1. CASE v.filtered
    <2> DEFINE a == New(UsePrev(v), Kept(v))
               Z == With(X, Kept(v))
               w == Delete(a, Got(v))
    <2>1. /\ Account(u, a, Z, hand, S, N, file) /\ a.live = v.live \cup {Kept(v)}
          /\ SameQueue(v, a)
        BY <1>1, FilterAccount
    <2>2. Filtered(v) = w
        BY <1>1 DEF Filtered
    <2>3. Got(v) \in Buffers /\ Kept(v) # Got(v) /\ Got(a) = Got(v)
        <3>1. Got(v) \in Buffers /\ Kept(v) # Got(v)
            BY <1>0, <1>1, BuffersOfNow
        <3> HIDE DEF a, Z
        <3>2. Got(a) = Got(u) /\ Got(v) = Got(u)
            BY <2>1, SameUpToNow
        <3> QED
            BY <3>1, <3>2
    <2> HIDE DEF a
    <2>4. Tracked(a) => Got(v) \in Z
        <3>1. Tracked(a) = Tracked(v)
            BY <2>1, SameUpToNow
        <3> QED
            BY <3>1 DEF With
    <2>5. Without(Z, Got(v)) = Y
        BY <2>3 DEF With, Without
    <2> HIDE DEF Z, Y
    <2>6. Account(u, w, Without(Z, Got(v)), hand, S, N, file)
        BY <2>1, <2>3, <2>4, DeleteAccount
    <2>7. a \in Writers
        BY <2>1 DEF Account
    <2>8. w.live = a.live \ {Got(v)} /\ SameQueue(a, w)
        BY <2>3, <2>7, DeleteEffect
    <2> HIDE DEF w
    <2>9. \A b \in w.live : b \in v.live \/ (v.filtered /\ b = Kept(v))
        BY <1>1, <2>1, <2>8
    <2>10. SameQueue(v, w)
        BY <2>1, <2>8 DEF SameQueue
    <2> QED
        BY <2>2, <2>5, <2>6, <2>9, <2>10 DEF Y
<1>2. CASE ~v.filtered
    <2>1. Filtered(v) = v /\ Kept(v) = Got(v)
        BY <1>2 DEF Filtered, Kept
    <2>2. Tracked(v) => Y \subseteq X /\ X \subseteq Y
        BY <2>1 DEF With, Without
    <2> HIDE DEF Y
    <2>3. Account(u, v, Y, hand, S, N, file)
        BY <2>2, ForgetAccount
    <2> QED
        BY <2>1, <2>3 DEF Y, SameQueue
<1> QED
    BY <1>1, <1>2

\* The new frame goes through the queue: another one comes out of it.
LEMMA PushPopAccount ==
    ASSUME NEW u, NEW w, NEW X, NEW S, NEW N \in Int, NEW file,
           Account(u, w, X, Nothing, S, N, file), w.kind \notin Unqueued,
           NEW b \in Buffers, Tracked(w) => b \in X
    PROVE  LET x == Push(w, b)
               f == First(x)
           IN /\ Account(u, Pop(x), With(Without(X, b), f), InHand(f), Later(S, b), N, file)
              /\ f \in Buffers /\ (Tracked(w) => f \notin Without(X, b))
              /\ Pop(x).prev = w.prev
              /\ w.pre_record = <<>> => f = b
<1> DEFINE x == Push(w, b)
           f == First(x)
           Y == Without(X, b)
           T == Later(S, b)
<1>1. w \in Writers /\ Nothing \in Seq(Int)
    BY EmptySeq DEF Account, Nothing
<1>2. /\ x \in Writers /\ SameThread(w, x) /\ x.prev = w.prev
      /\ x.pre_record = Append(w.pre_record, b)
    BY <1>1, PushEffect
<1>3. Account(u, x, Y, Nothing, T, N + 1, file)
    BY <1>1, PushAccount
<1>4. x.pre_record # <<>> /\ (w.pre_record = <<>> => f = b)
    <2>1. w.pre_record \in Seq(Buffers)
        BY <1>1 DEF Writers
    <2> DEFINE r == Append(w.pre_record, b)
    <2>2. r # <<>> /\ (w.pre_record = <<>> => Head(r) = b)
        BY <2>1
    <2> QED
        BY <1>2, <2>2 DEF First
<1> HIDE DEF x, Y, T
<1>5. x.kind \notin Unqueued /\ Tracked(x) = Tracked(w)
    BY <1>2, TrackedStays DEF SameThread
<1>6. /\ Account(u, Pop(x), With(Y, f), InHand(f), T, (N + 1) - 1, file) /\ f \in Buffers
      /\ (Tracked(x) => f \notin Y)
    <2>1. N + 1 \in Int
        OBVIOUS
    <2> QED
        BY <1>3, <1>4, <1>5, <2>1, PopAccount
<1>7. (N + 1) - 1 = N
    OBVIOUS
<1>8. Pop(x).prev = x.prev
    BY <1>2, <1>4, PopEffect
<1> HIDE DEF f
<1>9. Account(u, Pop(x), With(Y, f), InHand(f), T, N, file)
    BY <1>6, <1>7
<1> QED
    BY <1>2, <1>4, <1>5, <1>6, <1>8, <1>9 DEF x, f, Y, T

-----------------------------------------------------------------------------
\* One frame, for each of the targets.

\* The frame was taken; those of before are older, or came from the trigger.
Started(v, S) ==
    /\ Account(v, v, With(Previous(v), Got(v)), Nothing, S, Len(v.handed), "any")
    /\ Recording(v) = Append(S, v.ts)
    /\ Tracked(v) => \A b \in v.live : b[2] = "trigger" \/ b[1] < v.ts \/ b = Got(v)
    /\ Tracked(v) => Got(v) \notin Previous(v)

\* It was handled.
Stepped(v, w) ==
    /\ Account(v, w, Previous(w), Nothing, Recording(v), Len(v.handed),
               IF v.kind \in {"extpipe", "plugin"} THEN "held" ELSE "any")
    /\ v.kind = "gstreamer" => w.prev = v.prev

LEMMA StartedFacts ==
    ASSUME NEW v, NEW S, Started(v, S)
    PROVE  /\ v \in Writers /\ Len(v.handed) \in Int /\ v.ts \in Int
           /\ v.prev \in Buffers \cup {Null}
           /\ Tracked(v) => v.prev = Null \/ v.prev \in Previous(v)
           /\ Tracked(v) => /\ v.filtered => Kept(v) \notin v.live
                            /\ Buffer(v.ts, "copy") \notin v.live
                            /\ Buffer(v.ts, "scaled") \notin v.live
           /\ Tracked(v) => /\ Previous(v) \subseteq v.live
                            /\ Got(v) \notin Previous(v) /\ Kept(v) \notin Previous(v)
                            /\ Buffer(v.ts, "copy") \notin Previous(v)
                            /\ Buffer(v.ts, "scaled") \notin Previous(v)
<1>1. v \in Writers
    BY DEF Started, Account
<1>2. Len(v.handed) \in Int /\ v.ts \in Int /\ v.prev \in Buffers \cup {Null}
    BY <1>1 DEF Writers
<1>3. Tracked(v) => v.prev = Null \/ v.prev \in Previous(v)
    BY DEF Previous
<1>4. Tracked(v) => /\ v.filtered => Kept(v) \notin v.live
                    /\ Buffer(v.ts, "copy") \notin v.live
                    /\ Buffer(v.ts, "scaled") \notin v.live
    BY <1>2 DEF Started, Kept, Got, Buffer
<1>5. Tracked(v) => Previous(v) \subseteq v.live /\ Got(v) \notin Previous(v)
    BY DEF Started, Account, Owns, With
<1>6. ~v.filtered => Kept(v) = Got(v)
    BY DEF Kept
<1> QED
    BY <1>1, <1>2, <1>3, <1>4, <1>5, <1>6

\* The frame is filtered, and a copy of it becomes the previous frame; the frame
\* itself stays in memory.
Copied(v) ==
    LET copy == Buffer(v.ts, "copy") IN
    IF v.filtered
    THEN SetPrev(New(Delete(New(UsePrev(v), Kept(v)), v.prev), copy), copy)
    ELSE v

LEMMA CopiedAccount ==
    ASSUME NEW v, NEW S, Started(v, S)
    PROVE  LET w == Copied(v) IN
           /\ Account(v, w, With(With(Previous(w), Kept(v)), Got(v)), Nothing, S, Len(v.handed), "any")
           /\ Tracked(v) => Kept(v) \notin Previous(w)
<1> DEFINE P == Previous(v)
           G == Got(v)
           K == Kept(v)
           c == Buffer(v.ts, "copy")
           N == Len(v.handed)
           X0 == With(P, G)
<1>1. /\ v \in Writers /\ Account(v, v, X0, Nothing, S, N, "any")
      /\ v.prev \in Buffers \cup {Null}
      /\ Tracked(v) => /\ v.prev = Null \/ v.prev \in P
                       /\ v.filtered => K \notin v.live
                       /\ c \notin v.live /\ P \subseteq v.live
                       /\ K \notin P /\ G \notin P
    BY StartedFacts DEF Started
<1>2. /\ G \in Buffers /\ K \in Buffers /\ c \in Buffers /\ c[1] = v.ts /\ v.ts \in Int
      /\ (v.filtered => K # G) /\ (~v.filtered => K = G) /\ c # G /\ c # K
    BY <1>1, BuffersOfNow DEF Writers
<1>3. CASE v.filtered
    <2> DEFINE a == New(UsePrev(v), K)
               b == Delete(a, v.prev)
               d == New(b, c)
               w == SetPrev(d, c)
               X1 == With(X0, K)
               X2 == Without(X1, v.prev)
               X3 == With(X2, c)
               Y == With(With(Previous(w), K), G)
    <2>1. Copied(v) = w
        BY <1>3 DEF Copied
    <2>2. Account(v, a, X1, Nothing, S, N, "any") /\ a.live = v.live \cup {K} /\ SameQueue(v, a)
        <3>1. Tracked(v) => v.prev = Null \/ v.prev \in X0
            BY <1>1 DEF With
        <3>2. Tracked(v) => K \notin v.live
            BY <1>1, <1>3
        <3> HIDE DEF X0
        <3> QED
            BY <1>1, <1>3, <3>1, <3>2, FilterAccount
    <2> HIDE DEF a
    <2>3. a \in Writers /\ Tracked(a) = Tracked(v)
        BY <2>2, SameUpToNow
    <2>4. Account(v, b, X2, Nothing, S, N, "any")
        <3>1. Tracked(a) => v.prev = Null \/ v.prev \in X1
            BY <1>1, <2>3 DEF With
        <3> HIDE DEF X1
        <3> QED
            BY <1>1, <2>2, <3>1, DeletePrevAccount
    <2>5. \A x \in b.live : x \in a.live
        <3>1. CASE v.prev = Null
            BY <3>1, DeleteNothing
        <3>2. CASE v.prev # Null
            <4>1. b.live = a.live \ {v.prev}
                BY <1>1, <2>3, <3>2, DeleteEffect
            <4> QED
                BY <4>1
        <3> QED
            BY <3>1, <3>2
    <2> HIDE DEF b, X2
    <2>6. b \in Writers /\ Tracked(b) = Tracked(v) /\ b.ts = v.ts
        BY <2>4, SameUpToNow
    <2>7. Account(v, d, X3, Nothing, S, N, "any")
        <3>1. Tracked(b) => c \notin b.live
            BY <1>1, <1>2, <2>2, <2>5, <2>6
        <3>2. c[1] <= b.ts
            BY <1>2, <2>6
        <3> HIDE DEF c
        <3> QED
            BY <1>2, <2>4, <3>1, <3>2, NewAccount
    <2> HIDE DEF d
    <2>8. Account(v, w, X3, Nothing, S, N, "any")
        <3> HIDE DEF X3, c
        <3> QED
            BY <1>2, <2>7, SetPrevAccount
    <2>9. w.prev = c
        <3>1. d \in Writers
            BY <2>7 DEF Account
        <3> HIDE DEF c
        <3> QED
            BY <1>2, <3>1, SetPrevEffect
    <2> HIDE DEF w
    <2>10. Previous(w) = {c}
        BY <1>2, <2>9, BuffersAreThere DEF Previous
    <2>11. Tracked(w) = Tracked(v)
        BY <2>8, SameUpToNow
    <2> HIDE DEF c, G, K
    <2>12. Tracked(v) => Y \subseteq X3 /\ X3 \subseteq Y
        <3> SUFFICES ASSUME Tracked(v) PROVE Y \subseteq X3 /\ X3 \subseteq Y
            OBVIOUS
        <3>1. v.prev # K /\ v.prev # G
            BY <1>1, <1>2, BuffersAreThere
        <3>2. \A x \in P : x = v.prev
            BY DEF Previous
        <3> HIDE DEF P
        <3> QED
            BY <2>10, <3>1, <3>2 DEF X2, With, Without
    <2> HIDE DEF Y, X3
    <2>13. Account(v, w, Y, Nothing, S, N, "any")
        BY <2>8, <2>11, <2>12, ForgetAccount
    <2> QED
        BY <1>2, <2>1, <2>10, <2>13 DEF Y, G, K
<1>4. CASE ~v.filtered
    <2>1. Copied(v) = v
        BY <1>4 DEF Copied
    <2>2. With(With(P, K), G) = X0
        BY <1>2, <1>4 DEF With
    <2> QED
        BY <1>1, <2>1, <2>2
<1> QED
    BY <1>3, <1>4

\* What came out of the queue is stored, but not deleted.
LEMMA StoredAccount ==
    ASSUME NEW u, NEW w, NEW X, NEW S, NEW N \in Int, NEW file \in {"any", "opened", "held"},
           Account(u, w, X, Nothing, S, N, file), w.kind \notin Unqueued,
           NEW b \in Buffers, Tracked(w) => b \in X, NEW allow \in BOOLEAN,
           NEW next, next = IF file = "any" THEN "any" ELSE "held"
    PROVE  LET x == Push(w, b)
               f == First(x)
               z == Store(Pop(x), f, allow)
           IN /\ Account(u, z, With(Without(X, b), f), Nothing, Later(S, b), N, next)
              /\ f \in Buffers /\ (Tracked(w) => f \notin Without(X, b))
              /\ z.prev = w.prev /\ (~allow => z.unstored)
              /\ Tracked(z) = Tracked(w)
<1> DEFINE x == Push(w, b)
           f == First(x)
           p == Pop(x)
           z == Store(p, f, allow)
           Y == Without(X, b)
           T == Later(S, b)
           Z == With(Y, f)
<1>1. /\ Account(u, p, Z, InHand(f), T, N, file) /\ f \in Buffers
      /\ (Tracked(w) => f \notin Y) /\ p.prev = w.prev
    BY PushPopAccount
<1> HIDE DEF p, T, f, Y
<1>2. f \in Z
    BY DEF With
<1> HIDE DEF Z
<1>3. Account(u, z, Z, Nothing, T, N, next)
    BY <1>1, <1>2, StoreAccount
<1>4. p \in Writers
    BY <1>1 DEF Account
<1>5. SameQueue(p, z) /\ Stores(p, z, f, allow)
    BY <1>1, <1>4, StoreEffect
<1>6. Tracked(z) = Tracked(w)
    BY <1>3, SameUpToNow
<1> HIDE DEF z
<1>7. z.prev = w.prev /\ (~allow => z.unstored)
    BY <1>1, <1>5 DEF SameQueue, Stores
<1> QED
    BY <1>1, <1>3, <1>6, <1>7 DEF z, p, f, T, Y, Z

LEMMA JpegStep ==
    ASSUME NEW v, NEW S, Started(v, S), v.kind = "jpeg", NEW allow \in BOOLEAN
    PROVE  Stepped(v, JpegFrame(v, allow))
<1> DEFINE w == Copied(v)
           K == Kept(v)
           N == Len(v.handed)
           R == Recording(v)
           X == With(With(Previous(w), K), Got(v))
           x == Push(w, K)
           f == First(x)
           z == Store(Pop(x), f, allow)
           Y == Without(X, K)
           y == JpegFrame(v, allow)
<1>1. Account(v, w, X, Nothing, S, N, "any") /\ (Tracked(v) => K \notin Previous(w))
    BY CopiedAccount
<1>2. R = Append(S, v.ts) /\ N \in Int /\ K \in Buffers /\ K[1] = v.ts
      /\ (~v.filtered => K = Got(v))
    BY StartedFacts, BuffersOfNow DEF Started
<1>3. y = IF allow THEN Delete(z, f) ELSE z
    BY DEF JpegFrame, Copied
<1> HIDE DEF w, y
<1>4. w.kind \notin Unqueued /\ K \in X /\ Tracked(w) = Tracked(v)
    BY <1>1, SameUpToNow DEF Unqueued, With
<1> HIDE DEF X, K, N
<1>5. /\ Account(v, z, With(Y, f), Nothing, Later(S, K), N, "any")
      /\ f \in Buffers /\ (Tracked(w) => f \notin Y) /\ z.prev = w.prev /\ (~allow => z.unstored)
      /\ Tracked(z) = Tracked(w)
    <2> DEFINE file == "any"
    <2>1. file \in {"any", "opened", "held"} /\ file = IF file = "any" THEN "any" ELSE "held"
        OBVIOUS
    <2> HIDE DEF file
    <2>2. Account(v, w, X, Nothing, S, N, file)
        BY <1>1 DEF file
    <2>3. /\ Account(v, z, With(Y, f), Nothing, Later(S, K), N, file)
          /\ f \in Buffers /\ (Tracked(w) => f \notin Y) /\ z.prev = w.prev /\ (~allow => z.unstored)
          /\ Tracked(z) = Tracked(w)
        BY <1>2, <1>4, <2>1, <2>2, StoredAccount
    <2> QED
        BY <2>3 DEF file
<1>6. Later(S, K) = R
    BY <1>2 DEF Later
<1> HIDE DEF z, f, R
<1>7. Account(v, z, With(Y, f), Nothing, R, N, "any")
    BY <1>5, <1>6
<1>8. Tracked(z) = Tracked(v) /\ z \in Writers
    BY <1>7, SameUpToNow
<1>9. Tracked(v) => Previous(w) \subseteq Y /\ (v.filtered \/ Y \subseteq Previous(w))
    BY <1>1, <1>2 DEF X, With, Without
<1> HIDE DEF Y
<1>10. Account(v, y, Previous(w), Nothing, R, N, "any") /\ y.prev = w.prev
    <2>1. CASE allow
        <3> DEFINE Z == Without(With(Y, f), f)
        <3>0. f \in With(Y, f)
            BY DEF With
        <3>1. Account(v, y, Z, Nothing, R, N, "any")
            BY <1>3, <1>5, <1>7, <2>1, <3>0, DeleteAccount
        <3>2. Tracked(v) => Z \subseteq Y /\ Y \subseteq Z
            BY <1>4, <1>5 DEF With, Without
        <3>3. y.kind = "jpeg" /\ y.filtered = v.filtered /\ Tracked(y) = Tracked(v)
            BY <3>1, SameUpToNow
        <3>4. Tracked(y) => Previous(w) \subseteq Z /\ (LosesFrames(y) \/ Z \subseteq Previous(w))
            BY <1>9, <3>2, <3>3 DEF LosesFrames
        <3>5. y.prev = z.prev
            BY <1>3, <1>5, <1>8, <2>1, DeleteEffect DEF SameQueue
        <3> HIDE DEF Z
        <3> QED
            BY <1>5, <3>1, <3>4, <3>5, ForgetAccount
    <2>2. CASE ~allow
        <3>1. z.kind = "jpeg"
            BY <1>7, SameUpToNow
        <3>2. LosesFrames(z)
            BY <1>5, <2>2, <3>1 DEF LosesFrames
        <3> DEFINE Z == With(Y, f)
        <3>3. Tracked(z) => Previous(w) \subseteq Z
            BY <1>8, <1>9 DEF With
        <3> HIDE DEF Z
        <3>4. Account(v, z, Previous(w), Nothing, R, N, "any")
            BY <1>7, <3>2, <3>3, ForgetAccount DEF Z
        <3> QED
            BY <1>3, <1>5, <2>2, <3>4
    <2> QED
        BY <2>1, <2>2
<1>11. Previous(y) = Previous(w)
    BY <1>10 DEF Previous
<1> QED
    BY <1>10, <1>11 DEF Stepped, R, N, y

LEMMA FilteredStart ==
    ASSUME NEW v, NEW S, Started(v, S), NEW a, NEW file,
           Account(v, a, With(Previous(v), Got(v)), Nothing, S, Len(v.handed), file),
           SameMemory(v, a)
    PROVE  LET w == Filtered(a) IN
           /\ Account(v, w, With(Previous(v), Kept(v)), Nothing, S, Len(v.handed), file)
           /\ w.prev = v.prev /\ w.pre_record = v.pre_record
           /\ \A b \in w.live : b \in v.live \/ b = Kept(v)
<1> DEFINE P == Previous(v)
           G == Got(v)
           K == Kept(v)
           N == Len(v.handed)
           X == With(P, G)
           Y == With(Without(X, G), K)
           w == Filtered(a)
<1>1. a.prev = v.prev /\ a.live = v.live /\ a.pre_record = v.pre_record
    BY DEF SameMemory
<1>2. Tracked(a) = Tracked(v) /\ Kept(a) = K /\ Got(a) = G /\ a.filtered = v.filtered
    BY SameUpToNow
<1>3. Tracked(a) => /\ a.prev = Null \/ a.prev \in X
                    /\ Got(a) \in X /\ (a.filtered => Kept(a) \notin a.live)
    BY <1>1, <1>2, StartedFacts DEF With
<1>4. Tracked(v) => G \notin P
    BY StartedFacts
<1> HIDE DEF X, w
<1>5. /\ Account(v, w, With(Without(X, Got(a)), Kept(a)), Nothing, S, N, file)
      /\ \A b \in w.live : b \in a.live \/ (a.filtered /\ b = Kept(a))
      /\ SameQueue(a, w)
    <2>1. Account(v, a, X, Nothing, S, N, file)
        BY DEF X
    <2> HIDE DEF N
    <2> QED
        BY <1>3, <2>1, FilteredAccount DEF w
<1>6. Account(v, w, Y, Nothing, S, N, file)
    BY <1>2, <1>5
<1>7. Tracked(w) = Tracked(v)
    BY <1>6, SameUpToNow
<1>8. Tracked(w) => With(P, K) \subseteq Y /\ Y \subseteq With(P, K)
    BY <1>4, <1>7 DEF With, Without, X
<1> HIDE DEF Y, P
<1>9. Account(v, w, With(P, K), Nothing, S, N, file)
    BY <1>6, <1>8, ForgetAccount
<1> QED
    BY <1>1, <1>2, <1>5, <1>9 DEF SameQueue, w, P

\* The new frame becomes the previous one, and the previous one is deleted.
LEMMA PreviousReplaced ==
    ASSUME NEW v, NEW S, Started(v, S), NEW s, NEW b \in Buffers, NEW R, NEW file,
           Tracked(v) => b \notin Previous(v),
           Account(v, s, With(Previous(v), b), Nothing, R, Len(v.handed), file)
    PROVE  LET y == SetPrev(Delete(s, v.prev), b) IN
           Account(v, y, Previous(y), Nothing, R, Len(v.handed), file)
<1> DEFINE P == Previous(v)
           N == Len(v.handed)
           X == With(P, b)
           Z == Without(X, v.prev)
           d == Delete(s, v.prev)
           y == SetPrev(d, b)
<1>1. v.prev \in Buffers \cup {Null} /\ (Tracked(v) => v.prev = Null \/ v.prev \in P)
      /\ b # Null
    BY StartedFacts, BuffersAreThere
<1>2. s \in Writers /\ Tracked(s) = Tracked(v)
    BY SameUpToNow
<1>3. Tracked(s) => v.prev = Null \/ v.prev \in X
    BY <1>1, <1>2 DEF With
<1>4. \A c \in P : c = v.prev
    BY DEF Previous
<1> HIDE DEF N
<1>5. Account(v, s, X, Nothing, R, N, file)
    BY DEF N
<1> HIDE DEF X
<1>6. Account(v, d, Z, Nothing, R, N, file)
    BY <1>1, <1>3, <1>5, DeletePrevAccount
<1> HIDE DEF d, Z
<1>7. Account(v, y, Z, Nothing, R, N, file)
    BY <1>6, SetPrevAccount
<1>8. y.prev = b
    BY <1>6, SetPrevEffect DEF Account
<1> HIDE DEF y
<1>9. Tracked(y) = Tracked(v)
    BY <1>7, SameUpToNow
<1>10. Previous(y) = {b}
    BY <1>1, <1>8 DEF Previous
<1>11. Tracked(y) => Previous(y) \subseteq Z /\ Z \subseteq Previous(y)
    <2> SUFFICES ASSUME Tracked(v) PROVE Previous(y) \subseteq Z /\ Z \subseteq Previous(y)
        BY <1>9
    <2>1. b # v.prev
        BY <1>1
    <2> HIDE DEF P
    <2> QED
        BY <1>4, <1>10, <2>1 DEF X, Z, With, Without
<1> DEFINE Q == Previous(y)
<1> HIDE DEF Q
<1>12. Account(v, y, Q, Nothing, R, N, file)
    BY <1>7, <1>11, ForgetAccount DEF Q
<1> QED
    BY <1>12 DEF Q, N, y, d

LEMMA PipewireStep ==
    ASSUME NEW v, NEW S, Started(v, S), v.kind = "pipewire", NEW allow \in BOOLEAN
    PROVE  Stepped(v, PipewireFrame(v, allow))
<1> DEFINE w == Copied(v)
           K == Kept(v)
           N == Len(v.handed)
           R == Recording(v)
           X == With(With(Previous(w), K), Got(v))
           x == Push(w, K)
           f == First(x)
           z == Store(Pop(x), f, allow)
           Z == With(Without(X, K), f)
           file == "any"
<1>1. Account(v, w, X, Nothing, S, N, file) /\ (Tracked(v) => K \notin Previous(w))
    BY CopiedAccount
<1>2. R = Append(S, v.ts) /\ N \in Int /\ K \in Buffers /\ K[1] = v.ts
    BY StartedFacts, BuffersOfNow DEF Started
<1>3. PipewireFrame(v, allow) = z
    BY DEF PipewireFrame, Copied
<1>4. file \in {"any", "opened", "held"} /\ file = IF file = "any" THEN "any" ELSE "held"
    OBVIOUS
<1> HIDE DEF w, file
<1>5. w.kind \notin Unqueued /\ K \in X
    BY <1>1, SameUpToNow DEF Unqueued, With
<1>6. Later(S, K) = R
    BY <1>2 DEF Later
<1> HIDE DEF X, K, N, R
<1>7. Account(v, z, Z, Nothing, Later(S, K), N, file) /\ z.prev = w.prev
    BY <1>1, <1>2, <1>4, <1>5, StoredAccount
<1> HIDE DEF z, f
<1>8. z.kind = "pipewire" /\ Tracked(z) = Tracked(v)
    BY <1>7, SameUpToNow
<1>9. LosesFrames(z) /\ Previous(z) = Previous(w)
    BY <1>7, <1>8 DEF LosesFrames, Previous
<1>10. Tracked(z) => Previous(z) \subseteq Z
    BY <1>1, <1>8, <1>9 DEF X, With, Without
<1> HIDE DEF Z
<1> DEFINE Q == Previous(z)
<1> HIDE DEF Q
<1>11. Account(v, z, Q, Nothing, R, N, file)
    BY <1>6, <1>7, <1>9, <1>10, ForgetAccount DEF Q
<1> QED
    BY <1>3, <1>11 DEF Stepped, R, N, Q, file

LEMMA ExtpipeStep ==
    ASSUME NEW v, NEW S, Started(v, S), v.kind = "extpipe", NEW allow \in BOOLEAN,
           NEW cut \in BOOLEAN
    PROVE  Stepped(v, ExtpipeFrame(v, allow, cut))
<1> DEFINE a == CutFile(v, cut)
           w == Filtered(a)
           K == Kept(v)
           N == Len(v.handed)
           R == Recording(v)
           X == With(Previous(v), K)
           x == Push(w, K)
           f == First(x)
           z == Store(Pop(x), f, allow)
           y == SetPrev(z, f)
           Z == With(Without(X, K), f)
           file == "opened"
           next == "held"
<1>1. ExtpipeFrame(v, allow, cut) = y
    BY DEF ExtpipeFrame
<1>2. R = Append(S, v.ts) /\ N \in Int /\ K \in Buffers /\ K[1] = v.ts
    BY StartedFacts, BuffersOfNow DEF Started
<1>3. Account(v, a, With(Previous(v), Got(v)), Nothing, S, N, file) /\ SameMemory(v, a)
    <2> DEFINE Y == With(Previous(v), Got(v))
               any == "any"
    <2>1. Account(v, v, Y, Nothing, S, N, any) /\ v.kind \in FileKinds /\ any \in {"any", "held"}
        BY DEF Started, FileKinds
    <2> HIDE DEF Y, any
    <2>2. Account(v, a, Y, Nothing, S, N, file) /\ SameMemory(v, a)
        BY <2>1, CutFileAccount
    <2> QED
        BY <2>2 DEF Y
<1> HIDE DEF a
<1>4. Account(v, w, X, Nothing, S, N, file)
    <2> HIDE DEF file
    <2> QED
        BY <1>3, FilteredStart
<1>5. file \in {"any", "opened", "held"} /\ next = IF file = "any" THEN "any" ELSE "held"
    OBVIOUS
<1> HIDE DEF w, file, next
<1>6. w.kind \notin Unqueued /\ K \in X
    BY <1>4, SameUpToNow DEF Unqueued, With
<1>7. Later(S, K) = R
    BY <1>2 DEF Later
<1> HIDE DEF X, K, N, R
<1>8. Account(v, z, Z, Nothing, Later(S, K), N, next) /\ f \in Buffers
    BY <1>2, <1>4, <1>5, <1>6, StoredAccount
<1> HIDE DEF z, f
<1>9. Account(v, y, Z, Nothing, R, N, next)
    <2> HIDE DEF Z
    <2> QED
        BY <1>7, <1>8, SetPrevAccount
<1>10. y.prev = f
    BY <1>8, SetPrevEffect DEF Account
<1> HIDE DEF y
<1>11. y.kind = "extpipe"
    BY <1>9, SameUpToNow
<1>12. LosesFrames(y) /\ Previous(y) \subseteq Z
    BY <1>8, <1>10, <1>11 DEF LosesFrames, Previous, With
<1> HIDE DEF Z
<1> DEFINE Q == Previous(y)
<1> HIDE DEF Q
<1>13. Account(v, y, Q, Nothing, R, N, next)
    BY <1>9, <1>12, ForgetAccount DEF Q
<1> QED
    BY <1>1, <1>13 DEF Stepped, R, N, Q, next

\* Of the plugin's target with frames of before nothing is said but of its file.
LEMMA UntrackedAccount ==
    ASSUME NEW u, NEW v, NEW X, NEW hand, NEW S, NEW N, NEW file,
           Account(u, v, X, hand, S, N, file), ~Tracked(v), NEW Y, NEW held, NEW T, NEW M
    PROVE  Account(u, v, Y, held, T, M, file)
BY DEF Account

LEMMA PluginStep ==
    ASSUME NEW v, NEW S, Started(v, S), v.kind = "plugin", NEW allow \in BOOLEAN,
           NEW cut \in BOOLEAN, Tracked(v) => v.pre_record = <<>>
    PROVE  Stepped(v, PluginFrame(v, allow, cut))
<1> DEFINE a == CutFile(v, cut)
           b == Filtered(a)
           K == Kept(v)
           N == Len(v.handed)
           R == Recording(v)
           X == With(Previous(v), K)
           w == Push(b, K)
           f == First(w)
           p == Pop(w)
           x == IF allow THEN UsePrev(Use(p, f)) ELSE p
           s == Store(x, K, allow)
           y == SetPrev(Delete(s, v.prev), K)
           file == "opened"
           next == "held"
<1>1. PluginFrame(v, allow, cut) = y
    BY DEF PluginFrame
<1>2. R = Append(S, v.ts) /\ N \in Int /\ K \in Buffers /\ K[1] = v.ts
    BY StartedFacts, BuffersOfNow DEF Started
<1>3. Account(v, a, With(Previous(v), Got(v)), Nothing, S, N, file) /\ SameMemory(v, a)
    <2> DEFINE Y == With(Previous(v), Got(v))
               any == "any"
    <2>1. Account(v, v, Y, Nothing, S, N, any) /\ v.kind \in FileKinds /\ any \in {"any", "held"}
        BY DEF Started, FileKinds
    <2> HIDE DEF Y, any
    <2>2. Account(v, a, Y, Nothing, S, N, file) /\ SameMemory(v, a)
        BY <2>1, CutFileAccount
    <2> QED
        BY <2>2 DEF Y
<1> HIDE DEF a
<1>4. Account(v, b, X, Nothing, S, N, file) /\ b.pre_record = v.pre_record /\ b.prev = v.prev
    <2> HIDE DEF file
    <2> QED
        BY <1>3, FilteredStart
<1>5. file \in {"any", "opened", "held"} /\ next = IF file = "any" THEN "any" ELSE "held"
    OBVIOUS
<1> HIDE DEF b, file, next
<1>6. b.kind \notin Unqueued /\ K \in X /\ Tracked(b) = Tracked(v)
    BY <1>4, SameUpToNow DEF Unqueued, With
<1>7. Later(S, K) = R
    BY <1>2 DEF Later
<1>8. Tracked(v) => (v.prev = Null \/ v.prev \in X) /\ K \notin Previous(v)
    BY StartedFacts DEF With
<1> HIDE DEF X, K, N, R
<1>9. /\ Account(v, p, With(Without(X, K), f), InHand(f), Later(S, K), N, file)
      /\ f \in Buffers /\ p.prev = b.prev /\ (b.pre_record = <<>> => f = K)
    BY <1>2, <1>4, <1>6, PushPopAccount
<1> HIDE DEF p, f
<1>10. Tracked(p) = Tracked(v)
    BY <1>9, SameUpToNow
<1>11. Account(v, p, X, InHand(K), R, N, file)
    <2>1. CASE ~Tracked(v)
        BY <1>9, <1>10, <2>1, UntrackedAccount
    <2>2. CASE Tracked(v)
        <3>1. f = K
            BY <1>4, <1>9, <2>2
        <3> DEFINE Z == With(Without(X, K), K)
        <3>2. Account(v, p, Z, InHand(K), R, N, file)
            BY <1>7, <1>9, <3>1
        <3>3. X \subseteq Z /\ Z \subseteq X
            BY <1>6 DEF With, Without
        <3> HIDE DEF Z
        <3> QED
            BY <3>2, <3>3, ForgetAccount
    <2> QED
        BY <2>1, <2>2
<1>12. Tracked(p) => f \in X
    BY <1>4, <1>6, <1>9, <1>10
<1>13. Account(v, x, X, InHand(K), R, N, file)
    <2> DEFINE o == Use(p, f)
    <2>1. Account(v, o, X, InHand(K), R, N, file)
        BY <1>11, <1>12, UseAccount
    <2>2. o.prev = v.prev
        <3>1. p \in Writers
            BY <1>9 DEF Account
        <3> QED
            BY <1>4, <1>9, <3>1, UseEffect DEF SameQueue
    <2> HIDE DEF o
    <2>3. Tracked(o) = Tracked(v)
        BY <2>1, SameUpToNow
    <2>4. Tracked(o) => o.prev = Null \/ o.prev \in X
        BY <1>8, <2>2, <2>3
    <2>5. Account(v, UsePrev(o), X, InHand(K), R, N, file)
        BY <2>1, <2>4, UsePrevAccount
    <2> QED
        BY <1>11, <2>5 DEF o
<1> HIDE DEF x
<1>14. Account(v, s, X, Nothing, R, N, next)
    BY <1>2, <1>5, <1>6, <1>13, StoreAccount
<1> HIDE DEF s
<1>15. Account(v, y, Previous(y), Nothing, R, N, next)
    BY <1>2, <1>8, <1>14, PreviousReplaced DEF X, N
<1> QED
    BY <1>1, <1>15 DEF Stepped, R, N, next

\* The frame is filtered, and a copy of it replaces the previous frame.
LEMMA FilteredCopyAccount ==
    ASSUME NEW v, NEW S, Started(v, S)
    PROVE  LET w == FilteredWithCopy(v) IN
           /\ Account(v, w, With(Previous(w), Kept(v)), Nothing, S, Len(v.handed), "any")
           /\ Tracked(v) => Kept(v) \notin Previous(w)
<1> DEFINE P == Previous(v)
           K == Kept(v)
           c == Buffer(v.ts, "copy")
           N == Len(v.handed)
           file == "any"
           a == Filtered(v)
           X == With(P, K)
<1>1. /\ v \in Writers /\ v.prev \in Buffers \cup {Null} /\ K \in Buffers /\ c \in Buffers
      /\ c[1] = v.ts /\ v.ts \in Int /\ c # K
    BY StartedFacts, BuffersOfNow
<1>2. Tracked(v) => /\ v.prev = Null \/ v.prev \in P
                    /\ c \notin v.live /\ K \notin P
    BY StartedFacts
<1>3. Account(v, a, X, Nothing, S, N, file) /\ \A b \in a.live : b \in v.live \/ b = K
    <2> HIDE DEF file
    <2>1. Account(v, v, With(P, Got(v)), Nothing, S, N, file) /\ SameMemory(v, v)
        BY DEF Started, SameMemory, file
    <2> QED
        BY <2>1, FilteredStart
<1>4. CASE v.filtered
    <2> DEFINE b == Delete(a, v.prev)
               d == New(b, c)
               w == SetPrev(d, c)
               X2 == Without(X, v.prev)
               X3 == With(X2, c)
               Y == With(Previous(w), K)
    <2>1. FilteredWithCopy(v) = w
        BY <1>4 DEF FilteredWithCopy
    <2> HIDE DEF a
    <2>2. a \in Writers /\ Tracked(a) = Tracked(v)
        BY <1>3, SameUpToNow
    <2>3. Account(v, b, X2, Nothing, S, N, file)
        <3>1. Tracked(a) => v.prev = Null \/ v.prev \in X
            BY <1>2, <2>2 DEF With
        <3> HIDE DEF X, file
        <3> QED
            BY <1>1, <1>3, <3>1, DeletePrevAccount
    <2>4. \A x \in b.live : x \in a.live
        <3>1. CASE v.prev = Null
            BY <3>1, DeleteNothing
        <3>2. CASE v.prev # Null
            <4>1. b.live = a.live \ {v.prev}
                BY <1>1, <2>2, <3>2, DeleteEffect
            <4> QED
                BY <4>1
        <3> QED
            BY <3>1, <3>2
    <2> HIDE DEF b, X2, file
    <2>5. b \in Writers /\ Tracked(b) = Tracked(v) /\ b.ts = v.ts
        BY <2>3, SameUpToNow
    <2>6. Account(v, d, X3, Nothing, S, N, file)
        <3>1. Tracked(b) => c \notin b.live
            BY <1>1, <1>2, <1>3, <2>4, <2>5
        <3>2. c[1] <= b.ts
            BY <1>1, <2>5
        <3> HIDE DEF c
        <3> QED
            BY <1>1, <2>3, <3>1, <3>2, NewAccount
    <2> HIDE DEF d
    <2>7. Account(v, w, X3, Nothing, S, N, file)
        <3> HIDE DEF X3, c
        <3> QED
            BY <1>1, <2>6, SetPrevAccount
    <2>8. w.prev = c
        <3>1. d \in Writers
            BY <2>6 DEF Account
        <3> HIDE DEF c
        <3> QED
            BY <1>1, <3>1, SetPrevEffect
    <2> HIDE DEF w
    <2>9. Previous(w) = {c}
        BY <1>1, <2>8, BuffersAreThere DEF Previous
    <2>10. Tracked(w) = Tracked(v)
        BY <2>7, SameUpToNow
    <2> HIDE DEF c, K
    <2>11. Tracked(v) => Y \subseteq X3 /\ X3 \subseteq Y
        <3> SUFFICES ASSUME Tracked(v) PROVE Y \subseteq X3 /\ X3 \subseteq Y
            OBVIOUS
        <3>1. v.prev # K
            BY <1>1, <1>2, BuffersAreThere
        <3>2. \A x \in P : x = v.prev
            BY DEF Previous
        <3> HIDE DEF P
        <3> QED
            BY <2>9, <3>1, <3>2 DEF X2, With, Without
    <2> HIDE DEF Y, X3
    <2>12. Account(v, w, Y, Nothing, S, N, file)
        BY <2>7, <2>10, <2>11, ForgetAccount
    <2>13. Tracked(v) => K \notin Previous(w)
        BY <1>1, <2>9
    <2> QED
        BY <2>1, <2>12, <2>13 DEF Y, K, file
<1>5. CASE ~v.filtered
    <2>1. FilteredWithCopy(v) = v /\ a = v
        BY <1>5 DEF FilteredWithCopy, Filtered
    <2> QED
        BY <1>2, <1>3, <2>1
<1> QED
    BY <1>4, <1>5

\* GwaviFrame and AviFrame.
FileFrame(v, allow, cut) ==
    LET w == Push(FilteredWithCopy(v), Kept(v))
        put_f == First(w)
    IN Delete(Store(OpenFile(Rotated(Pop(w), allow, cut)), put_f, allow), put_f)

LEMMA FileStep ==
    ASSUME NEW v, NEW S, Started(v, S), v.kind \in {"gwavi", "avi"}, NEW allow \in BOOLEAN,
           NEW cut \in BOOLEAN
    PROVE  Stepped(v, FileFrame(v, allow, cut))
<1> DEFINE b == FilteredWithCopy(v)
           K == Kept(v)
           N == Len(v.handed)
           R == Recording(v)
           X == With(Previous(b), K)
           w == Push(b, K)
           f == First(w)
           p == Pop(w)
           o == Rotated(p, allow, cut)
           q == OpenFile(o)
           s == Store(q, f, allow)
           y == Delete(s, f)
           Z == With(Without(X, K), f)
           Y == Without(Z, f)
           any == "any"
           file == "opened"
           next == "held"
<1>1. FileFrame(v, allow, cut) = y
    BY DEF FileFrame
<1>2. R = Append(S, v.ts) /\ N \in Int /\ K \in Buffers /\ K[1] = v.ts
    BY StartedFacts, BuffersOfNow DEF Started
<1>3. Account(v, b, X, Nothing, S, N, any) /\ (Tracked(v) => K \notin Previous(b))
    BY FilteredCopyAccount
<1> HIDE DEF b
<1>4. b.kind = v.kind /\ K \in X /\ Tracked(b) = Tracked(v) /\ b.kind \notin Unqueued
    BY <1>3, SameUpToNow DEF Unqueued, With
<1>5. Later(S, K) = R
    BY <1>2 DEF Later
<1> HIDE DEF X, K, N, R
<1>6. /\ Account(v, p, With(Without(X, K), f), InHand(f), Later(S, K), N, any)
      /\ f \in Buffers /\ p.prev = b.prev /\ (Tracked(b) => f \notin Without(X, K))
    <2> HIDE DEF any
    <2> QED
        BY <1>2, <1>3, <1>4, PushPopAccount
<1> HIDE DEF p, f
<1>7. Account(v, p, Z, InHand(f), R, N, any) /\ p.kind \in FileKinds /\ p \in Writers
    BY <1>5, <1>6, SameUpToNow DEF FileKinds
<1>8. f \in Z
    BY DEF With
<1> HIDE DEF Z
<1>9. Account(v, o, Z, InHand(f), R, N, any) /\ SameMemory(p, o) /\ o \in Writers
    <2>1. Account(v, o, Z, InHand(f), R, N, any)
        BY <1>7, RotatedAccount
    <2>2. SameMemory(p, o)
        <3> DEFINE k == CloseFile(p)
                   e == [k EXCEPT !.rotates = TRUE]
        <3>1. k \in Writers /\ SameMemory(p, k) /\ o \in {p, e}
            BY <1>7, CloseFileEffect DEF Rotated
        <3> HIDE DEF k
        <3>2. SameMemory(k, e)
            BY <3>1 DEF SameMemory, Writers
        <3> HIDE DEF e
        <3> QED
            BY <3>1, <3>2 DEF SameMemory
    <2> QED
        BY <2>1, <2>2 DEF Account
<1> HIDE DEF o
<1>10. o.kind \in FileKinds
    BY <1>9, SameUpToNow DEF FileKinds
<1>11. Account(v, q, Z, InHand(f), R, N, file) /\ SameMemory(o, q) /\ q \in Writers
    <2>1. any # "closed"
        OBVIOUS
    <2> HIDE DEF any
    <2> QED
        BY <1>9, <1>10, <2>1, OpenFileAccount, OpenFileEffect
<1> HIDE DEF q
<1>12. file \in {"any", "opened", "held"} /\ next = IF file = "any" THEN "any" ELSE "held"
    OBVIOUS
<1> HIDE DEF file
<1>13. Account(v, s, Z, Nothing, R, N, next) /\ SameQueue(q, s) /\ s \in Writers
    <2> HIDE DEF next
    <2> QED
        BY <1>6, <1>8, <1>11, <1>12, StoreAccount, StoreEffect
<1> HIDE DEF s
<1>14. Account(v, y, Y, Nothing, R, N, next) /\ SameQueue(s, y)
    <2> HIDE DEF next
    <2> QED
        BY <1>6, <1>8, <1>13, DeleteAccount, DeleteEffect
<1>15. y.prev = b.prev
    BY <1>6, <1>9, <1>11, <1>13, <1>14 DEF SameQueue, SameMemory
<1> HIDE DEF y
<1>16. Previous(y) = Previous(b)
    BY <1>15 DEF Previous
<1>17. Tracked(y) = Tracked(v)
    BY <1>14, SameUpToNow
<1>18. Tracked(y) => Previous(b) \subseteq Y /\ Y \subseteq Previous(b)
    BY <1>3, <1>4, <1>6, <1>17 DEF X, Z, With, Without
<1> HIDE DEF Y
<1> DEFINE Q == Previous(b)
<1> HIDE DEF Q
<1>19. Account(v, y, Q, Nothing, R, N, next)
    BY <1>14, <1>18, ForgetAccount DEF Q
<1>20. Account(v, y, Q, Nothing, R, N, any)
    BY <1>19 DEF Account, Filed
<1> QED
    BY <1>1, <1>16, <1>20 DEF Stepped, R, N, Q

LEMMA FileFrames ==
    ASSUME NEW v, NEW allow, NEW cut
    PROVE  /\ GwaviFrame(v, allow, cut) = FileFrame(v, allow, cut)
           /\ AviFrame(v, allow, cut) = FileFrame(v, allow, cut)
BY DEF GwaviFrame, AviFrame, FileFrame

LEMMA GstreamerStep ==
    ASSUME NEW v, NEW S, Started(v, S), v.kind = "gstreamer", NEW allow \in BOOLEAN, v.prev = Null
    PROVE  Stepped(v, GstreamerFrame(v, allow))
<1> DEFINE b == Filtered(v)
           K == Kept(v)
           N == Len(v.handed)
           R == Recording(v)
           X == With(Previous(v), K)
           w == Push(b, K)
           f == First(w)
           z == Store(Pop(w), f, allow)
           Z == With(Without(X, K), f)
           file == "any"
<1>1. GstreamerFrame(v, allow) = z
    BY DeleteNothing DEF GstreamerFrame
<1>2. R = Append(S, v.ts) /\ N \in Int /\ K \in Buffers /\ K[1] = v.ts
    BY StartedFacts, BuffersOfNow DEF Started
<1>3. Account(v, b, X, Nothing, S, N, file) /\ b.prev = v.prev
    <2> HIDE DEF file
    <2>1. Account(v, v, With(Previous(v), Got(v)), Nothing, S, N, file) /\ SameMemory(v, v)
        BY DEF Started, SameMemory, file
    <2> QED
        BY <2>1, FilteredStart
<1>4. file \in {"any", "opened", "held"} /\ file = IF file = "any" THEN "any" ELSE "held"
    OBVIOUS
<1> HIDE DEF b, file
<1>5. b.kind \notin Unqueued /\ K \in X
    BY <1>3, SameUpToNow DEF Unqueued, With
<1>6. Later(S, K) = R
    BY <1>2 DEF Later
<1> HIDE DEF X, K, N, R
<1>7. Account(v, z, Z, Nothing, Later(S, K), N, file) /\ z.prev = b.prev
    BY <1>2, <1>3, <1>4, <1>5, StoredAccount
<1> HIDE DEF z
<1>8. z.kind = "gstreamer" /\ z.prev = v.prev
    BY <1>3, <1>7, SameUpToNow
<1>9. LosesFrames(z) /\ Previous(z) = {}
    BY <1>7, <1>8 DEF LosesFrames, Previous
<1> DEFINE Q == Previous(z)
<1>10. Q \subseteq Z
    BY <1>9
<1> HIDE DEF Q, Z
<1>11. Account(v, z, Q, Nothing, R, N, file)
    BY <1>6, <1>7, <1>9, <1>10, ForgetAccount
<1> QED
    BY <1>1, <1>8, <1>11 DEF Stepped, R, N, Q, file

\* Without a queue: the frame, or a scaled one, is stored and replaces the
\* previous frame.
LEMMA UnqueuedStep ==
    ASSUME NEW v, NEW S, Started(v, S), v.kind \in Unqueued, NEW allow \in BOOLEAN,
           NEW b \in Buffers, b[1] = v.ts, NEW w, Tracked(v) => b \notin Previous(v),
           Account(v, w, With(Previous(v), b), Nothing, S, Len(v.handed), "any")
    PROVE  Stepped(v, SetPrev(Delete(Store(w, b, allow), v.prev), b))
<1> DEFINE N == Len(v.handed)
           R == Recording(v)
           X == With(Previous(v), b)
           s == Store(w, b, allow)
           y == SetPrev(Delete(s, v.prev), b)
           file == "any"
<1>1. Later(S, b) = R
    BY DEF Later, Started
<1>2. w.kind \in Unqueued
    BY SameUpToNow
<1>3. b \in X
    BY DEF With
<1>4. file \in {"any", "opened", "held"} /\ file = IF file = "any" THEN "any" ELSE "held"
    OBVIOUS
<1> HIDE DEF X, R, N, file
<1>5. Account(v, w, X, Nothing, S, N, file)
    BY DEF X, N, file
<1>6. Account(v, w, X, InHand(b), R, N, file)
    BY <1>1, <1>2, <1>5, TakeAccount
<1>7. Account(v, s, X, Nothing, R, N, file)
    BY <1>3, <1>4, <1>6, StoreAccount
<1> HIDE DEF s
<1>8. Account(v, y, Previous(y), Nothing, R, N, file)
    BY <1>7, PreviousReplaced DEF X, N
<1>9. v.kind \notin {"extpipe", "plugin", "gstreamer"}
    BY DEF Unqueued
<1> QED
    BY <1>8, <1>9 DEF Stepped, R, N, file, s

LEMMA NewSourceStep ==
    ASSUME NEW v, NEW S, Started(v, S), v.kind \in Unqueued, NEW allow \in BOOLEAN
    PROVE  /\ Stepped(v, SetPrev(Delete(Store(Filtered(v), Kept(v), allow), v.prev), Kept(v)))
           /\ Account(v, Filtered(v), With(Previous(v), Kept(v)), Nothing, S, Len(v.handed), "any")
<1> DEFINE K == Kept(v)
           w == Filtered(v)
           file == "any"
<1>1. K \in Buffers /\ K[1] = v.ts /\ (Tracked(v) => K \notin Previous(v))
    BY StartedFacts, BuffersOfNow
<1>2. Account(v, w, With(Previous(v), K), Nothing, S, Len(v.handed), file)
    <2> HIDE DEF file
    <2>1. Account(v, v, With(Previous(v), Got(v)), Nothing, S, Len(v.handed), file) /\ SameMemory(v, v)
        BY DEF Started, SameMemory, file
    <2> QED
        BY <2>1, FilteredStart
<1> HIDE DEF K, w
<1>3. Stepped(v, SetPrev(Delete(Store(w, K, allow), v.prev), K))
    BY <1>1, <1>2, UnqueuedStep
<1> QED
    BY <1>2, <1>3 DEF K, w

LEMMA PixelfloodStep ==
    ASSUME NEW v, NEW S, Started(v, S), v.kind = "pixelflood", NEW allow \in BOOLEAN
    PROVE  Stepped(v, PixelfloodFrame(v, allow))
<1> DEFINE K == Kept(v)
           c == Buffer(v.ts, "scaled")
           P == Previous(v)
           N == Len(v.handed)
           a == Filtered(v)
           b == New(a, c)
           w == Delete(b, K)
           X == With(P, K)
           Y == With(X, c)
           Z == Without(Y, K)
           y == SetPrev(Delete(Store(w, c, allow), v.prev), c)
           file == "any"
<1>1. /\ v \in Writers /\ K \in Buffers /\ c \in Buffers
      /\ c[1] = v.ts /\ v.ts \in Int /\ c # K
    BY StartedFacts, BuffersOfNow
<1>2. Tracked(v) => c \notin v.live /\ K \notin P /\ c \notin P
    BY StartedFacts
<1>3. PixelfloodFrame(v, allow) = y
    BY DEF PixelfloodFrame
<1>4. Account(v, a, X, Nothing, S, N, file) /\ \A d \in a.live : d \in v.live \/ d = K
    <2> HIDE DEF file
    <2>1. Account(v, v, With(P, Got(v)), Nothing, S, N, file) /\ SameMemory(v, v)
        BY DEF Started, SameMemory, file
    <2> QED
        BY <2>1, FilteredStart
<1> HIDE DEF a, X, K, c
<1>5. Tracked(a) = Tracked(v) /\ a.ts = v.ts
    BY <1>4, SameUpToNow
<1>6. (Tracked(a) => c \notin a.live) /\ c[1] <= a.ts
    BY <1>1, <1>2, <1>4, <1>5
<1> HIDE DEF file, N, P
<1>7. Account(v, b, Y, Nothing, S, N, file)
    BY <1>1, <1>4, <1>6, NewAccount
<1> HIDE DEF b
<1>8. Tracked(b) => K \in Y
    BY DEF X, Y, With
<1> HIDE DEF Y
<1>9. Account(v, w, Z, Nothing, S, N, file)
    BY <1>1, <1>7, <1>8, DeleteAccount
<1> HIDE DEF w
<1>10. Tracked(w) = Tracked(v)
    BY <1>9, SameUpToNow
<1>11. Tracked(w) => With(P, c) \subseteq Z /\ Z \subseteq With(P, c)
    BY <1>1, <1>2, <1>10 DEF X, Y, With, Without
<1> HIDE DEF Z
<1>12. Account(v, w, With(P, c), Nothing, S, N, file)
    BY <1>9, <1>11, ForgetAccount
<1>13. v.kind \in Unqueued
    BY DEF Unqueued
<1>14. Stepped(v, y)
    BY <1>1, <1>2, <1>12, <1>13, UnqueuedStep DEF P, N, file
<1> QED
    BY <1>3, <1>14

\* The loop is left: with or without the frame.
Left(d) == [d EXCEPT !.at = "leave", !.unstored = TRUE]

LEMMA LeftAccount ==
    ASSUME NEW u, NEW d, NEW X, NEW S, NEW N, NEW file, Account(u, d, X, Nothing, S, N, file),
           file = "any", d.kind = "loopback", NEW P, P \subseteq X, Len(d.taken) = 1 \/ X \subseteq P,
           NEW R, NEW y, y = Left(d)
    PROVE  /\ Account(y, y, P, Nothing, R, N, file)
           /\ y.at = "leave" /\ y.kind = d.kind /\ y.uses = d.uses /\ y.handed = d.handed
           /\ y.taken = d.taken /\ y.prev = d.prev
<1>1. d \in Writers /\ Filed(d, file) /\ Owns(d, X) /\ Len(d.pre_record) = N
    BY DEF Account, Tracked
<1>2. /\ y \in Writers /\ y.at = "leave" /\ y.kind = d.kind /\ y.uses = d.uses
      /\ y.handed = d.handed /\ y.taken = d.taken /\ y.prev = d.prev /\ y.unstored
      /\ y.live = d.live /\ y.fault = d.fault /\ y.pre_record = d.pre_record /\ y.ts = d.ts
      /\ y.open = d.open /\ y.in_file = d.in_file /\ y.empty = d.empty
    BY <1>1 DEF Writers, WriterPlaces, Left
<1>3. Len(d.taken) = 1 => LosesFrames(y)
    BY <1>2 DEF LosesFrames
<1>4. LosesFrames(d) => LosesFrames(y)
    BY <1>2, <1>3 DEF LosesFrames
<1>5. Owns(y, P)
    BY <1>1, <1>2, <1>3, <1>4 DEF Owns
<1>6. Filed(y, file) /\ Taped(y, Nothing, R) /\ SameThread(y, y)
    BY <1>1, <1>2 DEF Filed, Taped, SameThread
<1> QED
    BY <1>1, <1>2, <1>5, <1>6 DEF Account

LEMMA LoopbackLeaves ==
    ASSUME NEW v, NEW S, Started(v, S), v.kind = "loopback", NEW allow \in BOOLEAN,
           NEW cut \in BOOLEAN, v.handed = <<>>, v.uses = 1, NEW y, y = LoopbackFrame(v, allow, cut),
           (~allow /\ Len(v.taken) = 1) \/ cut
    PROVE  Running(y)
<1> DEFINE K == Kept(v)
           P == Previous(v)
           N == Len(v.handed)
           R == Recording(v)
           w == Filtered(v)
           d == Delete(w, K)
           X == With(P, K)
           Z == Without(X, K)
           file == "any"
<1>1. v \in Writers /\ v.prev \in Buffers \cup {Null} /\ v.kind \in Unqueued
    BY StartedFacts DEF Unqueued
<1>2. K \in Buffers /\ (Tracked(v) => K \notin P)
    BY StartedFacts, BuffersOfNow
<1>3. Tracked(v)
    BY DEF Tracked
<1>4. SUFFICES /\ Account(y, y, P, Nothing, R, N, file)
               /\ y.at = "leave" /\ y.kind = v.kind /\ y.uses = v.uses /\ y.handed = v.handed
               /\ y.taken = v.taken /\ y.prev = v.prev
    BY DEF Running, Previous, Recording, FileNow
<1>5. CASE ~allow /\ Len(v.taken) = 1
    <2> DEFINE Y == With(P, Got(v))
    <2>1. y = Left(v)
        <3> DEFINE leave == [v EXCEPT !.at = "leave"]
        <3>1. y = [leave EXCEPT !.unstored = TRUE]
            BY <1>5 DEF LoopbackFrame
        <3>2. [leave EXCEPT !.unstored = TRUE] = Left(v)
            BY <1>1 DEF Left, Writers
        <3> QED
            BY <3>1, <3>2
    <2>2. Account(v, v, Y, Nothing, S, N, file) /\ P \subseteq Y
        BY DEF Started, With
    <2> HIDE DEF Y, file, P, N, R
    <2> QED
        BY <1>5, <2>1, <2>2, LeftAccount DEF file
<1>6. CASE ~(~allow /\ Len(v.taken) = 1)
    <2>1. y = Left(d)
        BY <1>6 DEF LoopbackFrame, Left
    <2>2. Account(v, w, X, Nothing, S, N, file) /\ w.prev = v.prev
        <3> HIDE DEF file
        <3>1. Account(v, v, With(P, Got(v)), Nothing, S, N, file) /\ SameMemory(v, v)
            BY DEF Started, SameMemory, file
        <3> QED
            BY <3>1, FilteredStart
    <2>3. K \in X
        BY DEF With
    <2>4. Z \subseteq P /\ P \subseteq Z
        BY <1>2, <1>3 DEF With, Without
    <2> HIDE DEF w, X, file, N, R
    <2>5. Account(v, d, Z, Nothing, S, N, file)
        BY <1>2, <2>2, <2>3, DeleteAccount
    <2>6. d.prev = v.prev
        BY <1>2, <2>2, DeleteEffect DEF Account, SameQueue
    <2> HIDE DEF d, Z, K
    <2>7. d.kind = v.kind /\ d.uses = v.uses /\ d.handed = v.handed /\ d.taken = v.taken
        BY <2>5, SameUpToNow
    <2> HIDE DEF P
    <2> QED
        BY <2>1, <2>4, <2>5, <2>6, <2>7, LeftAccount DEF file
<1> QED
    BY <1>5, <1>6

LEMMA LoopbackStep ==
    ASSUME NEW v, NEW S, Started(v, S), v.kind = "loopback", NEW allow \in BOOLEAN,
           NEW cut \in BOOLEAN, ~((~allow /\ Len(v.taken) = 1) \/ cut)
    PROVE  Stepped(v, LoopbackFrame(v, allow, cut))
<1> DEFINE K == Kept(v)
           y == SetPrev(Delete(Store(Filtered(v), K, TRUE), v.prev), K)
<1>1. LoopbackFrame(v, allow, cut) = y
    BY DEF LoopbackFrame
<1>2. v.kind \in Unqueued
    BY DEF Unqueued
<1>3. \A always \in BOOLEAN : Stepped(v, SetPrev(Delete(Store(Filtered(v), K, always), v.prev), K))
    BY <1>2, NewSourceStep
<1>4. Stepped(v, y)
    BY <1>3
<1> QED
    BY <1>1, <1>4

-----------------------------------------------------------------------------
(* Induction over the natural numbers, from the well-founded order of finite *)
(* sets.                                                                     *)

LEMMA LeastNatural ==
    ASSUME NEW T, T \subseteq Nat, T # {}
    PROVE  \E n \in T : \A m \in T : n <= m
<1> DEFINE R == StrictSubsetOrdering(Nat)
           F == FiniteSubsetsOf(Nat)
           U == {0 .. n : n \in T}
<1>1. IsWellFoundedOn(R, F)
    BY FS_StrictSubsetOrderingWellFounded
<1>2. U \subseteq F
    <2> SUFFICES ASSUME NEW n \in T PROVE 0 .. n \in F
        OBVIOUS
    <2>1. n \in Nat /\ 0 \in Int /\ n \in Int
        OBVIOUS
    <2>2. IsFiniteSet(0 .. n)
        BY <2>1, FS_Interval
    <2> QED
        BY <2>1, <2>2 DEF FiniteSubsetsOf
<1>3. U # {}
    OBVIOUS
<1> HIDE DEF U
<1>4. PICK x \in U : \A y \in U : ~(<<y, x>> \in R)
    <2> HIDE DEF R, F
    <2> QED
        BY <1>1, <1>2, <1>3, WFMin
<1>5. PICK n \in T : x = 0 .. n
    BY <1>4 DEF U
<1>6. ASSUME NEW m \in T PROVE n <= m
    <2>0. m \in Nat /\ n \in Nat
        BY <1>6
    <2>1. 0 .. m \in U
        BY <1>6 DEF U
    <2>2. <<0 .. m, 0 .. n>> \notin R
        BY <2>1, <1>4, <1>5
    <2>3. SUFFICES ASSUME m < n PROVE FALSE
        BY <2>0
    <2>4. 0 .. m \subseteq 0 .. n /\ 0 .. m # 0 .. n /\ 0 .. n \subseteq Nat
        BY <2>0, <2>3
    <2> QED
        BY <2>2, <2>4 DEF StrictSubsetOrdering
<1> QED
    BY <1>5, <1>6

LEMMA NaturalInduction ==
    ASSUME NEW S, 0 \in S, \A n \in Nat : n \in S => n + 1 \in S
    PROVE  Nat \subseteq S
<1> DEFINE T == Nat \ S
<1>1. SUFFICES ASSUME T # {} PROVE FALSE
    OBVIOUS
<1>2. PICK n \in T : \A m \in T : n <= m
    <2>1. T \subseteq Nat
        OBVIOUS
    <2> HIDE DEF T
    <2> QED
        BY <1>1, <2>1, LeastNatural
<1>3. n \in Nat /\ n # 0
    OBVIOUS
<1>4. n - 1 \in Nat /\ n - 1 \notin T
    BY <1>2, <1>3
<1> QED
    BY <1>3, <1>4

-----------------------------------------------------------------------------
\* The queue at the end: f[i] is what there is after i of its frames.
FlushOne(w, b, allow) == Delete(Store(w, b, allow), b)
Flushes(f, v, allow) ==
    f = [i \in 0 .. Len(v.pre_record) |->
           IF i = 0 THEN v ELSE FlushOne(f[i - 1], v.pre_record[i], allow)]

LEMMA FlushExists ==
    ASSUME NEW v \in Writers, NEW allow \in BOOLEAN
    PROVE  \E f : Flushes(f, v, allow)
<1> DEFINE q == v.pre_record
           Upto(g, k) == g = [i \in 0 .. k |-> IF i = 0 THEN v ELSE FlushOne(g[i - 1], q[i], allow)]
           S == {k \in Nat : \E g : Upto(g, k)}
<1>1. 0 \in S
    <2> DEFINE g == [i \in 0 .. 0 |-> v]
    <2>1. Upto(g, 0)
        OBVIOUS
    <2> QED
        BY <2>1
<1>2. ASSUME NEW k \in Nat, k \in S PROVE k + 1 \in S
    <2>1. PICK g : Upto(g, k)
        BY <1>2
    <2> DEFINE last == FlushOne(g[k], q[k + 1], allow)
               h == [i \in 0 .. k + 1 |-> IF i = k + 1 THEN last ELSE g[i]]
    <2>2. \A i \in 0 .. k : g[i] = IF i = 0 THEN v ELSE FlushOne(g[i - 1], q[i], allow)
        BY <2>1
    <2> HIDE DEF last
    <2>3. \A i \in 0 .. k + 1 : h[i] = IF i = k + 1 THEN last ELSE g[i]
        OBVIOUS
    <2>4. DOMAIN h = 0 .. k + 1 /\ h = [i \in 0 .. k + 1 |-> h[i]]
        OBVIOUS
    <2> HIDE DEF h
    <2>5. \A i \in 0 .. k + 1 : h[i] = IF i = 0 THEN v ELSE FlushOne(h[i - 1], q[i], allow)
        <3> SUFFICES ASSUME NEW i \in 0 .. k + 1
                     PROVE  h[i] = IF i = 0 THEN v ELSE FlushOne(h[i - 1], q[i], allow)
            OBVIOUS
        <3>1. CASE i = 0
            BY <2>2, <2>3, <3>1
        <3>2. CASE i = k + 1
            <4>1. h[i - 1] = g[k] /\ i # 0
                BY <2>3, <3>2
            <4> QED
                BY <2>3, <3>2, <4>1 DEF last
        <3>3. CASE i # 0 /\ i # k + 1
            <4>1. i \in 0 .. k /\ i - 1 \in 0 .. k
                BY <3>3
            <4>2. h[i] = g[i] /\ h[i - 1] = g[i - 1]
                BY <2>3, <3>3, <4>1
            <4> QED
                BY <2>2, <3>3, <4>1, <4>2
        <3> QED
            BY <3>1, <3>2, <3>3
    <2>6. Upto(h, k + 1)
        BY <2>4, <2>5
    <2> HIDE DEF Upto
    <2>7. \E e : Upto(e, k + 1)
        BY <2>6
    <2> QED
        BY <2>7
<1> HIDE DEF S
<1>3. Nat \subseteq S
    BY <1>1, <1>2, NaturalInduction
<1>4. Len(q) \in S
    BY <1>3 DEF Writers
<1> QED
    BY <1>4 DEF S, Flushes

LEMMA FlushedIs ==
    ASSUME NEW v \in Writers, NEW allow \in BOOLEAN
    PROVE  \E f : Flushes(f, v, allow) /\ Flushed(v, allow) = [f[Len(v.pre_record)] EXCEPT !.pre_record = <<>>]
<1> DEFINE c == CHOOSE f : Flushes(f, v, allow)
<1>1. Flushes(c, v, allow)
    <2> HIDE DEF Flushes
    <2> QED
        BY FlushExists
<1>2. Flushed(v, allow) = [c[Len(v.pre_record)] EXCEPT !.pre_record = <<>>]
    BY DEF Flushed, Flushes, FlushOne
<1> HIDE DEF c
<1> QED
    BY <1>1, <1>2

\* What there is after i frames of the queue.
FlushedUpto(v, w, i, allow) ==
    /\ w \in Writers /\ SameThread(v, w) /\ SameQueue(v, w)
    /\ w.open = v.open /\ w.empty = v.empty
    /\ w.live = v.live \ {v.pre_record[j] : j \in 1 .. i}
    /\ allow => /\ w.written = v.written \o SubSeq(Numbers(v.pre_record), 1, i)
                /\ w.in_file = v.in_file + i /\ w.unstored = v.unstored
    /\ ~allow => /\ w.written = v.written /\ w.in_file = v.in_file
                 /\ w.unstored = (v.unstored \/ i > 0)

LEMMA WrittenUpto ==
    ASSUME NEW s \in Seq(Int), NEW t \in Seq(Int), NEW i \in Nat, i + 1 <= Len(t)
    PROVE  Append(s \o SubSeq(t, 1, i), t[i + 1]) = s \o SubSeq(t, 1, i + 1)
<1> DEFINE a == SubSeq(t, 1, i)
           e == t[i + 1]
<1>1. a \in Seq(Int) /\ e \in Int
    OBVIOUS
<1>2. SubSeq(t, 1, i + 1) = Append(a, e)
    <2>1. 1 \in 1 .. Len(t) /\ i + 1 \in 1 .. Len(t) /\ (i + 1) - 1 = i
        OBVIOUS
    <2>2. SubSeq(t, 1, i + 1) = SubSeq(t, 1, (i + 1) - 1) \o <<e>>
        BY <2>1, SubSeqRecursiveSecond
    <2>3. Append(a, e) = a \o <<e>>
        <3> HIDE DEF a, e
        <3> QED
            BY <1>1, AppendIsConcat
    <2> QED
        BY <2>1, <2>2, <2>3
<1> HIDE DEF a, e
<1>3. s \o Append(a, e) = Append(s \o a, e)
    BY <1>1, TapePush
<1> QED
    BY <1>2, <1>3 DEF a, e

LEMMA FlushOneUpto ==
    ASSUME NEW v \in Writers, NEW w, NEW i \in Nat, i + 1 <= Len(v.pre_record),
           NEW allow \in BOOLEAN, FlushedUpto(v, w, i, allow)
    PROVE  LET x == FlushOne(w, v.pre_record[i + 1], allow) IN
           /\ FlushedUpto(v, x, i + 1, allow)
           /\ ~w.fault /\ v.pre_record[i + 1] \in w.live => ~x.fault
<1> DEFINE q == v.pre_record
           b == q[i + 1]
           y == Store(w, b, allow)
           x == Delete(y, b)
           n == Numbers(q)
<1>1. q \in Seq(Buffers) /\ Len(q) \in Nat /\ i + 1 \in 1 .. Len(q) /\ b \in Buffers
      /\ v.written \in Seq(Int)
    BY DEF Writers
<1>2. n \in Seq(Int) /\ Len(n) = Len(q) /\ n[i + 1] = b[1]
    BY <1>1, NumbersAre
<1>3. w \in Writers
    BY DEF FlushedUpto
<1> HIDE DEF b, n
<1>4. /\ y \in Writers /\ SameThread(w, y) /\ SameQueue(w, y) /\ Stores(w, y, b, allow)
      /\ y.live = w.live /\ y.fault = (w.fault \/ (allow /\ b \notin w.live))
    BY <1>1, <1>3, StoreEffect
<1> HIDE DEF y
<1>5. /\ x \in Writers /\ SameThread(y, x) /\ SameFile(y, x) /\ SameQueue(y, x)
      /\ x.live = y.live \ {b} /\ x.fault = (y.fault \/ b \notin y.live)
    BY <1>1, <1>4, DeleteEffect
<1> HIDE DEF x
<1>6. ~w.fault /\ b \in w.live => ~x.fault
    BY <1>4, <1>5
<1>7. SameThread(v, x) /\ SameQueue(v, x)
    <2>1. SameThread(v, w) /\ SameQueue(v, w)
        BY DEF FlushedUpto
    <2> QED
        BY <2>1, <1>4, <1>5 DEF SameThread, SameQueue
<1>8. x.open = v.open /\ x.empty = v.empty
    BY <1>4, <1>5 DEF FlushedUpto, Stores, SameFile
<1>9. x.live = v.live \ {q[j] : j \in 1 .. i + 1}
    <2>1. w.live = v.live \ {q[j] : j \in 1 .. i}
        BY DEF FlushedUpto
    <2>2. \A j \in 1 .. i + 1 : j \in 1 .. i \/ j = i + 1
        OBVIOUS
    <2>3. \A j \in 1 .. i : j \in 1 .. i + 1
        OBVIOUS
    <2>4. i + 1 \in 1 .. i + 1
        OBVIOUS
    <2>5. \A c : c \in {q[j] : j \in 1 .. i + 1} <=> c \in {q[j] : j \in 1 .. i} \/ c = b
        BY <2>2, <2>3, <2>4 DEF b
    <2> QED
        BY <1>4, <1>5, <2>1, <2>5
<1>10. allow => /\ x.written = v.written \o SubSeq(n, 1, i + 1)
                /\ x.in_file = v.in_file + (i + 1) /\ x.unstored = v.unstored
    <2> SUFFICES ASSUME allow PROVE /\ x.written = v.written \o SubSeq(n, 1, i + 1)
                                    /\ x.in_file = v.in_file + (i + 1) /\ x.unstored = v.unstored
        OBVIOUS
    <2>1. /\ w.written = v.written \o SubSeq(n, 1, i)
          /\ w.in_file = v.in_file + i /\ w.unstored = v.unstored
        BY DEF FlushedUpto, n
    <2>2. x.written = Append(w.written, b[1]) /\ x.in_file = w.in_file + 1 /\ x.unstored = w.unstored
        BY <1>4, <1>5 DEF Stores, SameFile
    <2>3. Append(v.written \o SubSeq(n, 1, i), n[i + 1]) = v.written \o SubSeq(n, 1, i + 1)
        <3>1. i + 1 <= Len(n)
            BY <1>2
        <3> QED
            BY <1>1, <1>2, <3>1, WrittenUpto
    <2>4. v.in_file \in Int
        BY DEF Writers
    <2>5. x.written = v.written \o SubSeq(n, 1, i + 1)
        BY <1>2, <2>1, <2>2, <2>3
    <2>6. x.in_file = v.in_file + (i + 1)
        <3> DEFINE m == v.in_file
        <3>1. w.in_file = m + i
            BY <2>1
        <3>2. x.in_file = w.in_file + 1
            BY <2>2
        <3>3. m \in Int
            BY <2>4
        <3> HIDE DEF m
        <3>4. (m + i) + 1 = m + (i + 1)
            BY <3>3
        <3>5. x.in_file = m + (i + 1)
            BY <3>1, <3>2, <3>4
        <3> QED
            BY <3>5 DEF m
    <2> QED
        BY <2>1, <2>2, <2>5, <2>6
<1>11. ~allow => /\ x.written = v.written /\ x.in_file = v.in_file
                 /\ x.unstored = (v.unstored \/ i + 1 > 0)
    <2> SUFFICES ASSUME ~allow PROVE /\ x.written = v.written /\ x.in_file = v.in_file
                                     /\ x.unstored = (v.unstored \/ i + 1 > 0)
        OBVIOUS
    <2>1. w.written = v.written /\ w.in_file = v.in_file
        BY DEF FlushedUpto
    <2>2. x.written = w.written /\ x.in_file = w.in_file /\ x.unstored
        BY <1>4, <1>5 DEF Stores, SameFile
    <2>3. x.unstored \in BOOLEAN /\ i + 1 > 0
        BY <1>5 DEF Writers
    <2> QED
        BY <2>1, <2>2, <2>3
<1>12. FlushedUpto(v, x, i + 1, allow)
    BY <1>5, <1>7, <1>8, <1>9, <1>10, <1>11 DEF FlushedUpto, n
<1> QED
    BY <1>6, <1>12 DEF x, y, b, FlushOne

\* The whole queue.
Alone(v) ==
    /\ ~v.fault
    /\ \A i \in 1 .. Len(v.pre_record) : v.pre_record[i] \in v.live
    /\ \A i, j \in 1 .. Len(v.pre_record) : v.pre_record[i] = v.pre_record[j] => i = j

LEMMA FlushedNone ==
    ASSUME NEW v \in Writers, NEW allow \in BOOLEAN
    PROVE  FlushedUpto(v, v, 0, allow)
<1> DEFINE n == Numbers(v.pre_record)
           B == {v.pre_record[j] : j \in 1 .. 0}
<1>1. v.pre_record \in Seq(Buffers) /\ v.written \in Seq(Int) /\ v.in_file \in Int
      /\ v.unstored \in BOOLEAN
    BY DEF Writers
<1>2. n \in Seq(Int)
    BY <1>1, NumbersAre
<1> HIDE DEF n
<1>3. SubSeq(n, 1, 0) = <<>>
    BY <1>2
<1>4. v.written \o <<>> = v.written
    BY <1>1, ConcatEmptySeq
<1>5. v.written = v.written \o SubSeq(n, 1, 0)
    BY <1>3, <1>4
<1>6. v.in_file = v.in_file + 0
    BY <1>1
<1>7. v.live = v.live \ B
    <2>1. \A j : j \notin 1 .. 0
        OBVIOUS
    <2>2. B = {}
        BY <2>1
    <2> QED
        BY <2>2
<1>8. v.unstored = (v.unstored \/ 0 > 0)
    <2>1. ~(0 > 0)
        OBVIOUS
    <2> QED
        BY <1>1, <2>1
<1>9. SameThread(v, v) /\ SameQueue(v, v)
    BY DEF SameThread, SameQueue
<1> QED
    BY <1>5, <1>6, <1>7, <1>8, <1>9 DEF FlushedUpto, n

LEMMA FlushedAll ==
    ASSUME NEW v \in Writers, NEW allow \in BOOLEAN, NEW f, Flushes(f, v, allow)
    PROVE  /\ FlushedUpto(v, f[Len(v.pre_record)], Len(v.pre_record), allow)
           /\ Alone(v) => ~f[Len(v.pre_record)].fault
<1> DEFINE q == v.pre_record
           Good(i) == FlushedUpto(v, f[i], i, allow) /\ (Alone(v) => ~f[i].fault)
           S == {i \in Nat : i <= Len(q) => Good(i)}
<1>1. Len(q) \in Nat
    BY DEF Writers
<1>2. f[0] = v
    BY <1>1 DEF Flushes
<1>3. 0 \in S
    <2>1. FlushedUpto(v, f[0], 0, allow)
        BY <1>2, FlushedNone
    <2> QED
        BY <1>2, <2>1 DEF Alone
<1>4. ASSUME NEW i \in Nat, i \in S PROVE i + 1 \in S
    <2> SUFFICES ASSUME i + 1 <= Len(q) PROVE Good(i + 1)
        OBVIOUS
    <2>1. FlushedUpto(v, f[i], i, allow) /\ (Alone(v) => ~f[i].fault)
        BY <1>1, <1>4
    <2>2. f[i + 1] = FlushOne(f[i], q[i + 1], allow)
        BY <1>1 DEF Flushes
    <2>3. /\ FlushedUpto(v, f[i + 1], i + 1, allow)
          /\ ~f[i].fault /\ q[i + 1] \in f[i].live => ~f[i + 1].fault
        BY <2>1, <2>2, FlushOneUpto
    <2>4. Alone(v) => q[i + 1] \in f[i].live
        <3>1. f[i].live = v.live \ {q[j] : j \in 1 .. i}
            BY <2>1 DEF FlushedUpto
        <3>2. i + 1 \in 1 .. Len(q) /\ \A j \in 1 .. i : j \in 1 .. Len(q) /\ j # i + 1
            BY <1>1
        <3> QED
            BY <3>1, <3>2 DEF Alone
    <2> QED
        BY <2>1, <2>3, <2>4
<1> HIDE DEF Good
<1>5. Nat \subseteq S
    <2> HIDE DEF S
    <2> QED
        BY <1>3, <1>4, NaturalInduction
<1>6. Len(q) \in S
    BY <1>1, <1>5
<1>7. Good(Len(q))
    BY <1>1, <1>6
<1> QED
    BY <1>7 DEF Good

\* What is there when the queue was stored.
FlushedTo(v, w, allow) ==
    /\ w \in Writers /\ SameThread(v, w) /\ w.prev = v.prev /\ w.pre_record = <<>>
    /\ w.open = v.open /\ w.empty = v.empty
    /\ w.live = v.live \ {v.pre_record[j] : j \in 1 .. Len(v.pre_record)}
    /\ allow => /\ w.written = v.written \o Numbers(v.pre_record)
                /\ w.in_file = v.in_file + Len(v.pre_record) /\ w.unstored = v.unstored
    /\ ~allow => /\ w.written = v.written /\ w.in_file = v.in_file
                 /\ w.unstored = (v.unstored \/ Len(v.pre_record) > 0)
    /\ Alone(v) => ~w.fault

LEMMA FlushedEffect ==
    ASSUME NEW v \in Writers, NEW allow \in BOOLEAN
    PROVE  FlushedTo(v, Flushed(v, allow), allow)
<1> DEFINE q == v.pre_record
           n == Numbers(q)
           e == <<>>
<1>1. PICK f : Flushes(f, v, allow) /\ Flushed(v, allow) = [f[Len(q)] EXCEPT !.pre_record = <<>>]
    BY FlushedIs
<1> DEFINE g == f[Len(q)]
           w == [g EXCEPT !.pre_record = e]
<1>2. FlushedUpto(v, g, Len(q), allow) /\ (Alone(v) => ~g.fault)
    BY <1>1, FlushedAll
<1> HIDE DEF g
<1>3. g \in Writers /\ SameThread(v, g) /\ g.prev = v.prev
    BY <1>2 DEF FlushedUpto, SameQueue
<1>4. e \in Seq(Buffers)
    BY EmptySeq
<1> HIDE DEF e
<1>5. /\ w \in Writers /\ SameThread(g, w) /\ SameFile(g, w) /\ w.prev = g.prev
      /\ w.pre_record = e /\ w.live = g.live /\ w.fault = g.fault
    BY <1>3, <1>4 DEF Writers, SameThread, SameFile
<1> HIDE DEF w
<1>6. q \in Seq(Buffers)
    BY DEF Writers
<1>7. SubSeq(n, 1, Len(q)) = n
    <2>1. n \in Seq(Int) /\ Len(n) = Len(q)
        BY <1>6, NumbersAre
    <2> HIDE DEF n
    <2> QED
        BY <2>1
<1>8. SameThread(v, w)
    BY <1>3, <1>5, SameThreads
<1>9. FlushedTo(v, w, allow)
    BY <1>2, <1>3, <1>5, <1>7, <1>8 DEF FlushedUpto, FlushedTo, SameFile, n, e
<1> QED
    BY <1>1, <1>9 DEF w, g, e

\* The file when the queue was stored.
FileThen(v, file) == IF file = "opened" /\ v.pre_record # <<>> THEN "held" ELSE file

LEMMA FlushedFiled ==
    ASSUME NEW v \in Writers, NEW allow \in BOOLEAN, NEW w, FlushedTo(v, w, allow),
           NEW file \in {"any", "opened", "held"}, Filed(v, file)
    PROVE  Filed(w, FileThen(v, file)) /\ (v.unstored => w.unstored)
<1> DEFINE n == Len(v.pre_record)
<1>1. n \in Nat /\ v.in_file \in Int /\ (v.pre_record # <<>> => n > 0)
    <2>1. v.pre_record \in Seq(Buffers)
        BY DEF Writers
    <2> QED
        BY <2>1 DEF Writers
<1>2. /\ w.open = v.open /\ w.empty = v.empty
      /\ allow => w.in_file = v.in_file + n /\ w.unstored = v.unstored
      /\ ~allow => w.in_file = v.in_file /\ w.unstored = (v.unstored \/ n > 0)
      /\ w.kind = v.kind /\ w.taken = v.taken
    BY DEF FlushedTo, SameThread
<1>3. v.unstored => w.unstored
    BY <1>2
<1> HIDE DEF n
<1>4. /\ w.in_file >= v.in_file
      /\ v.pre_record # <<>> => w.in_file > 0 \/ w.unstored
    <2>0. v.in_file >= 0
        BY DEF Filed
    <2>1. CASE allow
        <3> DEFINE m == v.in_file
        <3>1. w.in_file = m + n /\ m \in Int /\ m >= 0
            BY <1>1, <1>2, <2>0, <2>1
        <3> HIDE DEF m
        <3>2. w.in_file >= m /\ (n > 0 => w.in_file > 0)
            BY <1>1, <3>1
        <3>3. w.in_file >= v.in_file
            BY <3>2 DEF m
        <3>4. v.pre_record # <<>> => w.in_file > 0
            BY <1>1, <3>2
        <3> QED
            BY <3>3, <3>4
    <2>2. CASE ~allow
        <3>1. w.in_file = v.in_file /\ w.unstored = (v.unstored \/ n > 0)
            BY <1>2, <2>2
        <3>2. n > 0 => w.unstored
            BY <3>1, Zenon
        <3>3. w.in_file >= v.in_file
            BY <1>1, <3>1
        <3> QED
            BY <1>1, <3>2, <3>3
    <2> QED
        BY <2>1, <2>2
<1>5. w.in_file \in Int
    BY DEF FlushedTo, Writers
<1>6. v.in_file >= 0 /\ w.in_file >= 0 /\ (v.in_file > 0 => w.in_file > 0)
    BY <1>1, <1>4, <1>5 DEF Filed
<1> DEFINE next == FileThen(v, file)
<1>7. next = file \/ (next = "held" /\ file = "opened" /\ v.pre_record # <<>>)
    BY DEF FileThen
<1> HIDE DEF next
<1>8. Filed(w, next)
    BY <1>2, <1>3, <1>4, <1>6, <1>7 DEF Filed
<1> QED
    BY <1>3, <1>8 DEF next

LEMMA FlushedTaped ==
    ASSUME NEW v \in Writers, NEW allow \in BOOLEAN, NEW w, FlushedTo(v, w, allow),
           v.kind \notin Unqueued, NEW S, Taped(v, Nothing, S)
    PROVE  Taped(w, Nothing, S)
<1> DEFINE q == v.pre_record
           n == Numbers(q)
           e == <<>>
<1>1. q \in Seq(Buffers) /\ v.written \in Seq(Int) /\ w.written \in Seq(Int)
    BY DEF FlushedTo, Writers
<1>2. n \in Seq(Int) /\ Len(n) = Len(q)
    BY <1>1, NumbersAre
<1>3. Numbers(e) = e /\ e \in Seq(Int)
    <2>1. e \in Seq(Buffers) /\ Len(e) = 0
        BY EmptySeq
    <2>2. Numbers(e) \in Seq(Int) /\ Len(Numbers(e)) = 0
        BY <2>1, NumbersAre
    <2> QED
        BY <2>2, EmptySeq
<1>4. Waiting(w) = e /\ Waiting(v) = n
    BY <1>3 DEF Waiting, FlushedTo, SameThread
<1> HIDE DEF n
<1>5. v.written \o e = v.written /\ (w.written \o e) \o e = w.written
    BY <1>1, <1>3, ConcatEmptySeq DEF e
<1>6. SUFFICES ASSUME ~w.unstored PROVE w.written = S
    BY <1>4, <1>5 DEF Taped, Nothing, e
<1>7. CASE allow
    <2>1. ~v.unstored /\ w.written = v.written \o n
        BY <1>6, <1>7 DEF FlushedTo, n
    <2> QED
        BY <1>4, <1>5, <2>1 DEF Taped, Nothing, e
<1>8. CASE ~allow
    <2>1. ~v.unstored /\ w.written = v.written /\ ~(Len(q) > 0)
        BY <1>6, <1>8 DEF FlushedTo
    <2>2. n = e
        <3>1. Len(n) = 0
            BY <1>1, <1>2, <2>1
        <3> QED
            BY <1>2, <3>1, EmptySeq DEF e
    <2> QED
        BY <1>4, <1>5, <2>1, <2>2 DEF Taped, Nothing, e
<1> QED
    BY <1>7, <1>8

LEMMA FlushedOwns ==
    ASSUME NEW v \in Writers, NEW allow \in BOOLEAN, NEW w, FlushedTo(v, w, allow), NEW X,
           Owns(v, X), v.unstored => w.unstored
    PROVE  Owns(w, X)
<1> DEFINE q == v.pre_record
           l == w.live
<1>1. LosesFrames(v) => LosesFrames(w)
    BY LossesStay DEF FlushedTo
<1>2. \A b : b \in l <=> b \in v.live /\ \A i \in 1 .. Len(q) : q[i] # b
    BY DEF FlushedTo
<1>3. Len(w.pre_record) = 0 /\ ~w.fault /\ w.ts = v.ts
    BY DEF FlushedTo, SameThread, Owns, Alone
<1>4. \A i : i \notin 1 .. Len(w.pre_record)
    BY <1>3
<1> HIDE DEF l
<1>5. X \subseteq l
    BY <1>2 DEF Owns
<1> QED
    BY <1>1, <1>2, <1>3, <1>4, <1>5 DEF Owns, l

LEMMA FlushedAccount ==
    ASSUME NEW u, NEW v, NEW X, NEW S, NEW N, NEW file \in {"any", "opened", "held"},
           Account(u, v, X, Nothing, S, N, file), v.kind \notin Unqueued, NEW allow \in BOOLEAN
    PROVE  /\ Account(u, Flushed(v, allow), X, Nothing, S, 0, FileThen(v, file))
           /\ Flushed(v, allow).prev = v.prev /\ Flushed(v, allow).pre_record = <<>>
<1> DEFINE w == Flushed(v, allow)
           next == FileThen(v, file)
<1>1. v \in Writers /\ SameThread(u, v) /\ Filed(v, file)
    BY DEF Account
<1>2. FlushedTo(v, w, allow)
    BY <1>1, FlushedEffect
<1> HIDE DEF w
<1>3. Filed(w, next) /\ (v.unstored => w.unstored)
    BY <1>1, <1>2, FlushedFiled
<1> HIDE DEF next
<1>4. w \in Writers /\ SameThread(v, w) /\ w.prev = v.prev /\ w.pre_record = <<>>
    BY <1>2 DEF FlushedTo
<1>5. SameThread(u, w)
    BY <1>1, <1>4, SameThreads
<1>6. ASSUME Tracked(w) PROVE Owns(w, X) /\ Taped(w, Nothing, S) /\ Len(w.pre_record) = 0
    <2>1. Owns(v, X) /\ Taped(v, Nothing, S)
        BY <1>4, <1>6, TrackedStays DEF Account
    <2>2. Len(w.pre_record) = 0
        BY <1>4
    <2> QED
        BY <1>1, <1>2, <1>3, <2>1, <2>2, FlushedOwns, FlushedTaped
<1>7. Account(u, w, X, Nothing, S, 0, next)
    BY <1>3, <1>4, <1>5, <1>6 DEF Account
<1> QED
    BY <1>4, <1>7 DEF w, next

-----------------------------------------------------------------------------
\* The file is closed for good, the previous frame deleted, and the source
\* has one user less.
LEMMA ClosedAccount ==
    ASSUME NEW u, NEW v, NEW X, NEW hand, NEW S, NEW N, NEW file \in {"any", "opened", "held"},
           Account(u, v, X, hand, S, N, file),
           file = "opened" => v.kind = "plugin" /\ v.taken = <<>>
    PROVE  Account(u, CloseFile(v), X, hand, S, N, "closed")
<1> DEFINE w == CloseFile(v)
<1>1. v \in Writers /\ Filed(v, file)
    BY DEF Account
<1>2. /\ w \in Writers /\ SameThread(v, w) /\ SameMemory(v, w)
      /\ w.written = v.written /\ w.unstored = v.unstored /\ w.in_file = v.in_file
      /\ ~w.open /\ (w.empty => v.empty \/ (v.open /\ v.in_file = 0))
    BY <1>1, CloseFileEffect
<1> HIDE DEF w
<1>3. Filed(w, "closed")
    BY <1>1, <1>2 DEF Filed, SameThread
<1>4. Account(u, w, X, hand, S, N, "closed")
    BY <1>2, <1>3, FileAccount
<1> QED
    BY <1>4 DEF w

LEMMA NoFileAccount ==
    ASSUME NEW u, NEW v, NEW X, NEW hand, NEW S, NEW N,
           Account(u, v, X, hand, S, N, "any"), v.kind \notin FileKinds
    PROVE  Account(u, v, X, hand, S, N, "closed")
<1>1. Filed(v, "any") => Filed(v, "closed")
    BY DEF Filed
<1> QED
    BY <1>1 DEF Account

LEMMA StopSourceEffect ==
    ASSUME NEW v \in Writers
    PROVE  LET w == StopSource(v) IN
           /\ w \in Writers /\ SameFile(v, w) /\ SameMemory(v, w) /\ w.uses = v.uses - 1
           /\ w.kind = v.kind /\ w.filtered = v.filtered /\ w.max_time = v.max_time
           /\ w.ts = v.ts /\ w.handed = v.handed /\ w.taken = v.taken /\ w.at = v.at
<1> DEFINE n == v.uses - 1
           w == [v EXCEPT !.uses = n]
<1>1. n \in Int /\ StopSource(v) = w
    BY DEF Writers, StopSource
<1> HIDE DEF n
<1>2. /\ w \in Writers /\ SameFile(v, w) /\ SameMemory(v, w) /\ w.uses = n
      /\ w.kind = v.kind /\ w.filtered = v.filtered /\ w.max_time = v.max_time
      /\ w.ts = v.ts /\ w.handed = v.handed /\ w.taken = v.taken /\ w.at = v.at
    BY <1>1 DEF Writers, SameFile, SameMemory
<1> HIDE DEF w
<1> QED
    BY <1>1, <1>2 DEF n

LEMMA StoppedAccount ==
    ASSUME NEW u \in Writers, NEW v, NEW X, NEW hand, NEW S, NEW N, NEW file,
           Account(u, v, X, hand, S, N, file)
    PROVE  Account(StopSource(u), StopSource(v), X, hand, S, N, file)
<1> DEFINE t == StopSource(u)
           w == StopSource(v)
<1>1. v \in Writers /\ SameThread(u, v) /\ Filed(v, file)
    BY DEF Account
<1>2. /\ w \in Writers /\ SameFile(v, w) /\ SameMemory(v, w) /\ w.uses = v.uses - 1
      /\ w.kind = v.kind /\ w.filtered = v.filtered /\ w.max_time = v.max_time
      /\ w.ts = v.ts /\ w.handed = v.handed /\ w.taken = v.taken /\ w.at = v.at
    BY <1>1, StopSourceEffect
<1>3. /\ t.uses = u.uses - 1
      /\ t.kind = u.kind /\ t.filtered = u.filtered /\ t.max_time = u.max_time
      /\ t.ts = u.ts /\ t.handed = u.handed /\ t.taken = u.taken /\ t.at = u.at
    BY StopSourceEffect
<1> HIDE DEF t, w
<1>4. SameThread(t, w)
    BY <1>1, <1>2, <1>3 DEF SameThread
<1>5. Filed(w, file)
    BY <1>1, <1>2 DEF Filed, SameFile
<1>6. LosesFrames(v) => LosesFrames(w)
    BY <1>2 DEF LosesFrames, SameFile
<1>7. Owns(v, X) => Owns(w, X)
    BY <1>2, <1>6 DEF Owns, SameMemory
<1>8. Taped(v, hand, S) => Taped(w, hand, S)
    BY <1>2 DEF Taped, Waiting, SameFile, SameMemory
<1>9. Tracked(w) = Tracked(v) /\ w.pre_record = v.pre_record
    BY <1>2 DEF Tracked, SameMemory
<1>10. Account(t, w, X, hand, S, N, file)
    BY <1>2, <1>4, <1>5, <1>7, <1>8, <1>9 DEF Account
<1> QED
    BY <1>10 DEF t, w

\* The previous frame goes.
LetGo(v, p) == SetPrev(Delete(v, p), Null)

LEMMA LetGoEffect ==
    ASSUME NEW v \in Writers, NEW p \in Buffers \cup {Null}
    PROVE  LET w == LetGo(v, p) IN
           /\ w \in Writers /\ SameThread(v, w) /\ SameFile(v, w) /\ w.prev = Null
           /\ w.pre_record = v.pre_record
<1> DEFINE d == Delete(v, p)
<1>1. d \in Writers /\ SameThread(v, d) /\ SameFile(v, d) /\ d.pre_record = v.pre_record
    <2>1. CASE p = Null
        BY <2>1, DeleteNothing DEF SameThread, SameFile
    <2>2. CASE p # Null
        BY <2>2, DeleteEffect DEF SameQueue
    <2> QED
        BY <2>1, <2>2
<1> HIDE DEF d
<1>2. LET w == SetPrev(d, Null) IN
      /\ w \in Writers /\ SameThread(d, w) /\ SameFile(d, w) /\ w.prev = Null
      /\ w.pre_record = d.pre_record
    BY <1>1, SetPrevEffect
<1> QED
    BY <1>1, <1>2 DEF LetGo, d, SameThread, SameFile

LEMMA LetGoAccount ==
    ASSUME NEW u, NEW v, NEW p \in Buffers \cup {Null}, NEW X, NEW hand, NEW S, NEW N, NEW file,
           X = IF p = Null THEN {} ELSE {p}, Account(u, v, X, hand, S, N, file)
    PROVE  Account(u, LetGo(v, p), {}, hand, S, N, file)
<1> DEFINE d == Delete(v, p)
           Y == Without(X, p)
<1>1. Account(u, d, Y, hand, S, N, file)
    BY DeletePrevAccount
<1>2. Y = {}
    BY DEF Without
<1> HIDE DEF d, Y
<1>3. Account(u, d, {}, hand, S, N, file)
    BY <1>1, <1>2
<1>4. Account(u, SetPrev(d, Null), {}, hand, S, N, file)
    BY <1>3, SetPrevAccount
<1> QED
    BY <1>4 DEF LetGo, d

-----------------------------------------------------------------------------
\* The end, for each of the targets.

\* Nothing is left but the queue of those that have none.
Remaining(v) == IF v.kind \in Unqueued THEN Len(v.handed) ELSE 0
Finished(v, y) == Account(StopSource(v), y, {}, Nothing, Recording(v), Remaining(v), "closed")

LEMMA QueueIsEmpty ==
    ASSUME NEW v \in Writers, Len(v.pre_record) = 0
    PROVE  v.pre_record = <<>> /\ Waiting(v) = <<>>
<1>1. v.pre_record \in Seq(Buffers)
    BY DEF Writers
<1>2. v.pre_record = <<>>
    BY <1>1
<1>3. Numbers(v.pre_record) \in Seq(Int) /\ Len(Numbers(v.pre_record)) = 0
    BY <1>1, NumbersAre
<1>4. Numbers(v.pre_record) = <<>>
    <2> DEFINE n == Numbers(v.pre_record)
    <2>1. n \in Seq(Int) /\ Len(n) = 0
        BY <1>3
    <2> HIDE DEF n
    <2>2. n = <<>>
        BY <2>1
    <2> QED
        BY <2>2 DEF n
<1> QED
    BY <1>2, <1>4 DEF Waiting

LEMMA StoredWhole ==
    ASSUME NEW v \in Writers, NEW S, Taped(v, Nothing, S), ~v.unstored, Waiting(v) = <<>>
    PROVE  v.written = S
<1>1. v.written \in Seq(Int)
    BY DEF Writers
<1>2. (v.written \o <<>>) \o <<>> = v.written
    BY <1>1, ConcatEmptySeq
<1> QED
    BY <1>2 DEF Taped, Nothing

LEMMA EndedFrom ==
    ASSUME NEW v, Running(v), v.at \in {"loop", "leave"}, v.kind # "pipewire",
           NEW y, Finished(v, y)
    PROVE  Ended([y EXCEPT !.at = "done"])
<1> DEFINE z == [y EXCEPT !.at = "done"]
<1>1. v \in Writers /\ y \in Writers /\ Filed(y, "closed") /\ SameThread(StopSource(v), y)
    BY DEF Running, Finished, Account
<1>2. y.kind = v.kind /\ y.handed = v.handed /\ y.taken = v.taken /\ y.uses = 0
    <2>1. v.uses = 1 /\ v.uses \in Int
        BY <1>1 DEF Running, Writers
    <2>2. StopSource(v).uses = 0
        BY <1>1, <2>1, StopSourceEffect
    <2> QED
        BY <1>1, <2>2, StopSourceEffect DEF SameThread
<1>3. /\ z \in Writers /\ z.at = "done" /\ z.kind = y.kind /\ z.handed = y.handed
      /\ z.taken = y.taken /\ z.uses = y.uses /\ z.live = y.live /\ z.fault = y.fault
      /\ z.pre_record = y.pre_record /\ z.prev = y.prev /\ z.written = y.written
      /\ z.open = y.open /\ z.empty = y.empty /\ z.unstored = y.unstored
      /\ z.filtered = y.filtered
    BY <1>1 DEF Writers, WriterPlaces
<1> HIDE DEF z
<1>4. LosesFrames(y) => LosesFrames(z)
    BY <1>3 DEF LosesFrames
<1>5. Tracked(z) => Tracked(y)
    BY <1>3 DEF Tracked
<1>6. Tracked(y) => Owns(y, {}) /\ Taped(y, Nothing, Recording(v)) /\ Len(y.pre_record) = Remaining(v)
    BY DEF Finished, Account
<1>7. ~Tracked(y) => LosesFrames(y) /\ y.kind = "plugin" /\ y.handed # <<>>
    BY DEF Tracked, LosesFrames
<1>8. z.fault => ~Tracked(z)
    BY <1>3, <1>5, <1>6 DEF Owns
<1>9. LosesFrames(z) \/ z.live \subseteq Reachable(z)
    <2>1. ASSUME Tracked(y), ~LosesFrames(y) PROVE z.live \subseteq Reachable(z)
        <3>1. \A b \in y.live : \E i \in 1 .. Len(y.pre_record) : y.pre_record[i] = b
            BY <1>6, <2>1 DEF Owns
        <3>2. \A i \in 1 .. Len(y.pre_record) : y.pre_record[i] \in Range(y.pre_record)
            <4>1. y.pre_record \in Seq(Buffers)
                BY <1>1 DEF Writers
            <4>2. DOMAIN y.pre_record = 1 .. Len(y.pre_record)
                BY <4>1
            <4> QED
                BY <4>2 DEF Range
        <3> QED
            BY <1>3, <3>1, <3>2 DEF Reachable
    <2> QED
        BY <1>4, <1>7, <2>1
<1>10. z.live = {} \/ LosesFrames(z) \/ z.kind \in {"newsource", "pixelflood"}
    <2>1. ASSUME Tracked(y), ~LosesFrames(y), z.kind \notin {"newsource", "pixelflood"}
          PROVE  z.live = {}
        <3>1. Remaining(v) = 0
            <4>1. v.kind = "loopback" => Len(v.handed) = 0
                BY DEF Running
            <4> QED
                BY <1>2, <1>3, <2>1, <4>1 DEF Remaining, Unqueued
        <3>2. \A i : i \notin 1 .. Len(y.pre_record)
            BY <1>6, <2>1, <3>1
        <3> QED
            BY <1>3, <1>6, <2>1, <3>2 DEF Owns
    <2> QED
        BY <1>4, <1>7, <2>1
<1>11. ASSUME ~z.unstored, Tracked(y) PROVE z.written = Recording(v)
    <2>1. Waiting(y) = <<>>
        <3>1. CASE v.kind \in Unqueued
            BY <1>2, <3>1 DEF Waiting
        <3>2. CASE v.kind \notin Unqueued
            BY <1>1, <1>6, <1>11, <3>2, QueueIsEmpty DEF Remaining
        <3> QED
            BY <3>1, <3>2
    <2>2. y.written = Recording(v)
        BY <1>1, <1>3, <1>6, <1>11, <2>1, StoredWhole
    <2> QED
        BY <1>3, <2>2
<1>12. v.handed = <<>> => v.handed \o v.taken = v.taken
    <2>1. v.taken \in Seq(Int)
        BY <1>1 DEF Writers
    <2> QED
        BY <2>1, ConcatEmptySeq
<1>13. ~z.unstored =>
         LET all == z.handed \o z.taken IN
         CASE z.kind \in {"jpeg", "extpipe", "gwavi", "avi", "gstreamer"} ->
                  \/ z.written = all
                  \/ z.kind = "extpipe" /\ z.taken = <<>>
           [] z.kind \in {"newsource", "pixelflood", "loopback"} -> z.written = z.taken
           [] z.kind = "pipewire" -> z.written = SubSeq(all, 1, Len(z.taken))
           [] z.kind = "plugin" -> z.handed = <<>> => z.written = z.taken
    <2>1. z.kind \in {"jpeg", "extpipe", "gwavi", "avi", "gstreamer", "newsource",
                      "pixelflood", "loopback", "plugin"}
        BY <1>1, <1>2, <1>3, WriterAssumption DEF Writers
    <2> SUFFICES ASSUME ~z.unstored
                 PROVE  /\ z.kind \in {"jpeg", "extpipe", "gwavi", "avi", "gstreamer"}
                             => z.written = z.handed \o z.taken
                        /\ z.kind \in {"newsource", "pixelflood", "loopback"} => z.written = z.taken
                        /\ z.kind = "plugin" => (z.handed = <<>> => z.written = z.taken)
        <3> DEFINE all == z.handed \o z.taken
                   part == SubSeq(all, 1, Len(z.taken))
        <3> HIDE DEF all, part
        <3> QED
            BY <2>1 DEF all, part
    <2>2. z.kind # "plugin" => Tracked(y)
        BY <1>3 DEF Tracked
    <2>3. z.kind = "plugin" /\ z.handed = <<>> => Tracked(y)
        BY <1>3 DEF Tracked
    <2>4. Recording(v) = IF z.kind \in Unqueued THEN z.taken ELSE z.handed \o z.taken
        BY <1>2, <1>3 DEF Recording
    <2> QED
        BY <1>2, <1>3, <1>11, <1>12, <2>2, <2>3, <2>4 DEF Unqueued
<1>14. ~z.open /\ (z.empty /\ ~z.unstored => z.kind = "plugin" /\ z.taken = <<>>)
    BY <1>1, <1>3 DEF Filed
<1>15. z.uses = IF z.kind = "pipewire" THEN -1 ELSE 0
    BY <1>2, <1>3
<1> QED
    BY <1>3, <1>8, <1>9, <1>10, <1>13, <1>14, <1>15 DEF Ended, z

LEMMA RunningFacts ==
    ASSUME NEW v, Running(v)
    PROVE  /\ v \in Writers /\ v.prev \in Buffers \cup {Null}
           /\ Account(v, v, Previous(v), Nothing, Recording(v), Len(v.handed), FileNow(v))
           /\ FileNow(v) \in {"any", "held"}
           /\ v.kind \notin {"extpipe", "plugin"} => FileNow(v) = "any"
BY DEF Running, Account, FileNow, Writers

LEMMA EmptyAccount ==
    ASSUME NEW u, NEW v, NEW X, NEW hand, NEW S, NEW N, NEW file,
           Account(u, v, X, hand, S, N, file), v.pre_record = <<>>
    PROVE  Account(u, v, X, hand, S, 0, file)
<1>1. Len(v.pre_record) = 0
    OBVIOUS
<1> QED
    BY <1>1 DEF Account

LEMMA JpegFinished ==
    ASSUME NEW v, Running(v), v.kind = "jpeg", NEW allow \in BOOLEAN
    PROVE  Finished(v, JpegEnd(v, allow))
<1> DEFINE a == Flushed(v, allow)
           b == LetGo(a, v.prev)
           P == Previous(v)
           R == Recording(v)
           N == Len(v.handed)
           file == "any"
<1>1. v \in Writers /\ v.prev \in Buffers \cup {Null} /\ Account(v, v, P, Nothing, R, N, file)
      /\ v.kind \notin Unqueued /\ file \in {"any", "opened", "held"} /\ FileThen(v, file) = file
      /\ v.kind \notin FileKinds
    BY RunningFacts DEF Unqueued, FileThen, FileKinds
<1>2. P = IF v.prev = Null THEN {} ELSE {v.prev}
    BY DEF Previous
<1> HIDE DEF P, R, N, file
<1>3. Account(v, a, P, Nothing, R, 0, file)
    BY <1>1, FlushedAccount
<1> HIDE DEF a
<1>4. Account(v, b, {}, Nothing, R, 0, file)
    BY <1>1, <1>2, <1>3, LetGoAccount
<1> HIDE DEF b
<1>5. b.kind = v.kind
    BY <1>4, SameUpToNow
<1>6. Account(v, b, {}, Nothing, R, 0, "closed")
    BY <1>1, <1>4, <1>5, NoFileAccount DEF file
<1>7. Account(StopSource(v), StopSource(b), {}, Nothing, R, 0, "closed")
    BY <1>1, <1>6, StoppedAccount
<1>8. JpegEnd(v, allow) = StopSource(b)
    BY DEF JpegEnd, LetGo, a, b
<1>9. Remaining(v) = 0
    BY <1>1 DEF Remaining
<1> QED
    BY <1>7, <1>8, <1>9 DEF Finished, R

\* gwavi and AVI: the source is stopped, and the queue stored, in a file that is
\* opened if need be.
FileEnd(v, allow) ==
    LET w == StopSource(LetGo(v, v.prev)) IN
    IF v.pre_record = <<>> THEN CloseFile(w)
    ELSE CloseFile(Flushed(OpenFile(w), allow))

LEMMA FileEnds ==
    ASSUME NEW v, NEW allow
    PROVE  GwaviEnd(v, allow) = FileEnd(v, allow) /\ AviEnd(v, allow) = FileEnd(v, allow)
BY DEF GwaviEnd, AviEnd, FileEnd, LetGo

LEMMA FileFinished ==
    ASSUME NEW v, Running(v), v.kind \in {"gwavi", "avi"}, NEW allow \in BOOLEAN
    PROVE  Finished(v, FileEnd(v, allow))
<1> DEFINE a == LetGo(v, v.prev)
           w == StopSource(a)
           o == OpenFile(w)
           f == Flushed(o, allow)
           u == StopSource(v)
           R == Recording(v)
           N == Len(v.handed)
           file == "any"
           opened == "opened"
           held == "held"
<1>1. v \in Writers /\ v.prev \in Buffers \cup {Null}
      /\ Account(v, v, Previous(v), Nothing, R, N, file)
      /\ v.kind \notin Unqueued /\ v.kind \in FileKinds /\ file \in {"any", "opened", "held"}
      /\ file # "closed" /\ file # "opened"
    BY RunningFacts DEF Unqueued, FileKinds
<1>2. Previous(v) = IF v.prev = Null THEN {} ELSE {v.prev}
    BY DEF Previous
<1>3. Remaining(v) = 0
    BY <1>1 DEF Remaining
<1> HIDE DEF R, N, file
<1>4. Account(v, a, {}, Nothing, R, N, file)
    BY <1>1, <1>2, LetGoAccount
<1>5. a \in Writers /\ a.pre_record = v.pre_record
    BY <1>1, LetGoEffect
<1> HIDE DEF a
<1>6. Account(u, w, {}, Nothing, R, N, file)
    BY <1>1, <1>4, StoppedAccount
<1>7. w \in Writers /\ w.pre_record = v.pre_record
    BY <1>5, StopSourceEffect DEF SameMemory
<1>8. u.kind = v.kind
    BY <1>1, StopSourceEffect
<1> HIDE DEF w, u
<1>9. w.kind = v.kind
    BY <1>6, <1>8, SameUpToNow
<1>10. CASE v.pre_record = <<>>
    <2>1. Account(u, w, {}, Nothing, R, 0, file)
        BY <1>6, <1>7, <1>10, EmptyAccount
    <2>2. Account(u, CloseFile(w), {}, Nothing, R, 0, "closed")
        BY <1>1, <2>1, ClosedAccount
    <2>3. FileEnd(v, allow) = CloseFile(w)
        BY <1>10 DEF FileEnd, w, a
    <2> QED
        BY <1>3, <2>2, <2>3 DEF Finished, R, u
<1>11. CASE v.pre_record # <<>>
    <2>1. Account(u, o, {}, Nothing, R, N, opened)
        BY <1>1, <1>6, <1>9, OpenFileAccount
    <2>2. o.pre_record = v.pre_record
        BY <1>7, OpenFileEffect DEF SameMemory
    <2> HIDE DEF o
    <2>3. o.kind = v.kind
        BY <1>8, <2>1, SameUpToNow
    <2>4. FileThen(o, opened) = held /\ opened \in {"any", "opened", "held"}
          /\ held \in {"any", "opened", "held"} /\ held # "opened"
        BY <1>11, <2>2 DEF FileThen
    <2> HIDE DEF opened, held
    <2>5. Account(u, f, {}, Nothing, R, 0, held)
        BY <1>1, <2>1, <2>3, <2>4, FlushedAccount
    <2> HIDE DEF f
    <2>6. Account(u, CloseFile(f), {}, Nothing, R, 0, "closed")
        BY <2>4, <2>5, ClosedAccount
    <2>7. FileEnd(v, allow) = CloseFile(f)
        BY <1>11 DEF FileEnd, w, a, o, f
    <2> QED
        BY <1>3, <2>6, <2>7 DEF Finished, R, u
<1> QED
    BY <1>10, <1>11

LEMMA GstreamerFinished ==
    ASSUME NEW v, Running(v), v.kind = "gstreamer", NEW allow \in BOOLEAN
    PROVE  Finished(v, GstreamerEnd(v, allow))
<1> DEFINE w == StopSource(v)
           f == Flushed(w, allow)
           R == Recording(v)
           N == Len(v.handed)
           file == "any"
<1>1. v \in Writers /\ Account(v, v, Previous(v), Nothing, R, N, file)
      /\ v.kind \notin Unqueued /\ v.kind \notin FileKinds /\ file \in {"any", "opened", "held"}
      /\ file # "opened"
    BY RunningFacts DEF Unqueued, FileKinds
<1>2. Previous(v) = {}
    BY DEF Running, Previous
<1>3. Remaining(v) = 0
    BY <1>1 DEF Remaining
<1>4. w.kind = v.kind
    BY <1>1, StopSourceEffect
<1> HIDE DEF R, N, file
<1>5. Account(w, w, {}, Nothing, R, N, file)
    BY <1>1, <1>2, StoppedAccount
<1>6. FileThen(w, file) = file
    BY <1>1 DEF FileThen
<1> HIDE DEF w
<1>7. Account(w, f, {}, Nothing, R, 0, file)
    BY <1>1, <1>4, <1>5, <1>6, FlushedAccount
<1> HIDE DEF f
<1>8. f.kind = v.kind
    BY <1>4, <1>7, SameUpToNow
<1>9. Account(w, f, {}, Nothing, R, 0, "closed")
    BY <1>1, <1>7, <1>8, NoFileAccount DEF file
<1> QED
    BY <1>3, <1>9 DEF Finished, GstreamerEnd, R, f, w

LEMMA UnqueuedFinished ==
    ASSUME NEW v, Running(v), v.kind \in Unqueued
    PROVE  Finished(v, StopSource(LetGo(v, v.prev)))
<1> DEFINE a == LetGo(v, v.prev)
           R == Recording(v)
           N == Len(v.handed)
           file == "any"
<1>1. v \in Writers /\ v.prev \in Buffers \cup {Null}
      /\ Account(v, v, Previous(v), Nothing, R, N, file) /\ v.kind \notin FileKinds
    BY RunningFacts DEF Unqueued, FileKinds
<1>2. Previous(v) = IF v.prev = Null THEN {} ELSE {v.prev}
    BY DEF Previous
<1>3. Remaining(v) = N
    BY DEF Remaining
<1> HIDE DEF R, N, file
<1>4. Account(v, a, {}, Nothing, R, N, file)
    BY <1>1, <1>2, LetGoAccount
<1> HIDE DEF a
<1>5. a.kind = v.kind
    BY <1>4, SameUpToNow
<1>6. Account(v, a, {}, Nothing, R, N, "closed")
    BY <1>1, <1>4, <1>5, NoFileAccount DEF file
<1>7. Account(StopSource(v), StopSource(a), {}, Nothing, R, N, "closed")
    BY <1>1, <1>6, StoppedAccount
<1> QED
    BY <1>3, <1>7 DEF Finished, R, a

LEMMA PluginFinished ==
    ASSUME NEW v, Running(v), v.kind = "plugin", NEW allow \in BOOLEAN
    PROVE  Finished(v, PluginEnd(v, allow))
<1> DEFINE w == OpenFile(v)
           x == IF allow /\ v.pre_record # <<>> THEN Use(w, v.prev) ELSE w
           f == Flushed(x, allow)
           c == CloseFile(f)
           g == LetGo(c, v.prev)
           P == Previous(v)
           R == Recording(v)
           N == Len(v.handed)
           file == IF v.taken = <<>> THEN "opened" ELSE "held"
           next == FileThen(x, file)
<1>1. v \in Writers /\ v.prev \in Buffers \cup {Null}
      /\ Account(v, v, P, Nothing, R, N, FileNow(v))
      /\ v.kind \notin Unqueued /\ v.kind \in FileKinds
    BY RunningFacts DEF Unqueued, FileKinds
<1>2. P = IF v.prev = Null THEN {} ELSE {v.prev}
    BY DEF Previous
<1>3. Remaining(v) = 0
    BY <1>1 DEF Remaining
<1>4. Tracked(v) => v.pre_record = <<>>
    <2>1. Tracked(v) => v.handed = <<>>
        BY DEF Tracked
    <2>2. Tracked(v) => Len(v.pre_record) = Len(v.handed)
        BY <1>1 DEF Account
    <2>3. Tracked(v) => Len(v.pre_record) = 0
        BY <2>1, <2>2
    <2> QED
        BY <1>1, <2>3, QueueIsEmpty
<1> HIDE DEF P, R, N
<1>5. Account(v, w, P, Nothing, R, N, file)
    <2>1. CASE v.taken = <<>>
        <3>1. Account(v, w, P, Nothing, R, N, "opened")
            <4>1. FileNow(v) # "closed"
                BY DEF FileNow
            <4> QED
                BY <1>1, <4>1, OpenFileAccount
        <3> QED
            BY <2>1, <3>1
    <2>2. CASE v.taken # <<>>
        <3>1. FileNow(v) = "held"
            BY <2>2 DEF FileNow
        <3>2. v.open
            BY <1>1, <3>1 DEF Account, Filed
        <3> QED
            BY <1>1, <2>2, <3>1, <3>2 DEF OpenFile
    <2> QED
        BY <2>1, <2>2
<1>6. file \in {"any", "opened", "held"} /\ (file = "opened" => v.taken = <<>>)
    OBVIOUS
<1> HIDE DEF w, file
<1>7. Tracked(w) = Tracked(v)
    BY <1>5, SameUpToNow
<1>8. Account(v, x, P, Nothing, R, N, file)
    <2>1. CASE allow /\ v.pre_record # <<>>
        <3>1. Tracked(w) => v.prev \in P
            BY <1>4, <1>7, <2>1
        <3> QED
            BY <1>5, <2>1, <3>1, UseAccount
    <2>2. CASE ~(allow /\ v.pre_record # <<>>)
        BY <1>5, <2>2
    <2> QED
        BY <2>1, <2>2
<1> HIDE DEF x
<1>9. x.kind = v.kind
    BY <1>8, SameUpToNow
<1>10. next \in {"any", "opened", "held"} /\ (next = "opened" => v.taken = <<>>)
    BY <1>6 DEF FileThen
<1>11. Account(v, f, P, Nothing, R, 0, next)
    BY <1>1, <1>6, <1>8, <1>9, FlushedAccount
<1> HIDE DEF f, next
<1>12. f.kind = v.kind /\ f.taken = v.taken
    BY <1>11, SameUpToNow
<1>13. Account(v, c, P, Nothing, R, 0, "closed")
    BY <1>10, <1>11, <1>12, ClosedAccount
<1> HIDE DEF c
<1>14. Account(v, g, {}, Nothing, R, 0, "closed")
    BY <1>1, <1>2, <1>13, LetGoAccount
<1> HIDE DEF g
<1>15. Account(StopSource(v), StopSource(g), {}, Nothing, R, 0, "closed")
    BY <1>1, <1>14, StoppedAccount
<1>16. PluginEnd(v, allow) = StopSource(g)
    BY DEF PluginEnd, LetGo, g, c, f, x, w
<1> QED
    BY <1>3, <1>15, <1>16 DEF Finished, R

\* A recording may be known to be incomplete.
LEMMA UnstoredFinished ==
    ASSUME NEW v, NEW s, Finished(v, s), NEW e \in BOOLEAN, s.unstored => e
    PROVE  Finished(v, [s EXCEPT !.unstored = e])
<1> DEFINE y == [s EXCEPT !.unstored = e]
           u == StopSource(v)
           R == Recording(v)
           N == Remaining(v)
<1>1. s \in Writers /\ SameThread(u, s) /\ Filed(s, "closed")
      /\ (Tracked(s) => Owns(s, {}) /\ Taped(s, Nothing, R) /\ Len(s.pre_record) = N)
    BY DEF Finished, Account
<1> HIDE DEF u, R, N
<1>2. /\ y \in Writers /\ SameThread(s, y) /\ SameMemory(s, y) /\ y.written = s.written
      /\ y.open = s.open /\ y.in_file = s.in_file /\ y.empty = s.empty /\ y.unstored = e
    BY <1>1 DEF Writers, SameThread, SameMemory
<1> HIDE DEF y
<1>3. s.unstored => y.unstored
    BY <1>2
<1>4. SameThread(u, y)
    BY <1>1, <1>2, SameThreads
<1>5. Filed(y, "closed")
    BY <1>1, <1>2, <1>3 DEF Filed, SameThread
<1>6. Owns(s, {}) => Owns(y, {})
    BY <1>2, <1>3, OwnsStays DEF SameMemory
<1>7. Taped(s, Nothing, R) => Taped(y, Nothing, R)
    BY <1>2, <1>3 DEF Taped, Waiting, SameThread, SameMemory
<1>8. Tracked(s) = Tracked(y) /\ y.pre_record = s.pre_record
    BY <1>2, TrackedStays DEF SameMemory
<1>9. Account(u, y, {}, Nothing, R, N, "closed")
    BY <1>1, <1>2, <1>4, <1>5, <1>6, <1>7, <1>8 DEF Account
<1> QED
    BY <1>9 DEF Finished, u, R, N, y

LEMMA ExtpipeEnds ==
    ASSUME NEW v, Running(v), v.kind = "extpipe", NEW allow \in BOOLEAN,
           v.at \in {"loop", "leave"}
    PROVE  Ended([ExtpipeEnd(v, allow) EXCEPT !.at = "done"])
<1> DEFINE w == LetGo(v, v.prev)
           stores == allow /\ v.open
           f == Flushed(w, stores)
           c == CloseFile(f)
           s == StopSource(c)
           e == v.unstored \/ ~allow
           y == [s EXCEPT !.unstored = e]
           R == Recording(v)
           N == Len(v.handed)
           file == FileNow(v)
<1>1. v \in Writers /\ v.prev \in Buffers \cup {Null}
      /\ Account(v, v, Previous(v), Nothing, R, N, file)
      /\ v.kind \notin Unqueued /\ file \in {"any", "opened", "held"} /\ file # "opened"
    BY RunningFacts DEF Unqueued
<1>2. Previous(v) = IF v.prev = Null THEN {} ELSE {v.prev}
    BY DEF Previous
<1>3. Remaining(v) = 0 /\ Filed(v, file)
    BY <1>1 DEF Remaining, Account
<1>4. stores \in BOOLEAN /\ e \in BOOLEAN
    OBVIOUS
<1>5. ExtpipeEnd(v, allow) = y
    BY DEF ExtpipeEnd, LetGo
<1>6. v.taken # <<>> => v.open
    BY <1>3 DEF FileNow, Filed
<1> HIDE DEF file, R, N, stores
<1>7. Account(v, w, {}, Nothing, R, N, file)
    BY <1>1, <1>2, LetGoAccount
<1>8. w \in Writers /\ SameFile(v, w)
    BY <1>1, LetGoEffect
<1> HIDE DEF w
<1>9. w.kind = v.kind /\ FileThen(w, file) = file
    BY <1>1, <1>7, SameUpToNow DEF FileThen
<1>10. FlushedTo(w, f, stores)
    BY <1>4, <1>8, FlushedEffect
<1>11. Account(v, f, {}, Nothing, R, 0, file)
    BY <1>1, <1>4, <1>7, <1>9, FlushedAccount
<1>12. f \in Writers /\ f.open = v.open /\ f.empty = v.empty /\ (stores => f.unstored = v.unstored)
    BY <1>8, <1>10 DEF FlushedTo, SameFile
<1>13. ~v.open => c = f
    BY <1>12 DEF CloseFile
<1>14. c \in Writers /\ c.unstored = f.unstored
    BY <1>12, CloseFileEffect
<1> HIDE DEF f
<1>15. Account(v, c, {}, Nothing, R, 0, "closed")
    BY <1>1, <1>11, ClosedAccount
<1> HIDE DEF c
<1>16. s.unstored = c.unstored /\ s.empty = c.empty
    BY <1>14, StopSourceEffect DEF SameFile
<1>17. Finished(v, s)
    BY <1>1, <1>3, <1>15, StoppedAccount DEF Finished, R
<1> HIDE DEF s
<1>18. CASE v.open
    <2>1. s.unstored => e
        BY <1>12, <1>14, <1>16, <1>18 DEF stores
    <2> HIDE DEF e
    <2>2. Finished(v, y)
        BY <1>4, <1>17, <2>1, UnstoredFinished
    <2> QED
        BY <1>5, <2>2, EndedFrom
<1>19. CASE ~v.open
    <2> DEFINE z == [y EXCEPT !.at = "done"]
    <2>1. s \in Writers /\ SameThread(StopSource(v), s) /\ Filed(s, "closed")
          /\ (Tracked(s) => Owns(s, {}))
        BY <1>17 DEF Finished, Account
    <2>2. s.kind = v.kind /\ s.taken = v.taken /\ s.uses = 0
        <3>1. v.uses = 1 /\ v.uses \in Int
            BY <1>1 DEF Running, Writers
        <3>2. StopSource(v).uses = 0
            BY <1>1, <3>1, StopSourceEffect
        <3> QED
            BY <1>1, <2>1, <3>2, StopSourceEffect DEF SameThread
    <2>3. ~s.fault
        BY <2>1, <2>2 DEF Tracked, Owns
    <2>4. s.empty => e
        <3>1. s.empty = v.empty
            BY <1>12, <1>13, <1>16, <1>19
        <3>2. v.empty => v.unstored
            BY <1>1, <1>3 DEF Filed
        <3> QED
            BY <3>1, <3>2
    <2> HIDE DEF e
    <2>5. /\ z \in Writers /\ z.at = "done" /\ z.kind = v.kind /\ z.taken = v.taken /\ z.uses = 0
          /\ z.fault = s.fault /\ z.open = s.open /\ z.empty = s.empty /\ z.unstored = e
        BY <1>4, <2>1, <2>2 DEF Writers, WriterPlaces
    <2> HIDE DEF z
    <2>6. LosesFrames(z)
        BY <2>5 DEF LosesFrames
    <2>7. v.taken = <<>>
        BY <1>6, <1>19
    <2>8. ~z.open /\ (z.empty => z.unstored) /\ ~z.fault
        BY <2>1, <2>3, <2>4, <2>5 DEF Filed
    <2>9. Ended(z)
        BY <2>5, <2>6, <2>7, <2>8 DEF Ended
    <2> QED
        BY <1>5, <2>9 DEF z
<1> QED
    BY <1>18, <1>19

LEMMA ConcatLength ==
    ASSUME NEW a \in Seq(Int), NEW b \in Seq(Int)
    PROVE  Len(a \o b) = Len(a) + Len(b) /\ SubSeq(a \o b, 1, Len(a)) = a
OBVIOUS

LEMMA FirstOf ==
    ASSUME NEW a \in Seq(Int), NEW b \in Seq(Int), NEW h \in Seq(Int), NEW t \in Seq(Int),
           a \o b = h \o t, Len(b) = Len(h)
    PROVE  a = SubSeq(a \o b, 1, Len(t))
<1>1. Len(a \o b) = Len(a) + Len(b) /\ Len(h \o t) = Len(h) + Len(t)
    BY ConcatLength
<1>2. Len(a) \in Nat /\ Len(b) \in Nat /\ Len(h) \in Nat /\ Len(t) \in Nat
    OBVIOUS
<1>3. Len(a) = Len(t)
    BY <1>1, <1>2
<1>4. SubSeq(a \o b, 1, Len(a)) = a
    BY ConcatLength
<1> QED
    BY <1>3, <1>4

LEMMA PipewireEnds ==
    ASSUME NEW v, Running(v), v.kind = "pipewire", v.at \in {"loop", "leave"}
    PROVE  Ended([PipewireEnd(v) EXCEPT !.at = "done"])
<1> DEFINE l == v.live \ Range(v.pre_record)
           q == <<>>
           w == [v EXCEPT !.live = l, !.pre_record = q]
           g == LetGo(w, v.prev)
           h == StopSource(g)
           s == StopSource(h)
           z == [s EXCEPT !.at = "done"]
           file == FileNow(v)
           n == Numbers(v.pre_record)
<1>1. v \in Writers /\ v.prev \in Buffers \cup {Null} /\ Filed(v, file) /\ file = "any"
      /\ Owns(v, Previous(v)) /\ Taped(v, Nothing, Recording(v))
      /\ Len(v.pre_record) = Len(v.handed)
    BY RunningFacts DEF Account, Tracked
<1>2. PipewireEnd(v) = s
    BY DEF PipewireEnd, LetGo
<1>3. l \in SUBSET Buffers /\ q \in Seq(Buffers)
    BY <1>1, EmptySeq DEF Writers
<1>4. v.prev = Null \/ v.prev \in l
    <2>1. SUFFICES ASSUME v.prev # Null PROVE v.prev \in l
        OBVIOUS
    <2>2. v.prev \in Previous(v)
        BY <2>1 DEF Previous
    <2>3. v.prev \in v.live /\ \A i \in 1 .. Len(v.pre_record) : v.pre_record[i] # v.prev
        BY <1>1, <2>2 DEF Owns
    <2>4. DOMAIN v.pre_record = 1 .. Len(v.pre_record)
        <3>1. v.pre_record \in Seq(Buffers)
            BY <1>1 DEF Writers
        <3> QED
            BY <3>1
    <2>5. v.prev \notin Range(v.pre_record)
        BY <2>3, <2>4 DEF Range
    <2> QED
        BY <2>3, <2>5
<1> HIDE DEF l, q, file
<1>5. /\ w \in Writers /\ SameThread(v, w) /\ SameFile(v, w) /\ w.fault = v.fault /\ w.live = l
    BY <1>1, <1>3 DEF Writers, SameThread, SameFile
<1> HIDE DEF w
<1>6. g \in Writers /\ SameThread(w, g) /\ SameFile(w, g)
    BY <1>1, <1>5, LetGoEffect
<1>7. ~g.fault
    <2> DEFINE d == Delete(w, v.prev)
    <2>1. d \in Writers /\ ~d.fault
        <3>1. CASE v.prev = Null
            BY <1>1, <1>5, <3>1, DeleteNothing DEF Owns
        <3>2. CASE v.prev # Null
            <4>1. v.prev \in Buffers /\ v.prev \in w.live /\ ~w.fault
                BY <1>1, <1>4, <1>5, <3>2 DEF Owns
            <4>2. d \in Writers /\ d.fault = (w.fault \/ v.prev \notin w.live)
                BY <1>5, <4>1, DeleteEffect
            <4> QED
                BY <4>1, <4>2
        <3> QED
            BY <3>1, <3>2
    <2> HIDE DEF d
    <2>2. SetPrev(d, Null).fault = d.fault
        BY <2>1, SetPrevEffect
    <2> QED
        BY <2>1, <2>2 DEF LetGo, d
<1> HIDE DEF g
<1>8. /\ h \in Writers /\ SameFile(g, h) /\ SameMemory(g, h) /\ h.uses = g.uses - 1
      /\ h.kind = g.kind /\ h.handed = g.handed /\ h.taken = g.taken
    BY <1>6, StopSourceEffect
<1> HIDE DEF h
<1>9. /\ s \in Writers /\ SameFile(h, s) /\ SameMemory(h, s) /\ s.uses = h.uses - 1
      /\ s.kind = h.kind /\ s.handed = h.handed /\ s.taken = h.taken
    BY <1>8, StopSourceEffect
<1> HIDE DEF s
<1>10. SameFile(v, s) /\ ~s.fault /\ s.kind = "pipewire" /\ s.handed = v.handed /\ s.taken = v.taken
    BY <1>5, <1>6, <1>7, <1>8, <1>9 DEF SameFile, SameMemory, SameThread
<1>11. s.uses = -1
    <2>1. v.uses = 1
        BY DEF Running
    <2>2. g.uses = 1
        BY <1>5, <1>6, <2>1 DEF SameThread
    <2> QED
        BY <1>8, <1>9, <2>2
<1>12. /\ z \in Writers /\ z.at = "done" /\ z.kind = s.kind /\ z.handed = s.handed
       /\ z.taken = s.taken /\ z.uses = s.uses /\ z.fault = s.fault /\ z.written = s.written
       /\ z.open = s.open /\ z.empty = s.empty /\ z.unstored = s.unstored
    BY <1>9 DEF Writers, WriterPlaces
<1> HIDE DEF z
<1>13. LosesFrames(z)
    BY <1>10, <1>12 DEF LosesFrames
<1>14. ~z.open /\ (z.empty => z.unstored)
    <2>1. ~v.open /\ (v.empty => v.unstored)
        BY <1>1 DEF Filed, FileKinds
    <2> QED
        BY <1>10, <1>12, <2>1 DEF SameFile
<1>15. ASSUME ~v.unstored PROVE v.written = SubSeq(v.handed \o v.taken, 1, Len(v.taken))
    <2> DEFINE e == <<>>
    <2>1. v.written \in Seq(Int) /\ v.handed \in Seq(Int) /\ v.taken \in Seq(Int)
          /\ v.pre_record \in Seq(Buffers)
        BY <1>1 DEF Writers
    <2>2. n \in Seq(Int) /\ Len(n) = Len(v.handed)
        BY <1>1, <2>1, NumbersAre
    <2>3. (v.written \o e) \o n = v.handed \o v.taken
        BY <1>1, <1>15 DEF Taped, Nothing, Waiting, Recording, Unqueued
    <2>4. v.written \o e = v.written
        BY <2>1, ConcatEmptySeq
    <2> HIDE DEF n, e
    <2> DEFINE a == v.written
               c == v.handed
               t == v.taken
    <2>5. a \o n = c \o t
        BY <2>3, <2>4, Zenon
    <2>6. Len(n) = Len(c)
        BY <2>2
    <2>7. n \in Seq(Int) /\ a \in Seq(Int) /\ c \in Seq(Int) /\ t \in Seq(Int)
        BY <2>1, <2>2
    <2> HIDE DEF a, c, t
    <2>8. a = SubSeq(a \o n, 1, Len(t))
        BY <2>5, <2>6, <2>7, FirstOf
    <2>9. a = SubSeq(c \o t, 1, Len(t))
        BY <2>5, <2>8, Zenon
    <2> QED
        BY <2>9 DEF a, c, t
<1>16. ~z.unstored => z.written = SubSeq(z.handed \o z.taken, 1, Len(z.taken))
    BY <1>10, <1>12, <1>15 DEF SameFile
<1>17. z.kind = "pipewire" /\ ~z.fault /\ z.uses = -1
    BY <1>10, <1>11, <1>12
<1> DEFINE all == z.handed \o z.taken
           part == SubSeq(all, 1, Len(z.taken))
<1>18. ~z.unstored => z.written = part
    BY <1>16
<1> HIDE DEF part
<1>19. Ended(z)
    BY <1>12, <1>13, <1>14, <1>17, <1>18 DEF Ended, part
<1> QED
    BY <1>2, <1>19 DEF z

LEMMA Ends ==
    ASSUME NEW v, Running(v), v.at \in {"loop", "leave"}, NEW allow \in BOOLEAN
    PROVE  Ended([EndOf(v, allow) EXCEPT !.at = "done"])
<1> DEFINE y == EndOf(v, allow)
<1>1. v.kind \in {"jpeg", "extpipe", "plugin", "gwavi", "avi", "gstreamer", "newsource",
                  "pixelflood", "pipewire", "loopback"}
    BY RunningFacts, WriterAssumption DEF Writers
<1>2. CASE v.kind = "pipewire"
    <2>1. y = PipewireEnd(v)
        BY <1>2 DEF EndOf
    <2> HIDE DEF y
    <2> QED
        BY <1>2, <2>1, PipewireEnds DEF y
<1>3. CASE v.kind = "extpipe"
    <2>1. y = ExtpipeEnd(v, allow)
        BY <1>3 DEF EndOf
    <2> HIDE DEF y
    <2> QED
        BY <1>3, <2>1, ExtpipeEnds DEF y
<1>4. SUFFICES ASSUME v.kind \notin {"pipewire", "extpipe"} PROVE Finished(v, y)
    <2> HIDE DEF y
    <2>1. ASSUME v.kind \notin {"pipewire", "extpipe"}, Finished(v, y)
          PROVE  Ended([y EXCEPT !.at = "done"])
        BY <2>1, EndedFrom
    <2> QED
        BY <1>2, <1>3, <2>1 DEF y
<1>5. CASE v.kind = "jpeg"
    <2>1. y = JpegEnd(v, allow)
        BY <1>5 DEF EndOf
    <2> QED
        BY <1>5, <2>1, JpegFinished
<1>6. CASE v.kind = "plugin"
    <2>1. y = PluginEnd(v, allow)
        BY <1>6 DEF EndOf
    <2> QED
        BY <1>6, <2>1, PluginFinished
<1>7. CASE v.kind \in {"gwavi", "avi"}
    <2>1. y = FileEnd(v, allow)
        <3>1. y = GwaviEnd(v, allow) \/ y = AviEnd(v, allow)
            BY <1>7 DEF EndOf
        <3> QED
            BY <3>1, FileEnds
    <2> QED
        BY <1>7, <2>1, FileFinished
<1>8. CASE v.kind = "gstreamer"
    <2>1. y = GstreamerEnd(v, allow)
        BY <1>8 DEF EndOf
    <2> QED
        BY <1>8, <2>1, GstreamerFinished
<1>9. CASE v.kind \in Unqueued
    <2>1. y = StopSource(LetGo(v, v.prev))
        BY <1>9 DEF EndOf, Unqueued, NewSourceEnd, PixelfloodEnd, LoopbackEnd, LetGo
    <2> QED
        BY <1>9, <2>1, UnqueuedFinished
<1> QED
    BY <1>1, <1>4, <1>5, <1>6, <1>7, <1>8, <1>9 DEF Unqueued

-----------------------------------------------------------------------------
\* A frame is taken.
TakenAt(v, n) == [v EXCEPT !.ts = n, !.taken = Append(@, n), !.at = "loop"]

LEMMA TakenEffect ==
    ASSUME NEW v \in Writers, NEW n \in Int
    PROVE  LET w == TakenAt(v, n) IN
           /\ w \in Writers /\ SameFile(v, w) /\ SameMemory(v, w) /\ w.ts = n /\ w.at = "loop"
           /\ w.taken = Append(v.taken, n) /\ w.uses = v.uses
           /\ w.kind = v.kind /\ w.filtered = v.filtered /\ w.max_time = v.max_time
           /\ w.handed = v.handed
<1> DEFINE t == Append(v.taken, n)
           w == [v EXCEPT !.ts = n, !.taken = t, !.at = "loop"]
<1>1. t \in Seq(Int) /\ TakenAt(v, n) = w
    BY DEF Writers, TakenAt
<1> HIDE DEF t
<1>2. /\ w \in Writers /\ SameFile(v, w) /\ SameMemory(v, w) /\ w.ts = n /\ w.at = "loop"
      /\ w.taken = t /\ w.uses = v.uses
      /\ w.kind = v.kind /\ w.filtered = v.filtered /\ w.max_time = v.max_time
      /\ w.handed = v.handed
    BY <1>1 DEF Writers, WriterPlaces, SameFile, SameMemory
<1> HIDE DEF w
<1> QED
    BY <1>1, <1>2 DEF t

LEMMA TakenAccount ==
    ASSUME NEW v, Running(v), v.at = "get", NEW n \in Int, n > v.ts, NEW w, w = TakenAt(v, n)
    PROVE  /\ Account(w, w, Previous(v), Nothing, Recording(v), Len(v.handed), "any")
           /\ Recording(w) = Append(Recording(v), n)
<1> DEFINE P == Previous(v)
           R == Recording(v)
           N == Len(v.handed)
           file == FileNow(v)
<1>1. v \in Writers /\ Filed(v, file) /\ file \in {"any", "held"} /\ v.ts \in Int
      /\ (Tracked(v) => Owns(v, P) /\ Taped(v, Nothing, R) /\ Len(v.pre_record) = N)
    BY RunningFacts DEF Account, Writers
<1>2. /\ w \in Writers /\ SameFile(v, w) /\ SameMemory(v, w) /\ w.ts = n /\ w.at = "loop"
      /\ w.taken = Append(v.taken, n) /\ w.kind = v.kind /\ w.filtered = v.filtered
      /\ w.handed = v.handed
    BY <1>1, TakenEffect
<1>3. Recording(w) = Append(R, n)
    <2> DEFINE h == v.handed
               t == v.taken
    <2>1. h \in Seq(Int) /\ t \in Seq(Int)
        BY <1>1 DEF Writers
    <2> HIDE DEF h, t
    <2>2. h \o Append(t, n) = Append(h \o t, n)
        BY <2>1, TapePush
    <2>3. w.taken = Append(t, n) /\ w.handed = h
        BY <1>2 DEF h, t
    <2>4. R = IF w.kind \in Unqueued THEN t ELSE h \o t
        BY <1>2 DEF Recording, h, t
    <2> QED
        BY <2>2, <2>3, <2>4 DEF Recording
<1> HIDE DEF P, R, N, file
<1>4. Filed(w, "any")
    BY <1>1, <1>2 DEF Filed, SameFile
<1>5. LosesFrames(v) => LosesFrames(w)
    BY <1>2 DEF LosesFrames, SameFile
<1>6. Owns(v, P) => Owns(w, P)
    <2>1. \A b \in v.live : b[1] \in Int
        BY <1>1 DEF Writers, Buffers
    <2>2. \A b \in v.live : b[1] <= v.ts => b[1] <= n
        BY <1>1, <2>1
    <2> QED
        BY <1>2, <1>5, <2>2 DEF Owns, SameMemory
<1>7. Taped(v, Nothing, R) => Taped(w, Nothing, R)
    BY <1>2 DEF Taped, Waiting, SameFile, SameMemory
<1>8. Tracked(w) = Tracked(v) /\ w.pre_record = v.pre_record
    BY <1>2 DEF Tracked, SameMemory
<1>9. SameThread(w, w)
    BY DEF SameThread
<1>10. Account(w, w, P, Nothing, R, N, "any")
    BY <1>1, <1>2, <1>4, <1>6, <1>7, <1>8, <1>9 DEF Account
<1> QED
    BY <1>3, <1>10 DEF P, R, N

LEMMA TakenStarted ==
    ASSUME NEW v, Running(v), v.at = "get", NEW n \in Int, n > v.ts, NEW x,
           x = New(TakenAt(v, n), Buffer(n, "camera"))
    PROVE  /\ Started(x, Recording(v)) /\ x \in Writers
           /\ x.at = "loop" /\ x.uses = 1 /\ x.kind = v.kind /\ x.handed = v.handed
           /\ x.prev = v.prev /\ x.pre_record = v.pre_record /\ x.taken # <<>>
<1> DEFINE w == TakenAt(v, n)
           b == Buffer(n, "camera")
           P == Previous(v)
           R == Recording(v)
           N == Len(v.handed)
           X == With(P, b)
           file == "any"
<1>1. v \in Writers /\ v.ts \in Int
      /\ (Tracked(v) => Owns(v, P))
    BY RunningFacts DEF Account, Writers
<1>2. /\ w \in Writers /\ SameMemory(v, w) /\ w.ts = n /\ w.at = "loop"
      /\ w.taken = Append(v.taken, n) /\ w.kind = v.kind
      /\ w.handed = v.handed /\ w.uses = v.uses
    BY <1>1, TakenEffect
<1>3. Account(w, w, P, Nothing, R, N, file) /\ Recording(w) = Append(R, n)
    BY TakenAccount
<1>4. b \in Buffers /\ b[1] = n /\ b[2] = "camera"
    BY DEF Buffer, Buffers, Origins
<1>5. Tracked(w) = Tracked(v) /\ w.live = v.live
    BY <1>2 DEF Tracked, SameMemory
<1>6. Tracked(v) => /\ \A c \in v.live : c[2] = "trigger" \/ c[1] < n
                    /\ b \notin v.live /\ P \subseteq v.live
    <2>1. \A c \in v.live : c[1] \in Int
        BY <1>1 DEF Writers, Buffers
    <2>2. \A c \in v.live : c[1] <= v.ts => c[1] < n
        BY <1>1, <2>1
    <2>3. ~(n <= v.ts)
        BY <1>1
    <2> QED
        BY <1>1, <1>4, <2>2, <2>3 DEF Owns
<1>7. w.taken # <<>>
    <2> DEFINE t == v.taken
    <2>1. t \in Seq(Int)
        BY <1>1 DEF Writers
    <2> HIDE DEF t
    <2>2. Append(t, n) # <<>>
        BY <2>1
    <2> QED
        BY <1>2, <2>2 DEF t
<1> HIDE DEF P, R, N, w, b, file
<1>8. /\ x \in Writers /\ SameThread(w, x) /\ SameFile(w, x) /\ SameQueue(w, x)
      /\ x.fault = w.fault /\ x.live = w.live \cup {b}
    BY <1>2, <1>4, NewEffect DEF w, b
<1>9. Account(w, x, X, Nothing, R, N, file)
    <2>1. Tracked(w) => b \notin w.live
        BY <1>5, <1>6
    <2>2. b[1] <= w.ts
        BY <1>2, <1>4
    <2> QED
        BY <1>3, <1>4, <2>1, <2>2, NewAccount DEF w, b
<1>10. Account(x, x, X, Nothing, R, N, file)
    <2>1. SameThread(x, x)
        BY DEF SameThread
    <2> HIDE DEF X
    <2> QED
        BY <1>9, <2>1 DEF Account
<1>11. /\ x.at = "loop" /\ x.kind = v.kind /\ x.handed = v.handed /\ x.ts = n
       /\ x.uses = v.uses /\ x.taken = w.taken
       /\ x.prev = v.prev /\ x.pre_record = v.pre_record
    BY <1>2, <1>8 DEF SameThread, SameQueue, SameMemory
<1>12. Got(x) = b /\ Previous(x) = P /\ Len(x.handed) = N
    BY <1>11 DEF Got, b, Previous, P, N
<1>13. Recording(x) = Append(R, x.ts)
    BY <1>3, <1>9, <1>11, SameUpToNow
<1>14. Tracked(x) = Tracked(v)
    BY <1>11 DEF Tracked
<1>15. Tracked(x) => \A c \in x.live : c[2] = "trigger" \/ c[1] < x.ts \/ c = Got(x)
    BY <1>5, <1>6, <1>8, <1>11, <1>12, <1>14
<1>16. Tracked(x) => Got(x) \notin Previous(x)
    BY <1>6, <1>12, <1>14
<1>17. Started(x, R)
    BY <1>10, <1>12, <1>13, <1>15, <1>16 DEF Started, X, file
<1>18. v.uses = 1
    BY DEF Running
<1> QED
    BY <1>7, <1>8, <1>11, <1>17, <1>18 DEF R

LEMMA SteppedRuns ==
    ASSUME NEW v, NEW y, Stepped(v, y), v.at = "loop", v.uses = 1, v.taken # <<>>,
           v.kind = "loopback" => v.handed = <<>>, v.kind = "gstreamer" => v.prev = Null
    PROVE  Running(y)
<1> DEFINE file == IF v.kind \in {"extpipe", "plugin"} THEN "held" ELSE "any"
           R == Recording(v)
           N == Len(v.handed)
           P == Previous(y)
<1>1. Account(v, y, P, Nothing, R, N, file)
    BY DEF Stepped
<1>2. FileNow(y) = file /\ Recording(y) = R /\ Len(y.handed) = N
      /\ y.kind = v.kind /\ y.at = v.at /\ y.uses = v.uses /\ y.handed = v.handed
    BY <1>1, SameUpToNow DEF FileNow
<1>3. y.kind = "gstreamer" => y.prev = Null
    BY <1>2 DEF Stepped
<1> HIDE DEF file, R, N, P
<1>4. SameThread(y, y)
    BY DEF SameThread
<1>5. Account(y, y, P, Nothing, R, N, file)
    BY <1>1, <1>4 DEF Account
<1>6. Account(y, y, Previous(y), Nothing, Recording(y), Len(y.handed), FileNow(y))
    BY <1>2, <1>5 DEF P
<1> QED
    BY <1>2, <1>3, <1>6 DEF Running

LEMMA FrameRuns ==
    ASSUME NEW v, NEW S, Started(v, S), v.at = "loop", v.uses = 1, v.taken # <<>>,
           v.kind = "loopback" => v.handed = <<>>, v.kind = "gstreamer" => v.prev = Null,
           Tracked(v) /\ v.kind = "plugin" => v.pre_record = <<>>,
           NEW allow \in BOOLEAN, NEW cut \in BOOLEAN
    PROVE  Running(FrameOf(v, allow, cut))
<1> DEFINE y == FrameOf(v, allow, cut)
<1>1. v.kind \in {"jpeg", "extpipe", "plugin", "gwavi", "avi", "gstreamer", "newsource",
                  "pixelflood", "pipewire", "loopback"}
    BY StartedFacts, WriterAssumption DEF Writers
<1>2. CASE v.kind = "loopback" /\ ((~allow /\ Len(v.taken) = 1) \/ cut)
    <2>1. y = LoopbackFrame(v, allow, cut)
        BY <1>2 DEF FrameOf
    <2> HIDE DEF y
    <2> QED
        BY <1>2, <2>1, LoopbackLeaves DEF y
<1>3. SUFFICES ASSUME ~(v.kind = "loopback" /\ ((~allow /\ Len(v.taken) = 1) \/ cut))
               PROVE  Stepped(v, y)
    <2> HIDE DEF y
    <2>1. Stepped(v, y) => Running(y)
        BY SteppedRuns
    <2> QED
        BY <1>2, <2>1 DEF y
<1>4. CASE v.kind = "jpeg"
    <2>1. y = JpegFrame(v, allow)
        BY <1>4 DEF FrameOf
    <2> QED
        BY <1>4, <2>1, JpegStep
<1>5. CASE v.kind = "extpipe"
    <2>1. y = ExtpipeFrame(v, allow, cut)
        BY <1>5 DEF FrameOf
    <2> QED
        BY <1>5, <2>1, ExtpipeStep
<1>6. CASE v.kind = "plugin"
    <2>1. y = PluginFrame(v, allow, cut)
        BY <1>6 DEF FrameOf
    <2> QED
        BY <1>6, <2>1, PluginStep
<1>7. CASE v.kind \in {"gwavi", "avi"}
    <2>1. y = FileFrame(v, allow, cut)
        <3>1. y = GwaviFrame(v, allow, cut) \/ y = AviFrame(v, allow, cut)
            BY <1>7 DEF FrameOf
        <3> QED
            BY <3>1, FileFrames
    <2> QED
        BY <1>7, <2>1, FileStep
<1>8. CASE v.kind = "gstreamer"
    <2>1. y = GstreamerFrame(v, allow)
        BY <1>8 DEF FrameOf
    <2> QED
        BY <1>8, <2>1, GstreamerStep
<1>9. CASE v.kind = "newsource"
    <2>1. y = NewSourceFrame(v, allow)
        BY <1>9 DEF FrameOf
    <2> QED
        BY <1>9, <2>1, NewSourceStep DEF NewSourceFrame, Unqueued
<1>10. CASE v.kind = "pixelflood"
    <2>1. y = PixelfloodFrame(v, allow)
        BY <1>10 DEF FrameOf
    <2> QED
        BY <1>10, <2>1, PixelfloodStep
<1>11. CASE v.kind = "pipewire"
    <2>1. y = PipewireFrame(v, allow)
        BY <1>11 DEF FrameOf
    <2> QED
        BY <1>11, <2>1, PipewireStep
<1>12. CASE v.kind = "loopback"
    <2>1. y = LoopbackFrame(v, allow, cut)
        BY <1>12 DEF FrameOf
    <2> QED
        BY <1>3, <1>12, <2>1, LoopbackStep
<1> QED
    BY <1>1, <1>4, <1>5, <1>6, <1>7, <1>8, <1>9, <1>10, <1>11, <1>12

-----------------------------------------------------------------------------
\* The invariant.

LEMMA NewWriterRuns ==
    ASSUME NEW k \in WriterKinds, NEW f \in BOOLEAN, NEW m \in BOOLEAN, NEW n \in Nat,
           k = "loopback" => n = 0, NEW pre, pre = [i \in 1 .. n |-> Buffer(i, "trigger")],
           NEW v, v = NewWriter(k, f, m, pre)
    PROVE  Running(v)
<1> DEFINE h == [i \in DOMAIN pre |-> pre[i][1]]
           l == Range(pre)
           e == <<>>
<1>1. pre \in Seq(Buffers) /\ Len(pre) = n /\ DOMAIN pre = 1 .. n
    <2>1. \A i \in 1 .. n : Buffer(i, "trigger") \in Buffers
        BY DEF Buffer, Buffers, Origins
    <2> QED
        BY <2>1
<1>2. h = Numbers(pre)
    BY <1>1 DEF Numbers
<1>3. h \in Seq(Int) /\ Len(h) = n
    BY <1>1, <1>2, NumbersAre
<1>4. \A b : b \in l <=> \E i \in 1 .. n : pre[i] = b
    BY <1>1 DEF Range
<1>5. \A i \in 1 .. n : pre[i][1] = i /\ pre[i][2] = "trigger" /\ pre[i] \in Buffers
    BY DEF Buffer, Buffers, Origins
<1>6. l \in SUBSET Buffers
    BY <1>4, <1>5
<1>7. e \in Seq(Int)
    BY EmptySeq
<1> HIDE DEF h, l, e
<1>8. /\ v.kind = k /\ v.handed = h /\ v.taken = e /\ v.written = e /\ v.pre_record = pre
      /\ v.prev = Null /\ v.live = l /\ ~v.fault /\ ~v.open /\ v.in_file = 0 /\ ~v.empty
      /\ ~v.unstored /\ v.at = "off" /\ v.uses = 0 /\ v.ts = 0 /\ v.filtered = f
      /\ v.max_time = m /\ v.rotates = m
    BY DEF NewWriter, h, l, e
<1>9. v \in Writers
    <2>1. v = [kind |-> k, filtered |-> f, max_time |-> m, at |-> "off", ts |-> 0, uses |-> 0,
               handed |-> h, taken |-> e, written |-> e, pre_record |-> pre, prev |-> Null,
               live |-> l, fault |-> FALSE, open |-> FALSE, rotates |-> m, in_file |-> 0,
               empty |-> FALSE, unstored |-> FALSE]
        BY DEF NewWriter, h, l, e
    <2>2. pre \in Seq(Buffers) /\ h \in Seq(Int) /\ e \in Seq(Int) /\ l \in SUBSET Buffers
        BY <1>1, <1>3, <1>6, <1>7
    <2>3. "off" \in WriterPlaces /\ Null \in Buffers \cup {Null}
        BY DEF WriterPlaces
    <2> DEFINE zero == 0
               no == FALSE
               off == "off"
               p == Null
    <2>4. zero \in Int /\ no \in BOOLEAN
        OBVIOUS
    <2> HIDE DEF zero, no, off, p
    <2>5. v = [kind |-> k, filtered |-> f, max_time |-> m, at |-> off, ts |-> zero, uses |-> zero,
               handed |-> h, taken |-> e, written |-> e, pre_record |-> pre, prev |-> p,
               live |-> l, fault |-> no, open |-> no, rotates |-> m, in_file |-> zero,
               empty |-> no, unstored |-> no]
        BY <2>1 DEF zero, no, off, p
    <2>6. off \in WriterPlaces /\ p \in Buffers \cup {Null}
        BY <2>3 DEF off, p
    <2> QED
        BY <2>2, <2>4, <2>5, <2>6 DEF Writers
<1>10. Previous(v) = {} /\ FileNow(v) = "any" /\ Filed(v, "any") /\ SameThread(v, v)
    BY <1>8 DEF Previous, FileNow, Filed, SameThread, e
<1>11. Owns(v, {})
    <2>1. \A i \in 1 .. n : pre[i] \in l /\ pre[i] \notin {}
        BY <1>4
    <2>2. \A i, j \in 1 .. n : pre[i] = pre[j] => i = j
        <3> SUFFICES ASSUME NEW i \in 1 .. n, NEW j \in 1 .. n, pre[i] = pre[j] PROVE i = j
            OBVIOUS
        <3>1. pre[i][1] = i /\ pre[j][1] = j
            BY <1>5
        <3> QED
            BY <3>1
    <2>3. \A b \in l : b[2] = "trigger" /\ \E i \in 1 .. n : pre[i] = b
        BY <1>4, <1>5
    <2> QED
        BY <1>1, <1>8, <2>1, <2>2, <2>3 DEF Owns
<1>12. Taped(v, Nothing, Recording(v))
    <2>1. Numbers(pre) = h
        BY <1>2
    <2>2. h \o e = h /\ (e \o e) \o h = h /\ (e \o e) \o e = e
        BY <1>3, <1>7, ConcatEmptySeq DEF e
    <2> QED
        BY <1>8, <2>1, <2>2 DEF Taped, Waiting, Recording, Nothing, e
<1>13. Len(v.pre_record) = Len(v.handed)
    BY <1>1, <1>3, <1>8
<1>14. Account(v, v, Previous(v), Nothing, Recording(v), Len(v.handed), FileNow(v))
    BY <1>9, <1>10, <1>11, <1>12, <1>13 DEF Account
<1>15. k = "loopback" => h = <<>>
    BY <1>3
<1> QED
    BY <1>8, <1>14, <1>15 DEF Running, e

\* The thread goes on.
LEMMA GoesOn ==
    ASSUME NEW v, Running(v), v.at \in {"off", "loop", "get"},
           NEW a \in {"loop", "get", "failed"}, a = "failed" => v.kind = "loopback",
           NEW w, w = [v EXCEPT !.at = a, !.uses = 1]
    PROVE  Running(w)
<1> DEFINE P == Previous(v)
           R == Recording(v)
           N == Len(v.handed)
           file == FileNow(v)
<1>1. v \in Writers /\ Filed(v, file)
      /\ (Tracked(v) => Owns(v, P) /\ Taped(v, Nothing, R) /\ Len(v.pre_record) = N)
    BY RunningFacts DEF Account
<1>2. /\ w \in Writers /\ SameFile(v, w) /\ SameMemory(v, w) /\ w.kind = v.kind
      /\ w.filtered = v.filtered /\ w.handed = v.handed /\ w.taken = v.taken /\ w.ts = v.ts
      /\ w.at = a /\ w.uses = 1
    <2> DEFINE one == 1
    <2>1. a \in WriterPlaces /\ one \in Int /\ w = [v EXCEPT !.at = a, !.uses = one]
        BY DEF WriterPlaces
    <2> HIDE DEF one
    <2>2. /\ w \in Writers /\ SameFile(v, w) /\ SameMemory(v, w) /\ w.kind = v.kind
          /\ w.filtered = v.filtered /\ w.handed = v.handed /\ w.taken = v.taken /\ w.ts = v.ts
          /\ w.at = a /\ w.uses = one
        BY <1>1, <2>1 DEF Writers, SameFile, SameMemory
    <2> QED
        BY <2>2 DEF one
<1>3. Previous(w) = P /\ Recording(w) = R /\ Len(w.handed) = N /\ FileNow(w) = file
    BY <1>2 DEF Previous, Recording, FileNow, SameMemory
<1> HIDE DEF P, R, N, file
<1>4. LosesFrames(v) => LosesFrames(w)
    BY <1>2 DEF LosesFrames, SameFile
<1>5. Owns(v, P) => Owns(w, P)
    BY <1>2, <1>4 DEF Owns, SameMemory
<1>6. Taped(v, Nothing, R) => Taped(w, Nothing, R)
    BY <1>2 DEF Taped, Waiting, SameFile, SameMemory
<1>7. Filed(w, file)
    BY <1>1, <1>2 DEF Filed, SameFile
<1>8. Tracked(w) = Tracked(v) /\ w.pre_record = v.pre_record /\ SameThread(w, w)
    BY <1>2 DEF Tracked, SameMemory, SameThread
<1>9. Account(w, w, P, Nothing, R, N, file)
    BY <1>1, <1>2, <1>5, <1>6, <1>7, <1>8 DEF Account
<1>10. w.kind = "loopback" => w.handed = <<>>
    BY <1>2 DEF Running
<1>11. w.kind = "gstreamer" => w.prev = Null
    BY <1>2 DEF Running, SameMemory
<1> QED
    BY <1>2, <1>3, <1>9, <1>10, <1>11 DEF Running

LEMMA SameUses ==
    ASSUME NEW v \in Writers, v.uses = 1, NEW a
    PROVE  [v EXCEPT !.at = a] = [v EXCEPT !.at = a, !.uses = 1]
BY DEF Writers

LEMMA MoreUses ==
    ASSUME NEW v \in Writers, v.uses = 0, NEW a
    PROVE  [v EXCEPT !.at = a, !.uses = @ + 1] = [v EXCEPT !.at = a, !.uses = 1]
BY DEF Writers

LEMMA WriterInitInv == WriterInit => WriterInv
<1> SUFFICES ASSUME WriterInit PROVE WriterInv
    OBVIOUS
<1>1. PICK k \in WriterKinds, f \in BOOLEAN, m \in BOOLEAN, n \in 0 .. MaxHanded :
         /\ k = "loopback" => n = 0
         /\ writer = NewWriter(k, f, m, [i \in 1 .. n |-> Buffer(i, "trigger")])
         /\ writer_env = [cur |-> n, stop |-> FALSE, ready |-> k \notin {"newsource", "pipewire"}]
    BY DEF WriterInit
<1>2. n \in Nat
    OBVIOUS
<1>3. Running(writer)
    BY <1>1, <1>2, NewWriterRuns
<1>4. writer_env \in [cur : Int, stop : BOOLEAN, ready : BOOLEAN]
    <2> DEFINE r == k \notin {"newsource", "pipewire"}
    <2>1. r \in BOOLEAN
        OBVIOUS
    <2>2. writer_env = [cur |-> n, stop |-> FALSE, ready |-> r]
        BY <1>1
    <2> HIDE DEF r
    <2> QED
        BY <1>2, <2>1, <2>2
<1> QED
    BY <1>3, <1>4 DEF WriterInv

LEMMA WriterFrameRuns ==
    ASSUME Running(writer), WriterFrame, writer_env.cur \in Int
    PROVE  Running(writer')
<1> DEFINE n == writer_env.cur
           v == New(TakenAt(writer, n), Buffer(n, "camera"))
<1>1. n \in Int /\ writer.at = "get" /\ n > writer.ts
    BY DEF WriterFrame
<1>2. PICK allow \in BOOLEAN, cut \in BOOLEAN : writer' = FrameOf(v, allow, cut)
    BY DEF WriterFrame, TakenAt
<1> HIDE DEF n
<1>3. /\ Started(v, Recording(writer)) /\ v \in Writers
      /\ v.at = "loop" /\ v.uses = 1 /\ v.kind = writer.kind /\ v.handed = writer.handed
      /\ v.prev = writer.prev /\ v.pre_record = writer.pre_record /\ v.taken # <<>>
    BY <1>1, TakenStarted
<1> HIDE DEF v
<1>4. Tracked(v) /\ v.kind = "plugin" => v.pre_record = <<>>
    <2>1. SUFFICES ASSUME Tracked(v), v.kind = "plugin" PROVE Len(v.pre_record) = 0
        BY <1>3, QueueIsEmpty
    <2>2. v.handed = <<>> /\ Tracked(writer)
        BY <1>3, <2>1 DEF Tracked
    <2>3. Len(writer.pre_record) = Len(writer.handed)
        BY <2>2 DEF Running, Account
    <2>4. writer.handed = <<>> /\ v.pre_record = writer.pre_record
        BY <1>3, <2>2
    <2>5. Len(writer.handed) = 0
        BY <2>4
    <2> QED
        BY <2>3, <2>4, <2>5
<1>5. (v.kind = "loopback" => v.handed = <<>>) /\ (v.kind = "gstreamer" => v.prev = Null)
    BY <1>3 DEF Running
<1>6. Running(FrameOf(v, allow, cut))
    BY <1>3, <1>4, <1>5, FrameRuns
<1> QED
    BY <1>2, <1>6

LEMMA WriterNextInv == WriterInv /\ [WriterNext]_writerVars => WriterInv'
<1> SUFFICES ASSUME WriterInv, [WriterNext]_writerVars PROVE WriterInv'
    OBVIOUS
<1> DEFINE Envs == [cur : Int, stop : BOOLEAN, ready : BOOLEAN]
<1>1. writer_env \in Envs /\ (Running(writer) \/ Ended(writer))
    BY DEF WriterInv
<1>2. Running(writer) => writer \in Writers
    BY RunningFacts
<1>3. Ended(writer) => writer.at = "done"
    BY DEF Ended
<1>4. writer.at # "done" => Running(writer)
    BY <1>1, <1>3
<1>5. CASE WriterStart
    <2>1. Running(writer) /\ writer.uses = 0 /\ writer.at = "off"
        BY <1>4, <1>5 DEF WriterStart, Running
    <2>2. writer' = [writer EXCEPT !.at = "loop", !.uses = 1]
        BY <1>2, <1>5, <2>1, MoreUses DEF WriterStart
    <2>3. Running(writer')
        BY <2>1, <2>2, GoesOn
    <2> QED
        BY <1>1, <1>5, <2>3 DEF WriterInv, WriterStart
<1>6. CASE LoopbackUnopened
    <2>1. Running(writer) /\ writer.uses = 0 /\ writer.at = "off" /\ writer.kind = "loopback"
        BY <1>4, <1>6 DEF LoopbackUnopened, Running
    <2>2. writer' = [writer EXCEPT !.at = "failed", !.uses = 1]
        BY <1>2, <1>6, <2>1, MoreUses DEF LoopbackUnopened
    <2>3. Running(writer')
        BY <2>1, <2>2, GoesOn
    <2> QED
        BY <1>1, <1>6, <2>3 DEF WriterInv, LoopbackUnopened
<1>7. CASE WriterLoop
    <2>1. Running(writer) /\ writer.uses = 1 /\ writer.at = "loop"
        BY <1>4, <1>7 DEF WriterLoop, Running
    <2>2. writer' = [writer EXCEPT !.at = "get", !.uses = 1]
        BY <1>2, <1>7, <2>1, SameUses DEF WriterLoop
    <2>3. Running(writer')
        BY <2>1, <2>2, GoesOn
    <2> QED
        BY <1>1, <1>7, <2>3 DEF WriterInv, WriterLoop
<1>8. CASE WriterNoFrame
    <2>1. Running(writer) /\ writer.uses = 1 /\ writer.at = "get"
        BY <1>4, <1>8 DEF WriterNoFrame, Running
    <2>2. writer' = [writer EXCEPT !.at = "loop", !.uses = 1]
        BY <1>2, <1>8, <2>1, SameUses DEF WriterNoFrame
    <2>3. Running(writer')
        BY <2>1, <2>2, GoesOn
    <2> QED
        BY <1>1, <1>8, <2>3 DEF WriterInv, WriterNoFrame
<1>9. CASE WriterFrame
    <2>1. Running(writer) /\ writer_env.cur \in Int
        BY <1>1, <1>4, <1>9 DEF WriterFrame
    <2>2. Running(writer')
        BY <1>9, <2>1, WriterFrameRuns
    <2> QED
        BY <1>1, <1>9, <2>2 DEF WriterInv, WriterFrame
<1>10. CASE WriterEnd
    <2>1. Running(writer) /\ writer.at \in {"loop", "leave"}
        BY <1>4, <1>10 DEF WriterEnd
    <2>2. PICK allow \in BOOLEAN : writer' = [EndOf(writer, allow) EXCEPT !.at = "done"]
        BY <1>10 DEF WriterEnd
    <2>3. Ended(writer')
        BY <2>1, <2>2, Ends
    <2> QED
        BY <1>1, <1>10, <2>3 DEF WriterInv, WriterEnd
<1>11. ASSUME writer' = writer, writer_env' \in Envs PROVE WriterInv'
    BY <1>1, <1>11 DEF WriterInv
<1>12. CASE WriterCamera
    <2>1. writer_env' \in Envs
        BY <1>1, <1>12 DEF WriterCamera
    <2> QED
        BY <1>11, <1>12, <2>1 DEF WriterCamera
<1>13. CASE WriterStop
    <2>1. writer_env' \in Envs
        BY <1>1, <1>13 DEF WriterStop
    <2> QED
        BY <1>11, <1>13, <2>1 DEF WriterStop
<1>14. CASE WriterSink
    <2>1. writer_env' \in Envs
        BY <1>1, <1>14 DEF WriterSink
    <2> QED
        BY <1>11, <1>14, <2>1 DEF WriterSink
<1>15. CASE UNCHANGED writerVars
    BY <1>1, <1>11, <1>15 DEF writerVars
<1> QED
    BY <1>5, <1>6, <1>7, <1>8, <1>9, <1>10, <1>12, <1>13, <1>14, <1>15 DEF WriterNext, WriterStep

LEMMA WriterInvSound == WriterInv => WriterSound
<1> SUFFICES ASSUME WriterInv PROVE WriterSound
    OBVIOUS
<1> DEFINE v == writer
<1>1. CASE Ended(v)
    BY <1>1 DEF Ended, WriterSound, WriterMemory, WriterOutput, Tracked
<1>2. CASE Running(v)
    <2>1. v \in Writers /\ Filed(v, FileNow(v)) /\ FileNow(v) # "closed"
          /\ (Tracked(v) => Owns(v, Previous(v)))
        BY <1>2, RunningFacts DEF Account
    <2>2. v.at # "done"
        BY <1>2 DEF Running
    <2>3. v.fault => v.kind = "plugin" /\ v.handed # <<>>
        BY <2>1 DEF Tracked, Owns
    <2>4. LosesFrames(v) \/ v.live \subseteq Reachable(v)
        <3>1. ~Tracked(v) => LosesFrames(v)
            BY DEF Tracked, LosesFrames
        <3>2. ASSUME Tracked(v), ~LosesFrames(v) PROVE v.live \subseteq Reachable(v)
            <4>1. \A b \in v.live : b \in Previous(v) \/ \E i \in 1 .. Len(v.pre_record) : v.pre_record[i] = b
                BY <2>1, <3>2 DEF Owns
            <4>2. \A i \in 1 .. Len(v.pre_record) : v.pre_record[i] \in Range(v.pre_record)
                <5>1. v.pre_record \in Seq(Buffers)
                    BY <2>1 DEF Writers
                <5>2. DOMAIN v.pre_record = 1 .. Len(v.pre_record)
                    BY <5>1
                <5> QED
                    BY <5>2 DEF Range
            <4> QED
                BY <4>1, <4>2 DEF Reachable, Previous
        <3> QED
            BY <3>1, <3>2
    <2>5. ~(v.empty /\ ~v.unstored)
        BY <2>1 DEF Filed
    <2> QED
        BY <2>2, <2>3, <2>4, <2>5 DEF WriterSound, WriterMemory, WriterOutput
<1> QED
    BY <1>1, <1>2 DEF WriterInv

\* A target that runs has the account of its frames, and one that ended left
\* its source, its file and its memory as it should.
THEOREM WriterInvHolds == WriterSpec => []WriterInv
<1>1. WriterInit => WriterInv
    BY WriterInitInv
<1>2. WriterInv /\ [WriterNext]_writerVars => WriterInv'
    BY WriterNextInv
<1> QED
    BY <1>1, <1>2, PTL DEF WriterSpec

\* The targets neither use nor delete a frame that is gone, lose none, and store
\* what they were given, each as WriterSound says.
THEOREM WriterSoundHolds == WriterSpec => []WriterSound
<1>1. WriterSpec => []WriterInv
    BY WriterInvHolds
<1>2. WriterInv => WriterSound
    BY WriterInvSound
<1> QED
    BY <1>1, <1>2, PTL
=============================================================================
