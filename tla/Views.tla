-------------------------------- MODULE Views ---------------------------------
(***************************************************************************)
(* Sources that show other sources: one after the other (view_ss), in a    *)
(* grid (view_all), one in another (view_pip).  Each is a source to its    *)
(* viewers.  Source: view_ss.cpp, view_all.cpp, view_pip.cpp.              *)
(*                                                                         *)
(* get_frame() of the sources is FrameBuffer; here it gives a frame or     *)
(* none.  A source that is off is paused or does not run.                  *)
(***************************************************************************)
EXTENDS Integers, FiniteSets

CONSTANTS
    ViewClients,    \* the threads that look at the view
    ViewSources,    \* number of sources in the list of the view
    GridCells,      \* cells of the grid
    MaxViewTime     \* bound: time stamps (the code: microseconds)

ASSUME ViewAssumption ==
    /\ ViewSources \in Nat \ {0} /\ GridCells \in Nat \ {0} /\ MaxViewTime \in Nat

VARIABLES
    view,      \* view_ss: index and cur_source, and the frame before
    shown,     \* by source: its users, whether it is on, whether the id is known
    looker,    \* by client: its place in start(), get_frame(), stop()
    grid,      \* view_all
    pip,       \* view_pip: its thread and its frames
    pip_at     \* by client: in get_frame() of view_pip

switchVars == <<view, shown, looker>>
pipVars == <<pip, pip_at>>
viewVars == <<switchVars, grid, pipVars>>

Shown == 1..ViewSources
NoSource == 0

\* prev is prev_frame: "none" (never set), "live" or "freed".
\* overlap: two clients were in get_frame() at once.
SwitchInit ==
    /\ \E filtered \in BOOLEAN :
          view = [index |-> 1, cur |-> NoSource, due |-> FALSE, prev |-> "none",
                  filtered |-> filtered, fault |-> FALSE, overlap |-> FALSE]
    /\ \E known \in SUBSET Shown :
          shown = [i \in Shown |-> [users |-> 0, on |-> TRUE, known |-> i \in known]]
    /\ looker = [c \in ViewClients |-> [at |-> "idle", i |-> 1, from |-> NoSource,
                                        label |-> NoSource]]

-----------------------------------------------------------------------------
(* view_ss.                                                                *)

Place(c, at) == looker' = [looker EXCEPT ![c].at = at]
At(c, at) == looker[c].at = at

\* start() and stop(): each source of the list that is there, in its order.
SwitchOpens(c) == At(c, "idle") /\ Place(c, "starting") /\ UNCHANGED <<view, shown>>
SwitchCloses(c) == At(c, "in") /\ Place(c, "stopping") /\ UNCHANGED <<view, shown>>

Walk(c, then) ==
    looker' = IF looker[c].i = ViewSources
              THEN [looker EXCEPT ![c].at = then, ![c].i = 1]
              ELSE [looker EXCEPT ![c].i = @ + 1]
CountUser(i, n) == IF shown[i].known THEN [shown EXCEPT ![i].users = @ + n] ELSE shown

StartChild(c) ==
    /\ At(c, "starting") /\ Walk(c, "in")
    /\ shown' = CountUser(looker[c].i, 1)
    /\ UNCHANGED view

StopRunningChild(c) ==
    /\ At(c, "stopping") /\ Walk(c, "idle")
    /\ shown' = IF shown[looker[c].i].on THEN CountUser(looker[c].i, -1) ELSE shown
    /\ UNCHANGED view
StopChild(c) ==
    /\ At(c, "stopping") /\ Walk(c, "idle")
    /\ shown' = CountUser(looker[c].i, -1)
    /\ UNCHANGED view

\* get_frame(): cur_source is that of the index of before a switch.
InCall == {"found", "chosen", "filter", "free", "keep"}
FindCurrent(c) ==
    /\ At(c, "in") /\ Place(c, "found")
    /\ view' = [view EXCEPT !.cur = IF shown[view.index].known THEN view.index ELSE NoSource,
                            !.overlap = @ \/ \E d \in ViewClients : looker[d].at \in InCall]
    /\ UNCHANGED shown

\* The first source after the current one that is on; all were tried when it
\* is the current one again.
Steps(i) == ((view.index + i - 1) % ViewSources) + 1
Usable(i) == shown[i].known /\ shown[i].on
NextIndex ==
    LET usable == {k \in Shown : Usable(Steps(k))}
    IN IF usable = {} THEN view.index
       ELSE Steps(CHOOSE k \in usable : \A l \in usable : k <= l)

SwitchSource(c) ==
    /\ At(c, "found") /\ Place(c, "chosen")
    /\ view' = IF view.due THEN [view EXCEPT !.index = NextIndex, !.due = FALSE] ELSE view
    /\ UNCHANGED shown

\* Without a source, or a frame, there is no picture.
FetchFrame(c) ==
    /\ At(c, "chosen")
    /\ \/ Place(c, "in")
       \/ /\ view.cur # NoSource
          /\ looker' = [looker EXCEPT ![c].at = IF view.filtered THEN "filter" ELSE "in",
                                      ![c].from = view.cur]
    /\ UNCHANGED <<view, shown>>

\* The filters are told of the instance of cur_source, and see the frame before.
FilterFrame(c) ==
    /\ At(c, "filter")
    /\ looker' = [looker EXCEPT ![c].at = "free", ![c].label = view.cur]
    /\ view' = [view EXCEPT !.fault = @ \/ view.prev = "freed"]
    /\ UNCHANGED shown
FreePrevious(c) ==
    /\ At(c, "free") /\ Place(c, "keep")
    /\ view' = [view EXCEPT !.fault = @ \/ view.prev = "freed",
                            !.prev = IF @ = "none" THEN @ ELSE "freed"]
    /\ UNCHANGED shown
KeepFrame(c) ==
    /\ At(c, "keep") /\ Place(c, "in")
    /\ view' = [view EXCEPT !.prev = "live"]
    /\ UNCHANGED shown

\* The switch interval is over; a source is paused, stopped, or goes on.
SwitchTime ==
    \/ view' = [view EXCEPT !.due = TRUE] /\ UNCHANGED <<shown, looker>>
    \/ /\ \E i \in Shown : shown' = [shown EXCEPT ![i].on = ~@]
       /\ UNCHANGED <<view, looker>>

SwitchNext ==
    \/ SwitchTime
    \/ \E c \in ViewClients :
          \/ SwitchOpens(c) \/ StartChild(c) \/ SwitchCloses(c) \/ StopChild(c)
          \/ FindCurrent(c) \/ SwitchSource(c) \/ FetchFrame(c)
          \/ FilterFrame(c) \/ FreePrevious(c) \/ KeepFrame(c)

-----------------------------------------------------------------------------
(* view_all.                                                               *)

\* sources: the length of its list, empty for a dashboard without sources.  by
\* cell: whose picture is in work, and whether ts_list is 0.
GridInit ==
    \E n \in 0..(GridCells + 1) :
       grid = [sources |-> n, index |-> 0, due |-> FALSE, at |-> "idle", cells |-> {},
               cell |-> [i \in 1..GridCells |-> [of |-> NoSource, zero |-> TRUE]]]

Filled == 1..(IF grid.sources < GridCells THEN grid.sources ELSE GridCells)
InCell(i) == ((grid.index + i - 1) % grid.sources) + 1

\* The remainder by the number of sources: there is none of 0.
GridCall ==
    /\ grid.at = "idle"
    /\ grid' = IF grid.due /\ grid.sources = 0 THEN [grid EXCEPT !.at = "crashed"]
               ELSE IF grid.due
               THEN [grid EXCEPT !.at = "cells", !.cells = Filled, !.due = FALSE,
                                 !.index = (@ + Cardinality(Filled)) % grid.sources,
                                 !.cell = [i \in 1..GridCells |-> [@[i] EXCEPT !.zero = TRUE]]]
               ELSE [grid EXCEPT !.at = "cells", !.cells = Filled]

\* A thread for each cell.  A source that is not known or off, has nothing newer
\* or gives no frame, leaves the cell as it is.
GridCell ==
    /\ grid.at = "cells"
    /\ \E i \in grid.cells, got \in BOOLEAN :
          grid' = [grid EXCEPT !.cells = @ \ {i},
                      !.cell[i] = IF got THEN [of |-> InCell(i), zero |-> FALSE] ELSE @]

GridReturn ==
    /\ grid.at = "cells" /\ grid.cells = {}
    /\ grid' = [grid EXCEPT !.at = "idle"]

GridTime == grid' = [grid EXCEPT !.due = TRUE]

GridNext == GridCall \/ GridCell \/ GridReturn \/ GridTime

-----------------------------------------------------------------------------
(* view_pip.                                                               *)

\* ts: by source, of its frame in frames (0: none); source 1 is the picture the
\* other one is in.  got: what get_frame_to() returned.
Framed == {1, 2}
PipInit ==
    /\ pip = [th |-> "off", stop |-> FALSE, i |-> 1, after |-> 0, new |-> 0, got |-> 0,
              ts |-> [i \in Framed |-> 0], now |-> 1]
    /\ pip_at = [c \in ViewClients |-> [at |-> "out", after |-> 0, woken |-> FALSE]]

PipStart ==
    /\ pip.th = "off"
    /\ pip' = [pip EXCEPT !.th = "get", !.stop = FALSE, !.i = 1, !.after = pip.now, !.new = 0]
    /\ UNCHANGED pip_at

\* get_frame_to(): a frame that is newer than after_ts, or none in time.
PipGet ==
    /\ pip.th = "get" /\ ~pip.stop
    /\ \E t \in {0} \cup {u \in 1..pip.now : u > pip.after /\ u >= pip.ts[pip.i]} :
          pip' = [pip EXCEPT !.th = "store", !.got = t]
    /\ UNCHANGED pip_at

NextSource(v) ==
    IF v.i = Cardinality(Framed)
    THEN [v EXCEPT !.th = "get", !.i = 1, !.after = v.new]
    ELSE [v EXCEPT !.th = "get", !.i = @ + 1]

\* frames_cv.notify_all()
Notified == [c \in ViewClients |-> [pip_at[c] EXCEPT !.woken = @ \/ pip_at[c].at = "wait"]]

PipStore ==
    /\ pip.th = "store"
    /\ \/ pip.got = 0 /\ pip' = NextSource(pip) /\ UNCHANGED pip_at
       \/ /\ pip.got # 0
          /\ pip' = NextSource([pip EXCEPT !.ts[pip.i] = pip.got,
                                  !.new = IF @ <= pip.after THEN pip.got ELSE @])
          /\ pip_at' = Notified

\* A source that is not there, or is no source, ends the program.
PipMissing ==
    /\ pip.th = "get" /\ ~pip.stop
    /\ pip' = [pip EXCEPT !.th = "exit"]
    /\ UNCHANGED pip_at

PipEnd ==
    /\ pip.th = "get" /\ pip.stop
    /\ pip' = [pip EXCEPT !.th = "off"]
    /\ UNCHANGED pip_at

\* stop(), announce_stop(): nobody is notified.
PipStop ==
    /\ pip' = [pip EXCEPT !.stop = TRUE]
    /\ UNCHANGED pip_at

\* get_frame(): a copy of the frame of source 1, if there is one.
PipCall(c) ==
    /\ pip_at[c].at \in {"out", "wait"}    \* also a spurious wake-up
    /\ pip_at' = IF pip.new <= pip_at[c].after /\ ~pip.stop
                 THEN [pip_at EXCEPT ![c].at = "wait", ![c].woken = FALSE]
                 ELSE [pip_at EXCEPT ![c] = [at |-> "out", woken |-> FALSE,
                          after |-> IF pip.ts[1] = 0 THEN @.after ELSE pip.ts[1]]]
    /\ UNCHANGED pip

PipTime ==
    /\ pip.now < MaxViewTime
    /\ pip' = [pip EXCEPT !.now = @ + 1]
    /\ UNCHANGED pip_at

PipNext ==
    \/ PipStart \/ PipGet \/ PipStore \/ PipMissing \/ PipEnd \/ PipStop \/ PipTime
    \/ \E c \in ViewClients : PipCall(c)

-----------------------------------------------------------------------------
ViewInit == SwitchInit /\ GridInit /\ PipInit

ViewNext ==
    \/ SwitchNext /\ UNCHANGED <<grid, pipVars>>
    \/ GridNext /\ UNCHANGED <<switchVars, pipVars>>
    \/ PipNext /\ UNCHANGED <<switchVars, grid>>

ViewSpec == ViewInit /\ [][ViewNext]_viewVars

-----------------------------------------------------------------------------
(* Properties.                                                             *)

Uses(c, i) ==
    \/ looker[c].at \in {"in"} \cup InCall
    \/ looker[c].at = "starting" /\ i < looker[c].i
    \/ looker[c].at = "stopping" /\ i >= looker[c].i

\* Each source that a view shows has a user for each viewer of the view, whatever
\* happens to the source meanwhile.  As long as viewers take turns, the frame of
\* before is there when it is looked at, and the filters are told of the source
\* that the picture is of; two viewers at once are not kept apart.
SwitchSound ==
    /\ \A i \in Shown :
          shown[i].users = IF shown[i].known
                           THEN Cardinality({c \in ViewClients : Uses(c, i)}) ELSE 0
    /\ ~view.overlap => ~view.fault
    /\ ~view.overlap => \A c \in ViewClients : At(c, "free") => looker[c].from = looker[c].label

\* A cell has the picture of the source that belongs there since the last switch,
\* unless that source gave none since; a grid without sources brings the program
\* down.
GridSound ==
    /\ \A i \in Filled : ~grid.cell[i].zero => grid.cell[i].of = InCell(i)
    /\ grid.at = "crashed" => grid.sources = 0

\* No viewer waits for a picture that is there.
PipSound ==
    \A c \in ViewClients :
        pip_at[c].at = "wait" /\ ~pip_at[c].woken => pip.new <= pip_at[c].after

ViewsSound == SwitchSound /\ GridSound /\ PipSound
=============================================================================
