------------------------------ MODULE LcdServer -------------------------------
(***************************************************************************)
(* The filter that shows what clients of the LCDproc protocol say: a       *)
(* listener, a thread for each client, and the threads that fetch frames   *)
(* of the source and show the screens in them.  Source: filter_lcdproc.cpp.*)
(*                                                                         *)
(* A command that needs the lock of the screens is chosen when it gets it. *)
(***************************************************************************)
EXTENDS Integers, Sequences, FiniteSets, SequencesExt

CONSTANTS
    LcdClients,     \* connections, a descriptor each
    LcdScreens,     \* ids of screens
    LcdWidgets,     \* ids of widgets
    MaxLcdScreens,  \* bound: screens (the code: no limit)
    MaxLcdWidgets   \* bound: widgets of a screen (the code: no limit)

ASSUME LcdAssumption ==
    /\ MaxLcdScreens \in Nat /\ MaxLcdWidgets \in Nat
    /\ "free" \notin LcdClients

VARIABLES
    screens,      \* in their order: whose it is, its id, its widgets
    lcd,          \* lpl and who threw with it; cur_scr_nr; the listener
    lcd_client    \* by connection: the place of its thread

lcdVars == <<screens, lcd, lcd_client>>

LcdInit ==
    /\ screens = <<>>
    /\ lcd = [lock |-> "free", threw |-> {}, stop |-> FALSE, listener |-> "poll", cur |-> 0,
              lost |-> FALSE]
    /\ lcd_client = [c \in LcdClients |-> [at |-> "none", i |-> 1, moved |-> FALSE]]

LcdAt(c, at) == lcd_client[c].at = at
LcdGo(c, at) == [lcd_client EXCEPT ![c].at = at]
LcdFree == lcd.lock = "free"
Position(id) ==
    LET found == {i \in DOMAIN screens : screens[i].id = id}
    IN IF found = {} THEN 0 ELSE CHOOSE i \in found : \A j \in found : i <= j

\* The list changes: places in it that are kept without the lock may be wrong.
Changed(clients) ==
    [c \in LcdClients |-> [clients[c] EXCEPT !.moved = @ \/ clients[c].at \in {"failing", "replying"}]]

-----------------------------------------------------------------------------
(* Commands.  A command that fails stays in the buffer, with a 0 where its *)
(* line ended, so that nothing that comes after it is ever looked at.      *)

Succeed(c) == lcd_client' = LcdGo(c, "idle")
Fail(c) == lcd_client' = LcdGo(c, "deaf")

\* The index of the search goes on only after a screen of another user.
Spin(c) ==
    /\ lcd_client' = LcdGo(c, "spinning") /\ lcd' = [lcd EXCEPT !.lock = c]
    /\ UNCHANGED screens

ScreenAdd(c) ==
    /\ Len(screens) < MaxLcdScreens
    /\ \E id \in LcdScreens :
          screens' = Append(screens, [fd |-> c, id |-> id, widgets |-> <<>>])
    /\ lcd_client' = Changed(LcdGo(c, "idle"))
    /\ UNCHANGED lcd

\* delete_screen(): the first one or, when that is another one, for ever.
ScreenLoops(id) == screens # <<>> /\ Head(screens).id # id
ScreenDel(c) ==
    \E id \in LcdScreens :
       \/ ScreenLoops(id) /\ Spin(c)
       \/ /\ ~ScreenLoops(id)
          /\ screens' = IF screens = <<>> THEN screens ELSE Tail(screens)
          /\ lcd_client' = Changed(LcdGo(c, "idle"))
          /\ UNCHANGED lcd

\* delete_widget(): one of the first screen or for ever.
WidgetLoops(id, w) == screens # <<>> /\ (Head(screens).id # id \/ ~Contains(Head(screens).widgets, w))
WidgetDel(c) ==
    \E id \in LcdScreens, w \in LcdWidgets :
       \/ WidgetLoops(id, w) /\ Spin(c)
       \/ /\ ~WidgetLoops(id, w)
          /\ screens' = IF screens = <<>> THEN screens
                        ELSE [screens EXCEPT ![1].widgets = RemoveFirst(@, w)]
          /\ Succeed(c) /\ UNCHANGED lcd

\* A value that misses, or is empty, throws with the lock held; the thread of the
\* connection catches it and goes on.
LcdThrow(c) == lcd' = [lcd EXCEPT !.lock = c, !.threw = @ \cup {c}] /\ Succeed(c) /\ UNCHANGED screens
LcdLookup(c, found) ==
    \/ found /\ Succeed(c) /\ UNCHANGED <<screens, lcd>>
    \/ found /\ LcdThrow(c)
    \/ ~found /\ Fail(c) /\ UNCHANGED <<screens, lcd>>

ScreenSet(c) == \E id \in LcdScreens : LcdLookup(c, Position(id) # 0)

WidgetOf(id, w) == Position(id) # 0 /\ Contains(screens[Position(id)].widgets, w)
WidgetSet(c) ==
    \E id \in LcdScreens, w \in LcdWidgets :
       \/ LcdLookup(c, WidgetOf(id, w))
       \/ WidgetOf(id, w) /\ Fail(c) /\ UNCHANGED <<screens, lcd>>    \* not of that type

\* The reply is decided after the lock was released.
WidgetAdd(c) ==
    \E id \in LcdScreens, w \in LcdWidgets :
       /\ Position(id) # 0 => Len(screens[Position(id)].widgets) < MaxLcdWidgets
       /\ screens' = IF Position(id) = 0 THEN screens
                     ELSE [screens EXCEPT ![Position(id)].widgets = Append(@, w)]
       /\ lcd_client' = LcdGo(c, IF Position(id) = 0 THEN "failing" ELSE "replying")
       /\ UNCHANGED lcd
WidgetReply(c) ==
    /\ lcd_client[c].at \in {"failing", "replying"}
    /\ \E found \in IF lcd_client[c].moved THEN BOOLEAN ELSE {LcdAt(c, "replying")} :
          lcd_client' = [LcdGo(c, IF found THEN "idle" ELSE "deaf") EXCEPT ![c].moved = FALSE]
    /\ UNCHANGED <<screens, lcd>>

\* Commands that need no lock: known or not.
LcdOther(c) ==
    /\ LcdAt(c, "idle") /\ (Succeed(c) \/ Fail(c))
    /\ UNCHANGED <<screens, lcd>>
LcdRequest(c) ==
    /\ LcdAt(c, "idle") /\ lcd_client' = LcdGo(c, "locking")
    /\ UNCHANGED <<screens, lcd>>
LcdCommand(c) ==
    /\ LcdAt(c, "locking") /\ LcdFree
    /\ ScreenAdd(c) \/ ScreenDel(c) \/ ScreenSet(c) \/ WidgetAdd(c) \/ WidgetDel(c) \/ WidgetSet(c)

-----------------------------------------------------------------------------
(* Connections.                                                            *)

\* The peer went away, its buffer is full, or the filter is deleted.
LcdHangUp(c) ==
    /\ lcd_client[c].at \in {"idle", "deaf"} /\ lcd_client' = LcdGo(c, "leaving")
    /\ UNCHANGED <<screens, lcd>>
LcdLeave(c) ==
    /\ LcdAt(c, "leaving") /\ LcdFree
    /\ lcd' = [lcd EXCEPT !.lock = c]
    /\ lcd_client' = LcdGo(c, "removing")
    /\ UNCHANGED screens

\* delete_lcdproc_user(): by id, so that the screen of another client can go.
Removed(c) ==
    /\ screens' = Tail(screens)
    /\ lcd' = [lcd EXCEPT !.lost = @ \/ Head(screens).fd # c]

\* Mutated form of LcdRemove: goes on behind the next screen.
LcdRemoveSkips(c) ==
    /\ LcdAt(c, "removing")
    /\ LET i == lcd_client[c].i IN
       \/ /\ i > Len(screens)
          /\ lcd' = [lcd EXCEPT !.lock = "free"] /\ lcd_client' = [LcdGo(c, "terminated") EXCEPT ![c].i = 1]
          /\ UNCHANGED screens
       \/ /\ i <= Len(screens) /\ (screens[i].fd # c \/ ~ScreenLoops(screens[i].id))
          /\ lcd_client' = Changed([lcd_client EXCEPT ![c].i = @ + 1])
          /\ IF screens[i].fd # c THEN UNCHANGED <<screens, lcd>> ELSE Removed(c)
       \/ /\ i <= Len(screens) /\ screens[i].fd = c /\ ScreenLoops(screens[i].id) /\ Spin(c)
LcdRemove(c) ==
    /\ LcdAt(c, "removing")
    /\ LET i == lcd_client[c].i IN
       \/ /\ i > Len(screens)
          /\ lcd' = [lcd EXCEPT !.lock = "free"] /\ lcd_client' = [LcdGo(c, "terminated") EXCEPT ![c].i = 1]
          /\ UNCHANGED screens
       \/ /\ i <= Len(screens) /\ screens[i].fd # c
          /\ lcd_client' = [lcd_client EXCEPT ![c].i = @ + 1] /\ UNCHANGED <<screens, lcd>>
       \/ /\ i <= Len(screens) /\ screens[i].fd = c
          /\ \/ ScreenLoops(screens[i].id) /\ Spin(c)
             \/ ~ScreenLoops(screens[i].id) /\ Removed(c) /\ lcd_client' = Changed(lcd_client)

\* network_listener(): threads that ended are joined; a poll that is interrupted
\* or whose peer is gone waits in accept() for the next one.
LcdPoll ==
    /\ lcd.listener = "poll"
    /\ lcd' = [lcd EXCEPT !.listener = IF lcd.stop THEN "join" ELSE "accept"]
    /\ lcd_client' = IF lcd.stop THEN lcd_client
         ELSE [c \in LcdClients |-> IF LcdAt(c, "terminated")
                                    THEN [lcd_client[c] EXCEPT !.at = "none"] ELSE lcd_client[c]]
    /\ UNCHANGED screens
LcdAccept ==
    /\ lcd.listener = "accept"
    /\ \E c \in LcdClients : LcdAt(c, "none") /\ Succeed(c)
    /\ lcd' = [lcd EXCEPT !.listener = "poll"]
    /\ UNCHANGED screens
LcdJoined ==
    /\ lcd.listener = "join"
    /\ \A c \in LcdClients : lcd_client[c].at \in {"none", "terminated"}
    /\ lcd' = [lcd EXCEPT !.listener = "off"]
    /\ UNCHANGED <<screens, lcd_client>>

\* ~filter_lcdproc()
LcdDelete == lcd' = [lcd EXCEPT !.stop = TRUE] /\ UNCHANGED <<screens, lcd_client>>

\* apply(): shows a screen, and is at the next one when the time has come.
LcdShow ==
    /\ LcdFree /\ ~lcd.stop
    /\ LET cur == IF lcd.cur >= Len(screens) THEN 0 ELSE lcd.cur IN
       lcd' \in {[lcd EXCEPT !.cur = cur]}
          \cup (IF screens = <<>> THEN {} ELSE {[lcd EXCEPT !.cur = (cur + 1) % Len(screens)]})
    /\ UNCHANGED <<screens, lcd_client>>

LcdNext ==
    \/ LcdPoll \/ LcdAccept \/ LcdJoined \/ LcdDelete \/ LcdShow
    \/ \E c \in LcdClients :
          \/ LcdRequest(c) \/ LcdCommand(c) \/ LcdOther(c) \/ WidgetReply(c)
          \/ LcdHangUp(c) \/ LcdLeave(c) \/ LcdRemove(c)

LcdSpec == LcdInit /\ [][LcdNext]_lcdVars

-----------------------------------------------------------------------------
(* Properties.                                                             *)

Behind(c) ==    \* a screen of c that comes after one with another id
    \E i \in DOMAIN screens : screens[i].fd = c /\ Head(screens).id # screens[i].id

\* The lock of the screens, which every picture of the source needs, is kept for
\* ever only by a command that threw, and by a search that does not end: for what
\* is not there or not at the front, which the end of a connection looks for too
\* when its screen is behind another one.  Otherwise the screens of a client go
\* with it, unless that took away one of another client with the same id; and no
\* thread outlives the filter.
LcdSound ==
    /\ \A c \in LcdClients :
          lcd.lock = c <=> lcd_client[c].at \in {"removing", "spinning"} \/ c \in lcd.threw
    /\ \A c \in LcdClients : LcdAt(c, "spinning") =>
          \/ \E id \in LcdScreens : ScreenLoops(id)
          \/ \E id \in LcdScreens, w \in LcdWidgets : WidgetLoops(id, w)
          \/ Behind(c)
    /\ ~lcd.lost =>
          \A i \in DOMAIN screens : lcd_client[screens[i].fd].at \notin {"none", "terminated"}
    /\ lcd.listener = "off" =>
          \A c \in LcdClients : lcd_client[c].at \in {"none", "terminated"}
=============================================================================
