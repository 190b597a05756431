------------------------------ MODULE Dashboards ------------------------------
(***************************************************************************)
(* The dashboards of a user: the pages that change one, the page that      *)
(* shows it and the full screen page, that asks each source for its size.  *)
(* Source: db.cpp, http_server.cpp.                                        *)
(*                                                                         *)
(* Every HTTP server has a connection to the database and a mutex for it;  *)
(* one step here is one statement.  The model is of one dashboard: the     *)
(* statements that change it all have "WHERE user=? AND name=?".           *)
(***************************************************************************)
EXTENDS Integers, FiniteSets

CONSTANTS
    DashTabs,       \* tabs of browsers
    DashServers,    \* HTTP servers
    DashServerOf,   \* by tab: the server it talks to
    DashIds,        \* sources and views that exist
    MaxDashRows     \* bound: rows ever entered (the code: no limit)

\* "none" is nobody: who holds a mutex that is free.
ASSUME DashAssumption ==
    /\ DashServerOf \in [DashTabs -> DashServers]
    /\ "none" \notin DashTabs
    /\ MaxDashRows \in Nat

VARIABLES
    dash,   \* the table, and the mutex of each connection
    tab     \* by tab: its request, the page it shows, the threads of that page

dashVars == <<dash, tab>>

\* The entry that add-dashboard makes.
Dummy == "--dummy--"
Entries == DashIds \cup {Dummy}

DashInit ==
    /\ dash = [rows |-> {}, next |-> 1, lock |-> [s \in DashServers |-> "none"]]
    /\ tab = [t \in DashTabs |-> [at |-> "idle", id |-> Dummy, page |-> {}, users |-> {},
                                  screens |-> 0]]

DashFree(t) == dash.lock[DashServerOf[t]] = "none"
DashHolds(t) == dash.lock[DashServerOf[t]] = t
Locked(t) == [dash EXCEPT !.lock[DashServerOf[t]] = t]
Unlocked(d, t) == [d EXCEPT !.lock[DashServerOf[t]] = "none"]

-----------------------------------------------------------------------------
(* Pages that change the dashboard.                                        *)

\* add-dashboard and add-to-dashboard: the type is no part of the question.
LookupAlways(t) == FALSE

Lookup(t) == \E r \in dash.rows : r.id = tab[t].id

AddRequest(t) ==
    /\ tab[t].at = "idle"
    /\ \E id \in Entries : tab' = [tab EXCEPT ![t].at = "asks", ![t].id = id]
    /\ UNCHANGED dash

Answered(t) == tab' = [tab EXCEPT ![t].at = "idle", ![t].id = Dummy, ![t].screens = 0]

\* An exception of a statement releases the mutex, and that is all.
DashException(t) ==
    /\ tab[t].at = "insert"
    /\ Answered(t)
    /\ dash' = Unlocked(dash, t)

AddLooksUp(t) ==
    /\ tab[t].at = "asks" /\ DashFree(t)
    /\ \/ /\ Lookup(t)
          /\ Answered(t)
          /\ UNCHANGED dash
       \/ /\ ~Lookup(t)
          /\ tab' = [tab EXCEPT ![t].at = "insert"]
          /\ dash' = Locked(t)

AddInserts(t) ==
    /\ tab[t].at = "insert" /\ dash.next <= MaxDashRows
    /\ Answered(t)
    /\ dash' = Unlocked([dash EXCEPT
                  !.rows = @ \cup {[nr |-> dash.next, id |-> tab[t].id,
                                    by |-> DashServerOf[t]]},
                  !.next = @ + 1], t)

\* remove-from-dashboard, for an entry of a page that may be old.
RemoveFrom(t) ==
    /\ tab[t].at = "idle" /\ DashFree(t)
    /\ \E e \in tab[t].page : dash' = [dash EXCEPT !.rows = {r \in @ : r.nr # e.nr}]
    /\ UNCHANGED tab

\* del-dashboard
RemoveDashboard(t) ==
    /\ tab[t].at = "idle" /\ DashFree(t)
    /\ dash' = [dash EXCEPT !.rows = {}]
    /\ UNCHANGED tab

-----------------------------------------------------------------------------
(* Pages that show it.                                                     *)

DashShown == {[nr |-> r.nr, id |-> r.id] : r \in dash.rows}

\* dashboard: an id that is not configured any more is shown as such (here: a
\* source like another), a placeholder is not shown.
SendDashboard(t) ==
    /\ tab[t].at = "idle" /\ DashFree(t)
    /\ tab' = [tab EXCEPT ![t].page = {e \in DashShown : e.id # Dummy}]
    /\ UNCHANGED dash

\* fs-db.html: a thread for each source and view.  "users" are the threads that
\* started theirs and wait for its size.
FullScreen(t) ==
    /\ tab[t].at = "idle" /\ DashFree(t)
    /\ LET entries == {e \in DashShown : e.id \in DashIds}
       IN tab' = [tab EXCEPT ![t].at = "fs", ![t].page = entries, ![t].users = entries,
                             ![t].screens = 0]
    /\ UNCHANGED dash

\* The size is known: it is added under value_locks, and the source is stopped.
FullScreenSize(t) ==
    /\ tab[t].at = "fs"
    /\ \E e \in tab[t].users : tab' = [tab EXCEPT ![t].users = @ \ {e},
                                                  ![t].screens = @ + 1]
    /\ UNCHANGED dash

\* All threads were joined.
FullScreenReady(t) ==
    /\ tab[t].at = "fs" /\ tab[t].users = {}
    /\ Answered(t)
    /\ UNCHANGED dash

-----------------------------------------------------------------------------
DashTab(t) ==
    \/ AddRequest(t) \/ AddLooksUp(t) \/ AddInserts(t) \/ DashException(t)
    \/ RemoveFrom(t) \/ RemoveDashboard(t) \/ SendDashboard(t)
    \/ FullScreen(t) \/ FullScreenSize(t) \/ FullScreenReady(t)

DashNext == \E t \in DashTabs : DashTab(t)

DashSpec == DashInit /\ [][DashNext]_dashVars

\* Through one server an id is entered once (two servers may both find it
\* missing, and both enter it).  The number behind a button of an old page never
\* denotes another entry.  The mutex belongs to who enters something; the size of
\* the full screen page counts each entry once.
DashboardEntries ==
    /\ \A r, q \in dash.rows : r.id = q.id /\ r.by = q.by => r = q
    /\ \A t \in DashTabs : \A e \in tab[t].page, r \in dash.rows : r.nr = e.nr => r.id = e.id
    /\ \A t \in DashTabs : DashHolds(t) <=> tab[t].at = "insert"
    /\ \A t \in DashTabs :
          tab[t].at = "fs" =>
             tab[t].screens + Cardinality(tab[t].users) = Cardinality(tab[t].page)
=============================================================================
