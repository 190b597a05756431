----------------------------- MODULE KeptProofs ------------------------------
(***************************************************************************)
(* Proofs about what the database keeps, and about what is made of the     *)
(* configuration: Archive, Dashboards and ConfigLoad.                      *)
(***************************************************************************)
EXTENDS Archive, Dashboards, ConfigLoad, FiniteSetTheorems, SequenceTheorems, TLAPS

-----------------------------------------------------------------------------
(***************************************************************************)
(* Archive: rows and files, for any number of events and files, whatever   *)
(* statement fails and whenever the process dies.                          *)
(*                                                                         *)
(* ArchiveKeepsFiles is not inductive: that a file has one row, and that   *)
(* what the cleaner holds are files of old rows only, is needed as well.   *)
(***************************************************************************)

EventRows == [nr : Nat, file : Nat, old : BOOLEAN]

ArchiveTypeOK ==
    /\ archive = [events |-> archive.events, ended |-> archive.ended, rows |-> archive.rows,
                  disk |-> archive.disk, lost |-> archive.lost]
    /\ archive.rows \in SUBSET EventRows
    /\ archive.disk \in SUBSET Nat
    /\ recording = [at |-> recording.at, event |-> recording.event, file |-> recording.file]
    /\ recording.at \in {"idle", "recording", "creating"}
    /\ recording.file \in Nat
    /\ cleaner \in [at : {"off", "select", "delete", "unlink"},
                    nrs : SUBSET Nat, files : SUBSET Nat]

\* A file has one row, with its number; files are numbered in order.
RowsNumbered ==
    /\ \A r \in archive.rows : r.nr = r.file /\ r.file <= recording.file
    /\ \A r, s \in archive.rows : r.file = s.file => r = s
    /\ \A file \in cleaner.files : file <= recording.file

\* The cleaner holds files of old rows only, and nothing between two rounds.
CleanerHoldsOld ==
    /\ cleaner.nrs \subseteq cleaner.files
    /\ cleaner.at = "unlink" => cleaner.nrs = {}
    /\ cleaner.at \in {"off", "select"} => cleaner.files = {}
    /\ \A r \in archive.rows : r.file \in cleaner.files => r.old

\* A file that is about to be made has a row, unless that could not be entered.
CreatingHasRow ==
    recording.at = "creating" =>
        \/ recording.file \in archive.lost
        \/ \E r \in archive.rows : r.file = recording.file /\ ~r.old

ArchiveInv ==
    ArchiveTypeOK /\ RowsNumbered /\ CleanerHoldsOld /\ CreatingHasRow /\ ArchiveKeepsFiles

USE DEF ArchiveTypeOK, EventRows, RowsNumbered, CleanerHoldsOld, CreatingHasRow,
        ArchiveKeepsFiles, RowFiles, StatementResults

LEMMA ArchiveInvInit == ArchiveInit => ArchiveInv
  BY DEF ArchiveInit, ArchiveInv

(* The motion trigger and its target leave the cleaner alone.              *)
LEMMA RegisterEventInv == ArchiveInv /\ RegisterEvent => ArchiveInv'
  <1> SUFFICES ASSUME ArchiveInv, RegisterEvent PROVE ArchiveInv'
    OBVIOUS
  <1>1. PICK nr :
          /\ recording' = [recording EXCEPT !.at = "recording", !.event = nr]
          /\ archive' = [archive EXCEPT !.events = @ \cup ({nr} \ {0})]
    BY DEF RegisterEvent
  <1>2. recording.at = "idle" /\ cleaner' = cleaner
    BY DEF RegisterEvent
  <1>3. /\ recording'.at = "recording" /\ recording'.file = recording.file
        /\ recording'.event = nr
    BY <1>1 DEF ArchiveInv
  <1>4. /\ archive'.rows = archive.rows /\ archive'.disk = archive.disk
        /\ archive'.lost = archive.lost /\ archive'.ended = archive.ended
        /\ archive'.events = archive.events \cup ({nr} \ {0})
    BY <1>1 DEF ArchiveInv
  <1>5. ArchiveTypeOK'
    <2>1. archive' = [events |-> archive'.events, ended |-> archive'.ended, rows |-> archive'.rows,
                      disk |-> archive'.disk, lost |-> archive'.lost]
      BY <1>1 DEF ArchiveInv
    <2>2. recording' = [at |-> recording'.at, event |-> recording'.event, file |-> recording'.file]
      BY <1>1 DEF ArchiveInv
    <2> QED
      BY <1>2, <1>3, <1>4, <2>1, <2>2 DEF ArchiveInv
  <1>6. RowsNumbered' /\ CleanerHoldsOld' /\ CreatingHasRow'
    BY <1>2, <1>3, <1>4 DEF ArchiveInv
  <1>7. ArchiveKeepsFiles'
    BY <1>2, <1>3, <1>4 DEF ArchiveInv
  <1> QED
    BY <1>5, <1>6, <1>7 DEF ArchiveInv

LEMMA RegisterFileInv == ArchiveInv /\ RegisterFile => ArchiveInv'
  <1> SUFFICES ASSUME ArchiveInv, RegisterFile PROVE ArchiveInv'
    OBVIOUS
  <1> DEFINE file == recording.file + 1
             row  == [nr |-> file, file |-> file, old |-> FALSE]
  <1>1. row \in EventRows /\ row.nr = file /\ row.file = file /\ ~row.old
    BY DEF ArchiveInv
  <1>2. /\ recording.at = "recording" /\ recording'.at = "creating"
        /\ recording' = [recording EXCEPT !.at = "creating", !.file = file]
        /\ recording'.file = file /\ recording'.event = recording.event
        /\ archive'.disk = archive.disk /\ archive'.events = archive.events
        /\ archive'.ended = archive.ended /\ cleaner' = cleaner
        /\ archive' = [events |-> archive'.events, ended |-> archive'.ended, rows |-> archive'.rows,
                       disk |-> archive'.disk, lost |-> archive'.lost]
        /\ \/ archive'.rows = archive.rows \cup {row} /\ archive'.lost = archive.lost
           \/ archive'.rows = archive.rows /\ archive'.lost = archive.lost \cup {file}
    <2>1. /\ recording.at = "recording" /\ cleaner' = cleaner
          /\ recording' = [recording EXCEPT !.at = "creating", !.file = file]
          /\ \/ archive' = [archive EXCEPT !.rows = @ \cup {row}]
             \/ archive' = [archive EXCEPT !.lost = @ \cup {file}]
      BY DEF RegisterFile
    <2> HIDE DEF row, file
    <2>2. /\ recording'.at = "creating" /\ recording'.file = file
          /\ recording'.event = recording.event
      BY <2>1 DEF ArchiveInv
    <2>3. CASE archive' = [archive EXCEPT !.rows = @ \cup {row}]
      BY <2>1, <2>2, <2>3 DEF ArchiveInv
    <2>4. CASE archive' = [archive EXCEPT !.lost = @ \cup {file}]
      BY <2>1, <2>2, <2>4 DEF ArchiveInv
    <2> QED
      BY <2>1, <2>3, <2>4
  <1> HIDE DEF row
  <1>3. ArchiveTypeOK'
    BY <1>1, <1>2 DEF ArchiveInv
  <1>4. RowsNumbered'
    BY <1>1, <1>2 DEF ArchiveInv
  <1>5. CleanerHoldsOld'
    BY <1>1, <1>2 DEF ArchiveInv
  <1>6. CreatingHasRow'
    BY <1>1, <1>2 DEF ArchiveInv
  <1>7. ArchiveKeepsFiles'
    BY <1>1, <1>2 DEF ArchiveInv
  <1> QED
    BY <1>3, <1>4, <1>5, <1>6, <1>7 DEF ArchiveInv

LEMMA CreateFileInv == ArchiveInv /\ CreateFile => ArchiveInv'
  <1> SUFFICES ASSUME ArchiveInv, CreateFile PROVE ArchiveInv'
    OBVIOUS
  <1>1. /\ recording.at = "creating" /\ recording' = [recording EXCEPT !.at = "recording"]
        /\ recording'.at = "recording" /\ recording'.file = recording.file
        /\ recording'.event = recording.event
        /\ archive'.disk = archive.disk \cup {recording.file} /\ archive'.rows = archive.rows
        /\ archive'.lost = archive.lost /\ archive'.events = archive.events
        /\ archive'.ended = archive.ended /\ cleaner' = cleaner
        /\ archive' = [events |-> archive'.events, ended |-> archive'.ended, rows |-> archive'.rows,
                       disk |-> archive'.disk, lost |-> archive'.lost]
    BY DEF CreateFile, ArchiveInv
  <1>2. ArchiveTypeOK'
    BY <1>1 DEF ArchiveInv
  <1>3. RowsNumbered'
    BY <1>1 DEF ArchiveInv
  <1>4. CleanerHoldsOld'
    BY <1>1 DEF ArchiveInv
  <1>5. CreatingHasRow'
    BY <1>1 DEF ArchiveInv
  <1>6. ArchiveKeepsFiles'
    BY <1>1 DEF ArchiveInv
  <1> QED
    BY <1>2, <1>3, <1>4, <1>5, <1>6 DEF ArchiveInv

LEMMA RegisterEventEndInv == ArchiveInv /\ RegisterEventEnd => ArchiveInv'
  <1> SUFFICES ASSUME ArchiveInv, RegisterEventEnd PROVE ArchiveInv'
    OBVIOUS
  <1>1. /\ recording.at = "recording" /\ recording'.at = "idle" /\ recording'.event = 0
        /\ recording' = [recording EXCEPT !.at = "idle", !.event = 0]
        /\ recording'.file = recording.file /\ cleaner' = cleaner
        /\ archive'.disk = archive.disk /\ archive'.rows = archive.rows
        /\ archive'.lost = archive.lost /\ archive'.events = archive.events
        /\ archive'.ended \subseteq archive.ended \cup ({recording.event} \ {0})
        /\ archive' = [events |-> archive'.events, ended |-> archive'.ended, rows |-> archive'.rows,
                       disk |-> archive'.disk, lost |-> archive'.lost]
    BY DEF RegisterEventEnd, ArchiveInv
  <1>2. ArchiveTypeOK'
    BY <1>1 DEF ArchiveInv
  <1>3. RowsNumbered'
    BY <1>1 DEF ArchiveInv
  <1>4. CleanerHoldsOld'
    BY <1>1 DEF ArchiveInv
  <1>5. CreatingHasRow'
    BY <1>1 DEF ArchiveInv
  <1>6. ArchiveKeepsFiles'
    BY <1>1 DEF ArchiveInv
  <1> QED
    BY <1>2, <1>3, <1>4, <1>5, <1>6 DEF ArchiveInv

(* The cleaner.                                                            *)
LEMMA CleanerStartInv == ArchiveInv /\ CleanerStart => ArchiveInv'
  BY DEF CleanerStart, ArchiveInv

(* What was selected are the rows that are old: none is both old and not.  *)
LEMMA PurgeSelectInv == ArchiveInv /\ PurgeSelect => ArchiveInv'
  BY DEF PurgeSelect, ArchiveInv

LEMMA PurgeRowInv == ArchiveInv /\ PurgeRow => ArchiveInv'
  <1> SUFFICES ASSUME ArchiveInv, PurgeRow PROVE ArchiveInv'
    OBVIOUS
  <1>1. PICK nr \in cleaner.nrs :
          /\ cleaner' = [cleaner EXCEPT !.nrs = @ \ {nr}]
          /\ archive' = [archive EXCEPT !.rows = {r \in @ : r.nr # nr}]
    BY DEF PurgeRow
  <1>2. /\ cleaner.at = "delete" /\ cleaner'.at = "delete"
        /\ cleaner'.nrs = cleaner.nrs \ {nr} /\ cleaner'.files = cleaner.files
        /\ cleaner' \in [at : {"off", "select", "delete", "unlink"},
                         nrs : SUBSET Nat, files : SUBSET Nat]
        /\ archive'.rows = {r \in archive.rows : r.nr # nr} /\ archive'.disk = archive.disk
        /\ archive'.lost = archive.lost /\ archive'.events = archive.events
        /\ archive'.ended = archive.ended /\ recording' = recording
        /\ archive' = [events |-> archive'.events, ended |-> archive'.ended, rows |-> archive'.rows,
                       disk |-> archive'.disk, lost |-> archive'.lost]
    BY <1>1 DEF PurgeRow, ArchiveInv
  <1>3. ArchiveTypeOK'
    BY <1>1, <1>2 DEF ArchiveInv
  <1>4. RowsNumbered'
    BY <1>1, <1>2 DEF ArchiveInv
  <1>5. CleanerHoldsOld'
    BY <1>1, <1>2 DEF ArchiveInv
  <1>6. CreatingHasRow'
    BY <1>1, <1>2 DEF ArchiveInv
  <1>7. ArchiveKeepsFiles'
    BY <1>1, <1>2 DEF ArchiveInv
  <1> QED
    BY <1>3, <1>4, <1>5, <1>6, <1>7 DEF ArchiveInv

LEMMA PurgeEndsInv == ArchiveInv /\ (PurgeException \/ PurgeReturns) => ArchiveInv'
  BY DEF PurgeException, PurgeFails, PurgeReturns, ArchiveInv

LEMMA UnlinkInv == ArchiveInv /\ Unlink => ArchiveInv'
  <1> SUFFICES ASSUME ArchiveInv, Unlink PROVE ArchiveInv'
    OBVIOUS
  <1>1. PICK file \in cleaner.files :
          /\ cleaner' = [cleaner EXCEPT !.files = @ \ {file}]
          /\ archive' = [archive EXCEPT !.disk = @ \ {file}]
    BY DEF Unlink
  <1>2. /\ cleaner.at = "unlink" /\ cleaner'.at = "unlink" /\ cleaner'.nrs = cleaner.nrs
        /\ cleaner'.files = cleaner.files \ {file} /\ recording' = recording
        /\ cleaner' \in [at : {"off", "select", "delete", "unlink"},
                         nrs : SUBSET Nat, files : SUBSET Nat]
    BY <1>1 DEF Unlink, ArchiveInv
  <1>3. /\ archive'.rows = archive.rows /\ archive'.disk = archive.disk \ {file}
        /\ archive'.lost = archive.lost /\ archive'.events = archive.events
        /\ archive'.ended = archive.ended
        /\ archive' = [events |-> archive'.events, ended |-> archive'.ended, rows |-> archive'.rows,
                       disk |-> archive'.disk, lost |-> archive'.lost]
    BY <1>1 DEF ArchiveInv
  <1>4. ArchiveTypeOK'
    BY <1>2, <1>3 DEF ArchiveInv
  <1>5. RowsNumbered' /\ CreatingHasRow'
    BY <1>2, <1>3 DEF ArchiveInv
  <1>6. CleanerHoldsOld'
    BY <1>2, <1>3 DEF ArchiveInv
  <1>7. \A r \in archive.rows : r.file = file => r.old
    BY DEF ArchiveInv
  <1>8. ArchiveKeepsFiles'
    BY <1>2, <1>3, <1>7 DEF ArchiveInv
  <1> QED
    BY <1>4, <1>5, <1>6, <1>8 DEF ArchiveInv

LEMMA CleanerSleepInv == ArchiveInv /\ CleanerSleep => ArchiveInv'
  BY DEF CleanerSleep, ArchiveInv

LEMMA AgesInv == ArchiveInv /\ Ages => ArchiveInv'
  <1> SUFFICES ASSUME ArchiveInv, Ages PROVE ArchiveInv'
    OBVIOUS
  <1>1. PICK r \in archive.rows :
          /\ ~r.old /\ ~(recording.at = "creating" /\ r.file = recording.file)
          /\ archive' = [archive EXCEPT !.rows = (@ \ {r}) \cup {[r EXCEPT !.old = TRUE]}]
    BY DEF Ages
  <1> DEFINE aged == [r EXCEPT !.old = TRUE]
  <1>2. /\ archive'.rows = (archive.rows \ {r}) \cup {aged} /\ archive'.disk = archive.disk
        /\ aged.nr = r.nr /\ aged.file = r.file /\ aged.old /\ aged \in EventRows
        /\ archive'.lost = archive.lost /\ archive'.events = archive.events
        /\ archive'.ended = archive.ended /\ recording' = recording /\ cleaner' = cleaner
        /\ archive' = [events |-> archive'.events, ended |-> archive'.ended, rows |-> archive'.rows,
                       disk |-> archive'.disk, lost |-> archive'.lost]
    <2>1. recording' = recording /\ cleaner' = cleaner
      BY DEF Ages
    <2>2. aged.nr = r.nr /\ aged.file = r.file /\ aged.old /\ aged \in EventRows
      BY DEF ArchiveInv
    <2> HIDE DEF aged
    <2>3. archive' = [archive EXCEPT !.rows = (@ \ {r}) \cup {aged}]
      BY <1>1 DEF aged
    <2> QED
      BY <2>1, <2>2, <2>3 DEF ArchiveInv
  <1> HIDE DEF aged
  <1>3. ArchiveTypeOK'
    BY <1>1, <1>2 DEF ArchiveInv
  <1>4. RowsNumbered'
    BY <1>1, <1>2 DEF ArchiveInv
  <1>5. CleanerHoldsOld'
    BY <1>1, <1>2 DEF ArchiveInv
  <1>6. CreatingHasRow'
    BY <1>1, <1>2 DEF ArchiveInv
  <1>7. ArchiveKeepsFiles'
    BY <1>1, <1>2 DEF ArchiveInv
  <1> QED
    BY <1>3, <1>4, <1>5, <1>6, <1>7 DEF ArchiveInv

LEMMA ArchiveRestartInv == ArchiveInv /\ ArchiveRestart => ArchiveInv'
  <1> SUFFICES ASSUME ArchiveInv, ArchiveRestart PROVE ArchiveInv'
    OBVIOUS
  <1>2. /\ recording'.at = "idle" /\ recording'.event = 0 /\ recording'.file = recording.file
        /\ recording' = [recording EXCEPT !.at = "idle", !.event = 0]
        /\ cleaner' = [at |-> "off", nrs |-> {}, files |-> {}]
        /\ archive'.disk = archive.disk /\ archive'.rows = archive.rows
        /\ archive'.lost = archive.lost \cup cleaner.files
             \cup (IF recording.at = "creating" THEN {recording.file} ELSE {})
        /\ archive'.events = archive.events /\ archive'.ended = archive.ended
        /\ archive' = [events |-> archive'.events, ended |-> archive'.ended, rows |-> archive'.rows,
                       disk |-> archive'.disk, lost |-> archive'.lost]
    BY DEF ArchiveRestart, ArchiveInv
  <1>3. ArchiveTypeOK'
    BY <1>2 DEF ArchiveInv
  <1>4. RowsNumbered'
    BY <1>2 DEF ArchiveInv
  <1>5. CleanerHoldsOld'
    BY <1>2 DEF ArchiveInv
  <1>6. CreatingHasRow'
    BY <1>2 DEF ArchiveInv
  <1>7. ArchiveKeepsFiles'
    BY <1>2 DEF ArchiveInv
  <1> QED
    BY <1>3, <1>4, <1>5, <1>6, <1>7 DEF ArchiveInv

-----------------------------------------------------------------------------
(* The inductive invariant, of every reachable state.                      *)
THEOREM ArchiveInvHolds == ArchiveSpec => []ArchiveInv
  <1>1. ArchiveInv /\ [ArchiveNext]_archiveVars => ArchiveInv'
    <2> SUFFICES ASSUME ArchiveInv, [ArchiveNext]_archiveVars PROVE ArchiveInv'
      OBVIOUS
    <2>1. CASE UNCHANGED archiveVars
      BY <2>1 DEF archiveVars, ArchiveInv
    <2> QED
      BY <2>1, RegisterEventInv, RegisterFileInv, CreateFileInv, RegisterEventEndInv,
         CleanerStartInv, PurgeSelectInv, PurgeRowInv, PurgeEndsInv, UnlinkInv,
         CleanerSleepInv, AgesInv, ArchiveRestartInv DEF ArchiveNext
  <1> QED
    BY <1>1, ArchiveInvInit, PTL DEF ArchiveSpec

(* No recording is forgotten, by the cleaner or by a statement that fails. *)
THEOREM ArchiveForgetsNothing == ArchiveSpec => []ArchiveKeepsFiles
  BY ArchiveInvHolds, PTL DEF ArchiveInv

-----------------------------------------------------------------------------
(***************************************************************************)
(* Dashboards: the entries and the pages that show them, for any set of    *)
(* tabs and of servers.                                                    *)
(*                                                                         *)
(* That a button of an old page denotes the entry it was made for needs    *)
(* that numbers are not given twice; that a server enters an id once, that *)
(* who looked for it keeps the mutex until it was entered.                 *)
(***************************************************************************)

DashRow == [nr : Nat, id : Entries, by : DashServers]
PageEntry == [nr : Nat, id : Entries]

TabStates == [at : {"idle", "asks", "insert", "fs"}, id : Entries, page : SUBSET PageEntry,
              users : SUBSET PageEntry, screens : Nat]

DashTypeOK ==
    /\ dash \in [rows : SUBSET DashRow, next : Nat, lock : [DashServers -> DashTabs \cup {"none"}]]
    /\ tab \in [DashTabs -> TabStates]

\* Threads for the size exist on the full screen page only, one for each entry of it
\* of which the size is not known yet.
Sized(s) ==
    /\ IsFiniteSet(s.page) /\ s.users \subseteq s.page
    /\ s.at # "fs" => s.users = {}
    /\ s.at = "fs" => s.screens + Cardinality(s.users) = Cardinality(s.page)

\* A number was given to one row, and those to come were given to none.
Numbered ==
    /\ IsFiniteSet(dash.rows)
    /\ \A r \in dash.rows : r.nr < dash.next
    /\ \A r, q \in dash.rows : r.nr = q.nr => r = q
    /\ \A t \in DashTabs : \A e \in tab[t].page : e.nr < dash.next

OncePerServer == \A r, q \in dash.rows : r.id = q.id /\ r.by = q.by => r = q

SameEntry ==
    \A t \in DashTabs : \A e \in tab[t].page, r \in dash.rows : r.nr = e.nr => r.id = e.id

\* Who is about to enter something has the mutex of its server, and what it enters
\* was not entered through that server.
EntersAlone ==
    /\ \A t \in DashTabs : DashHolds(t) <=> tab[t].at = "insert"
    /\ \A t \in DashTabs :
          tab[t].at = "insert" =>
             \A r \in dash.rows : r.id = tab[t].id => r.by # DashServerOf[t]

DashInv ==
    /\ DashTypeOK /\ Numbered /\ OncePerServer /\ SameEntry /\ EntersAlone
    /\ \A t \in DashTabs : Sized(tab[t])

-----------------------------------------------------------------------------
(* What a tab becomes leaves the others as they are.                       *)
LEMMA TabStep ==
    ASSUME DashInv, NEW t \in DashTabs, NEW new \in TabStates,
           tab' = [tab EXCEPT ![t] = new], Sized(new)
    PROVE  /\ tab' \in [DashTabs -> TabStates]
           /\ tab'[t] = new
           /\ \A u \in DashTabs : u # t => tab'[u] = tab[u]
           /\ \A u \in DashTabs : Sized(tab'[u])
  <1>1. tab \in [DashTabs -> TabStates] /\ \A u \in DashTabs : Sized(tab[u])
    BY DEF DashInv, DashTypeOK
  <1>2. /\ tab' \in [DashTabs -> TabStates] /\ tab'[t] = new
        /\ \A u \in DashTabs : u # t => tab'[u] = tab[u]
    BY <1>1
  <1> QED
    BY <1>1, <1>2

(* What is shown is what the rows say.                                     *)
LEMMA ShownRows ==
    ASSUME DashInv
    PROVE  /\ DashShown \subseteq PageEntry /\ IsFiniteSet(DashShown)
           /\ \A e \in DashShown : e.nr < dash.next
           /\ \A e \in DashShown, r \in dash.rows : r.nr = e.nr => r.id = e.id
  <1>1. /\ dash.rows \subseteq DashRow /\ dash.next \in Nat /\ IsFiniteSet(dash.rows)
        /\ \A r \in dash.rows : r.nr < dash.next
        /\ \A r, q \in dash.rows : r.nr = q.nr => r = q
    BY DEF DashInv, DashTypeOK, Numbered
  <1>2. IsFiniteSet(DashShown)
    <2> DEFINE f == [r \in dash.rows |-> [nr |-> r.nr, id |-> r.id]]
    <2>1. f \in [dash.rows -> DashShown]
      BY DEF DashShown
    <2>2. \A e \in DashShown : \E r \in dash.rows : f[r] = e
      BY DEF DashShown
    <2>3. f \in Surjection(dash.rows, DashShown)
      BY <2>1, <2>2 DEF Surjection
    <2> QED
      BY <1>1, <2>3, FS_Surjection
  <1>3. ASSUME NEW e \in DashShown
        PROVE  /\ e \in PageEntry /\ e.nr < dash.next
               /\ \A r \in dash.rows : r.nr = e.nr => r.id = e.id
    <2>1. PICK r \in dash.rows : e = [nr |-> r.nr, id |-> r.id]
      BY DEF DashShown
    <2>2. r \in DashRow /\ r.nr \in Nat /\ r.id \in Entries /\ r.nr < dash.next
      BY <1>1 DEF DashRow
    <2>3. e \in PageEntry /\ e.nr = r.nr /\ e.id = r.id
      BY <2>1, <2>2 DEF PageEntry
    <2>4. \A q \in dash.rows : q.nr = e.nr => q = r
      BY <1>1, <2>3
    <2> QED
      BY <2>2, <2>3, <2>4
  <1> QED
    BY <1>2, <1>3

(* A step of a tab that enters nothing, and shows what it showed or less,  *)
(* or what the rows say.                                                   *)
LEMMA QuietInv ==
    ASSUME DashInv, NEW t \in DashTabs, NEW new \in TabStates, UNCHANGED dash,
           tab' = [tab EXCEPT ![t] = new], Sized(new),
           tab[t].at # "insert", new.at # "insert",
           new.page \subseteq tab[t].page \cup DashShown
    PROVE  DashInv'
  <1>1. /\ tab' \in [DashTabs -> TabStates] /\ tab'[t] = new
        /\ \A u \in DashTabs : u # t => tab'[u] = tab[u]
        /\ \A u \in DashTabs : Sized(tab'[u])
    BY TabStep
  <1>2. DashTypeOK'
    BY <1>1 DEF DashInv, DashTypeOK
  <1>3. \A u \in DashTabs : \A e \in tab'[u].page :
           e.nr < dash.next /\ \A r \in dash.rows : r.nr = e.nr => r.id = e.id
    <2>1. \A u \in DashTabs : \A e \in tab[u].page :
             e.nr < dash.next /\ \A r \in dash.rows : r.nr = e.nr => r.id = e.id
      BY DEF DashInv, Numbered, SameEntry
    <2>2. \A e \in DashShown :
             e.nr < dash.next /\ \A r \in dash.rows : r.nr = e.nr => r.id = e.id
      BY ShownRows
    <2>3. \A e \in new.page : e \in tab[t].page \/ e \in DashShown
      OBVIOUS
    <2> QED
      BY <1>1, <2>1, <2>2, <2>3
  <1>4. Numbered'
    BY <1>3 DEF DashInv, Numbered
  <1>5. OncePerServer' /\ SameEntry'
    BY <1>3 DEF DashInv, OncePerServer, SameEntry
  <1>6. EntersAlone'
    <2>1. \A u \in DashTabs : (DashHolds(u) <=> DashHolds(u)')
      BY DEF DashHolds
    <2>2. \A u \in DashTabs : (tab'[u].at = "insert" <=> tab[u].at = "insert")
      BY <1>1
    <2>3. \A u \in DashTabs : tab'[u].at = "insert" => tab'[u] = tab[u]
      BY <1>1
    <2> QED
      BY <2>1, <2>2, <2>3 DEF DashInv, EntersAlone
  <1> QED
    BY <1>1, <1>2, <1>4, <1>5, <1>6 DEF DashInv

(* Rows are removed.                                                       *)
LEMMA FewerRowsInv ==
    ASSUME DashInv, NEW few \in SUBSET dash.rows, UNCHANGED tab,
           dash' = [dash EXCEPT !.rows = few]
    PROVE  DashInv'
  <1>1. /\ dash.rows \subseteq DashRow /\ dash.next \in Nat
        /\ dash.lock \in [DashServers -> DashTabs \cup {"none"}]
        /\ dash \in [rows : SUBSET DashRow, next : Nat,
                     lock : [DashServers -> DashTabs \cup {"none"}]]
    BY DEF DashInv, DashTypeOK
  <1>2. dash'.rows = few /\ dash'.next = dash.next /\ dash'.lock = dash.lock
    BY <1>1
  <1>3. few \subseteq DashRow
    BY <1>1
  <1>4. DashTypeOK'
    BY <1>1, <1>3 DEF DashInv, DashTypeOK
  <1>5. Numbered'
    <2>1. IsFiniteSet(few)
      BY FS_Subset DEF DashInv, Numbered
    <2> QED
      BY <1>2, <2>1 DEF DashInv, Numbered
  <1>6. OncePerServer' /\ SameEntry'
    BY <1>2 DEF DashInv, OncePerServer, SameEntry
  <1>7. EntersAlone'
    BY <1>2 DEF DashInv, EntersAlone, DashHolds
  <1>8. \A u \in DashTabs : Sized(tab'[u])
    BY DEF DashInv
  <1> QED
    BY <1>4, <1>5, <1>6, <1>7, <1>8 DEF DashInv

-----------------------------------------------------------------------------
LEMMA DashInvInit == DashInit => DashInv
  <1> SUFFICES ASSUME DashInit PROVE DashInv
    OBVIOUS
  <1>1. /\ dash.rows = {} /\ dash.next = 1 /\ \A s \in DashServers : dash.lock[s] = "none"
        /\ dash.lock \in [DashServers -> DashTabs \cup {"none"}]
    BY DEF DashInit
  <1>2. dash \in [rows : SUBSET DashRow, next : Nat, lock : [DashServers -> DashTabs \cup {"none"}]]
    BY DEF DashInit
  <1>3. /\ tab \in [DashTabs -> TabStates]
        /\ \A t \in DashTabs : tab[t].at = "idle" /\ tab[t].page = {} /\ tab[t].users = {}
    BY DEF DashInit, TabStates, Entries
  <1>4. DashTypeOK
    BY <1>2, <1>3 DEF DashTypeOK
  <1>5. Numbered
    BY <1>1, <1>3, FS_EmptySet DEF Numbered
  <1>6. OncePerServer /\ SameEntry
    BY <1>1, <1>3 DEF OncePerServer, SameEntry
  <1>7. EntersAlone
    BY <1>1, <1>3, DashAssumption DEF EntersAlone, DashHolds
  <1>8. \A t \in DashTabs : Sized(tab[t])
    BY <1>3, FS_EmptySet DEF Sized
  <1> QED
    BY <1>4, <1>5, <1>6, <1>7, <1>8 DEF DashInv

LEMMA AddRequestInv == ASSUME DashInv, NEW t \in DashTabs, AddRequest(t) PROVE DashInv'
  <1>1. PICK id \in Entries : tab' = [tab EXCEPT ![t].at = "asks", ![t].id = id]
    BY DEF AddRequest
  <1> DEFINE new == [tab[t] EXCEPT !.at = "asks", !.id = id]
  <1>2. tab[t].at = "idle" /\ UNCHANGED dash
    BY DEF AddRequest
  <1>3. tab \in [DashTabs -> TabStates] /\ tab[t] \in TabStates /\ Sized(tab[t])
    BY DEF DashInv, DashTypeOK
  <1>4. new \in TabStates /\ new.at = "asks" /\ new.page = tab[t].page /\ new.users = tab[t].users
    BY <1>3 DEF TabStates
  <1>5. Sized(new)
    BY <1>2, <1>3, <1>4 DEF Sized
  <1>6. tab' = [tab EXCEPT ![t] = new]
    BY <1>1, <1>3
  <1> HIDE DEF new
  <1> QED
    BY <1>2, <1>4, <1>5, <1>6, QuietInv

LEMMA AddLooksUpInv == ASSUME DashInv, NEW t \in DashTabs, AddLooksUp(t) PROVE DashInv'
  <1>1. tab[t].at = "asks" /\ DashFree(t)
    BY DEF AddLooksUp
  <1>2. tab \in [DashTabs -> TabStates] /\ tab[t] \in TabStates /\ Sized(tab[t])
    BY DEF DashInv, DashTypeOK
  <1>3. CASE Lookup(t) /\ Answered(t) /\ UNCHANGED dash
    <2> DEFINE new == [tab[t] EXCEPT !.at = "idle", !.id = Dummy, !.screens = 0]
    <2>1. /\ new \in TabStates /\ new.at = "idle"
          /\ new.page = tab[t].page /\ new.users = tab[t].users
      BY <1>2 DEF TabStates, Entries
    <2>2. Sized(new)
      BY <1>1, <1>2, <2>1 DEF Sized
    <2>3. tab' = [tab EXCEPT ![t] = new]
      BY <1>2, <1>3 DEF Answered
    <2> HIDE DEF new
    <2> QED
      BY <1>1, <1>3, <2>1, <2>2, <2>3, QuietInv
  <1>4. CASE ~Lookup(t) /\ tab' = [tab EXCEPT ![t].at = "insert"] /\ dash' = Locked(t)
    <2> DEFINE new == [tab[t] EXCEPT !.at = "insert"]
    <2>1. /\ new \in TabStates /\ new.at = "insert" /\ new.id = tab[t].id
          /\ new.page = tab[t].page /\ new.users = tab[t].users
      BY <1>2 DEF TabStates
    <2>2. Sized(new)
      BY <1>1, <1>2, <2>1 DEF Sized
    <2>3. tab' = [tab EXCEPT ![t] = new]
      BY <1>2, <1>4
    <2> HIDE DEF new
    <2>4. /\ tab' \in [DashTabs -> TabStates] /\ tab'[t] = new
          /\ \A u \in DashTabs : u # t => tab'[u] = tab[u]
          /\ \A u \in DashTabs : Sized(tab'[u])
      BY <2>1, <2>2, <2>3, TabStep
    <2>5. /\ dash \in [rows : SUBSET DashRow, next : Nat,
                       lock : [DashServers -> DashTabs \cup {"none"}]]
          /\ dash.lock \in [DashServers -> DashTabs \cup {"none"}]
          /\ DashServerOf[t] \in DashServers
      BY DashAssumption DEF DashInv, DashTypeOK
    <2>6. /\ dash'.rows = dash.rows /\ dash'.next = dash.next
          /\ dash'.lock = [dash.lock EXCEPT ![DashServerOf[t]] = t]
          /\ dash' \in [rows : SUBSET DashRow, next : Nat,
                        lock : [DashServers -> DashTabs \cup {"none"}]]
      BY <1>4, <2>5 DEF Locked
    <2>7. \A u \in DashTabs : tab'[u].page = tab[u].page
      BY <2>1, <2>4
    <2>8. DashTypeOK'
      BY <2>4, <2>6 DEF DashTypeOK
    <2>9. Numbered'
      BY <2>6, <2>7 DEF DashInv, Numbered
    <2>10. OncePerServer' /\ SameEntry'
      BY <2>6, <2>7 DEF DashInv, OncePerServer, SameEntry
    <2>11. EntersAlone'
      <3>1. ASSUME NEW u \in DashTabs, u # t
            PROVE  /\ DashHolds(u)' <=> tab'[u].at = "insert"
                   /\ tab'[u].at = "insert" =>
                        \A r \in dash'.rows : r.id = tab'[u].id => r.by # DashServerOf[u]
        <4>1. /\ DashHolds(u) <=> tab[u].at = "insert"
              /\ tab[u].at = "insert" =>
                    \A r \in dash.rows : r.id = tab[u].id => r.by # DashServerOf[u]
          BY DEF DashInv, EntersAlone
        <4>2. tab'[u] = tab[u]
          BY <2>4, <3>1
        <4>3. DashServerOf[u] = DashServerOf[t] => ~DashHolds(u) /\ ~DashHolds(u)'
          BY <1>1, <2>5, <2>6, <3>1, DashAssumption DEF DashHolds, DashFree
        <4>4. DashServerOf[u] # DashServerOf[t] => (DashHolds(u)' <=> DashHolds(u))
          BY <2>5, <2>6, DashAssumption DEF DashHolds
        <4> QED
          BY <2>6, <4>1, <4>2, <4>3, <4>4
      <3>2. /\ DashHolds(t)' /\ tab'[t].at = "insert"
            /\ \A r \in dash'.rows : r.id = tab'[t].id => r.by # DashServerOf[t]
        BY <1>4, <2>1, <2>4, <2>5, <2>6 DEF DashHolds, Lookup
      <3> QED
        BY <3>1, <3>2 DEF EntersAlone
    <2> QED
      BY <2>4, <2>8, <2>9, <2>10, <2>11 DEF DashInv
  <1> QED
    BY <1>3, <1>4 DEF AddLooksUp

(* The mutex is released, whatever was entered: no row or a new one.       *)
LEMMA EnteredInv ==
    ASSUME DashInv, NEW t \in DashTabs, tab[t].at = "insert", Answered(t),
           dash'.lock = [dash.lock EXCEPT ![DashServerOf[t]] = "none"],
           dash' \in [rows : SUBSET DashRow, next : Nat,
                      lock : [DashServers -> DashTabs \cup {"none"}]],
           \/ dash'.rows = dash.rows /\ dash'.next = dash.next
           \/ /\ dash'.rows = dash.rows \cup {[nr |-> dash.next, id |-> tab[t].id,
                                               by |-> DashServerOf[t]]}
              /\ dash'.next = dash.next + 1
    PROVE  DashInv'
  <1> DEFINE row == [nr |-> dash.next, id |-> tab[t].id, by |-> DashServerOf[t]]
             new == [tab[t] EXCEPT !.at = "idle", !.id = Dummy, !.screens = 0]
  <1>1. tab \in [DashTabs -> TabStates] /\ tab[t] \in TabStates /\ Sized(tab[t])
    BY DEF DashInv, DashTypeOK
  <1>2. /\ new \in TabStates /\ new.at = "idle"
        /\ new.page = tab[t].page /\ new.users = tab[t].users
    BY <1>1 DEF TabStates, Entries
  <1>3. Sized(new)
    BY <1>1, <1>2 DEF Sized
  <1>4. tab' = [tab EXCEPT ![t] = new]
    BY <1>1 DEF Answered
  <1>7. tab[t].at = "insert"
    OBVIOUS
  <1>5. row.nr = dash.next /\ row.id = tab[t].id /\ row.by = DashServerOf[t]
    OBVIOUS
  <1>6. \/ dash'.rows = dash.rows /\ dash'.next = dash.next
        \/ dash'.rows = dash.rows \cup {row} /\ dash'.next = dash.next + 1
    OBVIOUS
  <1> HIDE DEF new, row
  <1>8. /\ tab' \in [DashTabs -> TabStates] /\ tab'[t] = new
        /\ \A u \in DashTabs : u # t => tab'[u] = tab[u]
        /\ \A u \in DashTabs : Sized(tab'[u])
    BY <1>2, <1>3, <1>4, TabStep
  <1>9. DashTypeOK'
    BY <1>8 DEF DashTypeOK
  <1>10. \A u \in DashTabs : tab'[u].page = tab[u].page
    BY <1>2, <1>8
  <1>11. /\ dash.rows \subseteq DashRow /\ dash.next \in Nat
         /\ \A r \in dash.rows : r.nr \in Nat
         /\ dash.lock \in [DashServers -> DashTabs \cup {"none"}]
         /\ \A u \in DashTabs : \A e \in tab[u].page : e.nr \in Nat
    BY DEF DashInv, DashTypeOK, DashRow, TabStates, PageEntry
  <1>12. /\ \A r \in dash.rows : r.nr < dash.next
         /\ \A r, q \in dash.rows : r.nr = q.nr => r = q
         /\ \A u \in DashTabs : \A e \in tab[u].page : e.nr < dash.next
         /\ IsFiniteSet(dash.rows)
    BY DEF DashInv, Numbered
  <1>13. \A r \in dash'.rows : r \in dash.rows \/ r = row
    BY <1>6
  <1>14. dash'.next \in Nat /\ dash.next <= dash'.next /\ (row \in dash'.rows => dash.next < dash'.next)
    <2>1. row \notin dash.rows
      BY <1>5, <1>11, <1>12
    <2> QED
      BY <1>6, <1>11, <2>1
  <1>15. Numbered'
    <2>1. IsFiniteSet(dash'.rows)
      BY <1>6, <1>12, FS_AddElement
    <2>2. ASSUME NEW r \in dash'.rows PROVE r.nr < dash'.next
      BY <1>5, <1>11, <1>12, <1>13, <1>14
    <2>3. ASSUME NEW r \in dash'.rows, NEW q \in dash'.rows, r.nr = q.nr PROVE r = q
      <3>1. \A p \in dash.rows : p.nr # row.nr
        BY <1>5, <1>11, <1>12
      <3> QED
        BY <1>12, <1>13, <2>3, <3>1
    <2>4. ASSUME NEW u \in DashTabs, NEW e \in tab'[u].page PROVE e.nr < dash'.next
      <3>1. e \in tab[u].page
        BY <1>10
      <3> QED
        BY <1>11, <1>12, <1>14, <3>1
    <2> QED
      BY <2>1, <2>2, <2>3, <2>4 DEF Numbered
  <1>16. \A r \in dash.rows : r.id = row.id => r.by # row.by
    BY <1>5 DEF DashInv, EntersAlone
  <1>17. OncePerServer'
    <2>1. ASSUME NEW r \in dash'.rows, NEW q \in dash'.rows, r.id = q.id, r.by = q.by
          PROVE  r = q
      <3>1. r \in dash.rows /\ q \in dash.rows => r = q
        BY <2>1 DEF DashInv, OncePerServer
      <3> QED
        BY <1>13, <1>16, <2>1, <3>1
    <2> QED
      BY <2>1 DEF OncePerServer
  <1>18. SameEntry'
    <2>1. ASSUME NEW u \in DashTabs, NEW e \in tab'[u].page, NEW r \in dash'.rows, r.nr = e.nr
          PROVE  r.id = e.id
      <3>1. e \in tab[u].page /\ e.nr < dash.next /\ e.nr \in Nat
        BY <1>10, <1>11, <1>12
      <3>2. r # row
        BY <1>5, <1>11, <2>1, <3>1
      <3>3. r \in dash.rows
        BY <1>13, <3>2
      <3> QED
        BY <2>1, <3>1, <3>3 DEF DashInv, SameEntry
    <2> QED
      BY <2>1 DEF SameEntry
  <1>19. EntersAlone'
    <2>1. DashServerOf \in [DashTabs -> DashServers] /\ "none" \notin DashTabs
      BY DashAssumption
    <2>2. dash.lock[DashServerOf[t]] = t
      BY DEF DashInv, EntersAlone, DashHolds
    <2>3. ASSUME NEW u \in DashTabs, u # t
          PROVE  /\ DashHolds(u)' <=> tab'[u].at = "insert"
                 /\ tab'[u].at = "insert" =>
                      \A r \in dash'.rows : r.id = tab'[u].id => r.by # DashServerOf[u]
      <3>1. /\ DashHolds(u) <=> tab[u].at = "insert"
            /\ tab[u].at = "insert" =>
                  \A r \in dash.rows : r.id = tab[u].id => r.by # DashServerOf[u]
        BY DEF DashInv, EntersAlone
      <3>2. tab'[u] = tab[u]
        BY <1>8, <2>3
      <3>3. DashServerOf[u] = DashServerOf[t] => ~DashHolds(u) /\ ~DashHolds(u)'
        BY <1>11, <2>1, <2>2, <2>3 DEF DashHolds
      <3>4. DashServerOf[u] # DashServerOf[t] => (DashHolds(u)' <=> DashHolds(u)) /\ row.by # DashServerOf[u]
        BY <1>5, <1>11, <2>1 DEF DashHolds
      <3> QED
        BY <1>13, <3>1, <3>2, <3>3, <3>4
    <2>4. ~DashHolds(t)' /\ tab'[t].at # "insert"
      BY <1>2, <1>8, <1>11, <2>1 DEF DashHolds
    <2> QED
      BY <2>3, <2>4 DEF EntersAlone
  <1> QED
    BY <1>8, <1>9, <1>15, <1>17, <1>18, <1>19 DEF DashInv

LEMMA AddInsertsInv ==
    ASSUME DashInv, NEW t \in DashTabs, AddInserts(t) \/ DashException(t) PROVE DashInv'
  <1> DEFINE Dashes == [rows : SUBSET DashRow, next : Nat,
                        lock : [DashServers -> DashTabs \cup {"none"}]]
             row == [nr |-> dash.next, id |-> tab[t].id, by |-> DashServerOf[t]]
             free == [dash.lock EXCEPT ![DashServerOf[t]] = "none"]
  <1>1. /\ dash \in Dashes /\ dash.rows \subseteq DashRow /\ dash.next \in Nat
        /\ dash.lock \in [DashServers -> DashTabs \cup {"none"}]
    BY DEF DashInv, DashTypeOK
  <1>2. tab[t].id \in Entries /\ DashServerOf[t] \in DashServers
    BY DashAssumption DEF DashInv, DashTypeOK, TabStates
  <1>3. row \in DashRow
    BY <1>1, <1>2 DEF DashRow
  <1>4. free \in [DashServers -> DashTabs \cup {"none"}]
    BY <1>1
  <1>5. tab[t].at = "insert" /\ Answered(t)
    BY DEF AddInserts, DashException
  <1>6. CASE DashException(t)
    <2>1. dash' = [dash EXCEPT !.lock = free]
      BY <1>1, <1>6 DEF DashException, Unlocked
    <2> HIDE DEF free
    <2>2. dash' \in Dashes /\ dash'.lock = free /\ dash'.rows = dash.rows /\ dash'.next = dash.next
      BY <1>1, <1>4, <2>1
    <2> QED
      BY <1>5, <2>2, EnteredInv DEF free
  <1>7. CASE AddInserts(t)
    <2>1. dash' = [dash EXCEPT !.rows = dash.rows \cup {row}, !.next = dash.next + 1, !.lock = free]
      BY <1>1, <1>7 DEF AddInserts, Unlocked
    <2> HIDE DEF free, row
    <2>2. dash.rows \cup {row} \in SUBSET DashRow /\ dash.next + 1 \in Nat
      BY <1>1, <1>3
    <2>3. /\ dash' \in Dashes /\ dash'.lock = free
          /\ dash'.rows = dash.rows \cup {row} /\ dash'.next = dash.next + 1
      BY <1>1, <1>4, <2>1, <2>2
    <2> QED
      BY <1>5, <2>3, EnteredInv DEF free, row
  <1> QED
    BY <1>6, <1>7

LEMMA RemoveInv ==
    ASSUME DashInv, NEW t \in DashTabs, RemoveFrom(t) \/ RemoveDashboard(t) PROVE DashInv'
  <1>1. CASE RemoveFrom(t)
    <2>1. PICK e \in tab[t].page : dash' = [dash EXCEPT !.rows = {r \in @ : r.nr # e.nr}]
      BY <1>1 DEF RemoveFrom
    <2> DEFINE few == {r \in dash.rows : r.nr # e.nr}
    <2>2. few \in SUBSET dash.rows /\ dash' = [dash EXCEPT !.rows = few]
      BY <2>1
    <2> HIDE DEF few
    <2> QED
      BY <1>1, <2>2, FewerRowsInv DEF RemoveFrom
  <1>2. CASE RemoveDashboard(t)
    <2>1. {} \in SUBSET dash.rows
      OBVIOUS
    <2> QED
      BY <1>2, <2>1, FewerRowsInv DEF RemoveDashboard
  <1> QED
    BY <1>1, <1>2

LEMMA SendDashboardInv == ASSUME DashInv, NEW t \in DashTabs, SendDashboard(t) PROVE DashInv'
  <1> DEFINE entries == {e \in DashShown : e.id # Dummy}
             new == [tab[t] EXCEPT !.page = entries]
  <1>1. tab[t].at = "idle" /\ UNCHANGED dash
    BY DEF SendDashboard
  <1>2. tab \in [DashTabs -> TabStates] /\ tab[t] \in TabStates /\ Sized(tab[t])
    BY DEF DashInv, DashTypeOK
  <1>3. tab' = [tab EXCEPT ![t] = new]
    BY <1>2 DEF SendDashboard
  <1>4. entries \subseteq DashShown /\ entries \subseteq PageEntry /\ IsFiniteSet(entries)
    BY ShownRows, FS_Subset
  <1> HIDE DEF entries
  <1>5. /\ new \in TabStates /\ new.at = "idle" /\ new.page = entries /\ new.users = tab[t].users
    BY <1>1, <1>2, <1>4 DEF TabStates
  <1> HIDE DEF new
  <1>6. tab[t].users = {}
    BY <1>1, <1>2 DEF Sized
  <1>7. Sized(new)
    BY <1>4, <1>5, <1>6 DEF Sized
  <1>8. new.page \subseteq tab[t].page \cup DashShown /\ tab[t].at # "insert" /\ new.at # "insert"
    BY <1>1, <1>4, <1>5
  <1> QED
    BY <1>1, <1>3, <1>5, <1>7, <1>8, QuietInv

LEMMA FullScreenInv == ASSUME DashInv, NEW t \in DashTabs, FullScreen(t) PROVE DashInv'
  <1> DEFINE entries == {e \in DashShown : e.id \in DashIds}
             new == [tab[t] EXCEPT !.at = "fs", !.page = entries, !.users = entries, !.screens = 0]
  <1>1. tab[t].at = "idle" /\ UNCHANGED dash
    BY DEF FullScreen
  <1>2. tab \in [DashTabs -> TabStates] /\ tab[t] \in TabStates
    BY DEF DashInv, DashTypeOK
  <1>3. tab' = [tab EXCEPT ![t] = new]
    BY <1>2 DEF FullScreen
  <1>4. entries \subseteq DashShown /\ entries \subseteq PageEntry /\ IsFiniteSet(entries)
    BY ShownRows, FS_Subset
  <1>5. Cardinality(entries) \in Nat
    BY <1>4, FS_CardinalityType
  <1> HIDE DEF entries
  <1>6. /\ new \in TabStates /\ new.at = "fs" /\ new.page = entries /\ new.users = entries
        /\ new.screens = 0
    BY <1>2, <1>4 DEF TabStates
  <1> HIDE DEF new
  <1>7. Sized(new)
    <2>1. 0 + Cardinality(entries) = Cardinality(entries)
      BY <1>5
    <2> QED
      BY <1>4, <1>6, <2>1 DEF Sized
  <1>8. new.page \subseteq tab[t].page \cup DashShown /\ tab[t].at # "insert" /\ new.at # "insert"
    BY <1>1, <1>4, <1>6
  <1> QED
    BY <1>1, <1>3, <1>6, <1>7, <1>8, QuietInv

LEMMA FullScreenSizeInv == ASSUME DashInv, NEW t \in DashTabs, FullScreenSize(t) PROVE DashInv'
  <1>1. tab[t].at = "fs" /\ UNCHANGED dash
    BY DEF FullScreenSize
  <1>2. PICK e \in tab[t].users :
           tab' = [tab EXCEPT ![t].users = @ \ {e}, ![t].screens = @ + 1]
    BY DEF FullScreenSize
  <1> DEFINE users == tab[t].users \ {e}
             new == [tab[t] EXCEPT !.users = users, !.screens = tab[t].screens + 1]
  <1>3. /\ tab \in [DashTabs -> TabStates] /\ tab[t] \in TabStates /\ Sized(tab[t])
        /\ tab[t].screens \in Nat /\ tab[t].users \in SUBSET PageEntry
    BY DEF DashInv, DashTypeOK, TabStates
  <1>4. tab' = [tab EXCEPT ![t] = new]
    BY <1>2, <1>3
  <1>5. users \in SUBSET PageEntry /\ users \subseteq tab[t].users
    BY <1>3
  <1>6. /\ IsFiniteSet(tab[t].users) /\ IsFiniteSet(users)
        /\ Cardinality(users) = Cardinality(tab[t].users) - 1
        /\ Cardinality(tab[t].users) \in Nat
    <2>1. IsFiniteSet(tab[t].users)
      BY <1>3, FS_Subset DEF Sized
    <2> QED
      BY <1>2, <2>1, FS_RemoveElement, FS_CardinalityType
  <1> HIDE DEF users
  <1>7. tab[t].screens + 1 \in Nat
    BY <1>3
  <1>8. /\ new \in TabStates /\ new.at = tab[t].at /\ new.page = tab[t].page
        /\ new.users = users /\ new.screens = tab[t].screens + 1
    BY <1>3, <1>5, <1>7 DEF TabStates
  <1> HIDE DEF new
  <1>9. Sized(new)
    <2>1. tab[t].screens + Cardinality(tab[t].users) = Cardinality(tab[t].page)
      BY <1>1, <1>3 DEF Sized
    <2>2. (tab[t].screens + 1) + (Cardinality(tab[t].users) - 1)
             = tab[t].screens + Cardinality(tab[t].users)
      BY <1>3, <1>6
    <2>3. new.screens + Cardinality(new.users) = Cardinality(new.page)
      BY <1>6, <1>8, <2>1, <2>2
    <2>4. IsFiniteSet(new.page) /\ new.users \subseteq new.page /\ new.at = "fs"
      BY <1>1, <1>3, <1>5, <1>8 DEF Sized
    <2> QED
      BY <2>3, <2>4 DEF Sized
  <1>10. new.page \subseteq tab[t].page \cup DashShown /\ tab[t].at # "insert" /\ new.at # "insert"
    BY <1>1, <1>8
  <1> QED
    BY <1>1, <1>4, <1>8, <1>9, <1>10, QuietInv

LEMMA FullScreenReadyInv == ASSUME DashInv, NEW t \in DashTabs, FullScreenReady(t) PROVE DashInv'
  <1> DEFINE new == [tab[t] EXCEPT !.at = "idle", !.id = Dummy, !.screens = 0]
  <1>1. tab[t].at = "fs" /\ tab[t].users = {} /\ UNCHANGED dash
    BY DEF FullScreenReady
  <1>2. tab \in [DashTabs -> TabStates] /\ tab[t] \in TabStates /\ Sized(tab[t])
    BY DEF DashInv, DashTypeOK
  <1>3. tab' = [tab EXCEPT ![t] = new]
    BY <1>2 DEF FullScreenReady, Answered
  <1>4. /\ new \in TabStates /\ new.at = "idle"
        /\ new.page = tab[t].page /\ new.users = tab[t].users
    BY <1>2 DEF TabStates, Entries
  <1> HIDE DEF new
  <1>5. Sized(new)
    BY <1>1, <1>2, <1>4 DEF Sized
  <1>6. new.page \subseteq tab[t].page \cup DashShown /\ tab[t].at # "insert" /\ new.at # "insert"
    BY <1>1, <1>4
  <1> QED
    BY <1>1, <1>3, <1>4, <1>5, <1>6, QuietInv

LEMMA DashStutterInv == DashInv /\ UNCHANGED dashVars => DashInv'
  <1> SUFFICES ASSUME DashInv, UNCHANGED dashVars PROVE DashInv'
    OBVIOUS
  <1>1. UNCHANGED <<dash, tab>>
    BY DEF dashVars
  <1>2. DashTypeOK' /\ Numbered'
    BY <1>1 DEF DashInv, DashTypeOK, Numbered
  <1>3. OncePerServer' /\ SameEntry'
    BY <1>1 DEF DashInv, OncePerServer, SameEntry
  <1>4. EntersAlone'
    BY <1>1 DEF DashInv, EntersAlone, DashHolds
  <1>5. \A t \in DashTabs : Sized(tab'[t])
    BY <1>1 DEF DashInv
  <1> QED
    BY <1>2, <1>3, <1>4, <1>5 DEF DashInv

(* A number was given to one entry, the mutex belongs to who enters, and   *)
(* each entry of a full screen page has a thread or a size.                *)
THEOREM DashInvHolds == DashSpec => []DashInv
  <1>1. DashInit => DashInv
    BY DashInvInit
  <1>2. DashInv /\ [DashNext]_dashVars => DashInv'
    <2> SUFFICES ASSUME DashInv, [DashNext]_dashVars PROVE DashInv'
      OBVIOUS
    <2>1. CASE UNCHANGED dashVars
      BY <2>1, DashStutterInv
    <2>2. ASSUME NEW t \in DashTabs, DashTab(t) PROVE DashInv'
      <3>1. CASE AddRequest(t)
        BY <3>1, AddRequestInv
      <3>2. CASE AddLooksUp(t)
        BY <3>2, AddLooksUpInv
      <3>3. CASE AddInserts(t) \/ DashException(t)
        BY <3>3, AddInsertsInv
      <3>4. CASE RemoveFrom(t) \/ RemoveDashboard(t)
        BY <3>4, RemoveInv
      <3>5. CASE SendDashboard(t)
        BY <3>5, SendDashboardInv
      <3>6. CASE FullScreen(t)
        BY <3>6, FullScreenInv
      <3>7. CASE FullScreenSize(t)
        BY <3>7, FullScreenSizeInv
      <3>8. CASE FullScreenReady(t)
        BY <3>8, FullScreenReadyInv
      <3> QED
        BY <2>2, <3>1, <3>2, <3>3, <3>4, <3>5, <3>6, <3>7, <3>8 DEF DashTab
    <2> QED
      BY <2>1, <2>2 DEF DashNext
  <1> QED
    BY <1>1, <1>2, PTL DEF DashSpec

(* However the tabs of any number of servers interleave: an id is entered  *)
(* once through one server, the button of an old page removes the entry it *)
(* was made for or none, and the full screen page counts each entry once.  *)
THEOREM DashboardEntriesHold == DashSpec => []DashboardEntries
  <1>1. DashInv => DashboardEntries
    <2> SUFFICES ASSUME DashInv PROVE DashboardEntries
      OBVIOUS
    <2>1. OncePerServer /\ SameEntry /\ EntersAlone
      BY DEF DashInv
    <2>2. \A t \in DashTabs :
             tab[t].at = "fs" =>
                tab[t].screens + Cardinality(tab[t].users) = Cardinality(tab[t].page)
      BY DEF DashInv, Sized
    <2> QED
      BY <2>1, <2>2 DEF OncePerServer, SameEntry, EntersAlone, DashboardEntries
  <1> QED
    BY <1>1, DashInvHolds, PTL

-----------------------------------------------------------------------------
(***************************************************************************)
(* ConfigLoad: the modules that are made at the start, for any file.       *)
(*                                                                         *)
(* That a module refers only to what was made before needs numbers that    *)
(* are given once, and that an instance has its source before all else;    *)
(* that no trigger follows its own instance needs that this is entered in  *)
(* the list only after its triggers, and what the others are called.       *)
(***************************************************************************)

ConfigKinds == {"source", "http", "loopback", "target", "generic", "linked", "audio", "view",
                "global"}
InstancePlaces == {"http", "loopback", "trigger", "motion", "audio", "targets", "end"}
ConfigPlaces ==
    InstancePlaces \cup {"root", "instance", "refused", "exit", "view", "null pointer",
                        "views end", "global", "check", "loaded"}
AllNames == {ConfigNames[i] : i \in DOMAIN ConfigNames} \cup {"none", "new", "views", "nobody"}

ConfigModules == [kind : ConfigKinds, made : Nat, refers : SUBSET Nat, asked : AllNames]
ConfigInstances == [name : AllNames, modules : SUBSET ConfigModules]
ConfigStates ==
    [at : ConfigPlaces, locked : BOOLEAN, section : Nat, made : Nat, instances : Seq(ConfigInstances),
     current : ConfigInstances, inner : SUBSET ConfigModules, global : SUBSET ConfigModules]

\* What is in the lists of l, and all that was made.
ListedIn(l) == UNION {l.instances[i].modules : i \in DOMAIN l.instances}
AllIn(l) == ListedIn(l) \cup l.current.modules \cup l.inner \cup l.global

\* Each number up to k is given once at most, and refers to given ones.
MadeInOrder(S, k) ==
    /\ S \subseteq ConfigModules /\ k \in Nat
    /\ \A m \in S : m.made <= k /\ \A r \in m.refers : r < m.made /\ \E n \in S : n.made = r
    /\ \A m, n \in S : m.made = n.made => m = n

\* Nothing is in two lists.
Apart(l) ==
    /\ \A i, j \in DOMAIN l.instances :
          i # j => l.instances[i].modules \cap l.instances[j].modules = {}
    /\ \A i \in DOMAIN l.instances :
          l.instances[i].modules \cap (l.current.modules \cup l.inner \cup l.global) = {}
    /\ l.current.modules \cap (l.inner \cup l.global) = {}

FollowsOthers(inst) == \A m \in inst.modules : m.kind = "linked" => m.asked # inst.name

Kept(l) ==
    /\ l \in ConfigStates /\ MadeInOrder(AllIn(l), l.made) /\ Apart(l)
    /\ \A i \in DOMAIN l.instances : FollowsOthers(l.instances[i])
    /\ FollowsOthers(l.current)

\* While an instance is read it has its source, and those before it other names.
NamesUpTo(l, n) ==
    \A i \in DOMAIN l.instances :
       l.instances[i].name = "new" \/ \E j \in 1..n : l.instances[i].name = ConfigNames[j]

InPlace(l) ==
    /\ l.at \in {"root", "instance"} => l.current.modules = {} /\ NamesUpTo(l, l.section)
    /\ l.at \in InstancePlaces =>
          /\ Sources(l.current.modules) # {} /\ NamesUpTo(l, l.section - 1)
          /\ l.section \in DOMAIN ConfigNames /\ l.current.name = ConfigNames[l.section]

ConfigInv == Kept(load) /\ InPlace(load)

Refers(m, l) == \A r \in m.refers : \E n \in AllIn(l) : n.made = r

-----------------------------------------------------------------------------

LEMMA StateFields ==
    ASSUME NEW l \in ConfigStates
    PROVE  /\ l.at \in ConfigPlaces /\ l.section \in Nat /\ l.made \in Nat
           /\ l.instances \in Seq(ConfigInstances) /\ l.current \in ConfigInstances
           /\ l.inner \subseteq ConfigModules /\ l.global \subseteq ConfigModules
           /\ l.current.name \in AllNames /\ l.current.modules \subseteq ConfigModules
           /\ DOMAIN l.instances = 1..Len(l.instances) /\ Len(l.instances) \in Nat
           /\ \A i \in DOMAIN l.instances :
                 l.instances[i] \in ConfigInstances /\ l.instances[i].modules \subseteq ConfigModules
<1>1. /\ l.at \in ConfigPlaces /\ l.section \in Nat /\ l.made \in Nat
      /\ l.instances \in Seq(ConfigInstances) /\ l.current \in ConfigInstances
      /\ l.inner \subseteq ConfigModules /\ l.global \subseteq ConfigModules
    BY DEF ConfigStates
<1>2. l.current.name \in AllNames /\ l.current.modules \subseteq ConfigModules
    BY <1>1 DEF ConfigInstances
<1>3. DOMAIN l.instances = 1..Len(l.instances) /\ Len(l.instances) \in Nat
    BY <1>1
<1>4. \A i \in DOMAIN l.instances : l.instances[i] \in ConfigInstances
    BY <1>1, <1>3, ElementOfSeq
<1>5. \A i \in DOMAIN l.instances : l.instances[i].modules \subseteq ConfigModules
    BY <1>4 DEF ConfigInstances
<1> QED
    BY <1>1, <1>2, <1>3, <1>4, <1>5

LEMMA ListIsLonger ==
    ASSUME NEW l \in ConfigStates, NEW inst \in ConfigInstances,
           NEW k, k.instances = Append(l.instances, inst)
    PROVE  /\ DOMAIN k.instances = 1..(Len(l.instances) + 1)
           /\ k.instances[Len(l.instances) + 1] = inst
           /\ \A i \in DOMAIN l.instances : k.instances[i] = l.instances[i]
           /\ \A i \in DOMAIN k.instances : i \in DOMAIN l.instances \/ i = Len(l.instances) + 1
           /\ ListedIn(k) = ListedIn(l) \cup inst.modules
<1> DEFINE s == l.instances
           t == Append(s, inst)
<1>0. s \in Seq(ConfigInstances) /\ DOMAIN s = 1..Len(s) /\ Len(s) \in Nat
    BY StateFields
<1>1. /\ t \in Seq(ConfigInstances) /\ Len(t) = Len(s) + 1
      /\ \A i \in 1..Len(s) : t[i] = s[i]
      /\ t[Len(s) + 1] = inst
    BY <1>0, AppendProperties
<1>2. DOMAIN t = 1..(Len(s) + 1)
    BY <1>1
<1>3. k.instances = t
    OBVIOUS
<1> HIDE DEF t
<1>4. \A i \in DOMAIN t : i \in DOMAIN s \/ i = Len(s) + 1
    BY <1>0, <1>2
<1>5. \A i \in DOMAIN s : t[i] = s[i] /\ i \in DOMAIN t
    BY <1>0, <1>1, <1>2
<1>6. ListedIn(k) = ListedIn(l) \cup inst.modules
    <2> DEFINE n == Len(s) + 1
    <2>1. n \in DOMAIN t /\ t[n] = inst
        BY <1>0, <1>1, <1>2
    <2>2. \A i \in DOMAIN t : i \in DOMAIN s \/ i = n
        BY <1>4
    <2> HIDE DEF n
    <2> QED
        BY <1>3, <1>5, <2>1, <2>2 DEF ListedIn
<1> QED
    BY <1>0, <1>1, <1>2, <1>3, <1>4, <1>5, <1>6

\* The next number.
LEMMA NextInOrder ==
    ASSUME NEW S, NEW k, MadeInOrder(S, k), NEW m \in ConfigModules, m.made = k + 1,
           \A r \in m.refers : \E n \in S : n.made = r
    PROVE  MadeInOrder(S \cup {m}, k + 1) /\ m \notin S
<1>1. k \in Nat /\ S \subseteq ConfigModules /\ k + 1 \in Nat /\ m.made \in Nat
    BY DEF MadeInOrder, ConfigModules
<1>2. \A n \in S : n.made \in Nat /\ n.made <= k
    BY <1>1 DEF MadeInOrder, ConfigModules
<1>3. \A n \in S : n.made < m.made /\ n.made <= k + 1
    BY <1>1, <1>2
<1>4. \A r \in m.refers : r < m.made
    BY <1>3
<1>5. \A n \in S : n.made # m.made
    BY <1>2, <1>3, <1>1
<1>6. \A n \in S \cup {m} : n.made <= k + 1
    BY <1>1, <1>3
<1>7. \A n \in S \cup {m} : \A r \in n.refers : r < n.made /\ \E o \in S \cup {m} : o.made = r
    BY <1>4 DEF MadeInOrder
<1>8. \A n, o \in S \cup {m} : n.made = o.made => n = o
    BY <1>5 DEF MadeInOrder
<1> QED
    BY <1>1, <1>5, <1>6, <1>7, <1>8 DEF MadeInOrder

LEMMA SameLists ==
    ASSUME NEW l, Kept(l), NEW k \in ConfigStates, k.instances = l.instances,
           k.current = l.current, k.inner = l.inner, k.global = l.global, k.made = l.made
    PROVE  Kept(k)
BY DEF Kept, AllIn, ListedIn, Apart

\* A module of the current instance.
LEMMA InCurrent ==
    ASSUME NEW l, Kept(l), NEW k \in ConfigStates,
           NEW m \in ConfigModules, m.made = l.made + 1, Refers(m, l),
           k.instances = l.instances, k.inner = l.inner, k.global = l.global, k.made = l.made + 1,
           k.current.modules = l.current.modules \cup {m},
           k.current.name = l.current.name \/ l.current.modules = {},
           m.kind = "linked" => m.asked # k.current.name
    PROVE  Kept(k)
<1>1. MadeInOrder(AllIn(l) \cup {m}, l.made + 1) /\ m \notin AllIn(l)
    BY NextInOrder DEF Kept, Refers
<1>2. AllIn(k) = AllIn(l) \cup {m}
    BY DEF AllIn, ListedIn
<1>3. MadeInOrder(AllIn(k), k.made)
    BY <1>1, <1>2
<1>4. Apart(k)
    <2>1. \A i \in DOMAIN l.instances : m \notin l.instances[i].modules
        BY <1>1 DEF AllIn, ListedIn
    <2>2. m \notin l.inner /\ m \notin l.global
        BY <1>1 DEF AllIn
    <2> QED
        BY <2>1, <2>2 DEF Kept, Apart
<1>5. FollowsOthers(k.current)
    BY DEF Kept, FollowsOthers
<1> QED
    BY <1>3, <1>4, <1>5 DEF Kept

\* One that is in no instance.
LEMMA InNoInstance ==
    ASSUME NEW l, Kept(l), NEW k \in ConfigStates,
           NEW m \in ConfigModules, m.made = l.made + 1, Refers(m, l),
           k.instances = l.instances, k.current = l.current, k.made = l.made + 1,
           k.inner \cup k.global = l.inner \cup l.global \cup {m}
    PROVE  Kept(k)
<1>1. MadeInOrder(AllIn(l) \cup {m}, l.made + 1) /\ m \notin AllIn(l)
    BY NextInOrder DEF Kept, Refers
<1>2. AllIn(k) = AllIn(l) \cup {m}
    BY DEF AllIn, ListedIn
<1>3. MadeInOrder(AllIn(k), k.made)
    BY <1>1, <1>2
<1>4. Apart(k)
    <2>1. \A i \in DOMAIN l.instances : m \notin l.instances[i].modules
        BY <1>1 DEF AllIn, ListedIn
    <2>2. m \notin l.current.modules
        BY <1>1 DEF AllIn
    <2> QED
        BY <2>1, <2>2 DEF Kept, Apart
<1> QED
    BY <1>3, <1>4 DEF Kept

\* One in an instance of its own.
LEMMA InNewInstance ==
    ASSUME NEW l, Kept(l), NEW k \in ConfigStates,
           NEW m \in ConfigModules, m.made = l.made + 1, Refers(m, l), m.kind # "linked",
           NEW inst \in ConfigInstances, inst.modules = {m},
           k.instances = Append(l.instances, inst), k.current = l.current,
           k.made = l.made + 1, k.inner = l.inner, k.global = l.global
    PROVE  Kept(k)
<1>0. l \in ConfigStates
    BY DEF Kept
<1>1. MadeInOrder(AllIn(l) \cup {m}, l.made + 1) /\ m \notin AllIn(l)
    BY NextInOrder DEF Kept, Refers
<1>2. AllIn(k) = AllIn(l) \cup {m}
    BY <1>0, ListIsLonger DEF AllIn
<1>3. MadeInOrder(AllIn(k), k.made)
    BY <1>1, <1>2
<1> DEFINE n == Len(l.instances) + 1
<1>4. /\ \A i \in DOMAIN k.instances : i \in DOMAIN l.instances \/ i = n
      /\ \A i \in DOMAIN l.instances : k.instances[i] = l.instances[i]
      /\ k.instances[n] = inst
    BY <1>0, ListIsLonger
<1> HIDE DEF n
<1>5. /\ \A i \in DOMAIN l.instances : m \notin l.instances[i].modules
      /\ m \notin l.current.modules /\ m \notin l.inner /\ m \notin l.global
    BY <1>1 DEF AllIn, ListedIn
<1>6. Apart(k)
    BY <1>4, <1>5 DEF Kept, Apart
<1>7. \A i \in DOMAIN k.instances : FollowsOthers(k.instances[i])
    BY <1>4 DEF Kept, FollowsOthers
<1> QED
    BY <1>3, <1>6, <1>7 DEF Kept

\* What is current becomes one of the instances.
LEMMA CurrentIsListed ==
    ASSUME NEW l, Kept(l), NEW k \in ConfigStates,
           k.instances = Append(l.instances, l.current), k.current.modules = {},
           k.made = l.made, k.inner = l.inner, k.global = l.global
    PROVE  Kept(k)
<1>0. l \in ConfigStates /\ l.current \in ConfigInstances
    BY StateFields DEF Kept
<1>1. AllIn(k) = AllIn(l)
    BY <1>0, ListIsLonger DEF AllIn
<1> DEFINE n == Len(l.instances) + 1
<1>2. /\ \A i \in DOMAIN k.instances : i \in DOMAIN l.instances \/ i = n
      /\ \A i \in DOMAIN l.instances : k.instances[i] = l.instances[i]
      /\ k.instances[n] = l.current
    BY <1>0, ListIsLonger
<1> HIDE DEF n
<1>3. Apart(k)
    BY <1>2 DEF Kept, Apart
<1>4. \A i \in DOMAIN k.instances : FollowsOthers(k.instances[i])
    BY <1>2 DEF Kept
<1>5. FollowsOthers(k.current)
    BY DEF FollowsOthers
<1> QED
    BY <1>1, <1>3, <1>4, <1>5 DEF Kept

LEMMA MoreNames ==
    ASSUME NEW l \in ConfigStates, NEW k, NEW inst \in ConfigInstances, NEW n \in Int, NEW p \in Int,
           k.instances = Append(l.instances, inst), NamesUpTo(l, n), n <= p,
           inst.name = "new" \/ \E j \in 1..p : inst.name = ConfigNames[j]
    PROVE  NamesUpTo(k, p)
<1>1. \A j \in 1..n : j \in 1..p
    OBVIOUS
<1>2. \A i \in DOMAIN l.instances :
         l.instances[i].name = "new" \/ \E j \in 1..p : l.instances[i].name = ConfigNames[j]
    BY <1>1 DEF NamesUpTo
<1> DEFINE e == Len(l.instances) + 1
<1>3. /\ \A i \in DOMAIN k.instances : i \in DOMAIN l.instances \/ i = e
      /\ \A i \in DOMAIN l.instances : k.instances[i] = l.instances[i]
      /\ k.instances[e] = inst
    BY ListIsLonger
<1> HIDE DEF e
<1> QED
    BY <1>2, <1>3 DEF NamesUpTo

-----------------------------------------------------------------------------

\* While an instance is read nothing of it is forgotten.
LEMMA StaysInPlace ==
    ASSUME NEW l, InPlace(l), l.at \in InstancePlaces, NEW k, k.at \in InstancePlaces,
           k.section = l.section, k.instances = l.instances, k.current.name = l.current.name,
           l.current.modules \subseteq k.current.modules
    PROVE  InPlace(k)
<1>1. /\ Sources(l.current.modules) # {} /\ NamesUpTo(l, l.section - 1)
      /\ l.section \in DOMAIN ConfigNames /\ l.current.name = ConfigNames[l.section]
    BY DEF InPlace
<1>2. Sources(k.current.modules) # {}
    BY <1>1 DEF Sources
<1>3. NamesUpTo(k, k.section - 1)
    BY <1>1 DEF NamesUpTo
<1>4. k.at \notin {"root", "instance"}
    BY DEF InstancePlaces
<1> QED
    BY <1>1, <1>2, <1>3, <1>4 DEF InPlace

LEMMA ModuleShape ==
    ASSUME NEW kind \in ConfigKinds, NEW n \in Nat, NEW refers \in SUBSET Nat, NEW asked \in AllNames
    PROVE  LET m == ConfigModule(kind, n, refers, asked)
           IN m \in ConfigModules /\ m.kind = kind /\ m.made = n /\ m.refers = refers
                /\ m.asked = asked
BY DEF ConfigModule, ConfigModules

LEMMA InstanceShape ==
    ASSUME NEW name \in AllNames, NEW modules \in SUBSET ConfigModules
    PROVE  [name |-> name, modules |-> modules] \in ConfigInstances
BY DEF ConfigInstances

LEMMA NobodyIsAName == Nobody \in AllNames
BY DEF Nobody, AllNames

LEMMA PlacesArePlaces == InstancePlaces \subseteq ConfigPlaces
BY DEF ConfigPlaces

LEMMA MovedTo ==
    ASSUME NEW l \in ConfigStates, NEW at \in ConfigPlaces,
           NEW k, k = [l EXCEPT !.at = at]
    PROVE  /\ k \in ConfigStates /\ k.at = at /\ k.section = l.section /\ k.made = l.made
           /\ k.instances = l.instances /\ k.current = l.current
           /\ k.inner = l.inner /\ k.global = l.global
BY DEF ConfigStates

\* The source of the instance that is read.
LEMMA SourceIsThere ==
    ASSUME ConfigInv, load.at \in InstancePlaces
    PROVE  TheSource \in load.current.modules /\ TheSource \in AllIn(load) /\ TheSource.made \in Nat
<1>1. TheSource \in Sources(load.current.modules)
    BY DEF ConfigInv, InPlace, TheSource
<1>2. TheSource \in load.current.modules
    BY <1>1 DEF Sources
<1>3. TheSource \in ConfigModules
    BY <1>2, StateFields DEF ConfigInv, Kept
<1> QED
    BY <1>2, <1>3 DEF AllIn, ConfigModules

LEMMA OwnModuleRefers ==
    ASSUME ConfigInv, load.at \in InstancePlaces, NEW kind \in ConfigKinds
    PROVE  /\ OwnModule(kind) \in ConfigModules /\ OwnModule(kind).made = load.made + 1
           /\ OwnModule(kind).kind = kind /\ Refers(OwnModule(kind), load)
<1>1. load.made + 1 \in Nat
    BY StateFields DEF ConfigInv, Kept
<1>2. {TheSource.made} \in SUBSET Nat /\ \E n \in AllIn(load) : n.made = TheSource.made
    BY SourceIsThere
<1> DEFINE refers == {TheSource.made}
           m == ConfigModule(kind, load.made + 1, refers, Nobody)
<1>3. refers \in SUBSET Nat /\ \A r \in refers : \E n \in AllIn(load) : n.made = r
    BY <1>2
<1>4. OwnModule(kind) = m
    BY DEF OwnModule
<1> HIDE DEF refers
<1>5. m \in ConfigModules /\ m.kind = kind /\ m.made = load.made + 1 /\ m.refers = refers
    BY <1>1, <1>3, ModuleShape, NobodyIsAName
<1> QED
    BY <1>3, <1>4, <1>5 DEF Refers

MadeAt(m, at) == [Made(m) EXCEPT !.at = at]

LEMMA MadeShape ==
    ASSUME load \in ConfigStates, NEW m \in ConfigModules, NEW at \in ConfigPlaces
    PROVE  /\ MadeAt(m, at) \in ConfigStates /\ MadeAt(m, at).at = at
           /\ MadeAt(m, at).section = load.section /\ MadeAt(m, at).made = m.made
           /\ MadeAt(m, at).instances = load.instances /\ MadeAt(m, at).inner = load.inner
           /\ MadeAt(m, at).global = load.global
           /\ MadeAt(m, at).current.name = load.current.name
           /\ MadeAt(m, at).current.modules = load.current.modules \cup {m}
<1> DEFINE new == [load.current EXCEPT !.modules = @ \cup {m}]
<1>1. load.current \in ConfigInstances /\ m.made \in Nat
    BY StateFields DEF ConfigModules
<1>2. /\ new \in ConfigInstances /\ new.name = load.current.name
      /\ new.modules = load.current.modules \cup {m}
    BY <1>1 DEF ConfigInstances
<1>3. Made(m) = [load EXCEPT !.made = m.made, !.current = new]
    BY DEF Made, ConfigStates
<1> HIDE DEF new
<1>4. /\ Made(m) \in ConfigStates /\ Made(m).section = load.section /\ Made(m).made = m.made
      /\ Made(m).instances = load.instances /\ Made(m).inner = load.inner
      /\ Made(m).global = load.global /\ Made(m).current = new
    BY <1>1, <1>2, <1>3 DEF ConfigStates
<1> QED
    BY <1>2, <1>4, MovedTo DEF MadeAt

\* A module of the instance that is read.
LEMMA MadeKeeps ==
    ASSUME ConfigInv, load.at \in InstancePlaces, NEW at \in InstancePlaces,
           NEW m \in ConfigModules, m.made = load.made + 1, Refers(m, load),
           m.kind = "linked" => m.asked # load.current.name
    PROVE  Kept(MadeAt(m, at)) /\ InPlace(MadeAt(m, at))
<1>1. load \in ConfigStates /\ at \in ConfigPlaces
    BY PlacesArePlaces DEF ConfigInv, Kept
<1> DEFINE k == MadeAt(m, at)
<1>2. /\ k \in ConfigStates /\ k.at = at
      /\ k.section = load.section /\ k.made = m.made
      /\ k.instances = load.instances /\ k.inner = load.inner
      /\ k.global = load.global /\ k.current.name = load.current.name
      /\ k.current.modules = load.current.modules \cup {m}
    BY <1>1, MadeShape
<1> HIDE DEF k
<1>3. Kept(k)
    BY <1>2, InCurrent DEF ConfigInv
<1>4. InPlace(k)
    BY <1>2, StaysInPlace DEF ConfigInv
<1> QED
    BY <1>3, <1>4 DEF k

LEMMA OwnMadeKeeps ==
    ASSUME ConfigInv, load.at \in InstancePlaces, NEW at \in InstancePlaces, NEW kind \in ConfigKinds,
           kind # "linked"
    PROVE  /\ Kept(MadeAt(OwnModule(kind), at)) /\ InPlace(MadeAt(OwnModule(kind), at))
<1> DEFINE m == OwnModule(kind)
<1>1. m \in ConfigModules /\ m.made = load.made + 1 /\ m.kind # "linked" /\ Refers(m, load)
    BY OwnModuleRefers
<1> HIDE DEF m
<1>2. Kept(MadeAt(m, at)) /\ InPlace(MadeAt(m, at))
    BY <1>1, MadeKeeps
<1> QED
    BY <1>2 DEF m

\* A target that is a new source.
LEMMA NewSourceKeeps ==
    ASSUME NEW l, Kept(l), InPlace(l), l.at \in InstancePlaces,
           NEW t \in AllIn(l), t.made = l.made
    PROVE  Kept(WithNewSource(l, t)) /\ InPlace(WithNewSource(l, t))
<1>1. l \in ConfigStates /\ l.made \in Nat /\ l.made + 1 \in Nat /\ l.section \in Nat
      /\ l.instances \in Seq(ConfigInstances)
    BY StateFields DEF Kept
<1> DEFINE m == ConfigModule("source", t.made + 1, {t.made}, Nobody)
           inst == NewSourceInstance(t)
           k == WithNewSource(l, t)
<1>2. /\ m \in ConfigModules /\ m.made = l.made + 1 /\ m.kind = "source" /\ m.refers = {l.made}
    <2>1. "source" \in ConfigKinds /\ {t.made} \in SUBSET Nat /\ t.made + 1 \in Nat
        BY <1>1 DEF ConfigKinds
    <2> QED
        BY <2>1, ModuleShape, NobodyIsAName
<1>3. Refers(m, l)
    BY <1>2 DEF Refers
<1>4. inst = [name |-> "new", modules |-> {m}]
    BY DEF NewSourceInstance
<1>5. k = [l EXCEPT !.instances = Append(@, inst), !.made = t.made + 1]
    BY DEF WithNewSource
<1> HIDE DEF m, inst, k
<1>6. inst \in ConfigInstances /\ inst.modules = {m} /\ inst.name = "new"
    <2>1. "new" \in AllNames /\ {m} \in SUBSET ConfigModules
        BY <1>2 DEF AllNames
    <2> QED
        BY <1>4, <2>1, InstanceShape
<1>7. Append(l.instances, inst) \in Seq(ConfigInstances)
    BY <1>1, <1>6, AppendProperties
<1>8. /\ k \in ConfigStates /\ k.at = l.at /\ k.section = l.section /\ k.made = l.made + 1
      /\ k.instances = Append(l.instances, inst) /\ k.current = l.current
      /\ k.inner = l.inner /\ k.global = l.global
    BY <1>1, <1>5, <1>7 DEF ConfigStates
<1>9. Kept(k)
    BY <1>2, <1>3, <1>6, <1>8, InNewInstance
<1>10. NamesUpTo(l, l.section - 1)
    BY DEF InPlace
<1>11. l.section - 1 \in Int
    BY <1>1
<1>12. NamesUpTo(k, l.section - 1)
    <2> DEFINE n == l.section - 1
    <2>1. n \in Int /\ n <= n /\ NamesUpTo(l, n)
        BY <1>10, <1>11
    <2> HIDE DEF n
    <2>2. NamesUpTo(k, n)
        BY <1>1, <1>6, <1>8, <2>1, MoreNames
    <2> QED
        BY <2>2 DEF n
<1>13. InPlace(k)
    BY <1>8, <1>12 DEF InPlace, InstancePlaces
<1> QED
    BY <1>9, <1>13 DEF k

-----------------------------------------------------------------------------

\* Nothing is made.
LEMMA MoveKeeps ==
    ASSUME ConfigInv, NEW at \in ConfigPlaces, load' = [load EXCEPT !.at = at],
           \/ load.at \in InstancePlaces /\ at \in InstancePlaces
           \/ at \notin InstancePlaces \cup {"root", "instance"}
    PROVE  ConfigInv'
<1>1. load \in ConfigStates
    BY DEF ConfigInv, Kept
<1>2. /\ load' \in ConfigStates /\ load'.at = at /\ load'.section = load.section
      /\ load'.made = load.made /\ load'.instances = load.instances
      /\ load'.current = load.current /\ load'.inner = load.inner /\ load'.global = load.global
    BY <1>1, MovedTo
<1>3. Kept(load')
    BY <1>2, SameLists DEF ConfigInv
<1>4. InPlace(load')
    <2>1. CASE load.at \in InstancePlaces /\ at \in InstancePlaces
        BY <1>2, <2>1, StaysInPlace DEF ConfigInv
    <2>2. CASE at \notin InstancePlaces \cup {"root", "instance"}
        BY <1>2, <2>2 DEF InPlace
    <2> QED
        BY <2>1, <2>2
<1> QED
    BY <1>3, <1>4 DEF ConfigInv

LEMMA ModuleKeeps ==
    ASSUME ConfigInv, load.at \in InstancePlaces, NEW at \in InstancePlaces, NEW kind \in ConfigKinds,
           kind # "linked",
           \/ load' = [load EXCEPT !.at = at]
           \/ load' = [Made(OwnModule(kind)) EXCEPT !.at = at]
    PROVE  ConfigInv'
<1>1. CASE load' = [load EXCEPT !.at = at]
    BY <1>1, MoveKeeps, PlacesArePlaces
<1>2. CASE load' = [Made(OwnModule(kind)) EXCEPT !.at = at]
    <2>1. load' = MadeAt(OwnModule(kind), at)
        BY <1>2 DEF MadeAt
    <2> QED
        BY <2>1, OwnMadeKeeps DEF ConfigInv
<1> QED
    BY <1>1, <1>2

LEMMA RootKeeps ==
    ASSUME ConfigInv, LoadRoot
    PROVE  ConfigInv'
<1>1. load \in ConfigStates /\ load.at = "root"
    BY DEF ConfigInv, Kept, LoadRoot
<1>2. PICK result \in {"instance", "refused", "exit"} :
         load' = [load EXCEPT !.at = result, !.locked = TRUE]
    BY DEF LoadRoot
<1>3. /\ load' \in ConfigStates /\ load'.at = result /\ load'.section = load.section
      /\ load'.made = load.made /\ load'.instances = load.instances
      /\ load'.current = load.current /\ load'.inner = load.inner /\ load'.global = load.global
    <2>1. result \in ConfigPlaces
        BY <1>2 DEF ConfigPlaces
    <2> QED
        BY <1>1, <1>2, <2>1 DEF ConfigStates
<1>4. Kept(load')
    BY <1>3, SameLists DEF ConfigInv
<1>5. InPlace(load')
    BY <1>1, <1>3 DEF ConfigInv, InPlace, InstancePlaces, NamesUpTo
<1> QED
    BY <1>4, <1>5 DEF ConfigInv

LEMMA SourceKeeps ==
    ASSUME ConfigInv, LoadSource
    PROVE  ConfigInv'
<1>1. /\ load \in ConfigStates /\ load.at = "instance" /\ load.section < Len(ConfigNames)
      /\ load.made \in Nat /\ load.section \in Nat
    BY StateFields DEF ConfigInv, Kept, LoadSource
<1>2. ASSUME NEW result \in {"refused", "exit"}, load' = [load EXCEPT !.at = result]
      PROVE  ConfigInv'
    <2>1. result \in ConfigPlaces /\ result \notin InstancePlaces \cup {"root", "instance"}
        BY <1>2 DEF InstancePlaces, ConfigPlaces
    <2> QED
        BY <1>2, <2>1, MoveKeeps
<1>3. ASSUME NEW refers \in {{}} \cup {{m.made} : m \in LoadedModules},
             load' = [load EXCEPT !.at = "http",
                         !.made = ConfigModule("source", load.made + 1, refers, Nobody).made,
                         !.section = @ + 1,
                         !.current = [name |-> ConfigNames[load.section + 1],
                                      modules |-> {ConfigModule("source", load.made + 1, refers, Nobody)}]]
      PROVE  ConfigInv'
    <2> DEFINE m == ConfigModule("source", load.made + 1, refers, Nobody)
               new == [name |-> ConfigNames[load.section + 1], modules |-> {m}]
    <2>1. refers \subseteq Nat /\ \A r \in refers : \E n \in AllIn(load) : n.made = r
        <3>1. LoadedModules \subseteq AllIn(load)
            BY DEF LoadedModules, LoadedInstances, AllIn, ListedIn
        <3>2. \A n \in AllIn(load) : n.made \in Nat
            BY DEF ConfigInv, Kept, MadeInOrder, ConfigModules
        <3> QED
            BY <1>3, <3>1, <3>2
    <2>2. /\ m \in ConfigModules /\ m.made = load.made + 1 /\ m.kind = "source" /\ Refers(m, load)
        <3>1. "source" \in ConfigKinds /\ load.made + 1 \in Nat /\ refers \in SUBSET Nat
            BY <1>1, <2>1 DEF ConfigKinds
        <3>2. /\ m \in ConfigModules /\ m.made = load.made + 1 /\ m.kind = "source"
              /\ m.refers = refers
            BY <3>1, ModuleShape, NobodyIsAName
        <3> QED
            BY <2>1, <3>2 DEF Refers
    <2>3. load.section + 1 \in DOMAIN ConfigNames /\ load.section + 1 \in Nat
        BY <1>1, ConfigAssumption
    <2>4. ConfigNames[load.section + 1] \in AllNames
        BY <2>3 DEF AllNames
    <2>5. load' = [load EXCEPT !.at = "http", !.made = m.made, !.section = @ + 1, !.current = new]
        BY <1>3
    <2>6. /\ new \in ConfigInstances /\ new.modules = {m}
          /\ new.name = ConfigNames[load.section + 1]
        BY <2>2, <2>4 DEF ConfigInstances
    <2> HIDE DEF m, new
    <2>7. /\ load' \in ConfigStates /\ load'.at = "http" /\ load'.section = load.section + 1
          /\ load'.made = load.made + 1 /\ load'.instances = load.instances
          /\ load'.current = new /\ load'.inner = load.inner /\ load'.global = load.global
        <3> DEFINE n == load.section + 1
        <3>1. n \in Nat /\ m.made \in Nat /\ "http" \in ConfigPlaces
            BY <2>2, <2>3 DEF ConfigModules, ConfigPlaces, InstancePlaces
        <3>2. load' = [load EXCEPT !.at = "http", !.made = m.made, !.section = n, !.current = new]
            BY <2>5
        <3> HIDE DEF n
        <3>3. /\ load' \in ConfigStates /\ load'.at = "http" /\ load'.section = n
              /\ load'.made = m.made /\ load'.instances = load.instances
              /\ load'.current = new /\ load'.inner = load.inner /\ load'.global = load.global
            BY <1>1, <2>6, <3>1, <3>2 DEF ConfigStates
        <3> QED
            BY <2>2, <3>3 DEF n
    <2>8. load.current.modules = {} /\ NamesUpTo(load, load.section)
        BY <1>1 DEF ConfigInv, InPlace
    <2>9. Kept(load')
        BY <2>2, <2>6, <2>7, <2>8, InCurrent DEF ConfigInv
    <2>10. load'.section - 1 = load.section
        BY <1>1, <2>7
    <2>11. NamesUpTo(load', load'.section - 1)
        BY <2>7, <2>8, <2>10 DEF NamesUpTo
    <2>12. InPlace(load')
        BY <2>2, <2>3, <2>6, <2>7, <2>11 DEF InPlace, Sources
    <2> QED
        BY <2>9, <2>12 DEF ConfigInv
<1> QED
    BY <1>2, <1>3 DEF LoadSource

LEMMA TargetKeeps ==
    ASSUME ConfigInv, LoadTarget
    PROVE  ConfigInv'
<1>1. load.at \in InstancePlaces /\ "end" \in InstancePlaces /\ "end" \in ConfigPlaces
    BY DEF LoadTarget, InstancePlaces, ConfigPlaces
<1> DEFINE t == OwnModule("target")
           l == MadeAt(t, "end")
<1>2. /\ t \in ConfigModules /\ t.made = load.made + 1
      /\ Kept(l) /\ InPlace(l)
    BY <1>1, OwnModuleRefers, OwnMadeKeeps DEF ConfigKinds
<1>3. l.at = "end" /\ l.made = t.made /\ t \in AllIn(l)
    <2>1. load \in ConfigStates
        BY DEF ConfigInv, Kept
    <2>2. /\ l.at = "end" /\ l.made = t.made
          /\ l.current.modules = load.current.modules \cup {t}
        BY <1>1, <1>2, <2>1, MadeShape
    <2> QED
        BY <2>2 DEF AllIn
<1>4. load' = [load EXCEPT !.at = "end"] \/ load' = l \/ load' = WithNewSource(l, t)
    BY DEF LoadTarget, MadeAt
<1> HIDE DEF t, l
<1>5. CASE load' = [load EXCEPT !.at = "end"]
    BY <1>1, <1>5, MoveKeeps
<1>6. CASE load' = l
    BY <1>2, <1>6 DEF ConfigInv
<1>7. CASE load' = WithNewSource(l, t)
    BY <1>1, <1>2, <1>3, <1>7, NewSourceKeeps DEF ConfigInv
<1> QED
    BY <1>4, <1>5, <1>6, <1>7

LEMMA TriggerTargetKeeps ==
    ASSUME ConfigInv, LoadTriggerTarget
    PROVE  ConfigInv'
<1>1. /\ load.at \in InstancePlaces /\ "motion" \in InstancePlaces /\ "motion" \in ConfigPlaces
      /\ "target" \in ConfigKinds
    BY DEF LoadTriggerTarget, InstancePlaces, ConfigPlaces, ConfigKinds
<1>2. load \in ConfigStates /\ load.inner \subseteq ConfigModules
    BY StateFields DEF ConfigInv, Kept
<1> DEFINE t == OwnModule("target")
           l == [load EXCEPT !.at = "motion", !.made = t.made, !.inner = @ \cup {t}]
<1>3. t \in ConfigModules /\ t.made = load.made + 1 /\ Refers(t, load)
    BY <1>1, OwnModuleRefers
<1>4. \/ load' = [load EXCEPT !.at = "motion"]
      \/ load' = l
      \/ load' = WithNewSource(l, t)
    BY DEF LoadTriggerTarget
<1> HIDE DEF t
<1>5. /\ l \in ConfigStates /\ l.at = "motion" /\ l.section = load.section /\ l.made = load.made + 1
      /\ l.instances = load.instances /\ l.current = load.current
      /\ l.inner = load.inner \cup {t} /\ l.global = load.global
    <2> DEFINE inner == load.inner \cup {t}
    <2>1. inner \subseteq ConfigModules /\ t.made \in Nat
        BY <1>2, <1>3 DEF ConfigModules
    <2>2. l = [load EXCEPT !.at = "motion", !.made = t.made, !.inner = inner]
        BY <1>2 DEF ConfigStates
    <2> HIDE DEF l, inner
    <2>3. /\ l \in ConfigStates /\ l.at = "motion" /\ l.section = load.section /\ l.made = t.made
          /\ l.instances = load.instances /\ l.current = load.current
          /\ l.inner = inner /\ l.global = load.global
        BY <1>1, <1>2, <2>1, <2>2 DEF ConfigStates
    <2> QED
        BY <1>3, <2>3 DEF inner
<1> HIDE DEF l
<1>6. Kept(l)
    <2>1. l.inner \cup l.global = load.inner \cup load.global \cup {t}
        BY <1>5
    <2> QED
        BY <1>3, <1>5, <2>1, InNoInstance DEF ConfigInv
<1>7. InPlace(l)
    BY <1>1, <1>5, StaysInPlace DEF ConfigInv
<1>8. t \in AllIn(l) /\ t.made = l.made
    BY <1>3, <1>5 DEF AllIn
<1>9. CASE load' = [load EXCEPT !.at = "motion"]
    BY <1>1, <1>9, MoveKeeps
<1>10. CASE load' = l
    BY <1>6, <1>7, <1>10 DEF ConfigInv
<1>11. CASE load' = WithNewSource(l, t)
    BY <1>1, <1>5, <1>6, <1>7, <1>8, <1>11, NewSourceKeeps DEF ConfigInv
<1> QED
    BY <1>4, <1>9, <1>10, <1>11

\* A trigger finds other instances than its own.
LEMMA TriggerKeeps ==
    ASSUME ConfigInv, LoadTrigger
    PROVE  ConfigInv'
<1>1. /\ load.at \in InstancePlaces /\ "audio" \in InstancePlaces /\ load \in ConfigStates
      /\ load.made + 1 \in Nat /\ load.section \in Nat
    BY StateFields DEF LoadTrigger, InstancePlaces, ConfigInv, Kept
<1>2. PICK name \in {ConfigNames[i] : i \in DOMAIN ConfigNames} \cup {Nobody} :
         LET found  == FindInstance(name)
             refers == {s.made : s \in UNION {Sources(inst.modules) : inst \in found}}
             m == ConfigModule(IF found = {} THEN "generic" ELSE "linked",
                               load.made + 1, {TheSource.made} \cup refers, name)
         IN load' = [Made(m) EXCEPT !.at = "audio"]
    BY DEF LoadTrigger
<1> DEFINE found == FindInstance(name)
           others == {s.made : s \in UNION {Sources(inst.modules) : inst \in found}}
           refers == {TheSource.made} \cup others
           kind == IF found = {} THEN "generic" ELSE "linked"
           m == ConfigModule(kind, load.made + 1, refers, name)
<1>3. load' = MadeAt(m, "audio")
    BY <1>2 DEF MadeAt
<1>4. \A r \in refers : r \in Nat /\ \E n \in AllIn(load) : n.made = r
    <2>1. ASSUME NEW inst \in found, NEW s \in Sources(inst.modules)
          PROVE  s \in AllIn(load)
        BY <2>1 DEF FindInstance, LoadedInstances, Sources, AllIn, ListedIn
    <2>2. \A r \in others : \E n \in AllIn(load) : n.made = r
        BY <2>1
    <2>3. \A n \in AllIn(load) : n.made \in Nat
        BY DEF ConfigInv, Kept, MadeInOrder, ConfigModules
    <2> QED
        BY <1>1, <2>2, <2>3, SourceIsThere
<1>5. kind \in ConfigKinds /\ refers \in SUBSET Nat /\ name \in AllNames
    BY <1>2, <1>4 DEF ConfigKinds, AllNames, Nobody
<1>6. found # {} => name # load.current.name
    <2> SUFFICES ASSUME found # {} PROVE name # load.current.name
        OBVIOUS
    <2>1. PICK i \in DOMAIN load.instances : load.instances[i].name = name
        BY DEF FindInstance, LoadedInstances
    <2>2. /\ load.section \in DOMAIN ConfigNames /\ load.current.name = ConfigNames[load.section]
          /\ NamesUpTo(load, load.section - 1)
        BY <1>1 DEF ConfigInv, InPlace
    <2>3. CASE name = "new"
        BY <2>2, <2>3, ConfigAssumption
    <2>4. CASE name # "new"
        <3>1. PICK j \in 1..(load.section - 1) : name = ConfigNames[j]
            BY <2>1, <2>2, <2>4 DEF NamesUpTo
        <3>2. DOMAIN ConfigNames = 1..Len(ConfigNames) /\ Len(ConfigNames) \in Nat
            BY ConfigAssumption
        <3>3. j \in DOMAIN ConfigNames /\ j # load.section
            BY <1>1, <2>2, <3>1, <3>2
        <3> QED
            BY <2>2, <3>1, <3>3, ConfigAssumption
    <2> QED
        BY <2>3, <2>4
<1>7. kind = "linked" => found # {}
    OBVIOUS
<1> HIDE DEF found, others, refers, kind
<1>8. /\ m \in ConfigModules /\ m.made = load.made + 1 /\ m.refers = refers /\ m.kind = kind
      /\ m.asked = name
    BY <1>1, <1>5, ModuleShape
<1> HIDE DEF m
<1>9. Refers(m, load) /\ (m.kind = "linked" => m.asked # load.current.name)
    BY <1>4, <1>6, <1>7, <1>8 DEF Refers
<1>10. Kept(MadeAt(m, "audio")) /\ InPlace(MadeAt(m, "audio"))
    BY <1>1, <1>8, <1>9, MadeKeeps
<1> QED
    BY <1>3, <1>10 DEF ConfigInv

LEMMA InstanceEndKeeps ==
    ASSUME ConfigInv, LoadInstanceEnd \/ ViewsEnd
    PROVE  ConfigInv'
<1>1. /\ load \in ConfigStates /\ load.instances \in Seq(ConfigInstances)
      /\ load.current \in ConfigInstances /\ load.section \in Nat
    BY StateFields DEF ConfigInv, Kept
<1>2. PICK at \in {"instance", "global"} :
         /\ load' = [load EXCEPT !.at = at, !.current = NoInstance,
                                 !.instances = Append(@, load.current)]
         /\ at = "instance" => load.at = "end"
    BY DEF LoadInstanceEnd, ViewsEnd
<1> DEFINE longer == Append(load.instances, load.current)
<1>3. longer \in Seq(ConfigInstances)
    BY <1>1, AppendProperties
<1>4. load' = [load EXCEPT !.at = at, !.current = NoInstance, !.instances = longer]
    BY <1>2
<1>5. NoInstance \in ConfigInstances /\ NoInstance.modules = {} /\ at \in ConfigPlaces
    BY <1>2 DEF NoInstance, ConfigInstances, AllNames, ConfigPlaces
<1> HIDE DEF longer
<1>6. /\ load' \in ConfigStates /\ load'.at = at /\ load'.section = load.section
      /\ load'.made = load.made /\ load'.instances = longer /\ load'.current = NoInstance
      /\ load'.inner = load.inner /\ load'.global = load.global
    BY <1>1, <1>3, <1>4, <1>5 DEF ConfigStates
<1>7. Kept(load')
    BY <1>5, <1>6, CurrentIsListed DEF ConfigInv, longer
<1>8. InPlace(load')
    <2>1. CASE at = "global"
        BY <1>6, <2>1 DEF InPlace, InstancePlaces
    <2>2. CASE at = "instance"
        <3>1. /\ NamesUpTo(load, load.section - 1) /\ load.section \in DOMAIN ConfigNames
              /\ load.current.name = ConfigNames[load.section]
            BY <1>2, <2>2 DEF ConfigInv, InPlace, InstancePlaces
        <3>2. load.section \in 1..load.section
            BY <1>1, <3>1, ConfigAssumption
        <3> DEFINE n == load.section - 1
                   p == load.section
        <3>3. n \in Int /\ p \in Int /\ n <= p /\ NamesUpTo(load, n)
            BY <1>1, <3>1
        <3>4. \E j \in 1..p : load.current.name = ConfigNames[j]
            BY <3>1, <3>2
        <3>5. load'.instances = Append(load.instances, load.current) /\ load'.section = p
            BY <1>6 DEF longer
        <3> HIDE DEF n, p
        <3>6. NamesUpTo(load', p)
            BY <1>1, <3>3, <3>4, <3>5, MoreNames
        <3> QED
            BY <1>5, <1>6, <2>2, <3>5, <3>6 DEF InPlace, InstancePlaces
    <2> QED
        BY <1>2, <2>1, <2>2
<1> QED
    BY <1>7, <1>8 DEF ConfigInv

LEMMA LoadViewsKeeps ==
    ASSUME ConfigInv, LoadViews
    PROVE  ConfigInv'
<1>1. load \in ConfigStates /\ load.at = "instance"
    BY DEF ConfigInv, Kept, LoadViews
<1> DEFINE new == [name |-> "views", modules |-> {}]
<1>2. new \in ConfigInstances /\ new.modules = {} /\ "view" \in ConfigPlaces
    BY DEF ConfigInstances, AllNames, ConfigPlaces
<1>3. load' = [load EXCEPT !.at = "view", !.current = new]
    BY DEF LoadViews
<1> HIDE DEF new
<1>4. /\ load' \in ConfigStates /\ load'.at = "view" /\ load'.section = load.section
      /\ load'.made = load.made /\ load'.instances = load.instances /\ load'.current = new
      /\ load'.inner = load.inner /\ load'.global = load.global
    BY <1>1, <1>2, <1>3 DEF ConfigStates
<1>5. load.current.modules = {}
    BY <1>1 DEF ConfigInv, InPlace
<1>6. Kept(load')
    BY <1>2, <1>4, <1>5 DEF ConfigInv, Kept, AllIn, ListedIn, Apart, FollowsOthers
<1>7. InPlace(load')
    BY <1>4 DEF InPlace, InstancePlaces
<1> QED
    BY <1>6, <1>7 DEF ConfigInv

\* A view, and what shows it.
ViewsMade(ms, n) == [load EXCEPT !.at = "views end", !.made = n, !.current.modules = @ \cup ms]

LEMMA ViewsShape ==
    ASSUME load \in ConfigStates, NEW ms \in SUBSET ConfigModules, NEW n \in Nat
    PROVE  /\ ViewsMade(ms, n) \in ConfigStates /\ ViewsMade(ms, n).at = "views end"
           /\ ViewsMade(ms, n).made = n /\ ViewsMade(ms, n).instances = load.instances
           /\ ViewsMade(ms, n).inner = load.inner /\ ViewsMade(ms, n).global = load.global
           /\ ViewsMade(ms, n).current.name = load.current.name
           /\ ViewsMade(ms, n).current.modules = load.current.modules \cup ms
<1> DEFINE new == [load.current EXCEPT !.modules = @ \cup ms]
           k == ViewsMade(ms, n)
<1>1. load.current \in ConfigInstances /\ "views end" \in ConfigPlaces
    BY StateFields DEF ConfigPlaces
<1>2. /\ new \in ConfigInstances /\ new.name = load.current.name
      /\ new.modules = load.current.modules \cup ms
    BY <1>1 DEF ConfigInstances
<1>3. k = [load EXCEPT !.at = "views end", !.made = n, !.current = new]
    BY DEF ConfigStates, ViewsMade
<1> HIDE DEF new, k
<1>4. /\ k \in ConfigStates /\ k.at = "views end" /\ k.made = n
      /\ k.instances = load.instances /\ k.inner = load.inner /\ k.global = load.global
      /\ k.current = new
    BY <1>1, <1>2, <1>3 DEF ConfigStates
<1> QED
    BY <1>2, <1>4 DEF k

LEMMA OtherViewKeeps ==
    ASSUME ConfigInv, OtherView
    PROVE  ConfigInv'
<1>1. /\ load \in ConfigStates /\ load.made \in Nat
      /\ load.made + 1 \in Nat /\ load.made + 2 \in Nat /\ load.made + 2 = load.made + 1 + 1
    BY StateFields DEF ConfigInv, Kept
<1> DEFINE none == {}
           v == ConfigModule("view", load.made + 1, none, Nobody)
           own == {v.made}
           t == ConfigModule("target", load.made + 2, own, Nobody)
           one == {v}
           two == {v, t}
<1>2. /\ "view" \in ConfigKinds /\ "target" \in ConfigKinds
      /\ "views end" \notin InstancePlaces \cup {"root", "instance"}
    BY DEF ConfigKinds, InstancePlaces
<1>3. PICK modules \in {one, two} :
         load' = [load EXCEPT !.at = "views end", !.made = @ + Cardinality(modules),
                              !.current.modules = @ \cup modules]
    BY DEF OtherView
<1>4. none \in SUBSET Nat /\ \A r \in none : FALSE
    OBVIOUS
<1> HIDE DEF none
<1>5. v \in ConfigModules /\ v.kind = "view" /\ v.made = load.made + 1 /\ v.refers = none
    <2>1. "view" \in ConfigKinds /\ load.made + 1 \in Nat /\ none \in SUBSET Nat
        BY <1>1, <1>2, <1>4
    <2> QED
        BY <2>1, ModuleShape, NobodyIsAName
<1> HIDE DEF v
<1>6. own \in SUBSET Nat /\ \A r \in own : r = v.made
    BY <1>1, <1>5
<1> HIDE DEF own
<1>7. t \in ConfigModules /\ t.kind = "target" /\ t.made = load.made + 2 /\ t.refers = own
    <2>1. "target" \in ConfigKinds /\ load.made + 2 \in Nat /\ own \in SUBSET Nat
        BY <1>1, <1>2, <1>6
    <2> QED
        BY <2>1, ModuleShape, NobodyIsAName
<1> HIDE DEF t
<1>8. t \notin one /\ two = one \cup {t}
    BY <1>1, <1>5, <1>7
<1>9. one \in SUBSET ConfigModules /\ two \in SUBSET ConfigModules
    BY <1>5, <1>7
<1>10. IsFiniteSet(one) /\ Cardinality(one) = 1
    BY FS_Singleton
<1> HIDE DEF one, two
<1>11. Cardinality(two) = 2
    BY <1>8, <1>10, FS_AddElement
<1>12. load' = ViewsMade(one, load.made + 1) \/ load' = ViewsMade(two, load.made + 2)
    <2>1. CASE modules = one
        BY <1>1, <1>3, <1>10, <2>1 DEF ViewsMade, ConfigStates
    <2>2. CASE modules = two
        BY <1>1, <1>3, <1>11, <2>2 DEF ViewsMade, ConfigStates
    <2> QED
        BY <1>3, <2>1, <2>2
<1> DEFINE first == ViewsMade(one, load.made + 1)
           both == ViewsMade(two, load.made + 2)
<1>13. /\ first \in ConfigStates /\ first.at = "views end" /\ first.made = load.made + 1
       /\ first.instances = load.instances /\ first.inner = load.inner
       /\ first.global = load.global /\ first.current.name = load.current.name
       /\ first.current.modules = load.current.modules \cup one
    BY <1>1, <1>9, ViewsShape
<1>14. /\ both \in ConfigStates /\ both.at = "views end" /\ both.made = load.made + 2
       /\ both.instances = load.instances /\ both.inner = load.inner
       /\ both.global = load.global /\ both.current.name = load.current.name
       /\ both.current.modules = load.current.modules \cup two
    BY <1>1, <1>9, ViewsShape
<1> HIDE DEF first, both
<1>15. Kept(first)
    <2>1. Refers(v, load)
        BY <1>4, <1>5 DEF Refers
    <2>2. first.current.modules = load.current.modules \cup {v}
        BY <1>13 DEF one
    <2> QED
        BY <1>5, <1>13, <2>1, <2>2, InCurrent DEF ConfigInv
<1>16. Kept(both)
    <2>1. v \in AllIn(first)
        BY <1>13 DEF AllIn, one
    <2>2. Refers(t, first)
        BY <1>6, <1>7, <2>1 DEF Refers
    <2>3. t.made = first.made + 1 /\ both.made = first.made + 1
        BY <1>1, <1>7, <1>13, <1>14
    <2>4. both.current.modules = first.current.modules \cup {t}
        BY <1>8, <1>13, <1>14
    <2>5. /\ both.instances = first.instances /\ both.inner = first.inner
          /\ both.global = first.global /\ both.current.name = first.current.name
        BY <1>13, <1>14
    <2> QED
        BY <1>7, <1>14, <1>15, <2>2, <2>3, <2>4, <2>5, InCurrent
<1>17. InPlace(first) /\ InPlace(both)
    BY <1>2, <1>13, <1>14 DEF InPlace
<1> QED
    BY <1>12, <1>15, <1>16, <1>17 DEF ConfigInv, first, both

LEMMA GlobalKeeps ==
    ASSUME ConfigInv, LoadGlobal
    PROVE  ConfigInv'
<1>1. /\ load \in ConfigStates /\ load.made \in Nat /\ load.made + 1 \in Nat
      /\ load.global \subseteq ConfigModules
    BY StateFields DEF ConfigInv, Kept
<1>2. ASSUME NEW at \in {"check", "exit"}, load' = [load EXCEPT !.at = at]
      PROVE  ConfigInv'
    <2>1. at \in ConfigPlaces /\ at \notin InstancePlaces \cup {"root", "instance"}
        BY <1>2 DEF ConfigPlaces, InstancePlaces
    <2> QED
        BY <1>2, <2>1, MoveKeeps
<1>3. ASSUME NEW refers \in {{}} \cup {{m.made} : m \in LoadedModules},
             load' = [load EXCEPT !.at = "check", !.made = @ + 1,
                         !.global = @ \cup {ConfigModule("global", load.made + 1, refers, Nobody)}]
      PROVE  ConfigInv'
    <2> DEFINE m == ConfigModule("global", load.made + 1, refers, Nobody)
               global == load.global \cup {m}
               n == load.made + 1
    <2>1. refers \subseteq Nat /\ \A r \in refers : \E o \in AllIn(load) : o.made = r
        <3>1. LoadedModules \subseteq AllIn(load)
            BY DEF LoadedModules, LoadedInstances, AllIn, ListedIn
        <3>2. \A o \in AllIn(load) : o.made \in Nat
            BY DEF ConfigInv, Kept, MadeInOrder, ConfigModules
        <3> QED
            BY <1>3, <3>1, <3>2
    <2>2. m \in ConfigModules /\ m.made = load.made + 1 /\ m.kind = "global" /\ m.refers = refers
        <3>1. "global" \in ConfigKinds /\ refers \in SUBSET Nat
            BY <2>1 DEF ConfigKinds
        <3> QED
            BY <1>1, <3>1, ModuleShape, NobodyIsAName
    <2>3. load' = [load EXCEPT !.at = "check", !.made = n, !.global = global]
        BY <1>1, <1>3 DEF ConfigStates
    <2> HIDE DEF m
    <2>4. global \subseteq ConfigModules /\ n \in Nat /\ "check" \in ConfigPlaces
        BY <1>1, <2>2 DEF ConfigPlaces
    <2> HIDE DEF n, global
    <2>5. /\ load' \in ConfigStates /\ load'.at = "check" /\ load'.made = n
          /\ load'.instances = load.instances /\ load'.current = load.current
          /\ load'.inner = load.inner /\ load'.global = global
        BY <1>1, <2>3, <2>4 DEF ConfigStates
    <2>6. load'.inner \cup load'.global = load.inner \cup load.global \cup {m}
        BY <2>5 DEF global
    <2>7. Refers(m, load) /\ load'.made = load.made + 1
        BY <2>1, <2>2, <2>5 DEF Refers, n
    <2>8. Kept(load')
        BY <2>2, <2>5, <2>6, <2>7, InNoInstance DEF ConfigInv
    <2>9. InPlace(load')
        BY <2>5 DEF InPlace, InstancePlaces
    <2> QED
        BY <2>8, <2>9 DEF ConfigInv
<1> QED
    BY <1>2, <1>3 DEF LoadGlobal

LEMMA ReadyKeeps ==
    ASSUME ConfigInv, LoadReady
    PROVE  ConfigInv'
<1>1. load \in ConfigStates /\ load' = [load EXCEPT !.at = "loaded", !.locked = FALSE]
    BY DEF ConfigInv, Kept, LoadReady
<1>2. "loaded" \in ConfigPlaces
    BY DEF ConfigPlaces
<1>3. /\ load' \in ConfigStates /\ load'.at = "loaded" /\ load'.made = load.made
      /\ load'.instances = load.instances /\ load'.current = load.current
      /\ load'.inner = load.inner /\ load'.global = load.global
    BY <1>1, <1>2 DEF ConfigStates
<1>4. Kept(load')
    BY <1>3, SameLists DEF ConfigInv
<1>5. InPlace(load')
    BY <1>3 DEF InPlace, InstancePlaces
<1> QED
    BY <1>4, <1>5 DEF ConfigInv

\* Sections that may be left out, and what makes nothing.
LEMMA SectionKeeps ==
    ASSUME ConfigInv,
           LoadHttp \/ LoadLoopback \/ NoTrigger \/ LoadAudio \/ NoViews \/ HtmlView
    PROVE  ConfigInv'
<1>1. CASE LoadHttp
    <2>1. /\ load.at \in InstancePlaces /\ "loopback" \in InstancePlaces /\ "http" \in ConfigKinds
        BY <1>1 DEF LoadHttp, InstancePlaces, ConfigKinds
    <2>2. \/ load' = [load EXCEPT !.at = "loopback"]
          \/ load' = [Made(OwnModule("http")) EXCEPT !.at = "loopback"]
        BY <1>1 DEF LoadHttp
    <2> QED
        BY <2>1, <2>2, ModuleKeeps
<1>2. CASE LoadLoopback
    <2>1. /\ load.at \in InstancePlaces /\ "trigger" \in InstancePlaces
          /\ "loopback" \in ConfigKinds
        BY <1>2 DEF LoadLoopback, InstancePlaces, ConfigKinds
    <2>2. \/ load' = [load EXCEPT !.at = "trigger"]
          \/ load' = [Made(OwnModule("loopback")) EXCEPT !.at = "trigger"]
        BY <1>2 DEF LoadLoopback
    <2> QED
        BY <2>1, <2>2, ModuleKeeps
<1>3. CASE LoadAudio
    <2>1. /\ load.at \in InstancePlaces /\ "targets" \in InstancePlaces
          /\ "audio" \in ConfigKinds
        BY <1>3 DEF LoadAudio, InstancePlaces, ConfigKinds
    <2>2. \/ load' = [load EXCEPT !.at = "targets"]
          \/ load' = [Made(OwnModule("audio")) EXCEPT !.at = "targets"]
        BY <1>3 DEF LoadAudio
    <2> QED
        BY <2>1, <2>2, ModuleKeeps
<1>4. CASE NoTrigger
    <2>1. /\ load.at \in InstancePlaces /\ "audio" \in InstancePlaces /\ "audio" \in ConfigPlaces
          /\ load' = [load EXCEPT !.at = "audio"]
        BY <1>4 DEF NoTrigger, InstancePlaces, ConfigPlaces
    <2> QED
        BY <2>1, MoveKeeps
<1>5. CASE NoViews
    <2>1. /\ "global" \in ConfigPlaces /\ "global" \notin InstancePlaces \cup {"root", "instance"}
          /\ load' = [load EXCEPT !.at = "global"]
        BY <1>5 DEF NoViews, InstancePlaces, ConfigPlaces
    <2> QED
        BY <2>1, MoveKeeps
<1>6. CASE HtmlView
    <2>1. /\ "null pointer" \in ConfigPlaces
          /\ "null pointer" \notin InstancePlaces \cup {"root", "instance"}
          /\ load' = [load EXCEPT !.at = "null pointer"]
        BY <1>6 DEF HtmlView, InstancePlaces, ConfigPlaces
    <2> QED
        BY <2>1, MoveKeeps
<1> QED
    BY <1>1, <1>2, <1>3, <1>4, <1>5, <1>6

-----------------------------------------------------------------------------

\* What was made has a number of its own, refers to what was made before, and is in
\* one list; an instance that is read has its source, and a name no other has.
THEOREM ConfigInvHolds == ConfigSpec => []ConfigInv
<1>1. ConfigInit => ConfigInv
    <2> SUFFICES ASSUME ConfigInit PROVE ConfigInv
        OBVIOUS
    <2>1. /\ load.at = "root" /\ load.made = 0 /\ load.section = 0 /\ load.instances = <<>>
          /\ load.current = NoInstance /\ load.inner = {} /\ load.global = {}
        BY DEF ConfigInit
    <2>2. NoInstance \in ConfigInstances /\ NoInstance.modules = {}
        BY DEF NoInstance, ConfigInstances, AllNames
    <2>3. <<>> \in Seq(ConfigInstances) /\ DOMAIN load.instances = {}
        BY <2>1, EmptySeq
    <2>4. load \in ConfigStates
        BY <2>2, <2>3 DEF ConfigInit, ConfigStates, ConfigPlaces
    <2>5. AllIn(load) = {}
        BY <2>1, <2>2, <2>3 DEF AllIn, ListedIn
    <2>6. MadeInOrder(AllIn(load), load.made)
        BY <2>1, <2>5 DEF MadeInOrder
    <2>7. Kept(load)
        BY <2>1, <2>2, <2>3, <2>4, <2>6 DEF Kept, Apart, FollowsOthers
    <2>8. InPlace(load)
        BY <2>1, <2>2, <2>3 DEF InPlace, InstancePlaces, NamesUpTo
    <2> QED
        BY <2>7, <2>8 DEF ConfigInv
<1>2. ConfigInv /\ [ConfigNext]_configVars => ConfigInv'
    <2> SUFFICES ASSUME ConfigInv, [ConfigNext]_configVars PROVE ConfigInv'
        OBVIOUS
    <2>1. CASE UNCHANGED configVars
        BY <2>1 DEF configVars, ConfigInv
    <2> QED
        BY <2>1, RootKeeps, SourceKeeps, SectionKeeps, TriggerTargetKeeps, TriggerKeeps,
           TargetKeeps, InstanceEndKeeps, LoadViewsKeeps, OtherViewKeeps, GlobalKeeps, ReadyKeeps
        DEF ConfigNext
<1> QED
    BY <1>1, <1>2, PTL DEF ConfigSpec

\* ConfigOrder for any file: a module of load_configuration() refers to modules that
\* were made before it, a trigger follows another instance than its own, and no
\* module is in two lists.
THEOREM ConfigOrderHolds == ConfigSpec => []ConfigOrder
<1>1. ConfigInv => ConfigOrder
    <2> SUFFICES ASSUME ConfigInv PROVE ConfigOrder
        OBVIOUS
    <2>1. AllModules = AllIn(load)
        BY DEF AllModules, LoadedModules, LoadedInstances, AllIn, ListedIn
    <2>2. /\ \A m \in AllModules : \A r \in m.refers :
                r < m.made /\ \E n \in AllModules : n.made = r
          /\ \A m, n \in AllModules : m.made = n.made => m = n
        BY <2>1 DEF ConfigInv, Kept, MadeInOrder
    <2>3. /\ \A i, j \in DOMAIN load.instances :
                i # j => load.instances[i].modules \cap load.instances[j].modules = {}
          /\ \A i \in DOMAIN load.instances :
                load.instances[i].modules \cap (load.inner \cup load.global) = {}
        BY DEF ConfigInv, Kept, Apart
    <2>4. \A i \in DOMAIN load.instances : \A m \in load.instances[i].modules :
             m.kind = "linked" => m.asked # load.instances[i].name
        BY DEF ConfigInv, Kept, FollowsOthers
    <2> QED
        BY <2>2, <2>3, <2>4 DEF ConfigOrder
<1> QED
    BY <1>1, ConfigInvHolds, PTL
=============================================================================
