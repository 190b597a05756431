------------------------------- MODULE Archive --------------------------------
(***************************************************************************)
(* Events and files in the database, and the cleaner that removes what is  *)
(* too old.  Source: db.cpp, cleaner.cpp, target.cpp (register_file).      *)
(*                                                                         *)
(* Each module has a connection and a mutex of its own: the statements of  *)
(* two of them interleave, and one step here is one statement.             *)
(***************************************************************************)
EXTENDS Integers, FiniteSets

CONSTANT MaxArchiveFiles    \* bound: events, and files (the code: no limit)

ASSUME ArchiveAssumption == MaxArchiveFiles \in Nat \ {0}

VARIABLES
    archive,     \* the tables and the directory of recordings
    recording,   \* a motion trigger and its target
    cleaner      \* the thread of the cleaner

archiveVars == <<archive, recording, cleaner>>

\* rows: what event_files holds.  disk: the files.  lost: files no row will
\* name again, because a statement failed or the process died.
ArchiveInit ==
    /\ archive = [events |-> {}, ended |-> {}, rows |-> {}, disk |-> {}, lost |-> {}]
    /\ recording = [at |-> "idle", event |-> 0, file |-> 0]
    /\ cleaner = [at |-> "off", nrs |-> {}, files |-> {}]

RowFiles == {r.file : r \in archive.rows}

\* What a statement comes to: an exception is logged and otherwise ignored.
StatementResults == {"done", "exception"}

-----------------------------------------------------------------------------
(* The motion trigger and the target.                                      *)

\* The number of the event is 0 when it could not be entered.
RegisterEvent ==
    /\ recording.at = "idle" /\ recording.file < MaxArchiveFiles
    /\ Cardinality(archive.events) < MaxArchiveFiles
    /\ \E result \in StatementResults :
          LET nr == IF result = "done" THEN Cardinality(archive.events) + 1 ELSE 0
          IN /\ recording' = [recording EXCEPT !.at = "recording", !.event = nr]
             /\ archive' = [archive EXCEPT !.events = @ \cup ({nr} \ {0})]
    /\ UNCHANGED cleaner

\* A row needs an event that exists (the foreign key); the file is made whatever
\* the database says.
RegisterFile ==
    /\ recording.at = "recording" /\ recording.file < MaxArchiveFiles
    /\ \E result \in StatementResults :
          LET file == recording.file + 1
              row  == [nr |-> file, file |-> file, old |-> FALSE]
          IN /\ recording' = [recording EXCEPT !.at = "creating", !.file = file]
             /\ archive' = IF result = "done" /\ recording.event # 0
                           THEN [archive EXCEPT !.rows = @ \cup {row}]
                           ELSE [archive EXCEPT !.lost = @ \cup {file}]
    /\ UNCHANGED cleaner

CreateFile ==
    /\ recording.at = "creating"
    /\ recording' = [recording EXCEPT !.at = "recording"]
    /\ archive' = [archive EXCEPT !.disk = @ \cup {recording.file}]
    /\ UNCHANGED cleaner

RegisterEventEnd ==
    /\ recording.at = "recording"
    /\ recording' = [recording EXCEPT !.at = "idle", !.event = 0]
    /\ \E result \in StatementResults :
          archive' = IF result = "done"
                     THEN [archive EXCEPT !.ended = @ \cup ({recording.event} \ {0})]
                     ELSE archive
    /\ UNCHANGED cleaner

-----------------------------------------------------------------------------
(* The cleaner.                                                            *)

\* Without intervals there is no thread.
CleanerStart ==
    /\ cleaner.at = "off"
    /\ cleaner' = [cleaner EXCEPT !.at = "select"]
    /\ UNCHANGED <<archive, recording>>

PurgeSelect ==
    /\ cleaner.at = "select"
    /\ LET old == {r \in archive.rows : r.old}
       IN cleaner' = [at |-> "delete", nrs |-> {r.nr : r \in old},
                      files |-> {r.file : r \in old}]
    /\ UNCHANGED <<archive, recording>>

PurgeRow ==
    /\ cleaner.at = "delete"
    /\ \E nr \in cleaner.nrs :
          /\ cleaner' = [cleaner EXCEPT !.nrs = @ \ {nr}]
          /\ archive' = [archive EXCEPT !.rows = {r \in @ : r.nr # nr}]
    /\ UNCHANGED recording

\* The exception ends the round; the files that were found are returned.
PurgeFailsEmpty == cleaner' = [cleaner EXCEPT !.at = "unlink", !.nrs = {}, !.files = {}]

PurgeFails == cleaner' = [cleaner EXCEPT !.at = "unlink", !.nrs = {}]

PurgeException ==
    /\ cleaner.at = "delete" /\ cleaner.nrs # {}
    /\ PurgeFails
    /\ UNCHANGED <<archive, recording>>

PurgeReturns ==
    /\ cleaner.at = "delete" /\ cleaner.nrs = {}
    /\ cleaner' = [cleaner EXCEPT !.at = "unlink"]
    /\ UNCHANGED <<archive, recording>>

\* A file that cannot be removed (here: is gone already) is logged.
Unlink ==
    /\ cleaner.at = "unlink"
    /\ \E file \in cleaner.files :
          /\ cleaner' = [cleaner EXCEPT !.files = @ \ {file}]
          /\ archive' = [archive EXCEPT !.disk = @ \ {file}]
    /\ UNCHANGED recording

CleanerSleep ==
    /\ cleaner.at = "unlink" /\ cleaner.files = {}
    /\ cleaner' = [cleaner EXCEPT !.at = "select"]
    /\ UNCHANGED <<archive, recording>>

-----------------------------------------------------------------------------
(* The surroundings.                                                       *)

\* The days of max_age go by.  Between register_file() and the file there are
\* no days.
Ages ==
    /\ \E r \in archive.rows :
          /\ ~r.old /\ ~(recording.at = "creating" /\ r.file = recording.file)
          /\ archive' = [archive EXCEPT !.rows = (@ \ {r}) \cup {[r EXCEPT !.old = TRUE]}]
    /\ UNCHANGED <<recording, cleaner>>

\* The process ends or dies, and starts again: also what a reconnect() that
\* failed leads to, for "con" is then a null pointer.
ArchiveRestart ==
    /\ cleaner.at # "off"
    /\ recording' = [recording EXCEPT !.at = "idle", !.event = 0]
    /\ cleaner' = [at |-> "off", nrs |-> {}, files |-> {}]
    /\ archive' = [archive EXCEPT !.lost =
                     @ \cup cleaner.files
                       \cup (IF recording.at = "creating" THEN {recording.file} ELSE {})]

-----------------------------------------------------------------------------
ArchiveNext ==
    \/ RegisterEvent \/ RegisterFile \/ CreateFile \/ RegisterEventEnd
    \/ CleanerStart \/ PurgeSelect \/ PurgeRow \/ PurgeException \/ PurgeReturns
    \/ Unlink \/ CleanerSleep \/ Ages \/ ArchiveRestart

ArchiveSpec == ArchiveInit /\ [][ArchiveNext]_archiveVars

\* A recording is never forgotten by a round of the cleaner: a file is named by
\* a row, or in the hands of the cleaner, or its row was never entered or the
\* process died.  A row that is not old has its file, and only an event that
\* was entered is ended.
ArchiveKeepsFiles ==
    /\ archive.disk \subseteq RowFiles \cup cleaner.files \cup archive.lost
    /\ \A r \in archive.rows :
          \/ r.old
          \/ r.file \in archive.disk \cup archive.lost
          \/ recording.at = "creating" /\ r.file = recording.file
    /\ archive.ended \subseteq archive.events
    /\ recording.event \in archive.events \cup {0}
=============================================================================
