------------------------------- MODULE Backup -------------------------------
(***************************************************************************)
(* Backup and restore of the home directory (silex/ops/backup.py) beside a *)
(* process that works in it: the database with its write-ahead log, the    *)
(* directory of the vector store, the daemon's lock file and the archives. *)
(*                                                                         *)
(* A memory is a row and a vector.  The process commits the row first and  *)
(* writes the vector afterwards; both stores in one archive agree iff they *)
(* hold the same memories.  What a startup reconciles is in MemoryStore.   *)
(* Files other than the two stores are abstracted.                         *)
(***************************************************************************)
EXTENDS Naturals, Sequences, FiniteSets

CONSTANTS
    Keys,       \* memories
    MaxRuns,    \* bound: processes started
    MaxCrashes, \* bound: crashes of a backup or a restore
    Consoles,   \* TRUE iff a process without the daemon's lock may run: console, API server
    Overlaps    \* TRUE iff a process may start, or stay, during a restore

BackupAssumption ==
    {MaxRuns, MaxCrashes} \subseteq Nat /\ {Consoles, Overlaps} \subseteq BOOLEAN

VARIABLES
    run,      \* the process at work: none, daemon, console
    runs,     \* processes started so far
    detached, \* TRUE iff its files have been unlinked or replaced under it
    pend,     \* its vector operation that follows a committed row: <<>>, <<kind, key>>
    locked,   \* what daemon.lock says: none, alive, dead
    db,       \* rows of silex.db with the log folded in; Gone when the file is not there
    wal,      \* rows as silex.db-wal has them; Gone when there is nothing in it
    foreign,  \* TRUE iff that log was written for a database that was replaced
    vec,      \* the vector store
    job,      \* where the backup or restore is
    fence,    \* TRUE iff it holds the write lock of the database
    snap,     \* its snapshot: rows and vectors
    saving,   \* TRUE iff the export is the safety backup of a restore
    archive,  \* the operator's archive, complete or not there (rows = Gone)
    safety,   \* the safety archive of the last restore
    crashes,  \* crashes so far
    had,      \* history: rows when the last restore was admitted
    cut,      \* history: it was killed while it replaced files
    restored  \* history: a restore was applied and nothing has been written since

procVars == <<run, runs, detached, pend, locked>>
homeVars == <<db, wal, foreign, vec>>
jobVars  == <<job, fence, snap, saving, archive, safety, crashes, had, cut, restored>>
vars == <<procVars, homeVars, jobVars>>

Gone == {"no file"}
Nothing == [rows |-> Gone, vec |-> {}]

Init ==
    /\ run = "none" /\ runs = 0 /\ detached = FALSE /\ pend = <<>> /\ locked = "none"
    /\ db = {} /\ wal = Gone /\ foreign = FALSE /\ vec = {}
    /\ job = "idle" /\ fence = FALSE /\ snap = Nothing /\ saving = FALSE
    /\ archive = Nothing /\ safety = Nothing /\ crashes = 0 /\ had = {} /\ cut = FALSE /\ restored = FALSE

\* The rows that are there: the log covers the file, and is nothing without it.
Rows == IF db = Gone THEN Gone ELSE IF wal # Gone THEN wal ELSE db
Replacing == job \in {"vectors gone", "vectors", "db gone", "db"}
Restoring == Replacing \/ job = "unpacked" \/ (saving /\ job # "idle")

-----------------------------------------------------------------------------
(* The process in the home. *)

\* It opens what is there, an empty database where there is none (SQLite then deletes the
\* log), and reconciles the vectors with the rows; the daemon takes over the lock of a dead
\* one.
Boot(kind) ==
    /\ run = "none" /\ runs < MaxRuns /\ (Overlaps \/ ~Restoring)
    /\ kind = "console" => Consoles
    /\ run' = kind /\ runs' = runs + 1 /\ detached' = FALSE /\ pend' = <<>>
    /\ locked' = IF kind = "daemon" THEN "alive" ELSE locked
    /\ IF db = Gone THEN db' = {} /\ vec' = {} /\ wal' = Gone /\ foreign' = FALSE
                    ELSE vec' = Rows /\ UNCHANGED <<db, wal, foreign>>
    /\ UNCHANGED jobVars

\* A memory is stored or deleted: the row is committed, unless the lock is taken.  Under
\* files that are unlinked it reaches nothing that is left.
CommitRow(k) ==
    /\ run # "none" /\ pend = <<>> /\ ~fence
    /\ wal' = IF detached THEN wal ELSE IF k \in Rows THEN Rows \ {k} ELSE Rows \cup {k}
    /\ pend' = <<IF k \in Rows THEN "delete" ELSE "add", k>> /\ restored' = FALSE
    /\ UNCHANGED <<run, runs, detached, locked, db, foreign, vec, job, fence, snap, saving, archive,
                   safety, crashes, had, cut>>

\* The vector follows; no lock of the database holds it back.
FollowVector ==
    /\ run # "none" /\ pend # <<>> /\ pend' = <<>>
    /\ vec' = IF detached THEN vec
              ELSE IF pend[1] = "add" THEN vec \cup {pend[2]} ELSE vec \ {pend[2]}
    /\ UNCHANGED <<run, runs, detached, locked, db, wal, foreign, jobVars>>

\* The last connection folds the log into the file and removes it.
FoldLog == IF db = Gone THEN UNCHANGED <<db, wal, foreign>>
                        ELSE db' = Rows /\ wal' = Gone /\ foreign' = FALSE

Exit ==
    /\ run # "none" /\ pend = <<>> /\ run' = "none" /\ detached' = FALSE
    /\ IF detached \/ fence THEN UNCHANGED <<db, wal, foreign>> ELSE FoldLog
    /\ locked' = IF run = "daemon" THEN "none" ELSE locked
    /\ UNCHANGED <<runs, pend, vec, jobVars>>

\* It dies: its log, its lock file and a vector it owed remain as they are.
Die ==
    /\ run # "none" /\ run' = "none" /\ detached' = FALSE /\ pend' = <<>>
    /\ locked' = IF run = "daemon" THEN "dead" ELSE locked
    /\ UNCHANGED <<runs, homeVars, jobVars>>

-----------------------------------------------------------------------------
(* export_backup(). *)

Export ==
    /\ job = "idle" /\ job' = "fence" /\ saving' = FALSE
    /\ UNCHANGED <<procVars, homeVars, fence, snap, archive, safety, crashes, had, cut, restored>>

\* BEGIN IMMEDIATE, if there is a database; after 30 s without the lock the backup goes on
\* without it.
Fence ==
    /\ job = "fence" /\ job' = "rows"
    /\ fence' \in IF db = Gone THEN {FALSE} ELSE {run = "none", TRUE}
    /\ UNCHANGED <<procVars, homeVars, snap, saving, archive, safety, crashes, had, cut, restored>>

\* _snapshot_sqlite_db(), if there is a database: an archive without one is not valid.
SnapRows ==
    /\ job = "rows" /\ job' = "vecs" /\ snap' = [snap EXCEPT !.rows = Rows]
    /\ UNCHANGED <<procVars, homeVars, fence, saving, archive, safety, crashes, had, cut, restored>>

\* copytree of the vector store; then the lock goes, and with the last connection the log.
SnapVectors ==
    /\ job = "vecs" /\ job' = "zip" /\ fence' = FALSE
    /\ snap' = [snap EXCEPT !.vec = vec]
    /\ IF run = "none" THEN FoldLog ELSE UNCHANGED <<db, wal, foreign>>
    /\ UNCHANGED <<procVars, vec, saving, archive, safety, crashes, had, cut, restored>>

\* The zip is written; until then inspect_backup() finds no archive in it.
Zip ==
    /\ job = "zip" /\ snap' = Nothing
    /\ IF saving THEN safety' = snap /\ job' = "unpacked" /\ UNCHANGED archive
                 ELSE archive' = snap /\ job' = "idle" /\ UNCHANGED safety
    /\ UNCHANGED <<procVars, homeVars, fence, saving, crashes, had, cut, restored>>

-----------------------------------------------------------------------------
(* restore_backup(). *)

\* Mutant: the safety backup is left out.
AdmitUnsaved(pre) ==
    /\ job = "idle" /\ archive.rows # Gone /\ locked # "alive"
    /\ Overlaps \/ run = "none"
    /\ had' = Rows /\ cut' = FALSE /\ safety' = Nothing /\ saving' = pre /\ job' = "unpacked" /\ restored' = FALSE
    /\ UNCHANGED <<procVars, homeVars, fence, snap, archive, crashes>>

\* A valid archive and no live daemon; then the safety backup, unless it is waived.
Admit(pre) ==
    /\ job = "idle" /\ archive.rows # Gone /\ locked # "alive"
    /\ Overlaps \/ run = "none"
    /\ had' = Rows /\ cut' = FALSE /\ safety' = Nothing /\ saving' = pre
    /\ job' = (IF pre THEN "fence" ELSE "unpacked") /\ restored' = FALSE
    /\ UNCHANGED <<procVars, homeVars, fence, snap, archive, crashes>>

\* The steps of the replacement: rmtree and copytree of the vectors, unlink and copy of
\* the database; a process that has the files open keeps those it has.
Replace(from, to) ==
    /\ job = from /\ job' = to /\ detached' = (run # "none")
    /\ UNCHANGED <<run, runs, pend, locked, wal, fence, snap, saving, archive, safety, crashes, had,
                   cut, restored>>

RemoveVectors == Replace("unpacked", "vectors gone") /\ vec' = {} /\ UNCHANGED <<db, foreign>>
CopyVectors   == Replace("vectors gone", "vectors") /\ vec' = archive.vec /\ UNCHANGED <<db, foreign>>
UnlinkDb      == Replace("vectors", "db gone") /\ db' = Gone /\ UNCHANGED <<vec, foreign>>
CopyDb == Replace("db gone", "db") /\ db' = archive.rows /\ foreign' = (wal # Gone) /\ UNCHANGED vec

\* Mutant: the old log stays beside the new database.
KeepSidecars ==
    /\ job = "db" /\ job' = "idle" /\ restored' = TRUE
    /\ UNCHANGED <<procVars, homeVars, fence, snap, saving, archive, safety, crashes, had, cut>>

\* _remove_sqlite_sidecars() comes last.
RemoveSidecars ==
    /\ job = "db" /\ job' = "idle" /\ restored' = TRUE /\ wal' = Gone /\ foreign' = FALSE
    /\ UNCHANGED <<procVars, db, vec, fence, snap, saving, archive, safety, crashes, had, cut>>

\* The backup or the restore is killed; an archive that is not complete is not valid.
Crash ==
    /\ job # "idle" /\ crashes < MaxCrashes /\ crashes' = crashes + 1
    /\ job' = "idle" /\ fence' = FALSE /\ snap' = Nothing /\ cut' = (cut \/ Replacing)
    /\ UNCHANGED <<procVars, homeVars, saving, archive, safety, had, restored>>

-----------------------------------------------------------------------------

Next ==
    \/ \E kind \in {"daemon", "console"} : Boot(kind)
    \/ \E k \in Keys : CommitRow(k)
    \/ FollowVector \/ Exit \/ Die
    \/ Export \/ Fence \/ SnapRows \/ SnapVectors \/ Zip
    \/ \E pre \in BOOLEAN : Admit(pre)
    \/ RemoveVectors \/ CopyVectors \/ UnlinkDb \/ CopyDb \/ RemoveSidecars \/ Crash

Spec == Init /\ [][Next]_vars

-----------------------------------------------------------------------------

TypeOK ==
    /\ run \in {"none", "daemon", "console"} /\ locked \in {"none", "alive", "dead"}
    /\ job \in {"idle", "fence", "rows", "vecs", "zip", "unpacked", "vectors gone", "vectors",
                "db gone", "db"}
    /\ {detached, foreign, fence, saving, cut, restored} \subseteq BOOLEAN
    /\ \A s \in {db, wal, vec, had} : s = Gone \/ s \subseteq Keys
    /\ vec # Gone /\ runs \in 0 .. MaxRuns /\ crashes \in 0 .. MaxCrashes

\* From the first file that is replaced, and when the restore is killed at any step, a
\* complete safety archive has the memories the home had before, unless it was waived
\* (backup.py:316, "Creating pre-restore safety backup").
SafetyCopy == (Replacing \/ cut) /\ saving => safety.rows = had

\* After a restore the database reads as the archive's, whatever log a dead process had
\* left beside the old one (backup.py:352, _remove_sqlite_sidecars).
RestoredIsArchived == restored /\ job = "idle" => Rows = archive.rows

\* Both stores of an archive are one snapshot (backup.py:65, "giving both stores a
\* consistent snapshot fence").
SnapshotsAgree == archive.rows # Gone => archive.vec = archive.rows

\* No process works in a home whose files are replaced (backup.py:289, "Kinthic daemon is
\* running. Stop it first").
HomeIsQuiet == Replacing => run = "none"

\* No log of a replaced database lies beside the new one when the restore is over, however
\* it ended.
NoForeignLog == foreign => job = "db"

=============================================================================
