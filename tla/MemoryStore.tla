---------------------------- MODULE MemoryStore ----------------------------
(***************************************************************************)
(* The dual store of silex/memory/memory_store.py: a memory is a row of    *)
(* SQLite and a vector of ChromaDB, with no transaction over both.  add()  *)
(* stages the row in the shared GraphTransactionBuffer (graph_buffer.py);  *)
(* a flush commits whatever is staged and only then writes the vectors.    *)
(* Inside a turn's transaction add() only stages, and the turn flushes     *)
(* after the transaction.  Deletes queue the vector deletes that failed;   *)
(* reconciliation (at startup, and every 6 hours in the cron process) puts *)
(* right what crashes and failures left behind.                            *)
(*                                                                         *)
(* The Database is its contract (WriteQueue): one lease at a time, atomic  *)
(* commits.  A memory is the task that adds it; an action is what runs     *)
(* between two awaits.                                                     *)
(***************************************************************************)
EXTENDS Integers, FiniteSets

CONSTANTS
    Turns,        \* memories added by process(), inside the turn's transaction
    Extracts,     \* memories added by _extract_chat_memory_async
    Adds,         \* memories added by add() outside every transaction
    Manuals,      \* memories added by add_manual()
    Content,      \* what each memory says
    Deleters,     \* calls of delete()
    Archivable,   \* memories that somebody may archive
    MaxAttempts,  \* max_attempts of retry_pending_vector_deletes
    MaxCrashes,   \* bound: crashes of the process
    MaxFaults,    \* bound: ChromaDB calls that fail
    BodyHangs,    \* TRUE iff the writer's 30 s watchdog may end a turn's lease
    CronRuns,     \* TRUE iff the cron process reconciles
    Nobody

Memories == Turns \cup Extracts \cup Adds \cup Manuals
InTx     == Turns \cup Extracts
Recs     == {"boot", "cron"}

ASSUME MemoryStoreAssumption ==
    /\ Turns \cap Extracts = {} /\ InTx \cap Adds = {}
    /\ (InTx \cup Adds) \cap Manuals = {}
    /\ Nobody \notin Memories /\ Archivable \subseteq Memories
    /\ MaxAttempts \in Nat /\ MaxCrashes \in Nat /\ MaxFaults \in Nat
    /\ BodyHangs \in BOOLEAN /\ CronRuns \in BOOLEAN

VARIABLES
    pc,        \* where the task of each memory is
    admitted,  \* memories add() has accepted and staged
    forced,    \* turns the watchdog has rolled back
    todo,      \* vectors each task has still to write after its flush
    lease,     \* the task whose transaction the writer serves
    lock,      \* buffer._lock
    staged,    \* buffer._memories
    rows,      \* table memories
    archived,  \* rows with archived_at
    deleted,   \* history: rows deleted
    turnRows,  \* turns whose transaction was committed
    unheard,   \* history: memories that a flush stored without its task hearing of it
    vectors,   \* ids in the ChromaDB collection
    pending,   \* table pending_vector_deletes: attempts of each queued id
    del,       \* each call of delete(): where it is and what it deletes
    rec,       \* each reconciliation: where it is and what it has read
    mode,      \* the process is "up" or "booting"
    crashes, faults

taskVars == <<pc, admitted, forced, todo>>
dbVars   == <<rows, archived, deleted, turnRows, unheard>>
waitVars == <<lease, lock>>
vars == <<taskVars, waitVars, staged, dbVars, vectors, pending, del, rec, mode, crashes, faults>>

Ended == {"stored", "extracted", "rejected", "failed", "dead"}
PcValues == {"idle", "lease", "search", "recent", "admit", "stage", "body",
             "flush", "flushwait", "flushing", "insert", "upsert"} \cup Ended
InBody == {"search", "recent", "admit", "stage", "body"}

RecState == [at : {"idle", "ids", "add", "read", "retry"},
             rows : SUBSET Memories, ids : SUBSET Memories, todo : SUBSET Memories]

Active  == rows \ archived
Durable == rows \cup deleted

Init ==
    /\ pc = [m \in Memories |-> "idle"]
    /\ admitted = {} /\ forced = {} /\ todo = [m \in Memories |-> {}]
    /\ lease = Nobody /\ lock = Nobody /\ staged = {}
    /\ rows = {} /\ archived = {} /\ deleted = {} /\ turnRows = {} /\ unheard = {}
    /\ vectors = {} /\ pending = [m \in {} |-> 0]
    /\ del = [d \in Deleters |-> [at |-> "idle", id |-> Nobody]]
    /\ rec = [p \in Recs |-> [at |-> "idle", rows |-> {}, ids |-> {}, todo |-> {}]]
    /\ mode = "up" /\ crashes = 0 /\ faults = 0

Goto(m, label) == pc' = [pc EXCEPT ![m] = label]

\* A ChromaDB call raises.
Fault == faults < MaxFaults /\ faults' = faults + 1

-----------------------------------------------------------------------------
(* Admission: add_with_result(), inside or outside a transaction. *)

Begin(m) ==
    /\ mode = "up" /\ pc[m] = "idle"
    /\ Goto(m, IF m \in InTx THEN "lease" ELSE IF m \in Adds THEN "search" ELSE "insert")
    /\ UNCHANGED <<admitted, forced, todo, waitVars, staged, dbVars, vectors, pending, del,
                   rec, mode, crashes, faults>>

\* transaction() of a turn: the writer has come to it.
OpenTurn(m) ==
    /\ pc[m] = "lease" /\ lease = Nobody
    /\ lease' = m /\ Goto(m, "search")
    /\ UNCHANGED <<admitted, forced, todo, lock, staged, dbVars, vectors, pending, del, rec,
                   mode, crashes, faults>>

\* add() returned None: a turn goes on without the memory.
Refuse(m) == Goto(m, IF m \in InTx THEN "body" ELSE "rejected")

\* _is_duplicate, first half: the nearest vector.
SearchVectors(m) ==
    /\ pc[m] = "search"
    /\ IF \E v \in vectors : Content[v] = Content[m] THEN Refuse(m) ELSE Goto(m, "recent")
    /\ UNCHANGED <<admitted, forced, todo, waitVars, staged, dbVars, vectors, pending, del,
                   rec, mode, crashes, faults>>

\* _is_duplicate, second half: the recent rows.
SearchRecent(m) ==
    /\ pc[m] = "recent"
    /\ IF \E r \in Active : Content[r] = Content[m] THEN Refuse(m) ELSE Goto(m, "admit")
    /\ UNCHANGED <<admitted, forced, todo, waitVars, staged, dbVars, vectors, pending, del,
                   rec, mode, crashes, faults>>

\* MemoryGuard or A-MAC rejects the memory, or both let it pass.
Judge(m) ==
    /\ pc[m] = "admit"
    /\ Refuse(m) \/ Goto(m, "stage")
    /\ UNCHANGED <<admitted, forced, todo, waitVars, staged, dbVars, vectors, pending, del,
                   rec, mode, crashes, faults>>

\* Mutant: the vector is written with the staged row, before any commit.
StageWithVector(m) ==
    /\ pc[m] = "stage" /\ lock = Nobody
    /\ staged' = staged \cup {m} /\ admitted' = admitted \cup {m} /\ vectors' = vectors \cup {m}
    /\ Goto(m, IF m \in InTx THEN "body" ELSE "flush")
    /\ UNCHANGED <<forced, todo, waitVars, dbVars, pending, del, rec, mode, crashes, faults>>

Stage(m) ==
    /\ pc[m] = "stage" /\ lock = Nobody
    /\ staged' = staged \cup {m} /\ admitted' = admitted \cup {m}
    /\ Goto(m, IF m \in InTx THEN "body" ELSE "flush")
    /\ UNCHANGED <<forced, todo, waitVars, dbVars, vectors, pending, del, rec, mode, crashes,
                   faults>>

-----------------------------------------------------------------------------
(* The turn's transaction. *)

\* The writer's watchdog rolls the transaction back under a body still running.
Watchdog(m) ==
    /\ BodyHangs /\ m \in InTx /\ lease = m /\ pc[m] \in InBody
    /\ lease' = Nobody /\ forced' = forced \cup {m}
    /\ UNCHANGED <<pc, admitted, todo, lock, staged, dbVars, vectors, pending, del, rec, mode,
                   crashes, faults>>

\* Mutant: whatever held the transaction is recorded as a turn.
CloseAsTurn(m) ==
    /\ pc[m] = "body" /\ m \notin forced
    /\ lease' = Nobody /\ turnRows' = turnRows \cup {m} /\ Goto(m, "flush")
    /\ UNCHANGED <<admitted, forced, todo, lock, staged, rows, archived, deleted, unheard, vectors,
                   pending, del, rec, mode, crashes, faults>>

\* The body is over: commit, unless the watchdog rolled it back (RuntimeError).
CloseTurn(m) ==
    /\ pc[m] = "body"
    /\ \/ /\ m \notin forced
          /\ lease' = Nobody
          /\ turnRows' = IF m \in Turns THEN turnRows \cup {m} ELSE turnRows
          /\ Goto(m, IF m \in Turns THEN "flush" ELSE "extracted")
       \/ /\ m \in forced
          /\ Goto(m, "failed") /\ UNCHANGED <<lease, turnRows>>
    /\ UNCHANGED <<admitted, forced, todo, lock, staged, rows, archived, deleted, unheard, vectors,
                   pending, del, rec, mode, crashes, faults>>

\* Mutant: a flush that fails drops what it had staged.
GiveUpDrops(m) ==
    /\ pc[m] \in {"lease", "insert", "upsert", "flush", "flushwait", "flushing"} \cup InBody
    /\ Goto(m, "failed") /\ todo' = [todo EXCEPT ![m] = {}]
    /\ staged' = IF lock = m THEN {} ELSE staged
    /\ lease' = IF lease = m THEN Nobody ELSE lease
    /\ lock'  = IF lock = m THEN Nobody ELSE lock
    /\ UNCHANGED <<admitted, forced, dbVars, vectors, pending, del, rec, mode, crashes, faults>>

\* Mutant: a flush that fails keeps the buffer's lock.
GiveUpKeepsLock(m) ==
    /\ pc[m] \in {"lease", "insert", "upsert", "flush", "flushwait", "flushing"} \cup InBody
    /\ Goto(m, "failed") /\ todo' = [todo EXCEPT ![m] = {}]
    /\ lease' = IF lease = m THEN Nobody ELSE lease
    /\ UNCHANGED <<admitted, forced, lock, staged, dbVars, vectors, pending, del, rec, mode,
                   crashes, faults>>

\* A statement of the task raises, its commit fails, or it is cancelled before the
\* writer is told to commit: a transaction it holds is rolled back, its lock released.
GiveUp(m) ==
    /\ pc[m] \in {"lease", "insert", "upsert", "flush", "flushwait", "flushing"} \cup InBody
    /\ Goto(m, "failed") /\ todo' = [todo EXCEPT ![m] = {}]
    /\ lease' = IF lease = m THEN Nobody ELSE lease
    /\ lock'  = IF lock = m THEN Nobody ELSE lock
    /\ UNCHANGED <<admitted, forced, staged, dbVars, vectors, pending, del, rec, mode, crashes,
                   faults>>

-----------------------------------------------------------------------------
(* commit_flush() and the vector writes that follow it. *)

LockBuffer(m) ==
    /\ pc[m] = "flush" /\ lock = Nobody
    /\ IF staged = {}
       THEN Goto(m, "stored") /\ UNCHANGED lock
       ELSE Goto(m, "flushwait") /\ lock' = m
    /\ UNCHANGED <<admitted, forced, todo, lease, staged, dbVars, vectors, pending, del, rec,
                   mode, crashes, faults>>

OpenFlush(m) ==
    /\ pc[m] = "flushwait" /\ lease = Nobody
    /\ lease' = m /\ Goto(m, "flushing")
    /\ UNCHANGED <<admitted, forced, todo, lock, staged, dbVars, vectors, pending, del, rec,
                   mode, crashes, faults>>

\* INSERT OR REPLACE of what is staged; a replaced row is not archived any more.
InsertStaged == rows' = rows \cup staged /\ archived' = archived \ staged

\* Mutant: what a flush has stored stays staged.
CommitKeepsStaged(m) ==
    /\ pc[m] = "flushing"
    /\ InsertStaged
    /\ todo' = [todo EXCEPT ![m] = staged] /\ Goto(m, "upsert")
    /\ lease' = Nobody /\ lock' = Nobody
    /\ UNCHANGED <<admitted, forced, staged, deleted, turnRows, unheard, vectors, pending, del,
                   rec, mode, crashes, faults>>

CommitFlush(m) ==
    /\ pc[m] = "flushing"
    /\ InsertStaged /\ staged' = {}
    /\ todo' = [todo EXCEPT ![m] = staged] /\ Goto(m, "upsert")
    /\ lease' = Nobody /\ lock' = Nobody
    /\ UNCHANGED <<admitted, forced, deleted, turnRows, unheard, vectors, pending, del, rec,
                   mode, crashes, faults>>

\* The writer commits, but the flush does not hear of it: its task is cancelled while
\* it waits for the writer's answer, or has waited 30 s.  What it stored stays staged.
CommitUnheard(m) ==
    /\ pc[m] = "flushing"
    /\ InsertStaged /\ unheard' = unheard \cup staged
    /\ Goto(m, "failed") /\ lease' = Nobody /\ lock' = Nobody
    /\ UNCHANGED <<admitted, forced, todo, staged, deleted, turnRows, vectors, pending, del,
                   rec, mode, crashes, faults>>

\* add_manual(): the row is written at once, by a single write.
InsertManual(m) ==
    /\ pc[m] = "insert" /\ lease = Nobody
    /\ rows' = rows \cup {m} /\ admitted' = admitted \cup {m}
    /\ todo' = [todo EXCEPT ![m] = {m}] /\ Goto(m, "upsert")
    /\ UNCHANGED <<forced, waitVars, staged, archived, deleted, turnRows, unheard, vectors, pending,
                   del, rec, mode, crashes, faults>>

\* _upsert_vector: a failure is logged, not raised.
UpsertVector(m, v) ==
    /\ pc[m] = "upsert" /\ v \in todo[m]
    /\ todo' = [todo EXCEPT ![m] = @ \ {v}]
    /\ Goto(m, IF todo[m] = {v} THEN "stored" ELSE "upsert")
    /\ \/ vectors' = vectors \cup {v} /\ UNCHANGED faults
       \/ Fault /\ UNCHANGED vectors
    /\ UNCHANGED <<admitted, forced, waitVars, staged, dbVars, pending, del, rec, mode, crashes>>

-----------------------------------------------------------------------------
(* delete(), and archive(). *)

\* delete() has found the row.
StartDelete(d, m) ==
    /\ mode = "up" /\ del[d].at = "idle" /\ m \in rows
    /\ del' = [del EXCEPT ![d] = [at |-> "row", id |-> m]]
    /\ UNCHANGED <<taskVars, waitVars, staged, dbVars, vectors, pending, rec, mode, crashes,
                   faults>>

DeleteRow(d) ==
    /\ del[d].at = "row" /\ lease = Nobody
    /\ rows' = rows \ {del[d].id} /\ archived' = archived \ {del[d].id}
    /\ deleted' = deleted \cup {del[d].id}
    /\ del' = [del EXCEPT ![d].at = "vector"]
    /\ UNCHANGED <<taskVars, waitVars, staged, turnRows, unheard, vectors, pending, rec, mode,
                   crashes, faults>>

DeleteVector(d) ==
    /\ del[d].at = "vector"
    /\ \/ /\ vectors' = vectors \ {del[d].id} /\ UNCHANGED faults
          /\ del' = [del EXCEPT ![d].at = "done"]
       \/ /\ Fault /\ UNCHANGED vectors
          /\ del' = [del EXCEPT ![d].at = "queue"]
    /\ UNCHANGED <<taskVars, waitVars, staged, dbVars, pending, rec, mode, crashes>>

QueueDelete(d) ==
    /\ del[d].at = "queue" /\ lease = Nobody
    /\ pending' = [m \in DOMAIN pending \cup {del[d].id} |->
                      IF m = del[d].id THEN 0 ELSE pending[m]]
    /\ del' = [del EXCEPT ![d].at = "done"]
    /\ UNCHANGED <<taskVars, waitVars, staged, dbVars, vectors, rec, mode, crashes, faults>>

\* A database error, or the caller of delete() is cancelled.
StopDelete(d) ==
    /\ del[d].at \in {"row", "vector", "queue"}
    /\ del' = [del EXCEPT ![d].at = "stopped"]
    /\ UNCHANGED <<taskVars, waitVars, staged, dbVars, vectors, pending, rec, mode, crashes,
                   faults>>

\* archive(), from the operator, from a merge or from the consolidator.
Archive(m) ==
    /\ mode = "up" /\ lease = Nobody /\ m \in Active \cap Archivable
    /\ archived' = archived \cup {m}
    /\ UNCHANGED <<taskVars, waitVars, staged, rows, deleted, turnRows, unheard, vectors, pending,
                   del, rec, mode, crashes, faults>>

-----------------------------------------------------------------------------
(* reconcile_vector_index() and retry_pending_vector_deletes(). *)

ReadRows(p) ==
    /\ rec[p].at = "idle" /\ IF p = "boot" THEN mode = "booting" ELSE CronRuns
    /\ rec' = [rec EXCEPT ![p] = [@ EXCEPT !.at = "ids", !.rows = Active]]
    /\ UNCHANGED <<taskVars, waitVars, staged, dbVars, vectors, pending, del, mode, crashes,
                   faults>>

\* An error of collection.get() is swallowed: nothing is known to exist.
ReadIds(p) ==
    /\ rec[p].at = "ids"
    /\ \E ids \in {vectors, {}} :
          /\ IF ids = vectors THEN UNCHANGED faults ELSE Fault
          /\ rec' = [rec EXCEPT ![p] = [@ EXCEPT !.at = "add", !.ids = ids, !.todo = rec[p].rows \ ids]]
    /\ UNCHANGED <<taskVars, waitVars, staged, dbVars, vectors, pending, del, mode, crashes>>

\* Forward: a memory that was read and has no vector gets one.
Reindex(p, m) ==
    /\ rec[p].at = "add" /\ m \in rec[p].todo
    /\ \/ vectors' = vectors \cup {m} /\ UNCHANGED faults
       \/ Fault /\ UNCHANGED vectors
    /\ rec' = [rec EXCEPT ![p].todo = @ \ {m}]
    /\ UNCHANGED <<taskVars, waitVars, staged, dbVars, pending, del, mode, crashes>>

\* Mutant: vectors with no row are left alone.
PurgeNothing(p) ==
    /\ rec[p].at = "add" /\ rec[p].todo = {}
    /\ rec' = [rec EXCEPT ![p].at = "read"]
    /\ UNCHANGED <<taskVars, waitVars, staged, dbVars, vectors, pending, del, mode, crashes,
                   faults>>

\* Reverse: vectors that were read and had no active row are deleted.
Purge(p) ==
    /\ rec[p].at = "add" /\ rec[p].todo = {}
    /\ \/ vectors' = vectors \ (rec[p].ids \ rec[p].rows) /\ UNCHANGED faults
       \/ rec[p].ids \ rec[p].rows # {} /\ Fault /\ UNCHANGED vectors
    /\ rec' = [rec EXCEPT ![p].at = "read"]
    /\ UNCHANGED <<taskVars, waitVars, staged, dbVars, pending, del, mode, crashes>>

ReadPending(p) ==
    /\ rec[p].at = "read"
    /\ rec' = [rec EXCEPT ![p] = [@ EXCEPT !.at = "retry",
                                           !.todo = {m \in DOMAIN pending :
                                                        pending[m] < MaxAttempts}]]
    /\ UNCHANGED <<taskVars, waitVars, staged, dbVars, vectors, pending, del, mode, crashes,
                   faults>>

\* Any error on the way counts as an attempt, if even that can be written.
RetryDelete(p, m) ==
    /\ rec[p].at = "retry" /\ m \in rec[p].todo
    /\ \/ /\ vectors' = vectors \ {m} /\ UNCHANGED faults
          /\ pending' = [x \in DOMAIN pending \ {m} |-> pending[x]]
       \/ /\ Fault /\ vectors' \in {vectors, vectors \ {m}}
          /\ \/ UNCHANGED pending
             \/ pending' = [x \in DOMAIN pending |-> pending[x] + IF x = m THEN 1 ELSE 0]
    /\ rec' = [rec EXCEPT ![p].todo = @ \ {m}]
    /\ UNCHANGED <<taskVars, waitVars, staged, dbVars, del, mode, crashes>>

EndRec(p) ==
    /\ rec[p].at = "retry" /\ rec[p].todo = {}
    /\ rec' = [rec EXCEPT ![p] = [at |-> "idle", rows |-> {}, ids |-> {}, todo |-> {}]]
    /\ mode' = IF p = "boot" THEN "up" ELSE mode
    /\ UNCHANGED <<taskVars, waitVars, staged, dbVars, vectors, pending, del, crashes, faults>>

\* The process dies with everything it holds in memory, and starts again: what
\* startup() does before any task may run is the "boot" reconciliation.
Crash ==
    /\ crashes < MaxCrashes /\ crashes' = crashes + 1
    /\ mode' = "booting"
    /\ pc' = [m \in Memories |-> IF pc[m] \in {"idle"} \cup Ended THEN pc[m] ELSE "dead"]
    /\ todo' = [m \in Memories |-> {}]
    /\ lease' = Nobody /\ lock' = Nobody /\ staged' = {}
    /\ del' = [d \in Deleters |-> IF del[d].at = "idle" THEN del[d]
                                                        ELSE [del[d] EXCEPT !.at = "stopped"]]
    /\ rec' = [rec EXCEPT !["boot"] = [at |-> "idle", rows |-> {}, ids |-> {}, todo |-> {}]]
    /\ UNCHANGED <<admitted, forced, dbVars, vectors, pending, faults>>

-----------------------------------------------------------------------------

TaskStep(m) ==
    \/ OpenTurn(m) \/ SearchVectors(m) \/ SearchRecent(m) \/ Judge(m) \/ Stage(m)
    \/ CloseTurn(m) \/ LockBuffer(m) \/ OpenFlush(m) \/ CommitFlush(m) \/ CommitUnheard(m)
    \/ InsertManual(m) \/ \E v \in Memories : UpsertVector(m, v)

DelStep(d) == DeleteRow(d) \/ DeleteVector(d) \/ QueueDelete(d)

RecStep(p) ==
    \/ ReadRows(p) \/ ReadIds(p) \/ Purge(p) \/ ReadPending(p) \/ EndRec(p)
    \/ \E m \in Memories : Reindex(p, m) \/ RetryDelete(p, m)

Next ==
    \/ \E m \in Memories : Begin(m) \/ TaskStep(m) \/ Watchdog(m) \/ GiveUp(m) \/ Archive(m)
    \/ \E d \in Deleters : DelStep(d) \/ StopDelete(d) \/ \E m \in Memories : StartDelete(d, m)
    \/ \E p \in Recs : RecStep(p)
    \/ Crash

Spec == Init /\ [][Next]_vars

\* The event loop runs every task that can run, the writer's watchdog fires, and
\* the cron process and the startup carry their reconciliations on.
Fairness ==
    /\ \A m \in Memories : WF_vars(TaskStep(m)) /\ WF_vars(Watchdog(m))
    /\ \A d \in Deleters : WF_vars(DelStep(d))
    /\ \A p \in Recs : WF_vars(RecStep(p))

LiveSpec == Spec /\ Fairness

-----------------------------------------------------------------------------

TypeOK ==
    /\ pc \in [Memories -> PcValues]
    /\ admitted \subseteq Memories /\ forced \subseteq InTx
    /\ todo \in [Memories -> SUBSET Memories]
    /\ lease \in Memories \cup {Nobody} /\ lock \in Memories \cup {Nobody}
    /\ staged \subseteq Memories
    /\ rows \subseteq Memories /\ archived \subseteq rows /\ deleted \subseteq Memories
    /\ turnRows \subseteq Turns /\ unheard \subseteq Memories
    /\ vectors \subseteq Memories
    /\ DOMAIN pending \subseteq Memories
    /\ \A m \in DOMAIN pending : pending[m] \in Nat
    /\ del \in [Deleters -> [at : {"idle", "row", "vector", "queue", "done", "stopped"},
                             id : Memories \cup {Nobody}]]
    /\ \A d \in Deleters : del[d].at # "idle" => del[d].id \in Memories
    /\ rec \in [Recs -> RecState]
    /\ mode \in {"up", "booting"}
    /\ crashes \in Nat /\ faults \in Nat

\* A task that was told its memory is stored - a flush returned - finds the row in
\* SQLite, or it has been deleted since, whoever's flush committed it
\* (memory_store.py:257-265).
StoredIsDurable ==
    \A m \in Memories : pc[m] = "stored" /\ m \in admitted => m \in Durable

\* A vector exists only for a memory whose row was committed: no crash, rollback or
\* failed flush leaves the vector of a memory SQLite never had (memory_store.py:57,
\* "strictly *after* the SQLite commit - never before").
VectorsAfterRows == vectors \subseteq Durable

\* A deleted memory does not come back (memory_store.py:298, "Delete a memory"), though
\* it may have been staged by a task that has long gone and stored by another: unless
\* the flush that stored it was not heard of (database.py:977), and left it staged.
DeletedStaysDeleted == rows \cap deleted \subseteq unheard

\* A deleted memory does not come back, whatever happened to its flush.
DeletedIsGone == rows \cap deleted = {}

\* Once tasks, crashes and failures are over, reconciliation makes the two stores
\* agree and keeps them so (memory_store.py:1022, "Re-sync SQLite <-> ChromaDB in
\* both directions").
EventuallyInSync == <>[](vectors = Active)

\* Every task that has begun ends: the watchdog gets a turn and a flush out of each
\* other's way (database.py:1162, "prevents deadlocks from starving").
EveryTaskEnds == \A m \in Memories : pc[m] # "idle" ~> pc[m] \in Ended

\* A memory whose turn was rolled back is not persisted (memory_store.py:64-67,
\* "never for memories that end up not being committed (e.g. an outer transaction
\* that rolls back before this runs)").
RolledBackStaysOut == \A m \in Turns : m \in rows => m \in turnRows

\* A turn that is on record has its memory in SQLite or on its way there
\* (cognitive_loop.py:859, "Batch all persistence operations into a single atomic
\* transaction").
TurnIsAtomic == \A m \in turnRows \cap admitted : m \in Durable \cup staged

\* A flush that holds the buffer's lock never waits for the lease of a turn that
\* waits for that lock (cognitive_loop.py:2118, "to prevent SQLite deadlocks").
NoCircularWait ==
    ~\E f \in Memories, t \in InTx :
        /\ lock = f /\ pc[f] = "flushwait"
        /\ lease = t /\ pc[t] = "stage"

\* A vector has a row, or its delete is still under way, queued or was cut short
\* (graph_buffer.py:54, "which is what prevents ChromaDB from ever holding a vector with no backing
\* SQLite row").
NoOrphanVector ==
    \A v \in vectors \ rows :
        \/ v \in DOMAIN pending
        \/ \E d \in Deleters : del[d].id = v /\ del[d].at \in {"vector", "queue", "stopped"}

\* Reconciliation purges only vectors without an active row (memory_store.py:1027,
\* "purge vectors with no backing non-archived SQLite row").
PurgesOnlyOrphans ==
    [][\A p \in Recs : rec[p].at = "add" /\ rec'[p].at = "read" =>
           (vectors \ vectors') \cap Active = {}]_vars

\* add() stores no memory twice (memory_store.py:181, "Store a new memory (with
\* duplicate detection and A-MAC gating)").
NoDuplicates ==
    \A m, r \in Active \ Manuals : Content[m] = Content[r] => m = r

\* A memory extracted from a chat reaches SQLite (cognitive_loop.py:2085, "extract
\* memories ... and safely persist them to the database").
ExtractedReachSQLite ==
    \A m \in Extracts : pc[m] = "extracted" /\ m \in admitted ~> m \in Durable

=============================================================================
