------------------------- MODULE MemoryStoreProofs -------------------------
(***************************************************************************)
(* Proofs about MemoryStore, for every set of tasks, any number of crashes *)
(* and of ChromaDB failures, whatever the timeouts: what a flush has       *)
(* acknowledged is durable, and no vector exists without a row that was    *)
(* committed.                                                              *)
(***************************************************************************)
EXTENDS MemoryStore, TLAPS

\* A memory that was accepted has been staged by its task, and is in the buffer
\* until a flush commits it.
KeptFor(m) ==
    /\ pc[m] \notin {"idle", "lease", "search", "recent", "admit", "stage", "insert"}
    /\ pc[m] \in {"body", "flush", "flushwait", "flushing"} => m \in staged \cup Durable
    /\ pc[m] \in {"upsert", "stored"} => m \in Durable

Kept == \A m \in admitted : KeptFor(m)

\* Whatever is about to become a vector has been committed.
VectorSources ==
    /\ \A m \in Memories : todo[m] \subseteq Durable
    /\ \A p \in Recs : /\ rec[p].rows \subseteq Durable
                       /\ rec[p].at = "add" => rec[p].todo \subseteq Durable

IInv == TypeOK /\ Kept /\ VectorSources /\ VectorsAfterRows

-----------------------------------------------------------------------------
(* Type correctness *)

LEMMA TypeInit == Init => TypeOK
BY MemoryStoreAssumption DEF Init, TypeOK, PcValues, RecState

LEMMA TypeTask ==
    ASSUME TypeOK, NEW m \in Memories, Begin(m) \/ TaskStep(m) \/ Watchdog(m) \/ GiveUp(m)
    PROVE  TypeOK'
<1> USE DEF taskVars, dbVars, waitVars
<1>1. CASE Begin(m)
  BY <1>1 DEF TypeOK, Begin, Goto, PcValues
<1>2. CASE OpenTurn(m) \/ SearchVectors(m) \/ SearchRecent(m) \/ Judge(m)
  BY <1>2 DEF TypeOK, OpenTurn, SearchVectors, SearchRecent, Judge, Refuse, Goto, PcValues, Ended
<1>3. CASE Stage(m)
  BY <1>3 DEF TypeOK, Stage, Goto, PcValues
<1>4. CASE CloseTurn(m)
  BY <1>4 DEF TypeOK, CloseTurn, Goto, PcValues, Ended
<1>5. CASE LockBuffer(m) \/ OpenFlush(m)
  BY <1>5 DEF TypeOK, LockBuffer, OpenFlush, Goto, PcValues, Ended
<1>6. CASE CommitFlush(m) \/ CommitUnheard(m)
  BY <1>6 DEF TypeOK, CommitFlush, CommitUnheard, InsertStaged, Goto, PcValues, Ended
<1>7. CASE InsertManual(m)
  BY <1>7 DEF TypeOK, InsertManual, Goto, PcValues
<1>8. ASSUME NEW v \in Memories, UpsertVector(m, v) PROVE TypeOK'
  BY <1>8 DEF TypeOK, UpsertVector, Fault, Goto, PcValues, Ended
<1>9. CASE Watchdog(m) \/ GiveUp(m)
  BY <1>9 DEF TypeOK, Watchdog, GiveUp, Goto, PcValues, Ended, InTx
<1> QED
  BY <1>1, <1>2, <1>3, <1>4, <1>5, <1>6, <1>7, <1>8, <1>9 DEF TaskStep

LEMMA TypeDelete ==
    ASSUME TypeOK,
           \/ \E m \in Memories : Archive(m)
           \/ \E d \in Deleters : \/ DelStep(d) \/ StopDelete(d)
                                  \/ \E m \in Memories : StartDelete(d, m)
    PROVE  TypeOK'
<1> USE DEF taskVars, dbVars, waitVars
<1>1. ASSUME NEW m \in Memories, Archive(m) PROVE TypeOK'
  BY <1>1 DEF TypeOK, Archive, Active
<1>2. ASSUME NEW d \in Deleters, NEW m \in Memories, StartDelete(d, m) PROVE TypeOK'
  BY <1>2 DEF TypeOK, StartDelete
<1>3. ASSUME NEW d \in Deleters, DelStep(d) \/ StopDelete(d) PROVE TypeOK'
  <2>1. CASE DeleteRow(d)
    BY <2>1 DEF TypeOK, DeleteRow
  <2>4. CASE StopDelete(d)
    BY <2>4 DEF TypeOK, StopDelete
  <2>2. CASE DeleteVector(d)
    BY <2>2 DEF TypeOK, DeleteVector, Fault
  <2>3. CASE QueueDelete(d)
    BY <2>3 DEF TypeOK, QueueDelete
  <2> QED  BY <1>3, <2>1, <2>2, <2>3, <2>4 DEF DelStep
<1> QED  BY <1>1, <1>2, <1>3

LEMMA TypeRec ==
    ASSUME TypeOK, NEW p \in Recs, RecStep(p)
    PROVE  TypeOK'
<1> USE DEF taskVars, dbVars, waitVars
<1>0. rec[p] \in RecState
  BY DEF TypeOK
<1>1. CASE ReadRows(p)
  <2>1. [rec[p] EXCEPT !.at = "ids", !.rows = Active] \in RecState
    BY <1>0 DEF TypeOK, RecState, Active
  <2> QED  BY <1>1, <2>1 DEF TypeOK, ReadRows
<1>2. CASE ReadIds(p)
  <2>1. \A ids \in {vectors, {}} :
           [rec[p] EXCEPT !.at = "add", !.ids = ids, !.todo = rec[p].rows \ ids] \in RecState
    BY <1>0 DEF TypeOK, RecState
  <2>2. \E s \in RecState : rec' = [rec EXCEPT ![p] = s]
    BY <1>2, <2>1 DEF ReadIds
  <2> QED  BY <1>2, <2>2 DEF TypeOK, ReadIds, Fault
<1>3. CASE Purge(p)
  BY <1>3 DEF TypeOK, RecState, Purge, Fault
<1>4. CASE ReadPending(p)
  <2>1. [rec[p] EXCEPT !.at = "retry", !.todo = {m \in DOMAIN pending : pending[m] < MaxAttempts}]
          \in RecState
    BY <1>0 DEF TypeOK, RecState
  <2> QED  BY <1>4, <2>1 DEF TypeOK, ReadPending
<1>5. CASE EndRec(p)
  BY <1>5 DEF TypeOK, RecState, EndRec
<1>6. ASSUME NEW m \in Memories, Reindex(p, m) PROVE TypeOK'
  BY <1>6 DEF TypeOK, RecState, Reindex, Fault
<1>7. ASSUME NEW m \in Memories, RetryDelete(p, m) PROVE TypeOK'
  <2>1. /\ DOMAIN pending' \subseteq Memories
        /\ \A x \in DOMAIN pending' : pending'[x] \in Nat
    BY <1>7 DEF TypeOK, RetryDelete
  <2>2. rec' \in [Recs -> RecState] /\ vectors' \subseteq Memories /\ faults' \in Nat
    BY <1>7 DEF TypeOK, RecState, RetryDelete, Fault
  <2> QED  BY <1>7, <2>1, <2>2 DEF TypeOK, RetryDelete
<1> QED  BY <1>1, <1>2, <1>3, <1>4, <1>5, <1>6, <1>7 DEF RecStep

LEMMA TypeStep == TypeOK /\ [Next]_vars => TypeOK'
<1> SUFFICES ASSUME TypeOK, [Next]_vars PROVE TypeOK'
  OBVIOUS
<1>1. CASE UNCHANGED vars
  BY <1>1 DEF vars, taskVars, dbVars, waitVars, TypeOK
<1>2. CASE Crash
  <2>1. pc' \in [Memories -> PcValues] /\ todo' \in [Memories -> SUBSET Memories]
    BY <1>2 DEF Crash, TypeOK, PcValues, Ended
  <2>2. \A d \in Deleters : del'[d] \in [at : {"idle", "row", "vector", "queue", "done", "stopped"},
                                         id : Memories \cup {Nobody}]
                           /\ del'[d].id = del[d].id
                           /\ del'[d].at = "idle" <=> del[d].at = "idle"
    BY <1>2 DEF Crash, TypeOK
  <2>3. rec' \in [Recs -> RecState]
    BY <1>2 DEF Crash, TypeOK, RecState
  <2>4. UNCHANGED <<admitted, forced, rows, archived, deleted, turnRows, unheard, vectors, pending,
                  faults>>
    BY <1>2 DEF Crash, dbVars
  <2> QED  BY <1>2, <2>1, <2>2, <2>3, <2>4 DEF Crash, TypeOK
<1> QED  BY <1>1, <1>2, TypeTask, TypeDelete, TypeRec DEF Next

\* Tasks, buffer, tables and collection keep the shapes TypeOK gives them.
THEOREM TypeCorrect == Spec => []TypeOK
BY TypeInit, TypeStep, PTL DEF Spec

-----------------------------------------------------------------------------
(* Durability *)

LEMMA InvInit == Init => IInv
BY TypeInit DEF Init, IInv, Kept, KeptFor, VectorSources, VectorsAfterRows, Recs

\* A step of a task that commits nothing and stages nothing.
LEMMA QuietTask ==
    ASSUME IInv, NEW m \in Memories,
           UNCHANGED <<admitted, staged, rows, deleted, rec>>,
           \/ UNCHANGED pc
           \/ \E l \in PcValues :
                /\ Goto(m, l)
                /\ m \in admitted =>
                      \/ l \in {"failed", "rejected", "extracted"}
                      \/ pc[m] = "body" /\ l = "flush"
                      \/ pc[m] = "flush" /\ l = "flushwait"
                      \/ pc[m] = "flush" /\ l = "stored" /\ staged = {}
                      \/ pc[m] = "flushwait" /\ l = "flushing"
                      \/ pc[m] = "upsert" /\ l \in {"upsert", "stored"},
           \A x \in Memories : todo'[x] \subseteq todo[x],
           vectors' \subseteq vectors \cup todo[m]
    PROVE  Kept' /\ VectorSources' /\ VectorsAfterRows'
<1> USE DEF IInv
<1>1. UNCHANGED Durable
  BY DEF Durable
<1>2. Kept'
  <2>1. CASE UNCHANGED pc
    BY <1>1, <2>1 DEF Kept, KeptFor
  <2>2. ASSUME NEW l \in PcValues, Goto(m, l),
               m \in admitted =>
                      \/ l \in {"failed", "rejected", "extracted"}
                      \/ pc[m] = "body" /\ l = "flush"
                      \/ pc[m] = "flush" /\ l = "flushwait"
                      \/ pc[m] = "flush" /\ l = "stored" /\ staged = {}
                      \/ pc[m] = "flushwait" /\ l = "flushing"
                      \/ pc[m] = "upsert" /\ l \in {"upsert", "stored"}
        PROVE  Kept'
    <3>1. pc \in [Memories -> PcValues] /\ admitted \subseteq Memories
      BY DEF TypeOK
    <3>2. \A x \in Memories : pc'[x] = IF x = m THEN l ELSE pc[x]
      BY <2>2, <3>1 DEF Goto
    <3>3. ASSUME NEW x \in admitted PROVE KeptFor(x)'
      BY <1>1, <2>2, <3>1, <3>2, <3>3 DEF Kept, KeptFor
    <3> QED  BY <3>3, <3>1 DEF Kept, KeptFor
  <2> QED  BY <2>1, <2>2
<1>3. VectorSources'
  BY <1>1 DEF VectorSources
<1>4. VectorsAfterRows'
  BY <1>1 DEF VectorSources, VectorsAfterRows
<1> QED  BY <1>2, <1>3, <1>4

LEMMA InvTask ==
    ASSUME IInv, NEW m \in Memories, Begin(m) \/ TaskStep(m) \/ Watchdog(m) \/ GiveUp(m)
    PROVE  Kept' /\ VectorSources' /\ VectorsAfterRows'
<1> USE DEF taskVars, dbVars, waitVars, IInv
<1>t. /\ pc \in [Memories -> PcValues] /\ admitted \subseteq Memories
      /\ staged \subseteq Memories /\ todo \in [Memories -> SUBSET Memories]
  BY DEF TypeOK
<1>1. CASE Begin(m) \/ Watchdog(m) \/ OpenTurn(m)
  BY <1>1, QuietTask DEF Begin, Watchdog, OpenTurn, Kept, KeptFor, Goto, PcValues
<1>2. CASE SearchVectors(m) \/ SearchRecent(m) \/ Judge(m)
  BY <1>2, QuietTask DEF SearchVectors, SearchRecent, Judge, Refuse, Kept, KeptFor, PcValues, Ended
<1>3. CASE CloseTurn(m)
  BY <1>3, QuietTask DEF CloseTurn, PcValues, Ended
<1>4. CASE LockBuffer(m) \/ OpenFlush(m)
  BY <1>4, QuietTask DEF LockBuffer, OpenFlush, PcValues, Ended
<1>5. CASE GiveUp(m)
  BY <1>5, <1>t, QuietTask DEF GiveUp, PcValues, Ended
<1>6. ASSUME NEW v \in Memories, UpsertVector(m, v)
      PROVE  Kept' /\ VectorSources' /\ VectorsAfterRows'
  <2>1. \A x \in Memories : todo'[x] \subseteq todo[x]
    BY <1>6, <1>t DEF UpsertVector
  <2>2. vectors' \subseteq vectors \cup todo[m]
    BY <1>6 DEF UpsertVector
  <2>3. pc[m] = "upsert" /\ \E l \in {"upsert", "stored"} : Goto(m, l)
    BY <1>6 DEF UpsertVector
  <2> QED  BY <1>6, <2>1, <2>2, <2>3, QuietTask DEF UpsertVector, PcValues, Ended
<1>7. CASE Stage(m)
  <2>1. /\ \A x \in Memories : pc'[x] = IF x = m THEN IF m \in InTx THEN "body" ELSE "flush"
                                                 ELSE pc[x]
        /\ UNCHANGED Durable
    BY <1>7, <1>t DEF Stage, Goto, Durable
  <2> QED  BY <1>7, <1>t, <2>1 DEF Stage, Kept, KeptFor, VectorSources, VectorsAfterRows
<1>8. CASE CommitFlush(m) \/ CommitUnheard(m)
  <2>1. /\ Durable' = Durable \cup staged
        /\ UNCHANGED <<admitted, deleted, vectors, rec>>
        /\ \A x \in Memories : todo'[x] = todo[x] \/ todo'[x] = staged
        /\ \A x \in Memories : x # m => pc'[x] = pc[x]
        /\ pc[m] = "flushing" /\ pc'[m] \in {"upsert", "failed"}
    BY <1>8, <1>t DEF CommitFlush, CommitUnheard, InsertStaged, Goto, Durable
  <2> QED  BY <1>t, <2>1 DEF Kept, KeptFor, VectorSources, VectorsAfterRows
<1>9. CASE InsertManual(m)
  <2>1. /\ Durable' = Durable \cup {m} /\ admitted' = admitted \cup {m}
        /\ UNCHANGED <<staged, vectors, rec>>
        /\ \A x \in Memories : todo'[x] = todo[x] \/ todo'[x] = {m}
        /\ \A x \in Memories : pc'[x] = IF x = m THEN "upsert" ELSE pc[x]
    BY <1>9, <1>t DEF InsertManual, Goto, Durable
  <2> QED  BY <1>t, <2>1 DEF Kept, KeptFor, VectorSources, VectorsAfterRows
<1> QED
  BY <1>1, <1>2, <1>3, <1>4, <1>5, <1>6, <1>7, <1>8, <1>9 DEF TaskStep

\* A step that leaves tasks and buffer alone, removes no durable memory, and takes
\* new vectors from what a reconciliation has read.
LEMMA QuietStore ==
    ASSUME IInv, UNCHANGED <<pc, admitted, todo, staged>>, Durable \subseteq Durable',
           vectors' \subseteq Durable,
           \A p \in Recs : /\ rec'[p].rows \subseteq Durable
                           /\ rec'[p].at = "add" => rec'[p].todo \subseteq Durable
    PROVE  Kept' /\ VectorSources' /\ VectorsAfterRows'
<1> USE DEF IInv
<1>1. Kept'
  BY DEF Kept, KeptFor
<1>2. VectorSources'
  BY DEF VectorSources
<1>3. VectorsAfterRows'
  BY DEF VectorsAfterRows
<1> QED  BY <1>1, <1>2, <1>3

LEMMA InvDelete ==
    ASSUME IInv,
           \/ \E m \in Memories : Archive(m)
           \/ \E d \in Deleters : \/ DelStep(d) \/ StopDelete(d)
                                  \/ \E m \in Memories : StartDelete(d, m)
    PROVE  Kept' /\ VectorSources' /\ VectorsAfterRows'
<1> USE DEF taskVars, dbVars, waitVars
<1>0. /\ vectors \subseteq Durable
      /\ \A p \in Recs : /\ rec[p].rows \subseteq Durable
                         /\ rec[p].at = "add" => rec[p].todo \subseteq Durable
  BY DEF IInv, VectorSources, VectorsAfterRows
<1>1. ASSUME NEW m \in Memories, Archive(m) PROVE Kept' /\ VectorSources' /\ VectorsAfterRows'
  BY <1>0, <1>1, QuietStore DEF Archive, Durable
<1>2. ASSUME NEW d \in Deleters, NEW m \in Memories, StartDelete(d, m)
      PROVE  Kept' /\ VectorSources' /\ VectorsAfterRows'
  BY <1>0, <1>2, QuietStore DEF StartDelete, Durable
<1>3. ASSUME NEW d \in Deleters, DelStep(d) \/ StopDelete(d)
      PROVE  Kept' /\ VectorSources' /\ VectorsAfterRows'
  <2>1. Durable \subseteq Durable' /\ vectors' \subseteq vectors
    BY <1>3 DEF DelStep, DeleteRow, DeleteVector, QueueDelete, StopDelete, Durable
  <2>2. UNCHANGED <<pc, admitted, todo, staged, rec>>
    BY <1>3 DEF DelStep, DeleteRow, DeleteVector, QueueDelete, StopDelete
  <2> QED  BY <1>0, <2>1, <2>2, QuietStore
<1> QED  BY <1>1, <1>2, <1>3

LEMMA InvRec ==
    ASSUME IInv, NEW p \in Recs, RecStep(p)
    PROVE  Kept' /\ VectorSources' /\ VectorsAfterRows'
<1> USE DEF taskVars, dbVars, waitVars
<1>0. /\ vectors \subseteq Durable
      /\ \A q \in Recs : /\ rec[q].rows \subseteq Durable
                         /\ rec[q].at = "add" => rec[q].todo \subseteq Durable
      /\ rec \in [Recs -> RecState]
  BY DEF IInv, TypeOK, VectorSources, VectorsAfterRows
<1>1. UNCHANGED <<pc, admitted, todo, staged, Durable>>
  BY DEF RecStep, ReadRows, ReadIds, Purge, ReadPending, EndRec, Reindex, RetryDelete, Durable
<1>2. vectors' \subseteq Durable
  <2>1. ASSUME NEW m \in Memories, Reindex(p, m) PROVE vectors' \subseteq Durable
    BY <1>0, <2>1 DEF Reindex
  <2>2. (\A m \in Memories : ~Reindex(p, m)) => vectors' \subseteq vectors
    BY DEF RecStep, ReadRows, ReadIds, Purge, ReadPending, EndRec, RetryDelete
  <2> QED  BY <1>0, <2>1, <2>2
<1>3. \A q \in Recs : /\ rec'[q].rows \subseteq Durable
                      /\ rec'[q].at = "add" => rec'[q].todo \subseteq Durable
  <2>0. \E r : rec' = [rec EXCEPT ![p] = r]
    BY DEF RecStep, ReadRows, ReadIds, Purge, ReadPending, EndRec, Reindex, RetryDelete
  <2>1. \A q \in Recs : q # p => rec'[q] = rec[q]
    BY <1>0, <2>0
  <2>2. /\ rec'[p].rows \subseteq Durable
        /\ rec'[p].at = "add" => rec'[p].todo \subseteq Durable
    <3>1. CASE ReadRows(p)
      BY <1>0, <3>1 DEF ReadRows, Active, Durable, RecState
    <3>2. CASE ReadIds(p)
      BY <1>0, <3>2 DEF ReadIds, RecState
    <3>3. CASE Purge(p)
      BY <1>0, <3>3 DEF Purge, RecState
    <3>4. CASE ReadPending(p)
      BY <1>0, <3>4 DEF ReadPending, RecState
    <3>5. CASE EndRec(p)
      BY <1>0, <3>5 DEF EndRec, RecState
    <3>6. ASSUME NEW m \in Memories, Reindex(p, m) \/ RetryDelete(p, m)
          PROVE  /\ rec'[p].rows \subseteq Durable
                 /\ rec'[p].at = "add" => rec'[p].todo \subseteq Durable
      BY <1>0, <3>6 DEF Reindex, RetryDelete, RecState
    <3> QED  BY <3>1, <3>2, <3>3, <3>4, <3>5, <3>6 DEF RecStep
  <2> QED  BY <1>0, <2>1, <2>2
<1> QED  BY <1>1, <1>2, <1>3, QuietStore

LEMMA InvCrash == IInv /\ Crash => Kept' /\ VectorSources' /\ VectorsAfterRows'
<1> SUFFICES ASSUME IInv, Crash PROVE Kept' /\ VectorSources' /\ VectorsAfterRows'
  OBVIOUS
<1> USE DEF IInv
<1>1. UNCHANGED <<admitted, vectors, Durable>>
  BY DEF Crash, dbVars, Durable
<1>2. Kept'
  <2>1. \A m \in Memories : pc'[m] = IF pc[m] \in {"idle"} \cup Ended THEN pc[m] ELSE "dead"
    BY DEF Crash
  <2> QED  BY <1>1, <2>1 DEF Kept, KeptFor, TypeOK, Ended
<1>3. VectorSources'
  <2>1. \A m \in Memories : todo'[m] = {}
    BY DEF Crash
  <2>2. \A p \in Recs : rec'[p].rows \subseteq rec[p].rows
                      /\ (rec'[p].at = "add" => rec[p].at = "add" /\ rec'[p].todo = rec[p].todo)
    BY DEF Crash, TypeOK, RecState
  <2> QED  BY <1>1, <2>1, <2>2 DEF VectorSources
<1>4. VectorsAfterRows'
  BY <1>1 DEF VectorsAfterRows
<1> QED  BY <1>2, <1>3, <1>4

LEMMA InvStep == IInv /\ [Next]_vars => IInv'
<1> SUFFICES ASSUME IInv, [Next]_vars PROVE IInv'
  OBVIOUS
<1>1. TypeOK'
  BY TypeStep DEF IInv
<1>2. CASE UNCHANGED vars
  BY <1>1, <1>2 DEF IInv, Kept, KeptFor, VectorSources, VectorsAfterRows, Durable, vars, taskVars, dbVars,
                    waitVars
<1>3. CASE Next
  <2>1. Kept' /\ VectorSources' /\ VectorsAfterRows'
    BY <1>3, InvTask, InvDelete, InvRec, InvCrash DEF Next
  <2> QED  BY <1>1, <2>1 DEF IInv
<1> QED  BY <1>2, <1>3

\* A memory whose flush was acknowledged to its task is in SQLite, or was deleted
\* after it got there: through crashes, rollbacks, and flushes that commit late.
THEOREM StoredAreDurable == Spec => []StoredIsDurable
<1>1. IInv => StoredIsDurable
  BY DEF IInv, Kept, KeptFor, StoredIsDurable
<1> QED  BY <1>1, InvInit, InvStep, PTL DEF Spec

\* No vector precedes the commit of its row.
THEOREM VectorsFollowRows == Spec => []VectorsAfterRows
<1>1. IInv => VectorsAfterRows
  BY DEF IInv
<1> QED  BY <1>1, InvInit, InvStep, PTL DEF Spec

-----------------------------------------------------------------------------
(* Deleted memories *)

\* A memory is staged once, and inserted once unless its flush was not heard of; a
\* delete is of a row that was.
Once ==
    /\ staged \subseteq admitted /\ Durable \subseteq admitted
    /\ staged \cap Durable \subseteq unheard
    /\ \A d \in Deleters : del[d].at = "row" => del[d].id \in Durable

DInv == IInv /\ Once /\ DeletedStaysDeleted

LEMMA OnceTask ==
    ASSUME DInv, NEW m \in Memories,
           Begin(m) \/ TaskStep(m) \/ Watchdog(m) \/ GiveUp(m)
    PROVE  Once' /\ DeletedStaysDeleted'
<1> USE DEF taskVars, dbVars, waitVars
<1>0. m \in admitted => pc[m] \notin {"stage", "insert"}
  BY DEF DInv, IInv, Kept, KeptFor
<1>1. CASE Stage(m)
  BY <1>0, <1>1 DEF DInv, Stage, Once, Durable, DeletedStaysDeleted
<1>2. CASE CommitFlush(m)
  BY <1>2 DEF DInv, CommitFlush, InsertStaged, Once, Durable, DeletedStaysDeleted
<1>3. CASE InsertManual(m)
  BY <1>0, <1>3 DEF DInv, InsertManual, Once, Durable, DeletedStaysDeleted
<1>6. CASE CommitUnheard(m)
  BY <1>6 DEF DInv, CommitUnheard, InsertStaged, Once, Durable, DeletedStaysDeleted
<1>4. CASE UNCHANGED <<staged, admitted, rows, deleted, unheard, del>>
  BY <1>4 DEF DInv, Once, Durable, DeletedStaysDeleted
<1>5. UNCHANGED <<staged, admitted, rows, deleted, unheard, del>>
      \/ Stage(m) \/ CommitFlush(m) \/ CommitUnheard(m) \/ InsertManual(m)
  BY DEF TaskStep, Begin, Watchdog, GiveUp, OpenTurn, SearchVectors, SearchRecent, Judge,
         CloseTurn, LockBuffer, OpenFlush, UpsertVector
<1> QED  BY <1>1, <1>2, <1>3, <1>4, <1>5, <1>6

LEMMA OnceDelete ==
    ASSUME DInv,
           \/ \E m \in Memories : Archive(m)
           \/ \E d \in Deleters : \/ DelStep(d) \/ StopDelete(d)
                                  \/ \E m \in Memories : StartDelete(d, m)
    PROVE  Once' /\ DeletedStaysDeleted'
<1> USE DEF taskVars, dbVars, waitVars
<1>0. del \in [Deleters -> [at : {"idle", "row", "vector", "queue", "done", "stopped"},
                            id : Memories \cup {Nobody}]]
  BY DEF DInv, IInv, TypeOK
<1>1. ASSUME NEW m \in Memories, Archive(m) PROVE Once' /\ DeletedStaysDeleted'
  BY <1>1 DEF DInv, Archive, Once, Durable, DeletedStaysDeleted
<1>2. ASSUME NEW d \in Deleters, NEW m \in Memories, StartDelete(d, m)
      PROVE  Once' /\ DeletedStaysDeleted'
  BY <1>0, <1>2 DEF DInv, StartDelete, Once, Durable, DeletedStaysDeleted
<1>3. ASSUME NEW d \in Deleters, DeleteRow(d) PROVE Once' /\ DeletedStaysDeleted'
  <2>1. UNCHANGED <<staged, admitted, Durable, unheard>>
    BY <1>3 DEF DInv, DeleteRow, Once, Durable
  <2>2. \A x \in Deleters : del'[x].at = "row" => del'[x] = del[x]
    BY <1>0, <1>3 DEF DeleteRow
  <2>3. Once'
    BY <2>1, <2>2 DEF DInv, Once
  <2>4. DeletedStaysDeleted'
    BY <1>3 DEF DInv, DeleteRow, DeletedStaysDeleted
  <2> QED  BY <2>3, <2>4
<1>4. ASSUME NEW d \in Deleters, DeleteVector(d) \/ QueueDelete(d) \/ StopDelete(d)
      PROVE  Once' /\ DeletedStaysDeleted'
  <2>1. \A x \in Deleters : del'[x].at = "row" => del'[x] = del[x]
    BY <1>0, <1>4 DEF DeleteVector, QueueDelete, StopDelete
  <2>2. UNCHANGED <<staged, admitted, rows, deleted, unheard>>
    BY <1>4 DEF DeleteVector, QueueDelete, StopDelete
  <2> QED  BY <2>1, <2>2 DEF DInv, Once, Durable, DeletedStaysDeleted
<1> QED  BY <1>1, <1>2, <1>3, <1>4 DEF DelStep

LEMMA OnceStep == DInv /\ [Next]_vars => DInv'
<1> SUFFICES ASSUME DInv, [Next]_vars PROVE DInv'
  OBVIOUS
<1>1. IInv'
  BY InvStep DEF DInv
<1>2. Once' /\ DeletedStaysDeleted'
  <2>1. CASE UNCHANGED vars
    BY <2>1 DEF DInv, Once, Durable, DeletedStaysDeleted, vars, taskVars, dbVars, waitVars
  <2>2. ASSUME NEW p \in Recs, RecStep(p) PROVE Once' /\ DeletedStaysDeleted'
    <3>1. UNCHANGED <<staged, admitted, rows, deleted, unheard, del>>
      BY <2>2 DEF RecStep, ReadRows, ReadIds, Purge, ReadPending, EndRec, Reindex, RetryDelete,
                  taskVars, dbVars
    <3> QED  BY <3>1 DEF DInv, Once, Durable, DeletedStaysDeleted
  <2>3. CASE Crash
    BY <2>3 DEF DInv, IInv, TypeOK, Crash, dbVars, Once, Durable, DeletedStaysDeleted
  <2> QED  BY <2>1, <2>2, <2>3, OnceTask, OnceDelete DEF Next
<1> QED  BY <1>1, <1>2 DEF DInv

\* A deleted memory stays deleted, unless the flush that stored it was not heard of:
\* whoever staged it, whoever stored it, whatever the timeouts, cancellations and crashes.
THEOREM NoResurrection == Spec => []DeletedStaysDeleted
<1>1. Init => DInv
  BY InvInit DEF Init, DInv, Once, Durable, DeletedStaysDeleted
<1>2. DInv => DeletedStaysDeleted
  BY DEF DInv
<1>3. DInv /\ [Next]_vars => DInv'
  BY OnceStep
<1> QED  BY <1>1, <1>2, <1>3, PTL DEF Spec

=============================================================================
