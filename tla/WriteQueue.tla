----------------------------- MODULE WriteQueue -----------------------------
(***************************************************************************)
(* The serialized writer of silex/storage/database.py: every write of the  *)
(* program is an item of one bounded asyncio queue, consumed by one task   *)
(* over one SQLite connection.  A single write is a row and a future; a    *)
(* transaction is a lease: the writer issues BEGIN IMMEDIATE, wakes the    *)
(* caller, and waits (at most 30 s) until the caller's body, which writes  *)
(* on the writer's connection, is over.  A supervisor respawns the loop    *)
(* when it crashes and gives up after MaxFailures crashes.                 *)
(*                                                                         *)
(* An action is what runs between two awaits.  The data of a write is its  *)
(* identity: row <<c, i>> is the i-th row client c writes.                 *)
(***************************************************************************)
EXTENDS Integers, Sequences

CONSTANTS
    Writers,      \* tasks that each issue one execute() / executemany()
    Txs,          \* tasks that each open one outermost transaction()
    Kids,         \* tasks created inside a body: they inherit its context
    K,            \* rows a transaction body writes
    QueueMax,     \* maxsize of write_queue
    MaxFailures,  \* MAX_CONSECUTIVE_WRITER_FAILURES
    BodyHangs,    \* TRUE iff a body may outlast the writer's 30 s watchdog
    CommitHangs,  \* TRUE iff a commit may outlast the caller's 30 s wait
    MayClose,     \* TRUE iff close() may be called
    Nobody,       \* the writer serves no item
    Stop          \* the None that close() puts on the queue

ASSUME WriteQueueAssumption ==
    /\ K \in Nat \ {0} /\ QueueMax \in Nat \ {0} /\ MaxFailures \in Nat \ {0}
    /\ BodyHangs \in BOOLEAN /\ CommitHangs \in BOOLEAN /\ MayClose \in BOOLEAN
    /\ Writers \cap Txs = {} /\ Writers \cap Kids = {} /\ Txs \cap Kids = {}
    /\ Nobody \notin Writers \cup Txs \cup Kids
    /\ Stop \notin Writers \cup Txs \cup Kids \cup {Nobody}

VARIABLES
    pc,           \* where each client is
    tx,           \* the events and tx_state dict of each transaction
    n,            \* rows each transaction body has written
    connOf,       \* what active_transaction_conn_var of a context points to
    queue,        \* write_queue
    wpc,          \* where the writer task (loop and supervisor) is
    cur,          \* the item the writer serves
    inTx,         \* a SQL transaction is open on the writer's connection
    pending,      \* rows written on that connection and not yet committed
    committed,    \* rows in the database file
    failures,     \* consecutive_failures
    streak,       \* history: loop crashes since the writer last answered an item
    running,      \* is_running
    closer        \* where close() is

clientVars == <<pc, tx, n, connOf>>
sqlVars    == <<inTx, pending, committed>>
superVars  == <<failures, streak>>
closeVars  == <<running, closer>>
vars == <<clientVars, queue, wpc, cur, sqlVars, superVars, closeVars>>

Clients  == Writers \cup Txs
RowsOf(t) == {<<t, i>> : i \in 1..K}
Rows     == {<<w, 1>> : w \in Writers \cup Kids} \cup UNION {RowsOf(t) : t \in Txs}

\* "ok": returned normally; "err": RuntimeError or the database's error;
\* "raised": the body's own exception; "shed": the queue stayed saturated.
Answered == {"ok", "err", "raised", "shed", "cancelled"}
PcValues == {"idle", "putting", "await", "wait_start", "body",
             "finish", "finish_raised"} \cup Answered
Waiting(c) == pc[c] \in {"putting", "await", "wait_start", "finish", "finish_raised"}

TxState == [start: BOOLEAN, done: BOOLEAN, finish: BOOLEAN,
            action: {"commit", "rollback"}, error: BOOLEAN, forced: BOOLEAN]
\* Mutant: tx_state starts without an action.
NewTxNoAction == [start |-> FALSE, done |-> FALSE, finish |-> FALSE,
                  action |-> "none", error |-> FALSE, forced |-> FALSE]
NewTx == [start |-> FALSE, done |-> FALSE, finish |-> FALSE,
          action |-> "rollback", error |-> FALSE, forced |-> FALSE]

Init ==
    /\ pc = [c \in Clients \cup Kids |-> "idle"]
    /\ tx = [t \in Txs |-> NewTx]
    /\ n = [t \in Txs |-> 0]
    /\ connOf = [c \in Txs \cup Kids |-> "none"]
    /\ queue = << >> /\ wpc = "connect" /\ cur = Nobody
    /\ inTx = FALSE /\ pending = {} /\ committed = {}
    /\ failures = 0 /\ streak = 0
    /\ running = TRUE /\ closer = "open"

-----------------------------------------------------------------------------
(***************************************************************************)
(* Callers: execute() / executemany() and the first half of transaction(). *)
(***************************************************************************)

Room == Len(queue) < QueueMax

\* Where a caller waits once its item is on the queue.
Queued(c) == IF c \in Writers THEN "await" ELSE "wait_start"

\* The _writer_dead check and put(), with no await between when there is room.
Submit(c) ==
    /\ pc[c] = "idle"
    /\ \/ /\ wpc = "dead"
          /\ pc' = [pc EXCEPT ![c] = "err"] /\ UNCHANGED queue
       \/ /\ wpc # "dead" /\ Room
          /\ pc' = [pc EXCEPT ![c] = Queued(c)] /\ queue' = Append(queue, c)
       \/ /\ wpc # "dead" /\ ~Room
          /\ pc' = [pc EXCEPT ![c] = "putting"] /\ UNCHANGED queue
    /\ UNCHANGED <<tx, n, connOf, wpc, cur, sqlVars, superVars, closeVars>>

\* A put() that had to wait goes through; _writer_dead is not looked at again.
PutWhenRoom(c) ==
    /\ pc[c] = "putting" /\ Room
    /\ pc' = [pc EXCEPT ![c] = Queued(c)] /\ queue' = Append(queue, c)
    /\ UNCHANGED <<tx, n, connOf, wpc, cur, sqlVars, superVars, closeVars>>

\* WRITE_QUEUE_ENQUEUE_TIMEOUT runs out: _enqueue_write raises.
Shed(c) ==
    /\ pc[c] = "putting" /\ ~Room
    /\ pc' = [pc EXCEPT ![c] = "shed"]
    /\ UNCHANGED <<tx, n, connOf, queue, wpc, cur, sqlVars, superVars, closeVars>>

\* The task is cancelled in put() or on its future, which is cancelled with it.
CancelWrite(c) ==
    /\ \/ pc[c] = "putting"
       \/ c \in Writers /\ pc[c] = "await"
    /\ pc' = [pc EXCEPT ![c] = "cancelled"]
    /\ UNCHANGED <<tx, n, connOf, queue, wpc, cur, sqlVars, superVars, closeVars>>

\* Cancelled while it waits for start_event (set or not).
CancelLease(t) ==
    /\ pc[t] = "wait_start"
    /\ pc' = [pc EXCEPT ![t] = "cancelled"]
    /\ tx' = [tx EXCEPT ![t] = [@ EXCEPT !.error = TRUE, !.action = "rollback",
                                         !.done = TRUE, !.finish = TRUE]]
    /\ UNCHANGED <<n, connOf, queue, wpc, cur, sqlVars, superVars, closeVars>>

\* start_event is set: the body begins, unless tx_state holds an error.
StartBody(t) ==
    /\ pc[t] = "wait_start" /\ tx[t].start
    /\ IF tx[t].error
       THEN /\ pc' = [pc EXCEPT ![t] = "err"] /\ UNCHANGED connOf
       ELSE /\ pc' = [pc EXCEPT ![t] = "body"]
            /\ connOf' = [connOf EXCEPT ![t] = "live"]
    /\ UNCHANGED <<tx, n, queue, wpc, cur, sqlVars, superVars, closeVars>>

-----------------------------------------------------------------------------
(***************************************************************************)
(* The body of a transaction, and the second half of transaction().        *)
(***************************************************************************)

\* execute() inside a transaction context goes straight to the writer's
\* connection; sqlite3 opens a transaction implicitly when none is open.
OnWriterConn(row) ==
    /\ inTx' = TRUE
    /\ pending' = pending \cup {row}
    /\ UNCHANGED committed

BodyWrite(t) ==
    /\ pc[t] = "body" /\ n[t] < K /\ connOf[t] = "live"
    /\ OnWriterConn(<<t, n[t] + 1>>)
    /\ n' = [n EXCEPT ![t] = @ + 1]
    /\ UNCHANGED <<pc, tx, connOf, queue, wpc, cur, superVars, closeVars>>

BodyReturn(t) ==
    /\ pc[t] = "body" /\ n[t] = K
    /\ pc' = [pc EXCEPT ![t] = "finish"]
    /\ tx' = [tx EXCEPT ![t] = [@ EXCEPT !.action = "commit", !.done = TRUE]]
    /\ UNCHANGED <<n, connOf, queue, wpc, cur, sqlVars, superVars, closeVars>>

\* The body raises (or is cancelled; or its connection has been closed).
BodyRaise(t) ==
    /\ pc[t] = "body"
    /\ pc' = [pc EXCEPT ![t] = "finish_raised"]
    /\ tx' = [tx EXCEPT ![t] = [@ EXCEPT !.action = "rollback", !.done = TRUE]]
    /\ UNCHANGED <<n, connOf, queue, wpc, cur, sqlVars, superVars, closeVars>>

\* Mutant: forced_rollback is not looked at.
OutcomeIgnoresForced(t) ==
    IF pc[t] = "finish_raised" THEN "raised"
    ELSE IF ~tx[t].finish THEN "err" ELSE "ok"

\* What transaction() tells its caller once the wait for finish_event is over.
Outcome(t) ==
    IF pc[t] = "finish_raised" THEN "raised"
    ELSE IF tx[t].forced \/ ~tx[t].finish THEN "err" ELSE "ok"

\* finish_event is set, or the caller's own 30 s wait runs out.
CloseTx(t) ==
    /\ pc[t] \in {"finish", "finish_raised"}
    /\ tx[t].finish \/ CommitHangs
    /\ pc' = [pc EXCEPT ![t] = Outcome(t)]
    /\ connOf' = [connOf EXCEPT ![t] = "none"]
    /\ UNCHANGED <<tx, n, queue, wpc, cur, sqlVars, superVars, closeVars>>

\* Cancelled while it waits for finish_event: the context keeps its connection.
CancelFinish(t) ==
    /\ pc[t] \in {"finish", "finish_raised"}
    /\ pc' = [pc EXCEPT ![t] = "cancelled"]
    /\ UNCHANGED <<tx, n, connOf, queue, wpc, cur, sqlVars, superVars, closeVars>>

\* asyncio.create_task inside a body copies its context variables.
SpawnKid(k, t) ==
    /\ pc[k] = "idle" /\ pc[t] = "body"
    /\ pc' = [pc EXCEPT ![k] = "body"]
    /\ connOf' = [connOf EXCEPT ![k] = connOf[t]]
    /\ UNCHANGED <<tx, n, queue, wpc, cur, sqlVars, superVars, closeVars>>

KidWrite(k) ==
    /\ pc[k] = "body"
    /\ IF connOf[k] = "live"
       THEN OnWriterConn(<<k, 1>>) /\ pc' = [pc EXCEPT ![k] = "ok"]
       ELSE UNCHANGED sqlVars /\ pc' = [pc EXCEPT ![k] = "err"]
    /\ UNCHANGED <<tx, n, connOf, queue, wpc, cur, superVars, closeVars>>

-----------------------------------------------------------------------------
(***************************************************************************)
(* The writer task: _process_write_queue_loop under its supervisor.        *)
(***************************************************************************)

\* Mutant: the transaction is left open.
RollbackSkipped == UNCHANGED sqlVars

Rollback == inTx' = FALSE /\ pending' = {} /\ UNCHANGED committed
Commit   == inTx' = FALSE /\ pending' = {} /\ committed' = committed \cup pending

\* What points to the connection when the connection is closed.
Disconnected == [c \in Txs \cup Kids |->
                    IF connOf[c] = "live" THEN "closed" ELSE connOf[c]]

\* The item is answered and the loop tests is_running again.
NextItem ==
    /\ cur' = Nobody /\ streak' = 0 /\ UNCHANGED failures
    /\ IF running
       THEN wpc' = "get" /\ UNCHANGED connOf
       ELSE wpc' = "stopped" /\ connOf' = Disconnected

InQueue(c) == \E i \in 1..Len(queue) : queue[i] = c

\* _drain_queue_with_error, applied to the clients' side of the queued items.
DrainedPc == [c \in Clients \cup Kids |->
                 IF c \in Writers /\ InQueue(c) /\ pc[c] = "await" THEN "err" ELSE pc[c]]
\* Mutant: start_event is not set for a drained transaction.
DrainedTxAsleep == [t \in Txs |->
                       IF InQueue(t)
                       THEN [tx[t] EXCEPT !.finish = TRUE, !.error = TRUE, !.forced = TRUE]
                       ELSE tx[t]]
DrainedTx == [t \in Txs |->
                 IF InQueue(t)
                 THEN [start |-> TRUE, done |-> TRUE, finish |-> TRUE,
                       action |-> "rollback", error |-> TRUE, forced |-> TRUE]
                 ELSE tx[t]]

\* The loop raised: the connection is closed (what was open on it is gone) and
\* the supervisor respawns the loop, gives up, or stops with is_running.
Crash ==
    /\ cur' = Nobody
    /\ failures' = failures + 1 /\ streak' = streak + 1
    /\ connOf' = Disconnected
    /\ IF failures + 1 >= MaxFailures
       THEN wpc' = "dead" /\ pc' = DrainedPc /\ tx' = DrainedTx /\ queue' = << >>
       ELSE /\ wpc' = IF running THEN "connect" ELSE "stopped"
            /\ UNCHANGED <<pc, tx, queue>>

Connect ==
    /\ wpc = "connect" /\ running
    /\ wpc' = "get"
    /\ UNCHANGED <<clientVars, queue, cur, sqlVars, superVars, closeVars>>

\* aiosqlite.connect or a PRAGMA raises.
ConnectFails ==
    /\ wpc = "connect" /\ running
    /\ Crash
    /\ UNCHANGED <<n, sqlVars, closeVars>>

\* close() was called while the supervisor slept before a respawn.
StopInsteadOfConnect ==
    /\ wpc = "connect" /\ ~running
    /\ wpc' = "stopped"
    /\ UNCHANGED <<clientVars, queue, cur, sqlVars, superVars, closeVars>>

\* get() returned item c.
Get(c) ==
    /\ wpc = "get" /\ queue # << >> /\ Head(queue) = c

\* future.set_result / set_exception: on a cancelled future both raise
\* InvalidStateError, and the second one leaves the loop.
Answer(w, outcome) ==
    IF pc[w] = "cancelled"
    THEN Crash
    ELSE /\ NextItem
         /\ pc' = [pc EXCEPT ![w] = outcome] /\ UNCHANGED <<tx, queue>>

\* BEGIN IMMEDIATE and the statement; BEGIN fails inside an open transaction.
TakeWrite(w) ==
    /\ Get(w)
    /\ cur' = w /\ queue' = Tail(queue)
    /\ IF inTx
       THEN wpc' = "refused" /\ UNCHANGED sqlVars
       ELSE wpc' = "single" /\ OnWriterConn(<<w, 1>>)
    /\ UNCHANGED <<clientVars, superVars, closeVars>>

CommitWrite(w) ==
    /\ wpc = "single" /\ cur = w
    /\ Commit
    /\ Answer(w, "ok")
    /\ UNCHANGED <<n, closeVars>>

\* BEGIN, the statement or the commit raised.
FailWrite(w) ==
    /\ wpc \in {"single", "refused"} /\ cur = w
    /\ Rollback
    /\ Answer(w, "err")
    /\ UNCHANGED <<n, closeVars>>

TakeTx(t) ==
    /\ Get(t) /\ ~inTx
    /\ cur' = t /\ queue' = Tail(queue) /\ wpc' = "lease"
    /\ inTx' = TRUE /\ UNCHANGED <<pending, committed>>
    /\ tx' = [tx EXCEPT ![t].start = TRUE]
    /\ UNCHANGED <<pc, n, connOf, superVars, closeVars>>

\* Mutant: the except branch does not unblock the caller.
FailedAsleep(s) == [s EXCEPT !.error = TRUE, !.forced = TRUE, !.finish = TRUE]

\* The tx_state the except branch leaves.
Failed(s) == [s EXCEPT !.error = TRUE, !.forced = TRUE, !.start = TRUE, !.finish = TRUE]

\* BEGIN IMMEDIATE raised: a transaction was open, or the file was locked.
RefuseTx(t) ==
    /\ Get(t)
    /\ queue' = Tail(queue)
    /\ Rollback
    /\ tx' = [tx EXCEPT ![t] = Failed(@)]
    /\ NextItem
    /\ UNCHANGED <<pc, n, closeVars>>

\* Mutant: the writer commits whatever the body asked for.
ReleaseCommits(t) ==
    /\ wpc = "lease" /\ cur = t /\ tx[t].done
    /\ wpc' = "committing"
    /\ UNCHANGED <<clientVars, queue, cur, sqlVars, superVars, closeVars>>

\* done_event is set: the writer reads the action.
Release(t) ==
    /\ wpc = "lease" /\ cur = t /\ tx[t].done
    /\ wpc' = IF tx[t].action = "commit" THEN "committing" ELSE "rollingback"
    /\ UNCHANGED <<clientVars, queue, cur, sqlVars, superVars, closeVars>>

\* 30 s without done_event.  (The caller's wake-up is always handled first.)
Watchdog(t) ==
    /\ BodyHangs
    /\ wpc = "lease" /\ cur = t /\ pc[t] # "wait_start"
    /\ tx' = [tx EXCEPT ![t] = [@ EXCEPT !.error = TRUE, !.action = "rollback", !.forced = TRUE]]
    /\ wpc' = "rollingback"
    /\ UNCHANGED <<pc, n, connOf, queue, cur, sqlVars, superVars, closeVars>>

CommitTx(t) ==
    /\ wpc = "committing" /\ cur = t
    /\ Commit
    /\ tx' = [tx EXCEPT ![t].finish = TRUE]
    /\ NextItem
    /\ UNCHANGED <<pc, n, queue, closeVars>>

\* commit() raised.
CommitTxFails(t) ==
    /\ wpc = "committing" /\ cur = t
    /\ Rollback
    /\ tx' = [tx EXCEPT ![t] = Failed(@)]
    /\ NextItem
    /\ UNCHANGED <<pc, n, queue, closeVars>>

RollbackTx(t) ==
    /\ wpc = "rollingback" /\ cur = t
    /\ Rollback
    /\ tx' = [tx EXCEPT ![t].finish = TRUE]
    /\ NextItem
    /\ UNCHANGED <<pc, n, queue, closeVars>>

\* The None item: the loop ends and closes the connection.
TakeStop ==
    /\ Get(Stop)
    /\ queue' = Tail(queue)
    /\ Rollback
    /\ wpc' = "stopped" /\ connOf' = Disconnected
    /\ UNCHANGED <<pc, tx, n, cur, superVars, closeVars>>

-----------------------------------------------------------------------------
\* close(): is_running is cleared, then None is put on the queue.
Close ==
    /\ MayClose /\ closer = "open"
    /\ running' = FALSE
    /\ IF Room THEN queue' = Append(queue, Stop) /\ closer' = "closed"
               ELSE closer' = "putting" /\ UNCHANGED queue
    /\ UNCHANGED <<clientVars, wpc, cur, sqlVars, superVars>>

ClosePut ==
    /\ closer = "putting" /\ Room
    /\ queue' = Append(queue, Stop) /\ closer' = "closed"
    /\ UNCHANGED <<clientVars, wpc, cur, sqlVars, superVars, running>>

-----------------------------------------------------------------------------

WriterStep ==
    \/ Connect \/ ConnectFails \/ StopInsteadOfConnect \/ TakeStop
    \/ \E w \in Writers : TakeWrite(w) \/ CommitWrite(w) \/ FailWrite(w)
    \/ \E t \in Txs : \/ TakeTx(t) \/ RefuseTx(t) \/ Release(t) \/ Watchdog(t)
                      \/ CommitTx(t) \/ CommitTxFails(t) \/ RollbackTx(t)

ClientStep ==
    \/ \E c \in Clients : Submit(c) \/ PutWhenRoom(c) \/ Shed(c) \/ CancelWrite(c)
    \/ \E t \in Txs : \/ CancelLease(t) \/ StartBody(t) \/ BodyWrite(t) \/ BodyReturn(t)
                      \/ BodyRaise(t) \/ CloseTx(t) \/ CancelFinish(t)
    \/ \E k \in Kids : KidWrite(k) \/ \E t \in Txs : SpawnKid(k, t)

Next == WriterStep \/ ClientStep \/ Close \/ ClosePut

Spec == Init /\ [][Next]_vars

\* The event loop runs the writer task and wakes every waiting caller, and every
\* wait with a timeout ends; nothing makes a transaction's body terminate.
Fairness ==
    /\ WF_vars(WriterStep)
    /\ \A c \in Clients : WF_vars(PutWhenRoom(c) \/ Shed(c))
    /\ \A t \in Txs : WF_vars(StartBody(t)) /\ WF_vars(CloseTx(t))

LiveSpec == Spec /\ Fairness

-----------------------------------------------------------------------------

TypeOK ==
    /\ pc \in [Clients \cup Kids -> PcValues]
    /\ tx \in [Txs -> TxState]
    /\ n \in [Txs -> 0..K]
    /\ connOf \in [Txs \cup Kids -> {"none", "live", "closed"}]
    /\ queue \in Seq(Clients \cup {Stop})
    /\ wpc \in {"connect", "get", "single", "refused", "lease", "committing",
                "rollingback", "dead", "stopped"}
    /\ cur \in Clients \cup {Nobody}
    /\ inTx \in BOOLEAN
    /\ pending \subseteq Rows /\ committed \subseteq Rows
    /\ failures \in Nat /\ streak \in Nat
    /\ running \in BOOLEAN /\ closer \in {"open", "putting", "closed"}

RowsWritten(c) == IF c \in Txs THEN RowsOf(c) ELSE {<<c, 1>>}

\* A caller that was told its write or its transaction succeeded finds every one
\* of its rows in the database file, whatever timed out, crashed or was
\* cancelled meanwhile (database.py:984-990: "Silently returning in that case
\* would let the caller proceed on the false assumption that its writes are
\* durable").
AckedDurable ==
    \A c \in Clients : pc[c] = "ok" => RowsWritten(c) \subseteq committed

\* A transaction that raised RuntimeError left none of its rows in the file
\* (database.py:996: "None of this transaction's writes were persisted").
NonePersisted ==
    \A t \in Txs : pc[t] = "err" => RowsOf(t) \cap committed = {}

\* While one item is served, only its own rows are open on the writer's
\* connection (database.py:924: the lease "blocks other queue operations").
LeaseIsolation ==
    cur # Nobody => pending \subseteq RowsWritten(cur)

\* A write issued outside every lease by a task born inside one is committed or
\* still on its way to a commit of its own: it is never left open on the
\* connection of an idle writer (database.py:853, "Auto-commits or routes writes
\* to the background queue").
NothingLeftOpen == wpc = "get" => pending = {}

Reply(c) ==
    CASE pc[c] = "ok"                        -> "ok"
      [] pc[c] \in {"err", "raised", "shed"} -> "failed"
      [] pc[c] = "cancelled"                 -> "unknown"
      [] OTHER                               -> "none"

Store == INSTANCE AtomicStore WITH
            Batch <- [c \in Clients |-> RowsWritten(c)],
            store <- committed,
            reply <- [c \in Clients |-> Reply(c)]

\* The queue, the leases, the supervisor and the drain implement AtomicStore when
\* no body outlasts the watchdog and none leaves a task behind: whole
\* transactions only, and truthful answers (database.py:921-925, "Atomic
\* transaction context manager").
ImplementsAtomicStore == Store!Spec

\* The writer is declared dead only after MaxFailures crashes in a row, with no
\* item served in between (database.py:717, "Consecutive writer-loop crashes
\* tolerated", and the log line at 1122, "crashed %d times in a row").
DeadOnlyAfterConsecutiveCrashes == wpc = "dead" => streak >= MaxFailures

\* Once the writer is dead nobody is left waiting on the queue (database.py:1021,
\* "so callers currently blocked on a future/event don't hang forever waiting for
\* a consumer that will never come back").
NobodyQueuedOnDeadWriter ==
    wpc = "dead" => \A c \in Clients : InQueue(c) => ~Waiting(c)

\* Declaring the writer dead answers every caller that is on the queue then.
DeathAnswersTheQueue ==
    [][wpc # "dead" /\ wpc' = "dead" =>
         \A c \in Clients : InQueue(c) =>
            \/ pc'[c] \in Answered
            \/ c \in Txs /\ tx'[c].start /\ tx'[c].error]_vars

\* Every caller that waits is answered, as long as the writer neither dies nor is
\* closed, even when bodies never return: the 30 s watchdog "prevents deadlocks
\* from starving the background writer" (database.py:1162).
EveryoneAnswered ==
    \A c \in Clients : Waiting(c) ~> (~Waiting(c) \/ wpc \in {"dead", "stopped"})

=============================================================================
