------------------------ MODULE WorkerOrchestrator ------------------------
(***************************************************************************)
(* The workers of agent/orchestrator.py over the warm pool of containers   *)
(* of agent/compute/runtimes/warm_pool.py.  A job claims a container of    *)
(* the pool, or starts one, before it waits for a slot of the semaphore;   *)
(* it runs beside a heartbeat monitor and a wall clock that kill its       *)
(* container; it is killed by an operator, cancelled with its caller, or   *)
(* met by the shutdown of the loop.  A cognitive worker has a child loop   *)
(* in place of a container.  At its spawning, its start and its end a job  *)
(* reports to an emitter that may raise, wait, or be cancelled there.      *)
(*                                                                         *)
(* An action is what a task runs between two awaits.  Docker's own steps   *)
(* (a container comes up, a command exits, a container is removed) are     *)
(* actions of their own: they go on when the task that waits for them is   *)
(* cancelled.                                                              *)
(***************************************************************************)
EXTENDS Integers, FiniteSets

CONSTANTS
    Jobs,        \* jobs for a container
    CogJobs,     \* jobs for a child loop
    Echoes,      \* jobs whose command prints an "Exit Code:" of its own
    Containers,  \* bound: containers that can ever be started
    MaxWorkers,  \* permits of the semaphore
    PoolSize,    \* warm containers the pool keeps
    MayCancel,   \* TRUE iff a caller may be cancelled
    OldWaitFor,  \* TRUE iff wait_for() is that of Python 3.11
    Nobody

WorkerAssumption ==
    /\ Jobs \cap CogJobs = {} /\ Echoes \subseteq Jobs
    /\ Nobody \notin Containers \cup Jobs \cup CogJobs
    /\ MaxWorkers \in Nat \ {0} /\ PoolSize \in Nat
    /\ {MayCancel, OldWaitFor} \subseteq BOOLEAN

All == Jobs \cup CogJobs

VARIABLES
    at,        \* where the task of each job is
    status,    \* process.status
    box,       \* the sandbox of each job
    cancel,    \* jobs whose task is to receive a CancelledError
    zero,      \* jobs whose command has exited with 0
    cont,      \* each container
    pool,      \* provider._pool
    filler,    \* _replenish_loop: "idle", "stopped", or "waits" for fresh
    fresh,     \* the container the filler has asked for
    killing,   \* containers whose kill() is under way
    handles,   \* orchestrator._handles
    down,      \* shutdown: where it is, and the handles it has still to look at
    served,    \* history: jobs whose command was started
    killed,    \* history: jobs that were killed
    untold     \* history: jobs whose report of their end was cut off

jobVars  == <<at, status, box, cancel, zero>>
poolVars == <<pool, filler, fresh>>
history  == <<served, killed, untold>>
vars == <<jobVars, cont, poolVars, killing, handles, down, history>>

Ended == {"ended", "refused"}

Init ==
    /\ at = [j \in All |-> "idle"] /\ status = [j \in All |-> "none"]
    /\ box = [j \in All |-> Nobody] /\ cancel = {}
    /\ zero = {}
    /\ cont = [c \in Containers |-> "none"]
    /\ pool = {} /\ filler = "idle" /\ fresh = Nobody
    /\ killing = {} /\ handles = {}
    /\ down = [at |-> "up", todo |-> {}, cur |-> Nobody]
    /\ served = {} /\ killed = {} /\ untold = {}

Goto(j, place) == at' = [at EXCEPT ![j] = place]
SetStatus(j, s) == status' = [status EXCEPT ![j] = s]

\* A cognitive worker gives its slot back before it reports its end.
InSlot ==
    {j \in All : at[j] \in {"starting", "running"}} \cup {j \in Jobs : at[j] \in {"closing", "tearing"}}

\* sandbox.kill(): kill and remove, in threads.
KillBox(j) == killing' = IF box[j] = Nobody THEN killing ELSE killing \cup {box[j]}

-----------------------------------------------------------------------------
(* The provider: containers and the warm pool. *)

\* containers.run() of some container nobody has started yet.
Start(c) == cont[c] = "none" /\ cont' = [cont EXCEPT ![c] = "starting"]

\* Mutant: the filler does not look at the size of the pool.
ReplenishAlways(c) ==
    /\ filler = "idle" /\ Start(c) /\ filler' = "waits" /\ fresh' = c
    /\ UNCHANGED <<jobVars, pool, killing, handles, down, history>>

\* The filler asks for a container when the pool is not full.
Replenish(c) ==
    /\ filler = "idle" /\ Cardinality(pool) < PoolSize
    /\ Start(c) /\ filler' = "waits" /\ fresh' = c
    /\ UNCHANGED <<jobVars, pool, killing, handles, down, history>>

\* Docker has started a container, or has failed to.
Started(c) ==
    /\ cont[c] = "starting"
    /\ cont' \in {[cont EXCEPT ![c] = "up"], [cont EXCEPT ![c] = "dead"]}
    /\ UNCHANGED <<jobVars, poolVars, killing, handles, down, history>>

\* The filler puts what it has got into the pool.
Refill ==
    /\ filler = "waits" /\ cont[fresh] # "starting"
    /\ pool' = IF cont[fresh] = "up" THEN pool \cup {fresh} ELSE pool
    /\ filler' = "idle" /\ fresh' = Nobody
    /\ UNCHANGED <<jobVars, cont, killing, handles, down, history>>

\* container.kill() and remove() are through.
Removed(c) ==
    /\ c \in killing /\ cont[c] # "starting"
    /\ cont' = [cont EXCEPT ![c] = "dead"] /\ killing' = killing \ {c}
    /\ UNCHANGED <<jobVars, poolVars, handles, down, history>>

\* The command exits with 0.  (Any other end is a NoOutput.)
CommandExits(j) ==
    /\ at[j] = "running" /\ j \in Jobs \ zero /\ cont[box[j]] = "up"
    /\ zero' = zero \cup {j}
    /\ UNCHANGED <<at, status, box, cancel, cont, poolVars, killing, handles,
                   down, history>>

-----------------------------------------------------------------------------
(* Spawning: spawn_job(), spawn_worker(), _spawn_cognitive_worker(). *)

\* The lease is not valid, the ancestry too deep, or no worktree can be made.
Refuse(j) ==
    /\ down.at = "up" /\ at[j] = "idle"
    /\ Goto(j, "refused")
    /\ UNCHANGED <<status, box, cancel, zero, cont, poolVars, killing, handles,
                   down, history>>

\* Mutant: the container claimed stays in the pool.
ClaimWarmShared(j) ==
    /\ down.at = "up" /\ at[j] = "idle" /\ j \in Jobs
    /\ \E c \in pool : box' = [box EXCEPT ![j] = c]
    /\ Goto(j, "spawn")
    /\ UNCHANGED <<status, cancel, zero, cont, poolVars, killing, handles, down, history>>

\* A warm container is there.
ClaimWarm(j) ==
    /\ down.at = "up" /\ at[j] = "idle" /\ j \in Jobs
    /\ \E c \in pool : pool' = pool \ {c} /\ box' = [box EXCEPT ![j] = c]
    /\ Goto(j, "spawn")
    /\ UNCHANGED <<status, cancel, zero, cont, filler, fresh, killing, handles, down, history>>

\* The pool is empty: start a container for the job and wait for it.
StartCold(j, c) ==
    /\ down.at = "up" /\ at[j] = "idle" /\ j \in Jobs /\ pool = {}
    /\ Start(c) /\ box' = [box EXCEPT ![j] = c] /\ Goto(j, "spawn")
    /\ UNCHANGED <<status, cancel, zero, poolVars, killing, handles, down, history>>

\* A cognitive worker is on record as running before it has a slot.
SpawnCognitive(j) ==
    /\ down.at = "up" /\ at[j] = "idle" /\ j \in CogJobs
    /\ SetStatus(j, "running") /\ Goto(j, "spawn")
    /\ UNCHANGED <<box, cancel, zero, cont, poolVars, killing, handles, down, history>>

\* Mutant: _spawn_container() is taken to have succeeded.
AcceptHopeful(j) ==
    /\ at[j] = "spawn" /\ j \notin cancel
    /\ j \in Jobs => cont[box[j]] = "up"
    /\ SetStatus(j, IF j \in Jobs THEN "pending" ELSE "running")
    /\ Goto(j, "queued") /\ handles' = handles \cup {j}
    /\ UNCHANGED <<box, cancel, zero, cont, poolVars, killing, down, history>>

\* The container is up and the worker reported: it has its task and its handle.
\* Or provision_sandbox() raises, or the report, and nobody has a handle.
Accept(j) ==
    /\ at[j] = "spawn" /\ j \notin cancel
    /\ \/ /\ j \in Jobs => cont[box[j]] = "up"
          /\ SetStatus(j, IF j \in Jobs THEN "pending" ELSE "running")
          /\ Goto(j, "queued") /\ handles' = handles \cup {j}
       \/ /\ j \in Jobs => cont[box[j]] # "starting"
          /\ Goto(j, "refused") /\ UNCHANGED <<status, handles>>
    /\ UNCHANGED <<box, cancel, zero, cont, poolVars, killing, down, history>>

-----------------------------------------------------------------------------
(* Running: _run_job() and _run_child(). *)

Acquire(j) ==
    /\ at[j] = "queued" /\ j \notin cancel /\ Cardinality(InSlot) < MaxWorkers
    /\ SetStatus(j, "running") /\ Goto(j, IF j \in Jobs THEN "starting" ELSE "running")
    /\ UNCHANGED <<box, cancel, zero, cont, poolVars, killing, handles, down, history>>

\* The report of the start raises, before the try: the task ends without its finally.
StartFails(j) ==
    /\ at[j] = "starting" /\ j \notin cancel
    /\ SetStatus(j, "failed") /\ Goto(j, "ended")
    /\ UNCHANGED <<box, cancel, zero, cont, poolVars, killing, handles, down, history>>

\* The job is reported as running and its command is started.
Launch(j) ==
    /\ at[j] = "starting" /\ j \notin cancel
    /\ Goto(j, "running") /\ served' = served \cup {j}
    /\ UNCHANGED <<status, box, cancel, zero, cont, poolVars, killing, handles, down,
                   killed, untold>>

\* The host reads an exit code of 0 from the output: the first "Exit Code:" counts, be
\* it the command's own.  A FAILED of the monitors stays; a KILLED does not.  Before
\* Python 3.12 wait_for() prefers an answer that is there to a cancellation.
ReadOutput(j) ==
    /\ at[j] = "running" /\ j \in zero \cup Echoes
    /\ j \in cancel => OldWaitFor
    /\ SetStatus(j, IF status[j] = "failed" THEN "failed" ELSE "done")
    /\ Goto(j, "closing") /\ cancel' = cancel \ {j}
    /\ UNCHANGED <<box, zero, cont, poolVars, killing, handles, down, history>>

\* Mutant: an answer without an exit code passes for 0.
NoOutputPasses(j) ==
    /\ at[j] = "running" /\ j \in Jobs \ cancel
    /\ SetStatus(j, IF status[j] = "failed" THEN "failed" ELSE "done") /\ Goto(j, "closing")
    /\ UNCHANGED <<box, cancel, zero, cont, poolVars, killing, handles, down, history>>

\* Another exit code, or none: the lease has run out in the queue, the socket is gone
\* with its container, or the sidecar has given the command up.
NoOutput(j) ==
    /\ at[j] = "running" /\ j \in Jobs \ cancel
    /\ SetStatus(j, "failed") /\ Goto(j, "closing")
    /\ UNCHANGED <<box, cancel, zero, cont, poolVars, killing, handles, down, history>>

\* wait_for() gives up 15 s after the timeout of the job.
WaitTimeout(j) ==
    /\ at[j] = "running" /\ j \in Jobs \ cancel
    /\ SetStatus(j, "failed") /\ Goto(j, "closing")
    /\ KillBox(j)
    /\ UNCHANGED <<box, cancel, zero, cont, poolVars, handles, down, history>>

\* _wall_clock_timeout().
WallClock(j) ==
    /\ at[j] = "running" /\ j \in Jobs /\ status[j] = "running"
    /\ SetStatus(j, "failed") /\ KillBox(j)
    /\ UNCHANGED <<at, box, cancel, zero, cont, poolVars, handles, down, history>>

\* _monitor_heartbeat(), which does not ask what the status is.
Heartbeat(j) ==
    /\ at[j] = "running" /\ j \in Jobs /\ box[j] \notin killing
    /\ SetStatus(j, "failed") /\ KillBox(j)
    /\ UNCHANGED <<at, box, cancel, zero, cont, poolVars, handles, down, history>>

\* The end is reported and recorded; a sandbox is then torn down.  Before it reports, a
\* job for a container waits for the monitors it stops, and swallows with theirs a
\* cancellation that comes then.
Tell(j) ==
    /\ at[j] = "closing"
    /\ j \in Jobs \/ j \notin cancel
    /\ Goto(j, IF j \in Jobs THEN "tearing" ELSE "ended") /\ KillBox(j)
    /\ cancel' = cancel \ {j}
    /\ UNCHANGED <<status, box, zero, cont, poolVars, handles, down, history>>

\* The report of the end, or its record, raises: nothing is torn down.
TellFails(j) ==
    /\ at[j] = "closing"
    /\ j \in Jobs \/ j \notin cancel
    /\ SetStatus(j, "failed") /\ Goto(j, "ended")
    /\ cancel' = cancel \ {j} /\ untold' = untold \cup {j}
    /\ UNCHANGED <<box, zero, cont, poolVars, killing, handles, down, served, killed>>

\* The sandbox is torn down: the handle goes and the slot is free.
End(j) ==
    /\ at[j] = "tearing" /\ j \notin cancel /\ box[j] \notin killing
    /\ Goto(j, "ended") /\ handles' = handles \ {j}
    /\ UNCHANGED <<status, box, cancel, zero, cont, poolVars, killing, down,
                   history>>

\* The child loop is through, in time or not; its handle is kept.
ChildEnds(j) ==
    /\ at[j] = "running" /\ j \in CogJobs \ cancel
    /\ \E s \in {"done", "failed"} : SetStatus(j, s)
    /\ Goto(j, "closing")
    /\ UNCHANGED <<box, cancel, zero, cont, poolVars, killing, handles, down, history>>

-----------------------------------------------------------------------------
(* Cancellation and kill(). *)

\* Mutant: a cancelled job skips its finally block.
CancelledDropped(j) ==
    /\ j \in cancel /\ at[j] \in {"queued", "starting", "running", "tearing"}
    /\ cancel' = cancel \ {j} /\ Goto(j, "ended") /\ SetStatus(j, "killed")
    /\ UNCHANGED <<box, zero, cont, poolVars, killing, handles, down, history>>

\* The CancelledError arrives: only a job in its try block has a finally to run.
Cancelled(j) ==
    /\ j \in cancel /\ cancel' = cancel \ {j}
    /\ \/ at[j] = "spawn" /\ Goto(j, "refused") /\ UNCHANGED status
       \/ at[j] = "running" /\ j \in Jobs /\ Goto(j, "closing") /\ UNCHANGED status
       \/ /\ \/ at[j] \in {"queued", "starting", "closing", "tearing"}
             \/ at[j] = "running" /\ j \in CogJobs
          /\ Goto(j, "ended") /\ SetStatus(j, "killed")
    /\ untold' = IF at[j] = "closing" THEN untold \cup {j} ELSE untold
    /\ UNCHANGED <<box, zero, cont, poolVars, killing, handles, down, served, killed>>

\* The caller that waits in spawn_job() or result() is cancelled, and the job with it.
CallerCancelled(j) ==
    /\ MayCancel /\ at[j] \notin {"idle"} \cup Ended /\ j \notin cancel
    /\ cancel' = cancel \cup {j}
    /\ UNCHANGED <<at, status, box, zero, cont, poolVars, killing, handles, down,
                   history>>

\* Mutant: kill() leaves the status to the task.
KillQuietly(j) ==
    /\ cancel' = IF at[j] \in Ended THEN cancel ELSE cancel \cup {j}
    /\ KillBox(j) /\ killed' = killed \cup {j}
    /\ UNCHANGED <<at, status, box, zero, cont, poolVars, served, untold>>

\* WorkerHandle.kill(); a cognitive worker has no sandbox to kill.
KillHandle(j) ==
    /\ SetStatus(j, "killed")
    /\ cancel' = IF at[j] \in Ended THEN cancel ELSE cancel \cup {j}
    /\ KillBox(j) /\ killed' = killed \cup {j}
    /\ UNCHANGED <<at, box, zero, cont, poolVars, served, untold>>

\* An operator, or the turn's own supervision, kills a worker it has a handle of.
Kill(j) ==
    /\ j \in handles /\ at[j] # "idle" /\ status[j] # "killed"
    /\ KillHandle(j)
    /\ UNCHANGED <<handles, down>>

-----------------------------------------------------------------------------
(* CognitiveLoop.shutdown(), WorkerOrchestrator.shutdown(), provider.shutdown(). *)

ShutDown ==
    /\ down.at = "up"
    /\ down' = [at |-> "killing", todo |-> handles, cur |-> Nobody]
    /\ UNCHANGED <<jobVars, cont, poolVars, killing, handles, history>>

\* The next handle of the snapshot: only a running worker is killed, and waited for.
ShutDownKill(j) ==
    /\ down.at = "killing" /\ j \in down.todo /\ down.cur \notin killing
    /\ IF status[j] = "running"
       THEN KillHandle(j) /\ down' = [down EXCEPT !.todo = @ \ {j}, !.cur = box[j]]
       ELSE /\ down' = [down EXCEPT !.todo = @ \ {j}]
            /\ UNCHANGED <<jobVars, cont, poolVars, killing, history>>
    /\ UNCHANGED handles

\* The handles are forgotten, and the filler cancelled.
ShutDownForget ==
    /\ down.at = "killing" /\ down.todo = {} /\ down.cur \notin killing
    /\ handles' = {} /\ filler' = "stopped" /\ fresh' = Nobody
    /\ down' = [at |-> "draining", todo |-> {}, cur |-> Nobody]
    /\ UNCHANGED <<jobVars, cont, pool, killing, history>>

\* The pool is emptied, one kill() after the other.
ShutDownDrain ==
    /\ down.at = "draining" /\ down.cur \notin killing
    /\ \/ /\ pool = {} /\ down' = [down EXCEPT !.at = "down"]
          /\ UNCHANGED <<pool, killing>>
       \/ \E c \in pool : /\ pool' = pool \ {c} /\ killing' = killing \cup {c}
                          /\ down' = [down EXCEPT !.cur = c]
    /\ UNCHANGED <<jobVars, cont, filler, fresh, handles, history>>

-----------------------------------------------------------------------------

Works(j) == ReadOutput(j) \/ NoOutput(j) \/ WaitTimeout(j) \/ ChildEnds(j)
Settles(j) ==
    \/ Accept(j) \/ Launch(j) \/ StartFails(j) \/ Tell(j) \/ TellFails(j)
    \/ End(j) \/ Cancelled(j)
ShutsDown == ShutDownForget \/ ShutDownDrain \/ \E j \in All : ShutDownKill(j)

Next ==
    \/ \E j \in All :
          \/ Refuse(j) \/ ClaimWarm(j) \/ SpawnCognitive(j) \/ \E c \in Containers : StartCold(j, c)
          \/ Acquire(j) \/ CommandExits(j) \/ Works(j) \/ WallClock(j) \/ Heartbeat(j)
          \/ Settles(j) \/ CallerCancelled(j) \/ Kill(j)
    \/ \E c \in Containers : Replenish(c) \/ Started(c) \/ Removed(c)
    \/ Refill \/ ShutDown \/ ShutsDown

Spec == Init /\ [][Next]_vars

\* The event loop runs what is ready, the timers of a job fire, Docker answers, and
\* the semaphore serves its waiters in their order.
Fairness ==
    /\ \A j \in All : WF_vars(Settles(j)) /\ WF_vars(Works(j)) /\ SF_vars(Acquire(j))
    /\ \A c \in Containers : WF_vars(Started(c)) /\ WF_vars(Removed(c))
    /\ WF_vars(Refill) /\ WF_vars(ShutsDown)

LiveSpec == Spec /\ Fairness

-----------------------------------------------------------------------------

TypeOK ==
    /\ at \in [All -> {"idle", "spawn", "queued", "starting", "running", "closing",
                       "tearing"} \cup Ended]
    /\ status \in [All -> {"none", "pending", "running", "done", "failed", "killed"}]
    /\ box \in [All -> Containers \cup {Nobody}]
    /\ \A j \in All : at[j] \notin {"idle", "refused"} /\ j \in Jobs => box[j] # Nobody
    /\ cancel \subseteq All /\ zero \subseteq Jobs
    /\ cont \in [Containers -> {"none", "starting", "up", "dead"}]
    /\ pool \subseteq Containers /\ Cardinality(pool) <= PoolSize
    /\ filler \in {"idle", "waits", "stopped"} /\ fresh \in Containers \cup {Nobody}
    /\ killing \subseteq Containers /\ handles \subseteq All
    /\ down \in [at : {"up", "killing", "draining", "down"}, todo : SUBSET All,
                 cur : Containers \cup {Nobody}]
    /\ served \cup killed \cup untold \subseteq All

\* A caller is told "success" only if its command has exited with 0 and nobody has
\* killed the worker (orchestrator.py:62, "success = self.process.status ==
\* WorkerStatus.DONE and exit_code == 0"): no monitor, timeout, kill or dead socket
\* makes one up.
SuccessIsReal ==
    \A j \in Jobs : at[j] = "ended" /\ status[j] = "done" => j \in zero \ killed

\* A job whose command was started leaves no container behind, however it ended
\* (warm_pool.py:4, "Containers are claimed per-task and destroyed after completion"),
\* unless the report of its end was cut off, which comes before (orchestrator.py:478).
ServedLeavesNothing ==
    \A j \in (served \cap Jobs) \ untold :
        at[j] = "ended" => cont[box[j]] = "dead" \/ box[j] \in killing

\* Whatever container a job that was accepted leaves behind, the orchestrator has its
\* handle until it is shut down (orchestrator.py:506, the last step of the finally).
LeftIsKnown ==
    \A j \in Jobs : at[j] = "ended" /\ cont[box[j]] # "dead" /\ box[j] \notin killing =>
        j \in handles \/ down.at \in {"draining", "down"}

\* No container serves two jobs, or a job and the pool.
OwnContainer ==
    /\ \A i, j \in Jobs : box[i] = box[j] /\ box[i] # Nobody => i = j
    /\ \A j \in Jobs : box[j] \notin pool \cup {fresh} \/ box[j] = Nobody

\* Every job that was accepted comes to an end, whatever its command, its container
\* or the shutdown do (orchestrator.py:404, _wall_clock_timeout).
EveryJobEnds == \A j \in All : at[j] \in {"spawn", "queued"} ~> at[j] \in Ended

\* No job that was accepted leaves its container behind.
EndedLeavesNothing ==
    \A j \in Jobs : at[j] = "ended" => cont[box[j]] = "dead" \/ box[j] \in killing

\* The shutdown leaves no container running and no job that could still start
\* (cognitive_loop.py:448, "Kill all active orchestrator workers").
NothingOutlivesShutdown ==
    down.at = "down" /\ killing = {} /\ cancel = {} =>
        /\ \A c \in Containers : cont[c] \in {"none", "dead"}
        /\ \A j \in All : at[j] # "queued"

=============================================================================
