----------------------------- MODULE GoalDaemon -----------------------------
(***************************************************************************)
(* The background daemon of scripts/daemon.py: a supervisor keeps a        *)
(* gateway process and an ephemeral cognitive worker alive, with backoff   *)
(* and a limit on crashes in a row.  A worker polls the table goals,       *)
(* claims a pending goal, starts a CognitiveLoop, runs the goal, records   *)
(* the run in autonomous_jobs and exits.  Gateway and worker each own a    *)
(* CognitiveLoop, and a CognitiveLoop starts only with the process lock of *)
(* silex/core/cognitive_loop.py, a file with the holder's pid, unless      *)
(* SILEX_ALLOW_MULTI_WRITER is set (it is not by default).  Processes run  *)
(* in parallel, so that an action is one access to a file or a table.      *)
(* A process is named by its kind and the start of the daemon it belongs   *)
(* to: the supervisor starts one of a kind when its last is dead, and      *)
(* kills its own before it stops.  Whoever kills the supervisor itself     *)
(* leaves them: they go on as orphans, which nobody watches or restarts,   *)
(* beside the recovery and the processes of the next start.  Time is left  *)
(* out: a backoff is over, 30 s of uptime are reached and a heartbeat is   *)
(* 3 hours old at any moment at which they may be.  The watcher process    *)
(* appears as its registration of goals; the cron process, which deletes   *)
(* old goals that are over, does not.                                      *)
(***************************************************************************)
EXTENDS Naturals

CONSTANTS
    AutoGoals,    \* goals that the watcher may register (failing tests)
    ChatGoals,    \* goals that a conversation may create
    MaxFailures,  \* MAX_CONSECUTIVE_FAILURES
    MaxStarts,    \* bound: starts of the daemon
    MaxDeaths,    \* bound: crashes of a process, the supervisor or the machine,
                  \* and heartbeats that cannot be written
    Survivors,    \* bound: the kinds of process that may outlive their supervisor
    Nobody

Goals  == AutoGoals \cup ChatGoals
Kinds  == {"gateway", "worker"}
Starts == 1..MaxStarts
Procs  == Kinds \X Starts
Workers == {"worker"} \X Starts

ASSUME GoalDaemonAssumption ==
    /\ Nobody \notin Goals
    /\ MaxFailures \in Nat \ {0} /\ MaxStarts \in Nat /\ MaxDeaths \in Nat

VARIABLES
    goal,       \* goals.status
    jobs,       \* history: how the recorded runs of each goal have ended
    claims,     \* history: how often workers with a supervisor claimed each goal
    strays,     \* history: how often each process claimed one as an orphan
    beat,       \* heartbeats.last_seen of the cognitive worker, whichever wrote it
    hb,         \* a worker's hb_task: it has written, a write failed, or neither
    lock,       \* whose pid the process lock holds: a process's, a dead one's
    at,         \* where each process is, or how the last of its name ended
    mine,       \* a worker's goal_row
    daemon,     \* the supervisor
    left,       \* the starts whose supervisor was killed: their watcher may run
    stale,      \* the goals its recovery has still to reset
    sup,        \* _worker_state, per kind
    streak,     \* history: a kind's crashes since it last exited or settled
    starts, deaths

tables     == <<goal, jobs, claims, strays>>
procVars   == <<hb, at, mine>>
daemonVars == <<daemon, left, stale, sup, starts, deaths>>
vars == <<tables, beat, lock, procVars, daemonVars, streak>>

Statuses == {"none", "pending", "active", "completed", "abandoned"}
Dead     == {"none", "exited", "crashed"}
Beating  == {"start", "unlink", "write", "record", "think", "report", "stop"}
Places   == Dead \cup Beating \cup {"poll", "claim", "frozen", "serve"}
NoLock   == <<"none", 0>>
Gone     == <<"gone", 0>>

Alive(p) == at[p] \notin Dead
Fresh == [fails |-> 0, backoff |-> FALSE, disabled |-> FALSE]
Entry(k) == IF k = "gateway" THEN "start" ELSE "poll"

Now(k) == <<k, starts>>
Watched(p) == daemon # "down" /\ p[2] = starts

Init ==
    /\ goal = [g \in Goals |-> "none"] /\ claims = [g \in Goals |-> 0]
    /\ jobs = [g \in Goals |-> {}] /\ strays = [p \in Workers |-> 0]
    /\ beat = "none" /\ hb = [p \in Workers |-> "none"] /\ lock = NoLock
    /\ at = [p \in Procs |-> "none"] /\ mine = [p \in Workers |-> Nobody]
    /\ daemon = "down" /\ left = {} /\ stale = {} /\ starts = 0 /\ deaths = 0
    /\ sup = [k \in Kinds |-> Fresh] /\ streak = [k \in Kinds |-> 0]

Goto(p, place) == at' = [at EXCEPT ![p] = place]

\* What processes leave in the lock file when they die without a shutdown().
LockWithout(ps) == IF lock \in ps THEN Gone ELSE lock

\* The goal and the heartbeat of workers that are gone.
Without(ps) ==
    /\ mine' = [p \in Workers |-> IF p \in ps THEN Nobody ELSE mine[p]]
    /\ hb' = [p \in Workers |-> IF p \in ps THEN "none" ELSE hb[p]]

Dies(p) ==
    /\ Goto(p, "crashed") /\ lock' = LockWithout({p}) /\ Without({p})
    /\ streak' = IF Watched(p) THEN [streak EXCEPT ![p[1]] = @ + 1] ELSE streak

-----------------------------------------------------------------------------
(* The goals that come from elsewhere. *)

\* A watcher's test sweep failed, and no goal of its own is pending or active.
Sweep(g) ==
    /\ daemon = "up" \/ left # {}
    /\ g \in AutoGoals /\ goal[g] = "none"
    /\ \A a \in AutoGoals : goal[a] \notin {"pending", "active"}
    /\ goal' = [goal EXCEPT ![g] = "pending"]
    /\ UNCHANGED <<jobs, claims, strays, beat, lock, procVars, daemonVars, streak>>

\* In a conversation, or in a worker's own turn.
InTurn == \E p \in Procs : at[p] \in {"serve", "think"}

ChatCreates(g) ==
    /\ g \in ChatGoals /\ goal[g] = "none" /\ InTurn
    /\ goal' = [goal EXCEPT ![g] = "active"]
    /\ UNCHANGED <<jobs, claims, strays, beat, lock, procVars, daemonVars, streak>>

\* A turn completes or abandons an active goal, whoever created it.
ChatEnds(g) ==
    /\ goal[g] = "active" /\ InTurn
    /\ \E s \in {"completed", "abandoned"} : goal' = [goal EXCEPT ![g] = s]
    /\ UNCHANGED <<jobs, claims, strays, beat, lock, procVars, daemonVars, streak>>

-----------------------------------------------------------------------------
(* The worker up to its CognitiveLoop. *)

\* The oldest pending goal; their order is left open.
Fetch(p) ==
    /\ at[p] = "poll" /\ Goto(p, "claim")
    /\ \E g \in Goals : goal[g] = "pending" /\ mine' = [mine EXCEPT ![p] = g]
    /\ UNCHANGED <<tables, beat, hb, lock, daemonVars, streak>>

Counted(p) ==
    /\ claims' = IF Watched(p) THEN [claims EXCEPT ![mine[p]] = @ + 1] ELSE claims
    /\ strays' = IF Watched(p) THEN strays ELSE [strays EXCEPT ![p] = @ + 1]

\* Mutant: the claim is not written.
ClaimForgets(p) ==
    /\ at[p] = "claim" /\ Goto(p, "start") /\ Counted(p)
    /\ UNCHANGED <<goal, jobs, beat, hb, lock, mine, daemonVars, streak>>

\* Whatever the goal's status is by now.
Claim(p) ==
    /\ at[p] = "claim" /\ Goto(p, "start") /\ Counted(p)
    /\ goal' = [goal EXCEPT ![mine[p]] = "active"]
    /\ UNCHANGED <<jobs, beat, hb, lock, mine, daemonVars, streak>>

\* heartbeat_loop: as long as the event loop runs and no write has failed.
Beats(p) == at[p] \in Beating /\ hb[p] # "off"

Beat(p) ==
    /\ Beats(p) /\ (beat # "fresh" \/ hb[p] = "none")
    /\ beat' = "fresh" /\ hb' = [hb EXCEPT ![p] = "on"]
    /\ UNCHANGED <<tables, lock, at, mine, daemonVars, streak>>

\* It catches its own cancellation only.
BeatFails(p) ==
    /\ deaths < MaxDeaths /\ deaths' = deaths + 1 /\ Beats(p) /\ hb' = [hb EXCEPT ![p] = "off"]
    /\ UNCHANGED <<tables, beat, lock, at, mine, daemon, left, stale, sup, starts, streak>>

\* Nobody has beaten for 3 hours.
GoStale ==
    /\ beat = "fresh" /\ beat' = "stale" /\ \A p \in Workers : ~Beats(p)
    /\ UNCHANGED <<tables, lock, procVars, daemonVars, streak>>

\* _acquire_process_lock finds a living holder, or a living process that has
\* got a dead holder's pid: startup() raises and the process ends.
Refused(p) ==
    /\ at[p] = "start" /\ (lock = Gone \/ (lock \in Procs /\ Alive(lock))) /\ Dies(p)
    /\ UNCHANGED <<tables, beat, daemonVars>>

\* It finds no lock, or a dead holder's.
CheckLock(p) ==
    /\ at[p] = "start" /\ lock \in {NoLock, Gone}
    /\ Goto(p, IF lock = NoLock THEN "write" ELSE "unlink")
    /\ UNCHANGED <<tables, beat, hb, lock, mine, daemonVars, streak>>

\* Removes whatever lock is there by now.
UnlinkStale(p) ==
    /\ at[p] = "unlink" /\ lock' = NoLock /\ Goto(p, "write")
    /\ UNCHANGED <<tables, beat, hb, mine, daemonVars, streak>>

WriteLock(p) ==
    /\ at[p] = "write" /\ lock' = p /\ Goto(p, IF p[1] = "gateway" THEN "serve" ELSE "record")
    /\ UNCHANGED <<tables, beat, hb, mine, daemonVars, streak>>

-----------------------------------------------------------------------------
(* The worker's run. *)

\* Mutant: the run is recorded without waiting for the queue of the connection.
RecordAtOnce(p) ==
    /\ at[p] = "record" /\ Goto(p, "think")
    /\ UNCHANGED <<tables, beat, hb, lock, mine, daemonVars, streak>>

\* The write follows the first heartbeat in the queue of the connection.
Record(p) ==
    /\ at[p] = "record" /\ hb[p] # "none" /\ Goto(p, "think")
    /\ UNCHANGED <<tables, beat, hb, lock, mine, daemonVars, streak>>

\* process() returns.
Think(p) ==
    /\ at[p] = "think" /\ Goto(p, "report")
    /\ UNCHANGED <<tables, beat, hb, lock, mine, daemonVars, streak>>

\* Something blocks the event loop.
Freeze(p) ==
    /\ at[p] = "think" /\ Goto(p, "frozen")
    /\ UNCHANGED <<tables, beat, hb, lock, mine, daemonVars, streak>>

Ends(p, how) ==
    /\ Goto(p, "stop") /\ jobs' = [jobs EXCEPT ![mine[p]] = @ \cup {how}]
    /\ UNCHANGED <<goal, claims, strays, beat, hb, lock, mine, daemonVars, streak>>

\* The run is over in autonomous_jobs; the goal's own status is left as it is.
Report(p) == at[p] = "report" /\ Ends(p, "completed")

\* process() raises.
Fails(p) == at[p] = "think" /\ Ends(p, "failed")

\* Mutant: a worker that is gone still has its goal.
ExitKeepsGoal(p) ==
    /\ at[p] = "stop" /\ Goto(p, "exited") /\ lock' = NoLock
    /\ streak' = IF Watched(p) THEN [streak EXCEPT ![p[1]] = 0] ELSE streak
    /\ UNCHANGED <<tables, beat, hb, mine, daemonVars>>

\* shutdown() removes the lock, whosever it is, and the process exits with 0.
Exit(p) ==
    /\ at[p] = "stop" /\ Goto(p, "exited") /\ lock' = NoLock /\ Without({p})
    /\ streak' = IF Watched(p) THEN [streak EXCEPT ![p[1]] = 0] ELSE streak
    /\ UNCHANGED <<tables, beat, daemonVars>>

-----------------------------------------------------------------------------
(* DaemonWatchdog. *)

\* run(): the goals found active are to be reset.
Start ==
    /\ daemon = "down" /\ starts < MaxStarts /\ starts' = starts + 1
    /\ daemon' = "recover" /\ stale' = {g \in Goals : goal[g] = "active"}
    /\ UNCHANGED <<tables, beat, lock, procVars, left, sup, streak, deaths>>

\* _recover_stale_jobs, one goal, whatever its status is by now.
Recover(g) ==
    /\ daemon = "recover" /\ g \in stale /\ stale' = stale \ {g}
    /\ goal' = [goal EXCEPT ![g] = "pending"]
    /\ UNCHANGED <<jobs, claims, strays, beat, lock, procVars, daemon, left, sup, streak, starts, deaths>>

\* An exception of the recovery is logged.
RecoveryFails ==
    /\ daemon = "recover" /\ stale # {} /\ stale' = {}
    /\ UNCHANGED <<tables, beat, lock, procVars, daemon, left, sup, streak, starts, deaths>>

Boot ==
    /\ daemon = "recover" /\ stale = {} /\ daemon' = "up"
    /\ at' = [p \in Procs |-> IF p[2] = starts THEN Entry(p[1]) ELSE at[p]]
    /\ sup' = [k \in Kinds |-> Fresh] /\ streak' = [k \in Kinds |-> 0]
    /\ UNCHANGED <<tables, beat, lock, hb, mine, left, stale, starts, deaths>>

supervised == <<tables, beat, lock, hb, mine, daemon, left, stale, starts, deaths>>

Ended(k, how) == daemon = "up" /\ at[Now(k)] = how /\ ~sup[k].disabled

Noted(k) ==
    LET n == sup[k].fails + 1 IN
    sup' = [sup EXCEPT ![k] = [@ EXCEPT !.fails = n, !.backoff = TRUE, !.disabled = (n >= MaxFailures)]]

\* Mutant: every look at a dead process counts as a crash.
NoteCrashAgain(k) == Ended(k, "crashed") /\ Noted(k) /\ UNCHANGED <<supervised, at, streak>>

\* _maybe_restart_worker sees a crash for the first time: a backoff, or the end.
NoteCrash(k) ==
    Ended(k, "crashed") /\ ~sup[k].backoff /\ Noted(k) /\ UNCHANGED <<supervised, at, streak>>

\* Mutant: only a normal exit is followed by a start.
RestartExited(k) ==
    /\ Ended(k, "exited") /\ Goto(Now(k), Entry(k)) /\ sup' = [sup EXCEPT ![k] = Fresh]
    /\ UNCHANGED <<supervised, streak>>

\* It sees a normal exit, or the backoff is over.
Restart(k) ==
    /\ Ended(k, "exited") \/ (Ended(k, "crashed") /\ sup[k].backoff)
    /\ sup' = [sup EXCEPT ![k] = [Fresh EXCEPT !.fails = IF at[Now(k)] = "exited" THEN 0 ELSE sup[k].fails]]
    /\ Goto(Now(k), Entry(k)) /\ UNCHANGED <<supervised, streak>>

\* _track_worker_uptime_resets; the code's started_at only keeps it from
\* clearing again what nothing has changed since.
Settle(k) ==
    /\ daemon = "up" /\ Alive(Now(k)) /\ sup' = [sup EXCEPT ![k] = Fresh]
    /\ streak' = [streak EXCEPT ![k] = 0] /\ UNCHANGED <<supervised, at>>

\* _check_heartbeats: the heartbeat may be an earlier worker's, or an orphan's.
KillFrozen ==
    /\ daemon = "up" /\ beat = "stale" /\ Alive(Now("worker")) /\ Dies(Now("worker"))
    /\ UNCHANGED <<tables, beat, daemonVars>>

\* SIGTERM.  The gateway shuts down.
Stop ==
    /\ daemon = "up" /\ daemon' = "stopping"
    /\ at' = [at EXCEPT ![Now("gateway")] = IF @ = "serve" THEN "stop" ELSE @]
    /\ UNCHANGED <<tables, beat, lock, hb, mine, left, stale, sup, streak, starts, deaths>>

NoSupervisor ==
    /\ daemon' = "down" /\ stale' = {}
    /\ sup' = [k \in Kinds |-> Fresh] /\ streak' = [k \in Kinds |-> 0]

Gones(ps) ==
    /\ at' = [p \in Procs |-> IF p \in ps THEN "none" ELSE at[p]]
    /\ lock' = LockWithout(ps) /\ Without(ps)

\* Whoever of its own still runs after 10 s is killed.
Halt ==
    /\ daemon = "stopping" /\ NoSupervisor /\ Gones({p \in Procs : p[2] = starts})
    /\ UNCHANGED <<tables, beat, left, starts, deaths>>

-----------------------------------------------------------------------------

Crash(p) ==
    /\ deaths < MaxDeaths /\ deaths' = deaths + 1 /\ Alive(p) /\ Dies(p)
    /\ UNCHANGED <<tables, beat, daemon, left, stale, sup, starts>>

\* The supervisor is killed: only its normal end would end its processes.
SupervisorDies ==
    /\ deaths < MaxDeaths /\ deaths' = deaths + 1 /\ daemon # "down" /\ NoSupervisor
    /\ left' = IF daemon = "recover" THEN left ELSE left \cup {starts}
    /\ Gones({p \in Procs : p[2] = starts /\ p[1] \notin Survivors})
    /\ UNCHANGED <<tables, beat, starts>>

\* The machine goes down, and files and tables remain.
PowerLoss ==
    /\ deaths < MaxDeaths /\ deaths' = deaths + 1 /\ (daemon # "down" \/ left # {})
    /\ NoSupervisor /\ Gones(Procs) /\ left' = {}
    /\ UNCHANGED <<tables, beat, starts>>

LockStep(p) == CheckLock(p) \/ Refused(p) \/ UnlinkStale(p) \/ WriteLock(p) \/ Exit(p)

Works(p) ==
    \/ Fetch(p) \/ Claim(p) \/ Beat(p) \/ BeatFails(p)
    \/ Record(p) \/ Think(p) \/ Freeze(p) \/ Report(p) \/ Fails(p)

Next ==
    \/ \E g \in Goals : Sweep(g) \/ ChatCreates(g) \/ ChatEnds(g) \/ Recover(g)
    \/ \E p \in Procs : LockStep(p) \/ Crash(p)
    \/ \E p \in Workers : Works(p)
    \/ \E k \in Kinds : NoteCrash(k) \/ Restart(k) \/ Settle(k)
    \/ GoStale \/ Start \/ RecoveryFails \/ Boot \/ KillFrozen \/ Stop \/ Halt
    \/ SupervisorDies \/ PowerLoss

Spec == Init /\ [][Next]_vars

Runs(p)  == LockStep(p) \/ Beat(p) \/ Record(p) \/ Report(p)
Polls(p) == Watched(p) /\ Fetch(p)
Takes(p) == Watched(p) /\ Claim(p)

\* Workers and supervisor run, and time passes for a heartbeat nobody renews.
\* An old heartbeat may kill a worker before its claim again and again, but 60 s
\* lie between two looks at it and a poll is due after 5.  A turn may last for
\* ever: the providers are called without a deadline.  The gateway, and an
\* orphan before its claim, may stop anywhere.
LiveSpec ==
    /\ Spec /\ \A p \in Workers : WF_vars(Runs(p))
    /\ SF_vars(\E p \in Workers : Polls(p)) /\ SF_vars(\E p \in Workers : Takes(p))
    /\ WF_vars(NoteCrash("worker") \/ Restart("worker")) /\ WF_vars(GoStale \/ KillFrozen)

-----------------------------------------------------------------------------

WorkerStates == [fails : Nat, backoff : BOOLEAN, disabled : BOOLEAN]

\* Types; a worker has a goal exactly from its fetch to its end, and there is no
\* process of a start that has not come to start any.
TypeOK ==
    /\ goal \in [Goals -> Statuses] /\ claims \in [Goals -> Nat] /\ strays \in [Workers -> Nat]
    /\ jobs \in [Goals -> SUBSET {"completed", "failed"}]
    /\ beat \in {"none", "fresh", "stale"} /\ hb \in [Workers -> {"none", "on", "off"}]
    /\ lock \in Procs \cup {NoLock, Gone}
    /\ at \in [Procs -> Places] /\ mine \in [Workers -> Goals \cup {Nobody}]
    /\ daemon \in {"down", "recover", "up", "stopping"} /\ stale \subseteq Goals
    /\ left \subseteq Starts /\ sup \in [Kinds -> WorkerStates] /\ streak \in [Kinds -> Nat]
    /\ starts \in 0..MaxStarts /\ deaths \in Nat
    /\ \A p \in Workers : mine[p] = Nobody <=> at[p] \in Dead \cup {"poll"}
    /\ \A p \in Procs : p[2] > starts \/ (p[2] = starts /\ daemon = "recover") => at[p] = "none"

\* The workers of a supervisor claim a goal at most once between two starts of
\* the daemon: one that fails, is killed or never gets its CognitiveLoop does not
\* come back to it, recovery returns a goal to the queue once (daemon.py:84,
\* 537-557), and what orphans of earlier starts fetch and claim meanwhile does
\* not return it.  An orphan claims at most one goal more, for nobody restarts it.
OneClaimPerStart ==
    /\ \A g \in Goals : claims[g] <= starts
    /\ \A p \in Workers : strays[p] <= 1

\* A process is given up only after MAX_CONSECUTIVE_FAILURES crashes without a
\* normal exit or 30 s of uptime between them; whenever the process runs, the
\* count of the supervisor, which polls it every 2 s, is that of the crashes.
GivenUpAfterStreak ==
    \A k \in Kinds : /\ sup[k].disabled => streak[k] >= MaxFailures
                     /\ daemon = "up" /\ Alive(Now(k)) => sup[k].fails = streak[k]

\* What the supervisor does not end: a turn that does not return, its worker's or
\* that of an orphan, whose heartbeat passes for its worker's, and a frozen worker
\* whose first heartbeat failed in an empty table.
HeldUp ==
    \/ \E p \in Workers : at[p] = "think"
    \/ at[Now("worker")] = "frozen" /\ hb[Now("worker")] = "off" /\ beat = "none"

\* A pending goal is claimed, unless the daemon stops, the worker was given up,
\* or it is held up: crashes, backoffs, orphans, frozen workers and old
\* heartbeats do not keep the queue waiting for ever.
PendingIsClaimed ==
    \A g \in Goals :
        goal[g] = "pending" ~> goal[g] # "pending" \/ daemon # "up" \/ sup["worker"].disabled
                               \/ HeldUp

Frozen == daemon = "up" /\ at[Now("worker")] = "frozen"

\* A worker that stops beating does not hold its goal, the lock and the daemon's
\* only place for a worker for ever: it is killed, whatever heartbeat it left, for
\* its own first one is written before its first turn, unless that write failed
\* in an empty table or an orphan's turn keeps the row fresh.
FrozenIsKilled == Frozen ~> ~Frozen \/ HeldUp

\* "Daemon claims goal -> CognitiveLoop.process() runs"
\* (docs/blog/kinthic-agentic-upgrade.md:321-322): a goal of the watcher that
\* was claimed and has no run that is over is in the hands of a worker.
ClaimedIsHeld ==
    \A g \in AutoGoals : daemon = "up" /\ goal[g] = "active" /\ jobs[g] = {} =>
                             \E p \in Workers : mine[p] = g

\* "Claim the goal to prevent other instances from grabbing it" (daemon.py:91):
\* what one worker runs no other one claims.
NobodyElseGrabsIt ==
    \A p, q \in Workers : at[p] = "claim" /\ at[q] = "think" => mine[p] # mine[q]

\* "If the daemon crashes and recovers, the same goal won't be double-executed"
\* (docs/blog/kinthic-agentic-upgrade.md:67): a goal that was run to its end is
\* not run again.
GoalsRunOnce == \A p \in Workers : at[p] = "record" => "completed" \notin jobs[mine[p]]

=============================================================================
