------------------------------- MODULE Service -------------------------------
(***************************************************************************)
(* Starting and stopping the daemon: `kinthic daemon start, stop, status,  *)
(* run, install, uninstall` (scripts/cli.py, silex/ops/service.py) around  *)
(* the file daemon.lock, which holds the daemon's process id.  The file is *)
(* looked at, removed and written in separate steps, by the commands and   *)
(* by the daemon itself.                                                   *)
(* The service is a systemd user unit with Restart=always.                 *)
(***************************************************************************)
EXTENDS Naturals, FiniteSets

CONSTANTS
    Commands,  \* commands that are typed
    MaxPid,    \* bound: process ids
    MaxKills,  \* bound: processes that are killed outright
    Patient,   \* TRUE iff commands are typed and processes killed one at a time
    Mixes,     \* TRUE iff the unit may be installed beside a daemon started by hand
    Reuses     \* TRUE iff the id of a dead process is given to a foreign one

ServiceAssumption ==
    {MaxPid, MaxKills} \subseteq Nat /\ {Patient, Mixes, Reuses} \subseteq BOOLEAN

VARIABLES
    lock,    \* daemon.lock: Absent, Torn, or a process id
    proc,    \* per process id: what the process is doing
    units,   \* ids of the processes that systemd has started
    unit,    \* absent, inactive, active
    cmd,     \* per command: its name, where it is, the lock it has read
    heard,   \* per command: what it printed
    kills,   \* processes killed so far
    harmed   \* foreign processes that a command ended (history)

vars == <<lock, proc, units, unit, cmd, heard, kills, harmed>>

Pids == 1 .. MaxPid
Absent == 0
Torn == MaxPid + 1        \* truncated, not yet written
Kinds == {"start", "stop", "status", "install", "uninstall"}

Init ==
    /\ lock = Absent /\ proc = [p \in Pids |-> "unused"] /\ units = {} /\ unit = "absent"
    /\ cmd = [c \in Commands |-> [do |-> "none", at |-> "new", saw |-> Absent]]
    /\ heard = [c \in Commands |-> "nothing"] /\ kills = 0 /\ harmed = {}

\* No command is under way, and no process starts or ends.
Settled == \A c \in Commands : cmd[c].at \in {"new", "over"}
Quiet ==
    /\ Settled
    /\ \A p \in Pids : proc[p] \in {"unused", "dead", "foreign", "running"}
    /\ unit = "active" => \E p \in Pids : proc[p] = "running"

\* os.kill(pid, 0)
Alive(p) == p \in Pids /\ proc[p] \notin {"unused", "dead"}
Daemons == {p \in Pids : proc[p] \in {"up", "running", "halting"}}
Fresh == {p \in Pids : proc[p] = "unused" /\ \A q \in 1 .. (p - 1) : proc[q] # "unused"}

-----------------------------------------------------------------------------
(* `daemon run`, by hand or by systemd *)

Become(p, what) == proc' = [proc EXCEPT ![p] = what]

\* A live process behind the lock: the new one ends.  A dead one, or a file that
\* does not parse: the lock is removed, in a later step.
CheckLock(p) ==
    /\ proc[p] = "new"
    /\ Become(p, IF lock = Absent THEN "claiming" ELSE IF Alive(lock) THEN "dead" ELSE "clearing")
    /\ UNCHANGED <<lock, units, unit, cmd, heard, kills, harmed>>

ClearLock(p) ==
    /\ proc[p] = "clearing" /\ lock' = Absent /\ Become(p, "claiming")
    /\ UNCHANGED <<units, unit, cmd, heard, kills, harmed>>

\* write_text() truncates and then writes.
OpenLock(p) ==
    /\ proc[p] = "claiming" /\ lock' = Torn /\ Become(p, "writing")
    /\ UNCHANGED <<units, unit, cmd, heard, kills, harmed>>

WriteLock(p) ==
    /\ proc[p] = "writing" /\ lock' = p /\ Become(p, "up")
    /\ UNCHANGED <<units, unit, cmd, heard, kills, harmed>>

\* The watchdog installs its signal handlers and starts the workers.
Run(p) ==
    /\ proc[p] = "up" /\ Become(p, "running")
    /\ UNCHANGED <<lock, units, unit, cmd, heard, kills, harmed>>

\* After SIGTERM: the workers are given 10 s, and the lock is removed, whoever holds it.
Halt(p) ==
    /\ proc[p] = "halting" /\ lock' = Absent /\ Become(p, "dead")
    /\ UNCHANGED <<units, unit, cmd, heard, kills, harmed>>

\* The process is killed outright: the lock stays.
Kill(p) ==
    /\ proc[p] \in {"writing", "up", "running"} /\ kills < MaxKills /\ kills' = kills + 1
    /\ (Patient => Settled) /\ Become(p, "dead")
    /\ UNCHANGED <<lock, units, unit, cmd, heard, harmed>>

\* SIGTERM ends a process that has not installed its handlers, and a foreign one.
Terminated(p) == IF proc[p] \in {"running", "halting"} THEN "halting" ELSE "dead"

\* Another process gets the id of one that has ended; systemd does not take it for its own.
Reuse(p) ==
    /\ Reuses /\ proc[p] = "dead" /\ Become(p, "foreign") /\ units' = units \ {p}
    /\ UNCHANGED <<lock, unit, cmd, heard, kills, harmed>>

\* Restart=always: the unit's process is started again when it has ended.
Restart(p) ==
    /\ unit = "active" /\ (\A q \in units : proc[q] = "dead") /\ p \in Fresh
    /\ Become(p, "new") /\ units' = units \cup {p}
    /\ UNCHANGED <<lock, unit, cmd, heard, kills, harmed>>

-----------------------------------------------------------------------------
(* The commands *)

At(c, at) == cmd' = [cmd EXCEPT ![c].at = at]
Says(c, what) == At(c, "over") /\ heard' = [heard EXCEPT ![c] = what]
Remove(c, what) == lock' = Absent /\ Says(c, what)

\* The command reads the lock; without one, stop and status end here.
Type(c, do) ==
    /\ cmd[c].at = "new" /\ (Patient => Quiet)
    /\ IF do \in {"stop", "status"} /\ lock = Absent
       THEN /\ cmd' = [cmd EXCEPT ![c] = [do |-> do, at |-> "over", saw |-> lock]]
            /\ heard' = [heard EXCEPT ![c] = "not running"]
       ELSE cmd' = [cmd EXCEPT ![c] = [do |-> do, at |-> "look", saw |-> lock]] /\ UNCHANGED heard
    /\ UNCHANGED <<lock, proc, units, unit, kills, harmed>>

Looks(c, do) == cmd[c].do = do /\ cmd[c].at = "look"

StartRefused(c) ==
    /\ Looks(c, "start") /\ Alive(cmd[c].saw) /\ Says(c, "already running")
    /\ UNCHANGED <<lock, proc, units, unit, kills, harmed>>

\* With the unit installed: systemctl start, which Restart carries out.
StartUnit(c) ==
    /\ Looks(c, "start") /\ ~Alive(cmd[c].saw) /\ unit # "absent"
    /\ unit' = "active" /\ Says(c, "started")
    /\ UNCHANGED <<lock, proc, units, kills, harmed>>

StartByHand(c) ==
    /\ Looks(c, "start") /\ ~Alive(cmd[c].saw) /\ unit = "absent"
    /\ \E p \in Fresh : Become(p, "new")
    /\ At(c, "wait") /\ UNCHANGED <<lock, units, unit, heard, kills, harmed>>

\* A lock with a live process, whose ever it is, or 3 s without one.
Started(c) ==
    /\ cmd[c].at = "wait" /\ Says(c, IF Alive(lock) THEN "started" ELSE "error")
    /\ UNCHANGED <<lock, proc, units, unit, kills, harmed>>

StopTorn(c) ==
    /\ Looks(c, "stop") /\ cmd[c].saw = Torn /\ Remove(c, "corrupted")
    /\ UNCHANGED <<proc, units, unit, kills, harmed>>

\* Mutant: the unit is disabled, its process goes on.
StopDisables(c) ==
    /\ Looks(c, "stop") /\ cmd[c].saw \in Pids /\ unit # "absent"
    /\ unit' = "inactive" /\ At(c, "remove") /\ UNCHANGED <<lock, proc, units, heard, kills, harmed>>

\* systemctl stop: the unit's process is terminated, and waited for; the command
\* succeeds where the unit is not active, too.
StopUnit(c) ==
    /\ Looks(c, "stop") /\ cmd[c].saw \in Pids /\ unit # "absent"
    /\ unit' = "inactive" /\ At(c, "await")
    /\ proc' = [p \in Pids |-> IF p \in units /\ Alive(p) THEN Terminated(p) ELSE proc[p]]
    /\ UNCHANGED <<lock, units, heard, kills, harmed>>

UnitStopped(c) ==
    /\ cmd[c].at = "await" /\ (\A q \in units : proc[q] = "dead")
    /\ Remove(c, "stopped")
    /\ UNCHANGED <<proc, units, unit, kills, harmed>>

StopStale(c) ==
    /\ Looks(c, "stop") /\ cmd[c].saw \in Pids /\ unit = "absent" /\ ~Alive(cmd[c].saw)
    /\ Remove(c, "not running")
    /\ UNCHANGED <<proc, units, unit, kills, harmed>>

\* SIGTERM to whatever process has the id.
StopByHand(c) ==
    LET p == cmd[c].saw IN
    /\ Looks(c, "stop") /\ p \in Pids /\ unit = "absent" /\ Alive(p)
    /\ Become(p, Terminated(p)) /\ harmed' = harmed \cup {q \in {p} : proc[q] = "foreign"}
    /\ At(c, "remove") /\ UNCHANGED <<lock, units, unit, heard, kills>>

\* The lock is removed at once; the daemon may take 10 s to end.
StopRemoves(c) ==
    /\ cmd[c].at = "remove" /\ Remove(c, "stopped")
    /\ UNCHANGED <<proc, units, unit, kills, harmed>>

\* Mutant: the lock of a daemon that runs is removed.
StatusClears(c) ==
    /\ Looks(c, "status") /\ Remove(c, IF Alive(cmd[c].saw) THEN "running" ELSE "not running")
    /\ UNCHANGED <<proc, units, unit, kills, harmed>>

Status(c) ==
    /\ Looks(c, "status")
    /\ IF Alive(cmd[c].saw) THEN Says(c, "running") /\ UNCHANGED lock ELSE Remove(c, "not running")
    /\ UNCHANGED <<proc, units, unit, kills, harmed>>

\* The unit is written, enabled and started.
Install(c) ==
    /\ Looks(c, "install") /\ unit = "absent" /\ (Mixes \/ Daemons = {})
    /\ unit' = "active" /\ Says(c, "installed")
    /\ UNCHANGED <<lock, proc, units, kills, harmed>>

NoInstall(c) ==
    /\ \/ Looks(c, "install") /\ (unit # "absent" \/ (~Mixes /\ Daemons # {}))
       \/ Looks(c, "uninstall") /\ unit = "absent"
    /\ Says(c, "refused") /\ UNCHANGED <<lock, proc, units, unit, kills, harmed>>

\* Disabled and stopped; the lock is left to the daemon.
Uninstall(c) ==
    /\ Looks(c, "uninstall") /\ unit # "absent" /\ unit' = "absent" /\ Says(c, "removed")
    /\ proc' = [p \in Pids |-> IF p \in units /\ Alive(p) THEN Terminated(p) ELSE proc[p]]
    /\ UNCHANGED <<lock, units, kills, harmed>>

Next ==
    \/ \E p \in Pids : \/ CheckLock(p) \/ ClearLock(p) \/ OpenLock(p) \/ WriteLock(p) \/ Run(p)
                       \/ Halt(p) \/ Kill(p) \/ Reuse(p) \/ Restart(p)
    \/ \E c \in Commands : \/ \E do \in Kinds : Type(c, do)
                           \/ StartRefused(c) \/ StartUnit(c) \/ StartByHand(c) \/ Started(c)
                           \/ StopTorn(c) \/ StopUnit(c) \/ UnitStopped(c) \/ StopStale(c)
                           \/ StopByHand(c) \/ StopRemoves(c) \/ Status(c)
                           \/ Install(c) \/ NoInstall(c) \/ Uninstall(c)

Spec == Init /\ [][Next]_vars

-----------------------------------------------------------------------------

TypeOK ==
    /\ lock \in Pids \cup {Absent, Torn} /\ units \subseteq Pids
    /\ proc \in [Pids -> {"unused", "new", "clearing", "claiming", "writing", "up", "running",
                          "halting", "dead", "foreign"}]
    /\ unit \in {"absent", "inactive", "active"} /\ kills \in 0 .. MaxKills /\ harmed \subseteq Pids
    /\ \A c \in Commands : /\ cmd[c].at \in {"new", "look", "wait", "await", "remove", "over"}
                           /\ cmd[c].do \in Kinds \cup {"none"}
    /\ DOMAIN heard = Commands

\* Commands typed one after the other, each when the one before is done: there is
\* one daemon, and the lock names it (cli.py:1316, "already running").
LockIsRight == Cardinality(Daemons) <= 1 /\ (Quiet => \A p \in Daemons : lock = p)

\* Who reads that the daemon is stopped, or does not run, finds it stopped
\* (cli.py:1197, "Stopped Kinthic").
StoppedIsStopped ==
    [][\A c \in Commands : heard[c] = "nothing" /\ heard'[c] \in {"stopped", "not running"}
           => \A p \in Daemons' : proc'[p] = "halting"]_vars

\* Who reads that the daemon was started has a daemon (cli.py:1148, "Daemon started").
StartedIsUp ==
    [][\A c \in Commands : cmd[c].at = "wait" /\ heard'[c] = "started" => Daemons' # {}]_vars

\* A stop ends no process but the daemon.
OnlyTheDaemon == harmed = {}

=============================================================================
