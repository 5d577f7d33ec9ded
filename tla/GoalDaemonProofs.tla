------------------------- MODULE GoalDaemonProofs --------------------------
(***************************************************************************)
(* Proofs about GoalDaemon, for all goals, limits and numbers of starts.   *)
(***************************************************************************)
EXTENDS GoalDaemon, TLAPS

\* Watchers, recoveries and supervisors belong to a start.
Phases ==
    /\ daemon # "down" \/ left # {} => starts >= 1
    /\ daemon # "recover" => stale = {}

\* The goal is on its way to a claim by the worker of the supervisor.
Due(g) ==
    \/ goal[g] = "pending" \/ g \in stale
    \/ \E p \in Workers : Watched(p) /\ at[p] = "claim" /\ mine[p] = g

\* A goal that is due has a claim left in this start, and a worker has claimed
\* nothing as an orphan while it is none, or still polls or is to claim.
ClaimsLeft ==
    /\ \A g \in Goals : /\ claims[g] <= starts
                        /\ goal[g] = "none" => claims[g] = 0
                        /\ Due(g) => claims[g] < starts
    /\ \A p \in Workers : /\ strays[p] <= 1
                          /\ p[2] > starts \/ Watched(p) \/ at[p] \in {"poll", "claim"} => strays[p] = 0

\* What the supervisor's count of a process's crashes stands for.
CountOf(k) ==
    /\ daemon \in {"up", "stopping"} /\ Alive(Now(k)) => ~sup[k].backoff /\ ~sup[k].disabled
    /\ sup[k].disabled => streak[k] >= MaxFailures
    /\ daemon = "up" =>
           /\ Alive(Now(k)) => sup[k].fails = streak[k]
           /\ at[Now(k)] = "exited" => streak[k] = 0
           /\ at[Now(k)] = "crashed" /\ sup[k].backoff => sup[k].fails = streak[k]
           /\ at[Now(k)] = "crashed" /\ ~sup[k].backoff => streak[k] = sup[k].fails + 1

Counts == \A k \in Kinds : CountOf(k)

-----------------------------------------------------------------------------

LEMMA ProcFacts ==
    /\ Workers \subseteq Procs
    /\ \A p \in Procs : p[1] \in Kinds /\ p[2] \in Starts /\ p = <<p[1], p[2]>>
    /\ \A p, q \in Workers : p[2] = q[2] => p = q
    /\ NoLock \notin Procs /\ Gone \notin Procs
<1> QED  BY DEF Workers, Procs, Kinds, Starts, NoLock, Gone

\* The present processes of a daemon that has been started.
LEMMA NowFacts ==
    ASSUME starts \in 0..MaxStarts, starts >= 1
    PROVE  /\ Now("worker") \in Workers
           /\ \A k \in Kinds : Now(k) \in Procs /\ Now(k)[2] = starts /\ Now(k)[1] = k
           /\ \A p \in Procs : p[2] = starts => p = Now(p[1])
           /\ \A k \in Kinds : Now(k) \in Workers => k = "worker"
<1> QED  BY GoalDaemonAssumption DEF Workers, Procs, Kinds, Starts, Now

LEMMA TypeInit == Init => TypeOK
<1> SUFFICES ASSUME Init PROVE TypeOK
  OBVIOUS
<1>1. Workers \subseteq Procs
  BY ProcFacts
<1> QED
  BY <1>1, GoalDaemonAssumption
  DEF Init, TypeOK, Statuses, Kinds, Places, Beating, Dead, WorkerStates, Fresh, NoLock

\* What the death of a process does to the variables of the processes.
LEMMA DiesType ==
    ASSUME TypeOK, NEW p \in Procs, at[p] # "none", Dies(p), daemon' = daemon, starts' = starts
    PROVE  /\ lock' \in Procs \cup {NoLock, Gone} /\ at' \in [Procs -> Places]
           /\ mine' \in [Workers -> Goals \cup {Nobody}] /\ hb' \in [Workers -> {"none", "on", "off"}]
           /\ streak' \in [Kinds -> Nat]
           /\ \A q \in Workers : mine'[q] = Nobody <=> at'[q] \in Dead \cup {"poll"}
           /\ \A q \in Procs : q[2] > starts' \/ (q[2] = starts' /\ daemon' = "recover") => at'[q] = "none"
<1>1. Workers \subseteq Procs /\ p[1] \in Kinds
  BY ProcFacts
<1> QED
  BY <1>1, GoalDaemonAssumption DEF TypeOK, Dies, Goto, Without, LockWithout, Places, Dead

LEMMA ExitType ==
    ASSUME TypeOK, NEW p \in Procs, Exit(p)
    PROVE  TypeOK'
<1>1. Workers \subseteq Procs /\ p[1] \in Kinds
  BY ProcFacts
<1>2. streak' \in [Kinds -> Nat] /\ at' \in [Procs -> Places]
  BY <1>1 DEF TypeOK, Exit, Goto, Places, Dead
<1>3. /\ mine' \in [Workers -> Goals \cup {Nobody}] /\ hb' \in [Workers -> {"none", "on", "off"}]
      /\ \A q \in Workers : mine'[q] = Nobody <=> at'[q] \in Dead \cup {"poll"}
  BY <1>1, GoalDaemonAssumption DEF TypeOK, Exit, Goto, Without, Dead
<1> QED
  BY <1>1, <1>2, <1>3 DEF TypeOK, Exit, Goto, tables, daemonVars

\* The processes of Gones are gone, the others as they were.
LEMMA GonesType ==
    ASSUME TypeOK, NEW ps \in SUBSET Procs, Gones(ps)
    PROVE  /\ lock' \in Procs \cup {NoLock, Gone} /\ at' \in [Procs -> Places]
           /\ mine' \in [Workers -> Goals \cup {Nobody}] /\ hb' \in [Workers -> {"none", "on", "off"}]
           /\ \A q \in Workers : mine'[q] = Nobody <=> at'[q] \in Dead \cup {"poll"}
           /\ \A q \in Procs : at[q] = "none" => at'[q] = "none"
<1>1. Workers \subseteq Procs
  BY ProcFacts
<1> QED
  BY <1>1, GoalDaemonAssumption DEF TypeOK, Gones, Without, LockWithout, Places, Dead

LEMMA NoSupervisorType ==
    NoSupervisor => /\ sup' \in [Kinds -> WorkerStates] /\ streak' \in [Kinds -> Nat]
                    /\ daemon' = "down" /\ stale' = {}
<1> QED  BY DEF NoSupervisor, WorkerStates, Fresh

LEMMA TypeStep == TypeOK /\ Phases /\ [Next]_vars => TypeOK'
<1> SUFFICES ASSUME TypeOK, Phases, [Next]_vars PROVE TypeOK'
  OBVIOUS
<1>0. Workers \subseteq Procs
  BY ProcFacts
<1>1. ASSUME NEW g \in Goals, Sweep(g) \/ ChatCreates(g) \/ ChatEnds(g) \/ Recover(g)
      PROVE  TypeOK'
  BY <1>1 DEF TypeOK, Sweep, ChatCreates, ChatEnds, Recover, Statuses, procVars, daemonVars
<1>2. ASSUME NEW p \in Workers, Works(p) PROVE TypeOK'
  <2>1. CASE Fetch(p)
    BY <1>0, <2>1, GoalDaemonAssumption
    DEF TypeOK, Fetch, Goto, tables, daemonVars, Places, Beating, Dead
  <2>2. CASE Claim(p)
    <3>1. mine[p] \in Goals
      BY <1>0, <2>2 DEF TypeOK, Claim, Dead
    <3>2. claims' \in [Goals -> Nat] /\ strays' \in [Workers -> Nat]
      BY <2>2, <3>1 DEF TypeOK, Claim, Counted
    <3> QED
      BY <1>0, <2>2, <3>1, <3>2 DEF TypeOK, Claim, Goto, daemonVars, Places, Beating, Dead, Statuses
  <2>3. CASE Beat(p) \/ BeatFails(p)
    BY <2>3 DEF TypeOK, Beat, BeatFails, tables, daemonVars
  <2>4. CASE Record(p) \/ Think(p) \/ Freeze(p)
    BY <1>0, <2>4
    DEF TypeOK, Record, Think, Freeze, Goto, tables, daemonVars, Places, Beating, Dead
  <2>5. CASE Report(p) \/ Fails(p)
    <3>1. mine[p] \in Goals
      BY <1>0, <2>5 DEF TypeOK, Report, Fails, Dead
    <3> QED
      BY <1>0, <2>5, <3>1 DEF TypeOK, Report, Fails, Ends, Goto, daemonVars, Places, Beating, Dead
  <2> QED  BY <1>2, <2>1, <2>2, <2>3, <2>4, <2>5 DEF Works
<1>3. ASSUME NEW p \in Procs, LockStep(p) PROVE TypeOK'
  <2>1. CASE CheckLock(p) \/ UnlinkStale(p)
    BY <1>0, <2>1
    DEF TypeOK, CheckLock, UnlinkStale, Goto, tables, daemonVars, Places, Beating, Dead
  <2>2. CASE WriteLock(p)
    BY <1>0, <2>2 DEF TypeOK, WriteLock, Goto, tables, daemonVars, Places, Beating, Dead
  <2>3. CASE Refused(p)
    <3>1. Dies(p) /\ at[p] # "none" /\ daemon' = daemon /\ starts' = starts
      BY <2>3 DEF Refused, daemonVars
    <3> QED  BY <2>3, <3>1, DiesType DEF TypeOK, Refused, tables, daemonVars
  <2>4. CASE Exit(p)
    BY <2>4, ExitType
  <2> QED  BY <1>3, <2>1, <2>2, <2>3, <2>4 DEF LockStep
<1>4. ASSUME NEW p \in Procs, Crash(p) PROVE TypeOK'
  <2>1. Dies(p) /\ at[p] # "none" /\ daemon' = daemon /\ starts' = starts
    BY <1>4 DEF Crash, Alive, Dead
  <2> QED  BY <1>4, <2>1, DiesType DEF TypeOK, Crash, tables
<1>5. CASE KillFrozen
  <2>1. Now("worker") \in Procs
    BY <1>0, <1>5, NowFacts DEF TypeOK, Phases, KillFrozen
  <2>2. Dies(Now("worker")) /\ at[Now("worker")] # "none" /\ daemon' = daemon /\ starts' = starts
    BY <1>5 DEF KillFrozen, Alive, Dead, daemonVars
  <2> QED  BY <1>5, <2>1, <2>2, DiesType DEF TypeOK, KillFrozen, tables, daemonVars
<1>6. ASSUME NEW k \in Kinds, NoteCrash(k) PROVE TypeOK'
  <2>1. sup' \in [Kinds -> WorkerStates]
    <3>1. sup[k].fails + 1 \in Nat /\ (sup[k].fails + 1 >= MaxFailures) \in BOOLEAN
      BY DEF TypeOK, WorkerStates
    <3>2. [sup[k] EXCEPT !.fails = sup[k].fails + 1, !.backoff = TRUE,
                         !.disabled = (sup[k].fails + 1 >= MaxFailures)] \in WorkerStates
      BY <3>1 DEF TypeOK, WorkerStates
    <3> QED  BY <1>6, <3>2 DEF TypeOK, NoteCrash, Noted
  <2> QED  BY <1>6, <2>1 DEF TypeOK, NoteCrash, supervised, tables
<1>7. ASSUME NEW k \in Kinds, Restart(k) PROVE TypeOK'
  <2>1. daemon = "up" /\ Now(k) \in Procs /\ Now(k)[2] = starts /\ starts \in Nat
        /\ at[Now(k)] \in Dead
    BY <1>7, NowFacts DEF TypeOK, Phases, Restart, Ended, Dead
  <2>2. Now(k) \in Workers => Entry(k) = "poll"
    BY <2>1, NowFacts DEF TypeOK, Phases, Entry
  <2>3. Entry(k) \in Places
    BY DEF Entry, Places, Beating, Dead
  <2>4. \A q \in Workers : mine[q] = Nobody <=> at'[q] \in Dead \cup {"poll"}
    BY <1>0, <1>7, <2>1, <2>2 DEF TypeOK, Restart, Goto
  <2>5. \A q \in Procs : q[2] > starts => at'[q] = "none"
    BY <1>7, <2>1 DEF TypeOK, Restart, Goto
  <2>6. sup' \in [Kinds -> WorkerStates]
    BY <1>7 DEF TypeOK, Restart, WorkerStates, Fresh
  <2>7. at' \in [Procs -> Places]
    BY <1>7, <2>1, <2>3 DEF TypeOK, Restart, Goto
  <2> QED
    BY <1>7, <2>1, <2>4, <2>5, <2>6, <2>7 DEF TypeOK, Restart, supervised, tables
<1>8. ASSUME NEW k \in Kinds, Settle(k) PROVE TypeOK'
  BY <1>8 DEF TypeOK, Settle, supervised, tables, WorkerStates, Fresh
<1>9. CASE Start
  <2>1. starts' \in 0..MaxStarts /\ starts' = starts + 1 /\ starts \in Nat
    BY <1>9, GoalDaemonAssumption DEF TypeOK, Start
  <2>2. \A q \in Procs : q[2] \in Nat
    BY ProcFacts DEF Starts
  <2>3. \A q \in Procs : q[2] > starts' \/ q[2] = starts' => at[q] = "none"
    BY <2>1, <2>2 DEF TypeOK
  <2> QED
    BY <1>9, <2>1, <2>3 DEF TypeOK, Start, tables, procVars
<1>10. CASE RecoveryFails \/ GoStale
  BY <1>10 DEF TypeOK, RecoveryFails, GoStale, tables, procVars, daemonVars
<1>11. CASE Boot
  <2>1. \A k \in Kinds : Entry(k) \in Places
    BY DEF Entry, Places, Beating, Dead
  <2>2. \A p \in Procs : p[1] \in Kinds /\ p[2] \in Nat
    BY ProcFacts DEF Starts
  <2>3. \A p \in Workers : p[1] = "worker"
    BY DEF Workers
  <2>4. at' \in [Procs -> Places]
    BY <1>11, <2>1, <2>2 DEF TypeOK, Boot
  <2>5. \A q \in Workers : mine[q] = Nobody <=> at'[q] \in Dead \cup {"poll"}
    BY <1>0, <1>11, <2>3 DEF TypeOK, Boot, Entry, Dead
  <2>6. \A q \in Procs : q[2] > starts => at'[q] = "none"
    BY <1>11, <2>2 DEF TypeOK, Boot
  <2>7. /\ sup' \in [Kinds -> WorkerStates] /\ streak' \in [Kinds -> Nat]
        /\ UNCHANGED <<tables, beat, lock, hb, mine, left, stale, starts, deaths>> /\ daemon' = "up"
    BY <1>11 DEF Boot, WorkerStates, Fresh
  <2> QED  BY <2>4, <2>5, <2>6, <2>7 DEF TypeOK, tables
<1>12. CASE Stop
  <2>1. Now("gateway") \in Procs /\ Now("gateway") \notin Workers
    BY <1>12, NowFacts DEF TypeOK, Phases, Stop, Kinds
  <2>2. at' \in [Procs -> Places]
    BY <1>12, <2>1 DEF TypeOK, Stop, Places, Beating
  <2>3. \A q \in Procs : at[q] = "none" => at'[q] = "none"
    BY <1>12, <2>1 DEF TypeOK, Stop
  <2>4. \A q \in Workers : at'[q] = at[q]
    BY <1>0, <1>12, <2>1 DEF TypeOK, Stop
  <2>5. /\ UNCHANGED <<tables, beat, lock, hb, mine, left, stale, sup, streak, starts, deaths>>
        /\ daemon' = "stopping"
    BY <1>12 DEF Stop
  <2> QED  BY <2>2, <2>3, <2>4, <2>5 DEF TypeOK, tables
<1>13. CASE Halt \/ SupervisorDies \/ PowerLoss
  <2>1. PICK ps \in SUBSET Procs : Gones(ps)
    BY <1>13 DEF Halt, SupervisorDies, PowerLoss
  <2>2. /\ NoSupervisor /\ UNCHANGED <<tables, beat, starts>> /\ deaths' \in Nat
        /\ left' \subseteq Starts
    <3>1. daemon # "down" => starts \in Starts
      BY DEF TypeOK, Phases, Starts
    <3> QED  BY <1>13, <3>1 DEF TypeOK, Halt, SupervisorDies, PowerLoss
  <2> QED
    BY <2>1, <2>2, GonesType, NoSupervisorType DEF TypeOK, tables
<1>14. CASE UNCHANGED vars
  BY <1>14 DEF TypeOK, vars, tables, procVars, daemonVars
<1> QED
  BY <1>1, <1>2, <1>3, <1>4, <1>5, <1>6, <1>7, <1>8, <1>9, <1>10, <1>11, <1>12, <1>13, <1>14
  DEF Next

LEMMA PhasesStep == TypeOK /\ Phases /\ [Next]_vars => Phases'
<1> SUFFICES ASSUME TypeOK, Phases, [Next]_vars PROVE Phases'
  OBVIOUS
<1>1. CASE UNCHANGED daemonVars
  BY <1>1 DEF Phases, daemonVars
<1>2. ASSUME NEW g \in Goals, Recover(g) PROVE Phases'
  BY <1>2 DEF Phases, Recover
<1>3. CASE Start \/ RecoveryFails \/ Boot \/ Stop
  BY <1>3 DEF TypeOK, Phases, Start, RecoveryFails, Boot, Stop
<1>4. CASE Halt \/ SupervisorDies \/ PowerLoss
  BY <1>4 DEF Phases, Halt, SupervisorDies, PowerLoss, NoSupervisor
<1>5. ASSUME NEW p \in Procs, Crash(p) PROVE Phases'
  BY <1>5 DEF Phases, Crash
<1>6. ASSUME NEW p \in Workers, BeatFails(p) PROVE Phases'
  BY <1>6 DEF Phases, BeatFails
<1>7. ASSUME NEW k \in Kinds, NoteCrash(k) \/ Restart(k) \/ Settle(k) PROVE Phases'
  BY <1>7 DEF Phases, NoteCrash, Restart, Settle, supervised
<1>8. ASSUME NEW g \in Goals, Sweep(g) \/ ChatCreates(g) \/ ChatEnds(g) PROVE UNCHANGED daemonVars
  BY <1>8 DEF Sweep, ChatCreates, ChatEnds
<1>9. ASSUME NEW p \in Procs, LockStep(p) PROVE UNCHANGED daemonVars
  BY <1>9 DEF LockStep, CheckLock, Refused, UnlinkStale, WriteLock, Exit
<1>10. ASSUME NEW p \in Workers, Works(p), ~BeatFails(p) PROVE UNCHANGED daemonVars
  BY <1>10 DEF Works, Fetch, Claim, Beat, Record, Think, Freeze, Report, Fails, Ends
<1>11. CASE GoStale \/ KillFrozen \/ UNCHANGED vars
  BY <1>1, <1>11 DEF GoStale, KillFrozen, vars
<1> QED
  BY <1>1, <1>2, <1>3, <1>4, <1>5, <1>6, <1>7, <1>8, <1>9, <1>10, <1>11 DEF Next

\* Type correctness of the daemon, its processes and its tables.
THEOREM TypeCorrect == Spec => []TypeOK
<1>1. Init => TypeOK /\ Phases
  BY TypeInit DEF Init, Phases
<1>2. TypeOK /\ Phases /\ [Next]_vars => (TypeOK /\ Phases)'
  BY TypeStep, PhasesStep
<1> QED  BY <1>1, <1>2, PTL DEF Spec

-----------------------------------------------------------------------------

\* A step that writes no claim, makes nothing pending or stale, takes no process
\* under a supervisor and brings no worker to a poll or a claim but as below.
LEMMA QuietStep ==
    ASSUME TypeOK, TypeOK', ClaimsLeft, UNCHANGED <<claims, strays, starts>>,
           \A g \in Goals : goal'[g] \in {"none", "pending"} => goal'[g] = goal[g],
           stale' \subseteq stale,
           \A p \in Workers : /\ Watched(p)' => Watched(p)
                              /\ at'[p] \in {"poll", "claim"} =>
                                     at[p] \in {"poll", "claim"} \/ Watched(p)
                              /\ at'[p] = "claim" => at[p] = "claim" /\ mine'[p] = mine[p]
    PROVE  ClaimsLeft'
<1>1. ASSUME NEW g \in Goals, Due(g)' PROVE Due(g)
  BY <1>1 DEF Due
<1> QED  BY <1>1 DEF ClaimsLeft

LEMMA ClaimsStep == TypeOK /\ TypeOK' /\ Phases /\ ClaimsLeft /\ [Next]_vars => ClaimsLeft'
<1> SUFFICES ASSUME TypeOK, TypeOK', Phases, ClaimsLeft, [Next]_vars PROVE ClaimsLeft'
  OBVIOUS
<1>0. Workers \subseteq Procs
  BY ProcFacts
<1>1. ASSUME NEW g \in Goals, Sweep(g) PROVE ClaimsLeft'
  <2>1. claims[g] = 0 /\ starts >= 1 /\ starts \in Nat
    BY <1>1 DEF ClaimsLeft, Phases, TypeOK, Sweep
  <2>2. \A h \in Goals : h # g => (Due(h)' => Due(h))
    BY <1>1 DEF Sweep, Due, Watched, procVars, daemonVars, TypeOK
  <2>3. /\ UNCHANGED <<claims, strays, starts, at, daemon>>
        /\ \A h \in Goals : h # g => goal'[h] = goal[h]
        /\ goal'[g] = "pending"
    BY <1>1 DEF Sweep, procVars, daemonVars, TypeOK
  <2> QED  BY <2>1, <2>2, <2>3 DEF ClaimsLeft, Watched
<1>2. ASSUME NEW g \in Goals, ChatCreates(g) \/ ChatEnds(g) PROVE ClaimsLeft'
  BY <1>2, QuietStep DEF ChatCreates, ChatEnds, Watched, procVars, daemonVars, TypeOK
<1>3. ASSUME NEW g \in Goals, Recover(g) PROVE ClaimsLeft'
  <2>1. \A h \in Goals : Due(h)' => Due(h)
    BY <1>3 DEF Recover, Due, Watched, procVars, TypeOK
  <2>2. /\ UNCHANGED <<claims, strays, starts, at, daemon>>
        /\ \A h \in Goals : goal'[h] = "none" => goal[h] = "none"
    BY <1>3 DEF Recover, procVars, TypeOK
  <2> QED  BY <2>1, <2>2 DEF ClaimsLeft, Watched
<1>4. ASSUME NEW p \in Workers, Works(p) PROVE ClaimsLeft'
  <2>1. CASE Fetch(p)
    <3>1. PICK g \in Goals : goal[g] = "pending" /\ mine' = [mine EXCEPT ![p] = g]
      BY <2>1 DEF Fetch
    <3>2. \A h \in Goals : Due(h)' => Due(h)
      BY <2>1, <3>1, <1>0 DEF Fetch, Due, Watched, Goto, tables, daemonVars, TypeOK
    <3>3. /\ UNCHANGED <<claims, strays, starts, goal, daemon>>
          /\ \A q \in Workers : at'[q] = "poll" \/ at'[q] = "claim" => at[q] = at'[q] \/ at[q] = "poll"
      BY <2>1, <1>0 DEF Fetch, Goto, tables, daemonVars, TypeOK
    <3> QED  BY <3>2, <3>3 DEF ClaimsLeft, Watched
  <2>2. CASE Claim(p)
    <3> DEFINE g == mine[p]
    <3>1. /\ g \in Goals /\ at[p] = "claim" /\ at' = [at EXCEPT ![p] = "start"] /\ p \in Procs
          /\ goal' = [goal EXCEPT ![g] = "active"]
          /\ UNCHANGED <<daemon, starts, stale, mine>>
      BY <2>2, <1>0 DEF Claim, Goto, TypeOK, Dead, daemonVars
    <3>2. ~(p[2] > starts) /\ (Watched(p) => stale = {})
      BY <3>1 DEF TypeOK, Phases, Watched
    <3>3. \A h \in Goals : Due(h)' => Due(h)
      BY <3>1, <1>0 DEF Due, Watched, TypeOK
    <3>4. \A q \in Workers : at'[q] \in {"poll", "claim"} => at[q] \in {"poll", "claim"} /\ q # p
      BY <3>1, <1>0 DEF TypeOK
    <3>5. CASE Watched(p)
      <4>1. Due(g) /\ claims[g] < starts
        BY <3>1, <3>5 DEF Due, ClaimsLeft
      <4>2. claims' = [claims EXCEPT ![g] = @ + 1] /\ strays' = strays
        BY <2>2, <3>5 DEF Claim, Counted
      <4>3. ~Due(g)'
        <5>1. \A q \in Workers : q # p => ~(Watched(q) /\ at[q] = "claim")
          BY <3>5, ProcFacts DEF Watched
        <5> QED  BY <3>1, <3>2, <3>5, <5>1, <1>0 DEF Due, Watched, TypeOK
      <4>4. \A h \in Goals : /\ claims'[h] <= starts
                             /\ goal'[h] = "none" => claims'[h] = 0
                             /\ Due(h)' => claims'[h] < starts
        BY <3>1, <3>3, <4>1, <4>2, <4>3 DEF ClaimsLeft, TypeOK
      <4> QED  BY <3>1, <3>4, <4>2, <4>4 DEF ClaimsLeft, Watched
    <3>6. CASE ~Watched(p)
      <4>1. claims' = claims /\ strays' = [strays EXCEPT ![p] = @ + 1] /\ strays[p] = 0
        BY <2>2, <3>1, <3>6 DEF Claim, Counted, ClaimsLeft
      <4>2. \A h \in Goals : /\ claims'[h] <= starts
                             /\ goal'[h] = "none" => claims'[h] = 0
                             /\ Due(h)' => claims'[h] < starts
        BY <3>1, <3>3, <4>1 DEF ClaimsLeft, TypeOK
      <4>3. \A q \in Workers : /\ strays'[q] <= 1
                               /\ q[2] > starts \/ Watched(q)' \/ at'[q] \in {"poll", "claim"} => strays'[q] = 0
        BY <3>1, <3>2, <3>4, <3>6, <4>1 DEF ClaimsLeft, TypeOK, Watched
      <4> QED  BY <3>1, <4>2, <4>3 DEF ClaimsLeft
    <3> QED  BY <3>5, <3>6
  <2>3. CASE Beat(p) \/ BeatFails(p)
    BY <2>3, QuietStep DEF Beat, BeatFails, Watched, tables, daemonVars
  <2>4. CASE Record(p) \/ Think(p) \/ Freeze(p) \/ Report(p) \/ Fails(p)
    BY <2>4, <1>0, QuietStep
    DEF Record, Think, Freeze, Report, Fails, Ends, Watched, Goto, tables, daemonVars, TypeOK
  <2> QED  BY <1>4, <2>1, <2>2, <2>3, <2>4 DEF Works
<1>5. ASSUME NEW p \in Procs, LockStep(p) PROVE ClaimsLeft'
  <2>1. CASE CheckLock(p) \/ UnlinkStale(p) \/ WriteLock(p)
    BY <2>1, <1>0, QuietStep
    DEF CheckLock, UnlinkStale, WriteLock, Watched, Goto, tables, daemonVars, TypeOK
  <2>2. CASE Refused(p)
    BY <2>2, <1>0, QuietStep
    DEF Refused, Dies, Without, Watched, Goto, tables, daemonVars, TypeOK
  <2>3. CASE Exit(p)
    BY <2>3, <1>0, QuietStep DEF Exit, Without, Watched, Goto, tables, daemonVars, TypeOK
  <2> QED  BY <1>5, <2>1, <2>2, <2>3 DEF LockStep
<1>6. ASSUME NEW p \in Procs, Crash(p) PROVE ClaimsLeft'
  BY <1>6, <1>0, QuietStep DEF Crash, Dies, Without, Watched, Goto, tables, TypeOK
<1>7. CASE KillFrozen
  BY <1>7, <1>0, QuietStep DEF KillFrozen, Dies, Without, Watched, Goto, tables, daemonVars, TypeOK
<1>8. ASSUME NEW k \in Kinds, NoteCrash(k) \/ Settle(k) PROVE ClaimsLeft'
  BY <1>8, QuietStep DEF NoteCrash, Settle, Watched, supervised, tables
<1>9. ASSUME NEW k \in Kinds, Restart(k) PROVE ClaimsLeft'
  <2>1. daemon = "up" /\ starts >= 1 /\ starts \in 0..MaxStarts
    BY <1>9 DEF Restart, Ended, Phases, TypeOK
  <2>2. Now(k)[2] = starts /\ Now(k) \in Procs /\ Entry(k) # "claim"
    BY <2>1, NowFacts DEF Entry
  <2> QED  BY <1>9, <1>0, <2>1, <2>2, QuietStep DEF Restart, Watched, Goto, supervised, tables, TypeOK
<1>10. CASE Boot
  <2>1. \A p \in Workers : at'[p] = at[p] \/ (Watched(p) /\ at'[p] = "poll")
    BY <1>10, <1>0 DEF Boot, Watched, Entry, Workers, TypeOK
  <2> QED  BY <1>10, <2>1, QuietStep DEF Boot, Watched, tables
<1>11. CASE Start
  <2>1. starts' = starts + 1 /\ starts \in Nat /\ UNCHANGED <<claims, strays, goal, at>>
    BY <1>11 DEF Start, TypeOK, tables, procVars
  <2>2. \A p \in Workers : p[2] \in Nat
    BY <1>0, ProcFacts DEF Starts
  <2>3. \A p \in Workers : p[2] > starts' \/ Watched(p)' => p[2] > starts
    BY <2>1, <2>2, <1>11 DEF Start, Watched
  <2> QED  BY <2>1, <2>3 DEF ClaimsLeft, TypeOK
<1>12. CASE RecoveryFails \/ GoStale \/ Stop
  <2>1. CASE RecoveryFails \/ GoStale
    BY <2>1, QuietStep DEF RecoveryFails, GoStale, Watched, tables, procVars, daemonVars
  <2>2. CASE Stop
    <3>1. Now("gateway") \notin Workers
      BY <2>2, NowFacts DEF TypeOK, Phases, Stop, Kinds
    <3>2. \A p \in Workers : at'[p] = at[p]
      BY <1>0, <2>2, <3>1 DEF TypeOK, Stop
    <3> QED  BY <2>2, <3>2, QuietStep DEF Stop, Watched, tables
  <2> QED  BY <1>12, <2>1, <2>2
<1>13. CASE Halt \/ SupervisorDies \/ PowerLoss
  <2>1. PICK ps \in SUBSET Procs : Gones(ps)
    BY <1>13 DEF Halt, SupervisorDies, PowerLoss
  <2>2. NoSupervisor /\ UNCHANGED <<tables, starts>>
    BY <1>13 DEF Halt, SupervisorDies, PowerLoss
  <2>3. /\ \A p \in Workers : at'[p] # at[p] => at'[p] = "none"
        /\ \A p \in Workers : at'[p] = "claim" => mine'[p] = mine[p]
    BY <1>0, <2>1 DEF Gones, Without, TypeOK
  <2> QED  BY <2>2, <2>3, QuietStep DEF NoSupervisor, Watched, tables
<1>14. CASE UNCHANGED vars
  BY <1>14, QuietStep DEF vars, Watched, tables, procVars, daemonVars
<1> QED
  BY <1>1, <1>2, <1>3, <1>4, <1>5, <1>6, <1>7, <1>8, <1>9, <1>10, <1>11, <1>12, <1>13, <1>14
  DEF Next

\* The workers of a supervisor claim a goal at most once in each start of the
\* daemon, and an orphan one goal in all, whatever crashes, killed supervisors,
\* locks, stale heartbeats and recoveries come between.
THEOREM ClaimsAreFew == Spec => []OneClaimPerStart
<1>1. Init => TypeOK /\ Phases /\ ClaimsLeft
  <2> SUFFICES ASSUME Init PROVE ClaimsLeft
    BY TypeInit DEF Init, Phases
  <2> QED  BY ProcFacts DEF Init, ClaimsLeft, Due, Watched
<1>2. TypeOK /\ Phases /\ ClaimsLeft /\ [Next]_vars => (TypeOK /\ Phases /\ ClaimsLeft)'
  BY TypeStep, PhasesStep, ClaimsStep
<1>3. ClaimsLeft => OneClaimPerStart
  BY DEF ClaimsLeft, OneClaimPerStart
<1> QED  BY <1>1, <1>2, <1>3, PTL DEF Spec

-----------------------------------------------------------------------------

\* A death, of a process or by the supervisor's hand, is one crash more.
LEMMA DiesCounts ==
    ASSUME TypeOK, Phases, Counts, NEW p \in Procs, Alive(p), Dies(p),
           UNCHANGED <<daemon, starts, sup>>, NEW k \in Kinds
    PROVE  CountOf(k)'
<1>1. CountOf(k) /\ streak[k] \in Nat /\ sup[k] \in WorkerStates
  BY DEF Counts, TypeOK
<1>2. CASE daemon = "down"
  BY <1>1, <1>2 DEF CountOf, Dies, Watched, TypeOK
<1>3. CASE daemon # "down"
  <2>1. Now(k) \in Procs /\ (p = Now(k) <=> p[2] = starts /\ p[1] = k)
    BY <1>3, NowFacts DEF Phases, TypeOK
  <2>2. CASE p = Now(k)
    <3>1. at'[Now(k)] = "crashed" /\ streak'[k] = streak[k] + 1 /\ Now(k)' = Now(k)
      BY <1>3, <2>1, <2>2 DEF Dies, Goto, Watched, TypeOK, Now
    <3>2. daemon # "recover"
      BY <2>1, <2>2 DEF TypeOK, Alive, Dead
    <3>3. daemon \in {"up", "stopping"} /\ at[Now(k)] \notin Dead
      BY <1>3, <2>2, <3>2 DEF Alive, TypeOK
    <3>4. ~sup[k].backoff /\ ~sup[k].disabled /\ (daemon = "up" => sup[k].fails = streak[k])
      BY <1>1, <3>3 DEF CountOf, Alive
    <3> QED
      BY <3>1, <3>4 DEF CountOf, Alive, Dead
  <2>3. CASE p # Now(k)
    <3>1. at'[Now(k)] = at[Now(k)] /\ Now(k)' = Now(k)
      BY <2>1, <2>3 DEF Dies, Goto, TypeOK, Now
    <3>2. streak'[k] = streak[k]
      BY <2>1, <2>3, ProcFacts DEF Dies, Watched, TypeOK
    <3> QED  BY <1>1, <3>1, <3>2 DEF CountOf, Alive
  <2> QED  BY <2>2, <2>3
<1> QED  BY <1>2, <1>3

\* A process goes on: neither dead before nor after.
LEMMA GoesOn ==
    ASSUME TypeOK, Phases, Counts, NEW p \in Procs, Alive(p), Alive(p)',
           \A q \in Procs : q # p => at'[q] = at[q],
           UNCHANGED <<daemon, starts, sup, streak>>, NEW k \in Kinds
    PROVE  CountOf(k)'
<1>1. CountOf(k)
  BY DEF Counts
<1>2. CASE daemon = "down"
  BY <1>1, <1>2 DEF CountOf
<1>3. CASE daemon # "down"
  <2>1. Now(k) \in Procs /\ Now(k)' = Now(k)
    BY <1>3, NowFacts DEF Phases, TypeOK, Now
  <2>2. at'[Now(k)] = at[Now(k)] \/ (at'[Now(k)] \notin Dead /\ at[Now(k)] \notin Dead)
    BY <2>1 DEF Alive
  <2> QED  BY <1>1, <2>1, <2>2 DEF CountOf, Alive, Dead
<1> QED  BY <1>2, <1>3

LEMMA CountsStep == TypeOK /\ Phases /\ Counts /\ [Next]_vars => Counts'
<1> SUFFICES ASSUME TypeOK, Phases, Counts, [Next]_vars, NEW k \in Kinds PROVE CountOf(k)'
  BY DEF Counts
<1>0. CountOf(k) /\ Workers \subseteq Procs /\ streak[k] \in Nat /\ sup[k] \in WorkerStates
  BY ProcFacts DEF Counts, TypeOK
<1>a. daemon # "down" => starts >= 1 /\ starts \in 0..MaxStarts /\ Now(k) \in Procs
  BY NowFacts DEF Phases, TypeOK
<1>1. CASE UNCHANGED <<at, daemon, starts, sup, streak>>
  BY <1>0, <1>1 DEF CountOf, Alive, Now
<1>2. ASSUME NEW g \in Goals, Sweep(g) \/ ChatCreates(g) \/ ChatEnds(g) \/ Recover(g)
      PROVE  CountOf(k)'
  BY <1>1, <1>2 DEF Sweep, ChatCreates, ChatEnds, Recover, procVars, daemonVars
<1>3. ASSUME NEW p \in Workers, Works(p) PROVE CountOf(k)'
  <2>1. CASE Beat(p) \/ BeatFails(p)
    BY <1>1, <2>1 DEF Beat, BeatFails, daemonVars
  <2>2. CASE ~(Beat(p) \/ BeatFails(p))
    <3>1. /\ Alive(p) /\ Alive(p)' /\ p \in Procs
          /\ \A q \in Procs : q # p => at'[q] = at[q]
          /\ UNCHANGED <<daemon, starts, sup, streak>>
      BY <1>0, <1>3, <2>2
      DEF Works, Fetch, Claim, Record, Think, Freeze, Report, Fails, Ends, Goto, Alive, Dead,
          daemonVars, TypeOK
    <3> QED  BY <3>1, GoesOn
  <2> QED  BY <2>1, <2>2
<1>4. ASSUME NEW p \in Procs, LockStep(p) PROVE CountOf(k)'
  <2>1. CASE CheckLock(p) \/ UnlinkStale(p) \/ WriteLock(p)
    <3>1. /\ Alive(p) /\ Alive(p)' /\ \A q \in Procs : q # p => at'[q] = at[q]
          /\ UNCHANGED <<daemon, starts, sup, streak>>
      BY <2>1 DEF CheckLock, UnlinkStale, WriteLock, Goto, Alive, Dead, daemonVars, TypeOK
    <3> QED  BY <3>1, GoesOn
  <2>2. CASE Refused(p)
    <3>1. Alive(p) /\ Dies(p) /\ UNCHANGED <<daemon, starts, sup>>
      BY <2>2 DEF Refused, Alive, Dead, daemonVars
    <3> QED  BY <3>1, DiesCounts
  <2>3. CASE Exit(p)
    <3>1. /\ at[p] = "stop" /\ at' = [at EXCEPT ![p] = "exited"]
          /\ UNCHANGED <<daemon, starts, sup>> /\ Now(k)' = Now(k)
          /\ streak' = IF Watched(p) THEN [streak EXCEPT ![p[1]] = 0] ELSE streak
      BY <2>3 DEF Exit, Goto, daemonVars, Now
    <3>2. CASE daemon = "down"
      BY <1>0, <3>1, <3>2 DEF CountOf, Watched
    <3>3. CASE daemon # "down" /\ p = Now(k)
      <4>1. daemon \in {"up", "stopping"}
        BY <3>1, <3>3, <1>a, NowFacts DEF TypeOK
      <4>2. ~sup[k].disabled
        BY <1>0, <3>1, <3>3, <4>1 DEF CountOf, Alive, Dead
      <4>3. streak'[k] = 0 /\ at'[Now(k)] = "exited"
        BY <1>a, <3>1, <3>3, NowFacts DEF Watched, TypeOK
      <4> QED  BY <3>1, <4>2, <4>3 DEF CountOf, Alive, Dead
    <3>4. CASE daemon # "down" /\ p # Now(k)
      <4>1. at'[Now(k)] = at[Now(k)]
        BY <1>a, <3>1, <3>4 DEF TypeOK
      <4>2. streak'[k] = streak[k]
        BY <1>a, <3>1, <3>4, NowFacts, ProcFacts DEF Watched, TypeOK
      <4> QED  BY <1>0, <3>1, <4>1, <4>2 DEF CountOf, Alive
    <3> QED  BY <3>2, <3>3, <3>4
  <2> QED  BY <1>4, <2>1, <2>2, <2>3 DEF LockStep
<1>5. ASSUME NEW p \in Procs, Crash(p) PROVE CountOf(k)'
  BY <1>5, DiesCounts DEF Crash
<1>6. CASE KillFrozen
  <2>1. Now("worker") \in Procs
    BY <1>6, <1>0, NowFacts DEF KillFrozen, Phases, TypeOK
  <2> QED  BY <1>6, <2>1, DiesCounts DEF KillFrozen, daemonVars
<1>7. ASSUME NEW j \in Kinds, NoteCrash(j) PROVE CountOf(k)'
  <2>1. /\ daemon = "up" /\ at[Now(j)] = "crashed" /\ ~sup[j].backoff
        /\ UNCHANGED <<at, daemon, starts, streak>> /\ Now(k)' = Now(k)
    BY <1>7 DEF NoteCrash, Ended, supervised, Now
  <2>2. CASE j = k
    <3>1. /\ sup'[k].fails = sup[k].fails + 1 /\ sup'[k].backoff
          /\ sup'[k].disabled = (sup[k].fails + 1 >= MaxFailures)
      BY <1>7, <2>2 DEF NoteCrash, Noted, TypeOK, WorkerStates
    <3> QED  BY <1>0, <2>1, <2>2, <3>1 DEF CountOf, Alive, Dead, WorkerStates
  <2>3. CASE j # k
    <3>1. sup'[k] = sup[k]
      BY <1>7, <2>3 DEF NoteCrash, Noted, TypeOK
    <3> QED  BY <1>0, <2>1, <3>1 DEF CountOf, Alive
  <2> QED  BY <2>2, <2>3
<1>8. ASSUME NEW j \in Kinds, Restart(j) PROVE CountOf(k)'
  <2>1. /\ daemon = "up" /\ ~sup[j].disabled /\ UNCHANGED <<daemon, starts, streak>>
        /\ at' = [at EXCEPT ![Now(j)] = Entry(j)] /\ Now(k)' = Now(k)
        /\ at[Now(j)] = "exited" \/ (at[Now(j)] = "crashed" /\ sup[j].backoff)
    BY <1>8 DEF Restart, Ended, Goto, supervised, Now
  <2>2. CASE j = k
    <3>1. at'[Now(k)] = Entry(k) /\ Entry(k) \notin Dead
      BY <1>a, <2>1, <2>2 DEF Entry, Dead, TypeOK
    <3>2. /\ sup'[k].fails = (IF at[Now(k)] = "exited" THEN 0 ELSE sup[k].fails)
          /\ ~sup'[k].backoff /\ ~sup'[k].disabled
      BY <1>8, <2>2 DEF Restart, Fresh, TypeOK
    <3> QED  BY <1>0, <2>1, <2>2, <3>1, <3>2 DEF CountOf, Alive, Dead
  <2>3. CASE j # k
    <3>1. sup'[k] = sup[k] /\ at'[Now(k)] = at[Now(k)]
      BY <1>8, <1>a, <2>1, <2>3 DEF Restart, TypeOK, Now
    <3> QED  BY <1>0, <2>1, <3>1 DEF CountOf, Alive
  <2> QED  BY <2>2, <2>3
<1>9. ASSUME NEW j \in Kinds, Settle(j) PROVE CountOf(k)'
  <2>1. /\ daemon = "up" /\ Alive(Now(j)) /\ UNCHANGED <<at, daemon, starts>> /\ Now(k)' = Now(k)
        /\ sup' = [sup EXCEPT ![j] = Fresh] /\ streak' = [streak EXCEPT ![j] = 0]
    BY <1>9 DEF Settle, supervised, Now
  <2>2. CASE j = k
    <3>1. sup'[k] = Fresh /\ streak'[k] = 0
      BY <2>1, <2>2 DEF TypeOK
    <3> QED  BY <2>1, <2>2, <3>1 DEF CountOf, Alive, Dead, Fresh
  <2>3. CASE j # k
    <3>1. sup'[k] = sup[k] /\ streak'[k] = streak[k]
      BY <2>1, <2>3 DEF TypeOK
    <3> QED  BY <1>0, <2>1, <3>1 DEF CountOf, Alive
  <2> QED  BY <2>2, <2>3
<1>10. CASE Start \/ RecoveryFails \/ GoStale
  <2>1. CASE Start
    <3>1. daemon' = "recover" /\ UNCHANGED <<sup, streak>>
      BY <2>1 DEF Start
    <3> QED  BY <1>0, <3>1 DEF CountOf
  <2>2. CASE RecoveryFails \/ GoStale
    BY <1>1, <2>2 DEF RecoveryFails, GoStale, procVars, daemonVars
  <2> QED  BY <1>10, <2>1, <2>2
<1>11. CASE Boot
  <2>1. /\ daemon = "recover" /\ daemon' = "up" /\ Now(k)' = Now(k)
        /\ sup'[k] = Fresh /\ streak'[k] = 0
    BY <1>11 DEF Boot, Now
  <2>2. at'[Now(k)] = Entry(k) /\ Entry(k) \notin Dead
    BY <1>11, <1>a, <2>1, NowFacts DEF Boot, Entry, Dead
  <2> QED  BY <2>1, <2>2 DEF CountOf, Alive, Dead, Fresh
<1>12. CASE Stop
  <2>1. /\ daemon = "up" /\ daemon' = "stopping" /\ UNCHANGED <<sup, streak, starts>>
        /\ Now(k)' = Now(k)
    BY <1>12 DEF Stop, Now
  <2>2. at'[Now(k)] \notin Dead => at[Now(k)] \notin Dead
    BY <1>12, <1>a, <2>1 DEF Stop, TypeOK, Dead
  <2> QED  BY <1>0, <2>1, <2>2 DEF CountOf, Alive
<1>13. CASE Halt \/ SupervisorDies \/ PowerLoss
  <2>1. daemon' = "down" /\ sup'[k] = Fresh /\ streak'[k] = 0
    BY <1>13 DEF Halt, SupervisorDies, PowerLoss, NoSupervisor
  <2> QED  BY <2>1 DEF CountOf, Fresh
<1>14. CASE UNCHANGED vars
  BY <1>1, <1>14 DEF vars, procVars, daemonVars
<1> QED
  BY <1>2, <1>3, <1>4, <1>5, <1>6, <1>7, <1>8, <1>9, <1>10, <1>11, <1>12, <1>13, <1>14 DEF Next

\* A process is given up only after MaxFailures crashes in a row, for every
\* interleaving of crashes, polls of the supervisor, restarts and resets.
THEOREM GivenUpIsEarned == Spec => []GivenUpAfterStreak
<1>1. Init => TypeOK /\ Phases /\ Counts
  <2> SUFFICES ASSUME Init PROVE Counts
    BY TypeInit DEF Init, Phases
  <2> QED  BY DEF Init, Counts, CountOf, Fresh
<1>2. TypeOK /\ Phases /\ Counts /\ [Next]_vars => (TypeOK /\ Phases /\ Counts)'
  BY TypeStep, PhasesStep, CountsStep
<1>3. Counts => GivenUpAfterStreak
  BY DEF Counts, CountOf, GivenUpAfterStreak
<1> QED  BY <1>1, <1>2, <1>3, PTL DEF Spec

=============================================================================
