-------------------------------- MODULE Goals --------------------------------
(***************************************************************************)
(* Goals and what grows out of them: a turn creates, completes and         *)
(* abandons goals (cognitive_loop.py, _process_goals); a completed goal    *)
(* spawns a task that writes a skill (_synthesize_skill); tick() turns     *)
(* recorded trajectories into skills and runs a worker for the first goal. *)
(* Skills are a file and a row (evolution/admission_control.py).           *)
(*                                                                         *)
(* The task is created inside the turn's transaction and inherits its      *)
(* context: its statements go to the writer's connection for ever, without *)
(* a BEGIN and a COMMIT of their own (storage/database.py:856).            *)
(***************************************************************************)
EXTENDS Naturals, Sequences, FiniteSets, SequencesExt, FiniteSetsExt

CONSTANTS
    Goals,        \* goals, numbered in the order in which get_active() lists them
    Trajectories, \* successful trajectories, numbered by age
    Short,        \* those of fewer than two steps
    Names,        \* names of skills
    Slug,         \* the name that a goal or a trajectory is cut down to
    Managed,      \* names that skill_manage writes a flat file for
    Distils,      \* KINTHIC_EVOLUTION_SYNTHESIS
    None,
    MaxTurns, MaxTicks, MaxCrashes  \* bounds

\* What a trajectory is marked with that becomes no skill; no skill bears such a name.
Verdicts == {"skipped", "rejected", "unsafe"}

GoalsAssumption ==
    /\ Goals \cup Trajectories \subseteq Nat /\ Goals \cap Trajectories = {}
    /\ Short \subseteq Trajectories /\ Slug \in [Goals \cup Trajectories -> Names]
    /\ Managed \subseteq Names /\ Distils \in BOOLEAN /\ None \notin Goals \cup Trajectories /\ None \notin Names
    /\ Verdicts \cap (Names \cup {None}) = {}
    /\ {MaxTurns, MaxTicks, MaxCrashes} \subseteq Nat

VARIABLES
    status,   \* per goal, as the writer's connection sees it
    saved,    \* per goal, as committed
    cooling,  \* the last transition is younger than the cooldown
    turn,     \* none, begun, noted: the transaction of a turn
    conn,     \* the writer's connection: idle, leased to a turn, or strayed into
    overlay,  \* per name: an uncommitted row on that connection
    rows,     \* per name: the committed row of the skill
    file,     \* per name: whose text SKILL.md holds
    script,   \* per name: whose script lies beside it
    flat,     \* names with a flat file, written by skill_manage
    skills,   \* per name: what the loader holds
    job,      \* per goal: its synthesis
    tick,     \* where tick() is
    marks,    \* per trajectory: what synthesized_trajectories says
    worker,   \* per goal: its background worker
    runRow,   \* per goal: its row in autonomous_jobs
    notices,  \* per goal: notifications of its end
    used,     \* turns, ticks and crashes so far
    made,     \* per trajectory: names it was written under (history)
    recorded, \* per trajectory: names its row was committed under (history)
    broken,   \* trajectories of which a write failed or was cut off (history)
    dropped   \* goals whose completion a turn reported in vain (history)

goalVars  == <<status, saved, cooling, turn, dropped>>
skillVars == <<file, script, flat, skills>>
tickVars  == <<tick, marks, made, recorded, broken>>
workVars  == <<worker, runRow, notices>>
vars == <<goalVars, skillVars, tickVars, workVars, conn, overlay, rows, job, used>>

Origins == Goals \cup Trajectories
Off == [at |-> "off", by |-> "tick", it |-> None, name |-> None, script |-> FALSE]
NoRow == [n \in Names |-> None]
Use(what) == used' = [used EXCEPT ![what] = @ + 1]

\* load_all(): a flat file hides the directory of the same name.
Loaded(f) == [n \in Names |-> IF n \in flat THEN "flat" ELSE f[n]]

Init ==
    /\ status = [g \in Goals |-> "none"] /\ saved = status /\ cooling = FALSE /\ turn = "none"
    /\ dropped = {} /\ conn = "idle" /\ overlay = NoRow /\ rows = NoRow
    /\ file = NoRow /\ script = NoRow /\ flat = {} /\ skills = NoRow
    /\ job = [g \in Goals |-> "idle"] /\ tick = Off
    /\ marks = [t \in Trajectories |-> None] /\ made = [t \in Trajectories |-> {}]
    /\ recorded = made /\ broken = {}
    /\ worker = [g \in Goals |-> "none"] /\ runRow = worker /\ notices = [g \in Goals |-> 0]
    /\ used = [turn |-> 0, tick |-> 0, crash |-> 0]

-----------------------------------------------------------------------------
(* A turn *)

\* BEGIN IMMEDIATE on the writer's connection.  A stray statement has opened a
\* transaction there: BEGIN fails, the writer rolls back, and the turn is not saved.
BeginTurn ==
    /\ turn = "none" /\ conn # "turn" /\ used.turn < MaxTurns /\ Use("turn")
    /\ IF conn = "idle" THEN turn' = "begun" /\ conn' = "turn"
                        ELSE turn' = "none" /\ conn' = "idle"
    /\ overlay' = NoRow
    /\ UNCHANGED <<status, saved, cooling, dropped, skillVars, tickVars, workVars, rows, job>>

Updates == {"create", "complete", "abandon"} \X Goals
Batches == UNION {[1 .. k -> Updates] : k \in 1 .. 2}

\* One update of a goal, on a record of the goals, the count and the tasks to spawn.
Updated(s, u) ==
    LET what == u[1]  g == u[2] IN
    CASE what = "create" /\ s.status[g] = "none" ->
            [s EXCEPT !.status[g] = "active", !.count = @ + 1]
      [] what = "complete" /\ s.status[g] = "active" ->
            [s EXCEPT !.status[g] = "completed", !.count = @ + 1, !.spawn = @ \cup {g}]
      [] what = "abandon" /\ s.status[g] = "active" ->
            [s EXCEPT !.status[g] = "abandoned", !.count = @ + 1]
      [] OTHER -> s

\* Within the cooldown the whole batch is skipped.
ProcessGoals(batch) ==
    LET s == FoldLeft(Updated, [status |-> status, count |-> 0, spawn |-> {}], batch) IN
    /\ turn = "begun" /\ turn' = "noted"
    /\ IF cooling
       THEN /\ dropped' = dropped \cup {g \in Goals : status[g] = "active" /\ s.status[g] = "completed"}
            /\ UNCHANGED <<status, cooling, job>>
       ELSE /\ status' = s.status /\ cooling' = (s.count > 0)
            /\ job' = [g \in Goals |-> IF g \in s.spawn THEN "asked" ELSE job[g]]
            /\ UNCHANGED dropped
    /\ UNCHANGED <<saved, skillVars, tickVars, workVars, conn, overlay, rows, used>>

Over(base, top) == [n \in Names |-> IF top[n] # None THEN top[n] ELSE base[n]]

\* The rest of the turn commits, or raises and is rolled back; the tasks it
\* spawned and the cooldown stay.
EndTurn(committed) ==
    /\ turn = "noted" /\ turn' = "none" /\ conn' = "idle" /\ overlay' = NoRow
    /\ IF committed THEN saved' = status /\ rows' = Over(rows, overlay) /\ UNCHANGED status
                    ELSE status' = saved /\ UNCHANGED <<saved, rows>>
    /\ UNCHANGED <<cooling, dropped, skillVars, tickVars, workVars, job, used>>

Cool ==
    /\ cooling /\ cooling' = FALSE
    /\ UNCHANGED <<status, saved, turn, dropped, skillVars, tickVars, workVars, conn, overlay,
                   rows, job, used>>

-----------------------------------------------------------------------------
(* Admission of a skill *)

\* The score in units of 1/10000: utility, confidence, novelty, recency, type prior.
Score(u, c, n, t) == 15 * u + 20 * c + 20 * n + 5 * 100 + 40 * t
Admitted(by, novelty) ==
    CASE by = "goal"    -> Score(90, 85, novelty, 80) >= 5500
      [] by = "genesis" -> Score(90, 85, novelty, 75) >= 5500
      [] by = "distill" -> Score(100, 100, novelty, 80) >= 7000
Novelties == {0, 50, 100}

WriteFile(n, origin) == file' = [file EXCEPT ![n] = origin]

\* The language model answers the synthesis of a goal.  SKILL.md is written, and
\* the row goes to the connection the task inherited: into the transaction of
\* whichever turn holds it, or into one that nobody has begun and nobody commits.
Synthesize(g, novelty) ==
    /\ job[g] = "asked"
    /\ IF Admitted("goal", novelty)
       THEN /\ WriteFile(Slug[g], g) /\ overlay' = [overlay EXCEPT ![Slug[g]] = g]
            /\ conn' = (IF conn = "turn" THEN "turn" ELSE "stray")
            /\ job' = [job EXCEPT ![g] = "written"]
       ELSE job' = [job EXCEPT ![g] = "over"] /\ UNCHANGED <<file, overlay, conn>>
    /\ UNCHANGED <<goalVars, script, flat, skills, tickVars, workVars, rows, used>>

\* No history, no answer, or an error.
NoSynthesis(g) ==
    /\ job[g] = "asked" /\ job' = [job EXCEPT ![g] = "over"]
    /\ UNCHANGED <<goalVars, skillVars, tickVars, workVars, conn, overlay, rows, used>>

\* "admitted and logged to database", then load_all().
Synthesized(g) ==
    /\ job[g] = "written" /\ job' = [job EXCEPT ![g] = "admitted"] /\ skills' = Loaded(file)
    /\ UNCHANGED <<goalVars, file, script, flat, tickVars, workVars, conn, overlay, rows, used>>

\* skill_manage writes a flat file of that name and reloads.
Manage(n) ==
    /\ n \in Managed \ flat /\ flat' = flat \cup {n} /\ skills' = [Loaded(file) EXCEPT ![n] = "flat"]
    /\ UNCHANGED <<goalVars, file, script, tickVars, workVars, conn, overlay, rows, job, used>>

-----------------------------------------------------------------------------
(* tick(): trajectories *)

Step(at) == tick' = [tick EXCEPT !.at = at]
\* What follows genesis, and what follows distillation.
Then == IF tick.by = "genesis" THEN Step("distill") ELSE Step("goals")

Unmarked == {t \in Trajectories : marks[t] = None}

\* The oldest trajectory without a mark is asked about; a short one is marked.
Pick(by) ==
    LET t == Min(Unmarked) IN
    IF Unmarked = {} \/ (by = "distill" /\ ~Distils)
    THEN tick' = [Off EXCEPT !.at = IF by = "genesis" THEN "distill" ELSE "goals", !.by = by]
    ELSE tick' = [Off EXCEPT !.by = by, !.it = t,
                     !.at = IF by = "genesis" /\ t \in Short THEN "mark" ELSE "ask",
                     !.name = IF by = "genesis" /\ t \in Short THEN "skipped" ELSE None]

StartTick ==
    /\ tick.at = "off" /\ used.tick < MaxTicks /\ Use("tick") /\ Pick("genesis")
    /\ UNCHANGED <<goalVars, skillVars, marks, made, recorded, broken, workVars, conn, overlay, rows, job>>

StartDistill ==
    /\ tick.at = "distill" /\ Pick("distill")
    /\ UNCHANGED <<goalVars, skillVars, marks, made, recorded, broken, workVars, conn, overlay, rows, job, used>>

Asked(name, scripted, novelty) ==
    LET by == tick.by  t == tick.it IN
    /\ tick.at = "ask"
    /\ by = "distill" => name = Slug[t] /\ ~scripted
    /\ IF Admitted(by, novelty)
       THEN /\ WriteFile(name, t) /\ made' = [made EXCEPT ![t] = @ \cup {name}]
            /\ tick' = [tick EXCEPT !.at = "insert", !.name = name, !.script = scripted]
       ELSE /\ IF by = "genesis" THEN tick' = [tick EXCEPT !.at = "mark", !.name = "rejected"]
                                 ELSE Then
            /\ UNCHANGED <<file, made>>
    /\ UNCHANGED <<goalVars, script, flat, skills, marks, recorded, broken, workVars, conn,
                   overlay, rows, job, used>>

\* The model fails, or (genesis only) the validation finds a contradiction; a
\* validation that fails lets the skill pass.
NotAsked(unsafe) ==
    /\ tick.at = "ask" /\ (unsafe => tick.by = "genesis")
    /\ IF unsafe THEN tick' = [tick EXCEPT !.at = "mark", !.name = "unsafe"] ELSE Then
    /\ UNCHANGED <<goalVars, skillVars, marks, made, recorded, broken, workVars, conn, overlay,
                   rows, job, used>>

\* A write of its own, through the queue: it waits for the turn to end, and
\* fails, rolling back, where a stray statement has opened a transaction.
Served(ok) == conn # "turn" /\ ok = (conn = "idle") /\ conn' = "idle" /\ overlay' = NoRow

\* Mutant: the failed insert is logged and the synthesis goes on.
InsertIgnored(ok) ==
    /\ tick.at = "insert" /\ Served(ok) /\ Step("script")
    /\ IF ok THEN /\ rows' = [rows EXCEPT ![tick.name] = tick.it]
                  /\ recorded' = [recorded EXCEPT ![tick.it] = @ \cup {tick.name}]
             ELSE UNCHANGED <<rows, recorded>>
    /\ UNCHANGED <<goalVars, skillVars, marks, made, broken, workVars, job, used>>

InsertRow(ok) ==
    LET t == tick.it  n == tick.name IN
    /\ tick.at = "insert" /\ Served(ok)
    /\ IF ok THEN /\ rows' = [rows EXCEPT ![n] = t]
                  /\ recorded' = [recorded EXCEPT ![t] = @ \cup {n}]
                  /\ Step("script") /\ UNCHANGED broken
             ELSE Then /\ broken' = broken \cup {t} /\ UNCHANGED <<rows, recorded>>
    /\ UNCHANGED <<goalVars, skillVars, marks, made, workVars, job, used>>

WriteScript ==
    /\ tick.at = "script" /\ Step("mark")
    /\ script' = IF tick.script THEN [script EXCEPT ![tick.name] = tick.it] ELSE script
    /\ UNCHANGED <<goalVars, file, flat, skills, marks, made, recorded, broken, workVars, conn,
                   overlay, rows, job, used>>

Mark(ok) ==
    /\ tick.at = "mark" /\ Served(ok)
    /\ IF ~ok THEN Then /\ broken' = broken \cup {tick.it} /\ UNCHANGED marks
       ELSE /\ marks' = [marks EXCEPT ![tick.it] = tick.name] /\ UNCHANGED broken
            /\ IF tick.name \in Names THEN Step("load") ELSE Then
    /\ UNCHANGED <<goalVars, skillVars, made, recorded, workVars, rows, job, used>>

LoadSkills ==
    /\ tick.at = "load" /\ skills' = Loaded(file) /\ Then
    /\ UNCHANGED <<goalVars, file, script, flat, marks, made, recorded, broken, workVars, conn,
                   overlay, rows, job, used>>

-----------------------------------------------------------------------------
(* tick(): the worker of the first active goal *)

\* get_active() reads the committed rows on the other connection.
Active == {g \in Goals : saved[g] = "active"}

LookAtGoals ==
    LET g == Min(Active) IN
    /\ tick.at = "goals"
    /\ IF Active = {} \/ (Active # {} /\ worker[g] = "running") THEN tick' = Off
       ELSE tick' = [Off EXCEPT !.it = g, !.at = IF worker[g] = "none" THEN "spawn" ELSE "remember"]
    /\ UNCHANGED <<goalVars, skillVars, marks, made, recorded, broken, workVars, conn, overlay,
                   rows, job, used>>

\* A failed insert of the job's row is ignored.
Spawn(ok) ==
    /\ tick.at = "spawn" /\ Served(ok) /\ tick' = Off
    /\ worker' = [worker EXCEPT ![tick.it] = "running"]
    /\ runRow' = IF ok THEN [runRow EXCEPT ![tick.it] = "running"] ELSE runRow
    /\ UNCHANGED <<goalVars, skillVars, marks, made, recorded, broken, notices, rows, job, used>>

WorkerEnds(g, how) ==
    /\ worker[g] = "running" /\ worker' = [worker EXCEPT ![g] = how]
    /\ UNCHANGED <<goalVars, skillVars, tickVars, runRow, notices, conn, overlay, rows, job, used>>

\* The result becomes a memory; where that write fails tick() raises.
Remember(ok) ==
    /\ tick.at = "remember" /\ Served(ok)
    /\ IF ok THEN Step("record") ELSE tick' = Off
    /\ UNCHANGED <<goalVars, skillVars, marks, made, recorded, broken, workVars, rows, job, used>>

\* The parameters of the UPDATE are in the wrong order: the status is given a
\* time, the constraint refuses it, and the error is ignored.
RecordRun(ok) ==
    /\ tick.at = "record" /\ Served(ok) /\ Step("notify")
    /\ UNCHANGED <<goalVars, skillVars, marks, made, recorded, broken, workVars, rows, job, used>>

Notify(ok) ==
    /\ tick.at = "notify" /\ Served(ok)
    /\ IF ok THEN Step("close") /\ notices' = [notices EXCEPT ![tick.it] = @ + 1]
             ELSE tick' = Off /\ UNCHANGED notices
    /\ UNCHANGED <<goalVars, skillVars, marks, made, recorded, broken, worker, runRow, rows, job, used>>

\* The status is set whatever it has become meanwhile.
CloseGoal(ok) ==
    LET g == tick.it  end == IF worker[g] = "done" THEN "completed" ELSE "failed" IN
    /\ tick.at = "close" /\ Served(ok) /\ tick' = Off
    /\ IF ok THEN /\ status' = [status EXCEPT ![g] = end] /\ saved' = [saved EXCEPT ![g] = end]
                  /\ worker' = [worker EXCEPT ![g] = "none"]
             ELSE UNCHANGED <<status, saved, worker>>
    /\ UNCHANGED <<cooling, turn, dropped, skillVars, marks, made, recorded, broken, runRow,
                   notices, rows, job, used>>

\* The process ends and starts again: tasks, workers, an open transaction and the
\* cooldown are gone; the skills are loaded anew.
Crash ==
    /\ used.crash < MaxCrashes /\ Use("crash")
    /\ status' = saved /\ cooling' = FALSE /\ turn' = "none" /\ conn' = "idle" /\ overlay' = NoRow
    /\ job' = [g \in Goals |-> IF job[g] \in {"asked", "written"} THEN "over" ELSE job[g]]
    /\ broken' = broken \cup ({tick.it} \cap Trajectories)
    /\ tick' = Off /\ worker' = [g \in Goals |-> "none"] /\ skills' = Loaded(file)
    /\ UNCHANGED <<saved, dropped, file, script, flat, marks, made, recorded, runRow, notices, rows>>

Next ==
    \/ BeginTurn \/ (\E b \in Batches : ProcessGoals(b)) \/ (\E c \in BOOLEAN : EndTurn(c)) \/ Cool
    \/ \E g \in Goals : \/ \E v \in Novelties : Synthesize(g, v)
                        \/ NoSynthesis(g) \/ Synthesized(g)
                        \/ \E how \in {"done", "failed"} : WorkerEnds(g, how)
    \/ \E n \in Names : \/ Manage(n)
                        \/ \E s \in BOOLEAN, v \in Novelties : Asked(n, s, v)
    \/ StartTick \/ StartDistill \/ WriteScript \/ LoadSkills \/ LookAtGoals \/ Crash
    \/ \E ok \in BOOLEAN : \/ NotAsked(ok) \/ InsertRow(ok) \/ Mark(ok) \/ Spawn(ok)
                           \/ Remember(ok) \/ RecordRun(ok) \/ Notify(ok) \/ CloseGoal(ok)

Spec == Init /\ [][Next]_vars

-----------------------------------------------------------------------------

TypeOK ==
    /\ {status, saved} \subseteq [Goals -> {"none", "active", "completed", "abandoned", "failed"}]
    /\ cooling \in BOOLEAN /\ turn \in {"none", "begun", "noted"} /\ dropped \subseteq Goals
    /\ conn \in {"idle", "turn", "stray"} /\ (conn = "turn") = (turn # "none")
    /\ {overlay, rows, file} \subseteq [Names -> Origins \cup {None}]
    /\ script \in [Names -> Trajectories \cup {None}] /\ flat \subseteq Names
    /\ DOMAIN skills = Names
    /\ job \in [Goals -> {"idle", "asked", "written", "admitted", "over"}]
    /\ tick.at \in {"off", "ask", "insert", "script", "mark", "load", "distill", "goals", "spawn",
                    "remember", "record", "notify", "close"}
    /\ worker \in [Goals -> {"none", "running", "done", "failed"}]
    /\ runRow \in [Goals -> {"none", "running"}]

\* A trajectory becomes one skill at most, unless a write of it failed or was cut
\* off, and whatever is marked with a skill's name has that skill's row
\* (skill_synthesizer.py:60, "WHERE ... st.trajectory_id IS NULL"; :149 marks last).
DistilledOnce ==
    \A t \in Trajectories :
        /\ t \notin broken => Cardinality(made[t]) <= 1
        /\ marks[t] \in Names => marks[t] \in recorded[t]

\* A skill that was "successfully admitted and logged to database"
\* (admission_control.py:203) is in the database, or in an open transaction.
AdmittedIsRecorded ==
    \A g \in Goals : job[g] = "admitted" => {rows[Slug[g]], overlay[Slug[g]]} # {None}

\* The script beside a SKILL.md is that skill's own (skill_synthesizer.py:157).
ScriptIsOwn == \A n \in Names : script[n] \in {None, file[n]}

\* A skill stands for a goal that is completed (cognitive_loop.py:1394).
SkillsAreEarned ==
    turn = "none" => \A g \in Goals : job[g] # "idle" => saved[g] = "completed"

\* A completion that a turn reports is recorded (cognitive_loop.py:1338).
CompletionIsHeard == dropped = {}

\* An admitted skill is the one the prompt shows (skills.py:133, "later-loaded
\* dirs shadow earlier").
AdmittedIsShown == \A n \in Names : file[n] # None => skills[n] # "flat"

\* The job of a closed goal is closed (cognitive_loop.py:542, "Durable completion record").
RunIsClosed ==
    \A g \in Goals : saved[g] \in {"completed", "failed"} /\ notices[g] > 0 => runRow[g] # "running"

\* The end of a goal is announced once (cognitive_loop.py:558).
AnnouncedOnce == \A g \in Goals : notices[g] <= 1

\* A goal that was closed stays as it was closed.
ClosedStays ==
    [][\A g \in Goals : saved[g] \in {"completed", "abandoned"} => saved'[g] = saved[g]]_vars

=============================================================================
