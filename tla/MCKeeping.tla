------------------------------ MODULE MCKeeping ------------------------------
(***************************************************************************)
(* Runs about the components that look after what Kinthic has: its         *)
(* settings and backups, its skills, goals and directives, its graph and   *)
(* its memories, the files it has indexed, and the daemon itself.          *)
(* They meet in files and tables that each module states for itself: a     *)
(* behaviour is one of one of them.                                        *)
(***************************************************************************)
EXTENDS Naturals, TLC

CONSTANTS
    Overlaps, MaxRuns, MaxCrashes,                             \* of several components
    Keys,                                                      \* of backups
    SkillNames, PluginNames, Remote, Servers, Kit, MaxChanges, \* of extensions
    Concepts, Missed, Loops, MaxTurns, MaxLoads, MaxPrunes, \* of the graph
    Consoles, Instructions, MaxProposals, MaxRecorded, MaxDecisions, \* of directives
    Facts, Syntheses, Blocked, Bad, Quorum, Runs, MaxCalls, MaxClusters, \* of memories
    Providers, Options, MaxWrites, MaxKeys,                    \* of settings
    Goals, Trajectories, Short, Titles, Managed, Slug, Distils, \* of goals
    MaxGoalTurns, MaxTicks,
    Commands, MaxPid, MaxKills, Patient, Mixes, Reuses,        \* of the daemon
    Indexers, Paths, Large, Blank, MaxEdits, MaxFailures,      \* of the workspace
    LargeFiles, BlankFiles, MaxCommands,                       \* of folders
    None,
    Looked   \* the components that are looked at

VARIABLES
    part,  \* the component that this behaviour is about
    bak_run, bak_runs, bak_detached, bak_pend, bak_locked, bak_db, bak_wal, bak_foreign,
    bak_vec, bak_job, bak_fence, bak_snap, bak_saving, bak_archive, bak_safety, bak_crashes,
    bak_had, bak_cut, bak_restored,
    ext_files, ext_dirs, ext_changes, ext_catalog, ext_cached, ext_answer, ext_tools,
    ext_loaded, ext_loader, ext_events, ext_enabled, ext_mcp,
    graph_rows, graph_low, graph_links, graph_contras, graph_hyp, graph_mem, graph_dead,
    graph_memE, graph_turn, graph_before, graph_fresh, graph_asked, graph_failed, graph_turns,
    graph_loads, graph_prunes,
    gov_confidences, gov_made, gov_status, gov_asked, gov_decisions, gov_everApproved,
    gov_lastWord, gov_file, gov_saved, gov_replaced, gov_requested, gov_job,
    mem_row, mem_kids, mem_stamped, mem_saved, mem_pc, mem_due, mem_left, mem_todo, mem_digest,
    mem_rpc, mem_draft, mem_shown, mem_calls, mem_told, mem_gone, mem_slips, mem_refused,
    mem_weekly,
    set_file, set_pc, set_on, set_loaded, set_merged, set_calls, set_keys, set_crashes,
    set_stored, set_handed, set_hurt,
    goal_status, goal_saved, goal_cooling, goal_turn, goal_conn, goal_overlay, goal_rows,
    goal_file, goal_script, goal_flat, goal_skills, goal_job, goal_tick, goal_marks,
    goal_worker, goal_runRow, goal_notices, goal_used, goal_made, goal_recorded, goal_broken,
    goal_dropped,
    svc_lock, svc_proc, svc_units, svc_unit, svc_cmd, svc_heard, svc_kills, svc_harmed,
    wsp_file, wsp_edits, wsp_manifest, wsp_chunks, wsp_run, wsp_runs, wsp_crashes, wsp_failures,
    wsp_failed,
    fil_file, fil_edits, fil_gen, fil_gens, fil_docs, fil_handle, fil_cmd, fil_commands,
    fil_crashes, fil_told

bakVars == <<
    bak_run, bak_runs, bak_detached, bak_pend, bak_locked, bak_db, bak_wal, bak_foreign,
    bak_vec, bak_job, bak_fence, bak_snap, bak_saving, bak_archive, bak_safety, bak_crashes,
    bak_had, bak_cut, bak_restored>>
extVars == <<
    ext_files, ext_dirs, ext_changes, ext_catalog, ext_cached, ext_answer, ext_tools,
    ext_loaded, ext_loader, ext_events, ext_enabled, ext_mcp>>
graphVars == <<
    graph_rows, graph_low, graph_links, graph_contras, graph_hyp, graph_mem, graph_dead,
    graph_memE, graph_turn, graph_before, graph_fresh, graph_asked, graph_failed, graph_turns,
    graph_loads, graph_prunes>>
govVars == <<
    gov_confidences, gov_made, gov_status, gov_asked, gov_decisions, gov_everApproved,
    gov_lastWord, gov_file, gov_saved, gov_replaced, gov_requested, gov_job>>
memVars == <<
    mem_row, mem_kids, mem_stamped, mem_saved, mem_pc, mem_due, mem_left, mem_todo, mem_digest,
    mem_rpc, mem_draft, mem_shown, mem_calls, mem_told, mem_gone, mem_slips, mem_refused,
    mem_weekly>>
setVars == <<
    set_file, set_pc, set_on, set_loaded, set_merged, set_calls, set_keys, set_crashes,
    set_stored, set_handed, set_hurt>>
goalVars == <<
    goal_status, goal_saved, goal_cooling, goal_turn, goal_conn, goal_overlay, goal_rows,
    goal_file, goal_script, goal_flat, goal_skills, goal_job, goal_tick, goal_marks,
    goal_worker, goal_runRow, goal_notices, goal_used, goal_made, goal_recorded, goal_broken,
    goal_dropped>>
svcVars == <<
    svc_lock, svc_proc, svc_units, svc_unit, svc_cmd, svc_heard, svc_kills, svc_harmed>>
wspVars == <<
    wsp_file, wsp_edits, wsp_manifest, wsp_chunks, wsp_run, wsp_runs, wsp_crashes, wsp_failures,
    wsp_failed>>
filVars == <<
    fil_file, fil_edits, fil_gen, fil_gens, fil_docs, fil_handle, fil_cmd, fil_commands,
    fil_crashes, fil_told>>

\* Processes without the daemon's lock may run.
Backups == INSTANCE Backup WITH
    Keys <- Keys, MaxRuns <- MaxRuns, MaxCrashes <- MaxCrashes, Consoles <- TRUE,
    Overlaps <- Overlaps,
    run <- bak_run, runs <- bak_runs, detached <- bak_detached, pend <- bak_pend,
    locked <- bak_locked, db <- bak_db, wal <- bak_wal, foreign <- bak_foreign, vec <- bak_vec,
    job <- bak_job, fence <- bak_fence, snap <- bak_snap, saving <- bak_saving,
    archive <- bak_archive, safety <- bak_safety, crashes <- bak_crashes, had <- bak_had,
    cut <- bak_cut, restored <- bak_restored

Skills == INSTANCE Extensions WITH
    Skills <- SkillNames, Plugins <- PluginNames, Remote <- Remote, Servers <- Servers,
    Kit <- Kit, MaxChanges <- MaxChanges,
    files <- ext_files, dirs <- ext_dirs, changes <- ext_changes, catalog <- ext_catalog,
    cached <- ext_cached, answer <- ext_answer, tools <- ext_tools, loaded <- ext_loaded,
    loader <- ext_loader, events <- ext_events, enabled <- ext_enabled, mcp <- ext_mcp

Graph == INSTANCE World WITH
    Concepts <- Concepts, Missed <- Missed, Processes <- Loops, MaxTurns <- MaxTurns,
    MaxLoads <- MaxLoads, MaxPrunes <- MaxPrunes,
    rows <- graph_rows, low <- graph_low, links <- graph_links, contras <- graph_contras,
    hyp <- graph_hyp, mem <- graph_mem, dead <- graph_dead, memE <- graph_memE,
    turn <- graph_turn, before <- graph_before, fresh <- graph_fresh, asked <- graph_asked,
    failed <- graph_failed, turns <- graph_turns, loads <- graph_loads, prunes <- graph_prunes

Directives == INSTANCE Governance WITH
    Processes <- Consoles, Instructions <- Instructions, MaxProposals <- MaxProposals,
    MaxTurns <- MaxRecorded, MaxDecisions <- MaxDecisions,
    confidences <- gov_confidences, made <- gov_made, status <- gov_status, asked <- gov_asked,
    decisions <- gov_decisions, everApproved <- gov_everApproved, lastWord <- gov_lastWord,
    file <- gov_file, saved <- gov_saved, replaced <- gov_replaced, requested <- gov_requested,
    job <- gov_job

Memories == INSTANCE Curation WITH
    Facts <- Facts, Syntheses <- Syntheses, Blocked <- Blocked, Bad <- Bad, Quorum <- Quorum,
    Runs <- Runs, MaxCalls <- MaxCalls, MaxClusters <- MaxClusters,
    row <- mem_row, kids <- mem_kids, stamped <- mem_stamped, saved <- mem_saved, pc <- mem_pc,
    due <- mem_due, left <- mem_left, todo <- mem_todo, digest <- mem_digest, rpc <- mem_rpc,
    draft <- mem_draft, shown <- mem_shown, calls <- mem_calls, told <- mem_told,
    gone <- mem_gone, slips <- mem_slips, refused <- mem_refused, weekly <- mem_weekly

Store == INSTANCE Settings WITH
    Procs <- Consoles, Providers <- Providers, Options <- Options, MaxCalls <- MaxWrites,
    MaxKeys <- MaxKeys, MaxCrashes <- MaxCrashes,
    file <- set_file, pc <- set_pc, on <- set_on, loaded <- set_loaded, merged <- set_merged,
    calls <- set_calls, keys <- set_keys, crashes <- set_crashes, stored <- set_stored,
    handed <- set_handed, hurt <- set_hurt

Aims == INSTANCE Goals WITH
    Goals <- Goals, Trajectories <- Trajectories, Short <- Short, Names <- Titles,
    Managed <- Managed, Slug <- Slug, Distils <- Distils, MaxTurns <- MaxGoalTurns,
    MaxTicks <- MaxTicks, MaxCrashes <- MaxCrashes, None <- None,
    status <- goal_status, saved <- goal_saved, cooling <- goal_cooling, turn <- goal_turn,
    conn <- goal_conn, overlay <- goal_overlay, rows <- goal_rows, file <- goal_file,
    script <- goal_script, flat <- goal_flat, skills <- goal_skills, job <- goal_job,
    tick <- goal_tick, marks <- goal_marks, worker <- goal_worker, runRow <- goal_runRow,
    notices <- goal_notices, used <- goal_used, made <- goal_made, recorded <- goal_recorded,
    broken <- goal_broken, dropped <- goal_dropped

Daemon == INSTANCE Service WITH
    Commands <- Commands, MaxPid <- MaxPid, MaxKills <- MaxKills, Patient <- Patient,
    Mixes <- Mixes, Reuses <- Reuses,
    lock <- svc_lock, proc <- svc_proc, units <- svc_units, unit <- svc_unit, cmd <- svc_cmd,
    heard <- svc_heard, kills <- svc_kills, harmed <- svc_harmed

Workspace == INSTANCE WorkspaceIndex WITH
    Processes <- Indexers, Paths <- Paths, Large <- Large, Blank <- Blank, MaxEdits <- MaxEdits,
    MaxRuns <- MaxRuns, MaxCrashes <- MaxCrashes, MaxFailures <- MaxFailures,
    Overlaps <- Overlaps, None <- None,
    file <- wsp_file, edits <- wsp_edits, manifest <- wsp_manifest, chunks <- wsp_chunks,
    run <- wsp_run, runs <- wsp_runs, crashes <- wsp_crashes, failures <- wsp_failures,
    failed <- wsp_failed

Folders == INSTANCE FileIndex WITH
    Consoles <- Consoles, Paths <- Paths, Large <- LargeFiles, Blank <- BlankFiles,
    MaxEdits <- MaxEdits, MaxCommands <- MaxCommands, MaxCrashes <- MaxCrashes,
    Overlaps <- Overlaps, None <- None,
    file <- fil_file, edits <- fil_edits, gen <- fil_gen, gens <- fil_gens, docs <- fil_docs,
    handle <- fil_handle, cmd <- fil_cmd, commands <- fil_commands, crashes <- fil_crashes,
    told <- fil_told

-----------------------------------------------------------------------------

Parts == {"bak", "ext", "graph", "gov", "mem", "set", "goal", "svc", "wsp", "fil"}

Init ==
    /\ part \in Parts \cap Looked
    /\ Backups!Init /\ Skills!Init /\ Graph!Init /\ Directives!Init /\ Memories!Init
    /\ Store!Init /\ Aims!Init /\ Daemon!Init /\ Workspace!Init /\ Folders!Init

\* All components but one stay as they are.
Only(p) ==
    /\ part = p /\ UNCHANGED part
    /\ p # "bak" => UNCHANGED bakVars
    /\ p # "ext" => UNCHANGED extVars
    /\ p # "graph" => UNCHANGED graphVars
    /\ p # "gov" => UNCHANGED govVars
    /\ p # "mem" => UNCHANGED memVars
    /\ p # "set" => UNCHANGED setVars
    /\ p # "goal" => UNCHANGED goalVars
    /\ p # "svc" => UNCHANGED svcVars
    /\ p # "wsp" => UNCHANGED wspVars
    /\ p # "fil" => UNCHANGED filVars

BackupsSteps == Only("bak") /\ Backups!Next
SkillsSteps == Only("ext") /\ Skills!Next
GraphSteps == Only("graph") /\ Graph!Next
DirectivesSteps == Only("gov") /\ Directives!Next
MemoriesSteps == Only("mem") /\ Memories!Next
StoreSteps == Only("set") /\ Store!Next
AimsSteps == Only("goal") /\ Aims!Next
DaemonSteps == Only("svc") /\ Daemon!Next
WorkspaceSteps == Only("wsp") /\ Workspace!Next
FoldersSteps == Only("fil") /\ Folders!Next

Next ==
    \/ BackupsSteps \/ SkillsSteps \/ GraphSteps \/ DirectivesSteps
    \/ MemoriesSteps \/ StoreSteps \/ AimsSteps \/ DaemonSteps
    \/ WorkspaceSteps \/ FoldersSteps

vars == <<part, bakVars, extVars, graphVars, govVars, memVars, setVars, goalVars,
        svcVars, wspVars, filVars>>

Spec == Init /\ [][Next]_vars

\* Nothing names one of the concepts or one of the processes.
Symmetry == Permutations(Concepts) \cup Permutations(Loops)

\* Goals and trajectories that are cut down to one name.
OneName == [o \in Goals \cup Trajectories |-> "n"]

ASSUME KeepingAssumption ==
    /\ Backups!BackupAssumption /\ Skills!ExtensionsAssumption /\ Graph!WorldAssumption
    /\ Directives!GovernanceAssumption
    /\ Memories!CurationAssumption /\ Store!SettingsAssumption
    /\ Aims!GoalsAssumption /\ Daemon!ServiceAssumption
    /\ Workspace!WorkspaceIndexAssumption /\ Folders!FileIndexAssumption

-----------------------------------------------------------------------------
(* What the runs check. *)

\* Every variable of every component keeps its type.
TypeOK ==
    /\ Backups!TypeOK /\ Skills!TypeOK /\ Graph!TypeOK /\ Directives!TypeOK
    /\ Memories!TypeOK /\ Store!TypeOK /\ Aims!TypeOK /\ Daemon!TypeOK
    /\ Workspace!TypeOK /\ Folders!TypeOK

\* A restore keeps a safety copy of what it replaces and leaves what was archived,
\* wherever it is cut off (backup.py:316).
RestoreIsSafe == Backups!SafetyCopy /\ Backups!RestoredIsArchived

\* What was remembered or stored is not lost on the way: a fact that is merged lives on in
\* its synthesis (pruner.py:155), a setting outlives other calls, and a web key that was
\* handed out is accepted (settings.py:200).  A file that the manifest lets a run skip is
\* indexed as it is (indexer.py:90).
StoredIsKept ==
    /\ Memories!NothingLost /\ Store!StoredIsKept /\ Store!HandedIsAccepted
    /\ Workspace!UnchangedIsIndexed

\* Nothing is in the tables twice: a concept has one row however many processes meet it
\* (graph.py:247), a trajectory is distilled once, over crashes (skill_synthesizer.py:157), a
\* file that was counted as indexed is found once and as it is (file_indexer.py:162).
OneOfEach ==
    /\ Graph!OneRowPerConcept /\ Aims!DistilledOnce
    /\ Folders!CountedIsIndexed /\ Folders!IndexedOnce

\* What steers the model is what it should be: a directive governs only after an approval
\* (meta_reasoning.py:291), and the skills in memory are those on disk once the loader rests.
OnlyWhatShouldGoverns == Directives!OnlyApprovedGoverns /\ Skills!SkillsAreLoaded

\* Commands typed one after the other: there is one daemon, and the lock names it
\* (cli.py:1316), through crashes, stops and the service unit.
LockIsRight == Daemon!LockIsRight

-----------------------------------------------------------------------------
(* What the code does not keep, or not always: to be named in the configuration one at a
   time, with other constants where they are given. *)

\* The database and the vectors in an archive are of one moment; with two keys.
SnapshotsAgree == Backups!SnapshotsAgree
\* Nobody works on the files of a restore; with Overlaps.
HomeIsQuiet == Backups!HomeIsQuiet
\* No write-ahead log of one database is beside another.
NoForeignLog == Backups!NoForeignLog
\* The skills in memory are those on disk, whenever the loader rests.
SkillsMatchDisk == Skills!SkillsMatchDisk
\* What was uninstalled is not loaded.
UninstalledIsGone == Skills!UninstalledIsGone
\* An install is refused only of what is there.
RefusedIsPresent == Skills!RefusedIsPresent
\* An entry of the catalog is lost to no other process's write.
EntriesAreKept == Skills!EntriesAreKept
\* A server that is enabled has its tools registered (tools/registry.py:116).
EnabledIsRegistered == Skills!EnabledIsRegistered
\* A concept has one row, also one that the search of the tables may miss; with Missed.
EveryConceptOnce == Graph!EveryConceptOnce
\* An edge has one row.
OneRowPerEdge == Graph!OneRowPerEdge
\* A graph in memory follows the tables (graph.py:9).
GraphFollowsTables == Graph!GraphFollowsTables
\* What a pruning pass deletes stays deleted.
PruningWorks == Graph!PruningWorks
\* A hypothesis that was decided stays so.
HypothesisIsFinal == Graph!HypothesisIsFinal
\* A directive that was rejected stays out.
RejectedStaysOut == Directives!RejectedStaysOut
\* What a rewrite replaces is saved.
ReplacedIsSaved == Directives!ReplacedIsSaved
\* A rewrite keeps the other directives.
RewriteKeepsOthers == Directives!RewriteKeepsOthers
\* A restored version stays.
RestoredStays == Directives!RestoredStays
\* A forget removes what it has listed.
ForgetsTheListed == Memories!ForgetsTheListed
\* What was asked to be remembered is recalled.
ExplicitIsRecalled == Memories!ExplicitIsRecalled
\* What was deleted is not told.
DeletedIsNotTold == Memories!DeletedIsNotTold
\* What was deleted lives on in no synthesis.
DeletedIsNotKept == Memories!DeletedIsNotKept
\* The weekly review runs once a week; with two runs.
WeeklyIsOnce == Memories!WeeklyIsOnce
\* A setting outlives crashes and other processes.
Kept == Store!Kept
\* A web key is accepted as long as nobody replaces it.
Accepted == Store!Accepted
\* A goal that was logged as admitted is in the database.
AdmittedIsRecorded == Aims!AdmittedIsRecorded
\* A skill's script is its own.
ScriptIsOwn == Aims!ScriptIsOwn
\* A skill is of a goal that was reached.
SkillsAreEarned == Aims!SkillsAreEarned
\* The end of a goal's worker is told.
CompletionIsHeard == Aims!CompletionIsHeard
\* A skill that was admitted is shown.
AdmittedIsShown == Aims!AdmittedIsShown
\* The row of a run is closed when the run is over.
RunIsClosed == Aims!RunIsClosed
\* A goal that is closed stays closed.
ClosedStays == Aims!ClosedStays
\* A skill is announced once; without Trajectories and Distils.
AnnouncedOnce == Aims!AnnouncedOnce
\* Who reads that the daemon is stopped finds it stopped (cli.py:1197); with Mixes.
StoppedIsStopped == Daemon!StoppedIsStopped
\* Who reads that it was started has a daemon (cli.py:1148).
StartedIsUp == Daemon!StartedIsUp
\* A stop ends no process but the daemon.
OnlyTheDaemon == Daemon!OnlyTheDaemon
\* What the manifest lets a run skip is indexed; with Overlaps.
UnchangedIsIndexed == Workspace!UnchangedIsIndexed
\* The same of files that the store has refused.
ClaimedIsIndexed == Workspace!ClaimedIsIndexed
\* A run leaves nothing of files that it did not find (indexer.py:99).
RemovedIsGone == Workspace!RemovedIsGone
\* A file is in the index once; with Overlaps.
IndexedOnce == Folders!IndexedOnce
\* A console can use the collection that is there.
HandleIsLive == Folders!HandleIsLive

=============================================================================
