# Kinthic: models, checks and proofs

Kinthic is a local-first AI agent: about 37,000 lines of Python on asyncio, an
engine (`silex/`), an orchestration layer for workers (`agent/`), scripts that
start it (`scripts/`) and a terminal UI in TypeScript (`kinthic-ink-ui/`). This
directory models the parts of it whose correctness depends on the order in which
tasks, processes, timeouts, failures and crashes happen, from the database
writer up to the terminal.

    tlc -workers 2 -config WriteQueueBase.cfg MCWriteQueue     # one run
    tlapm WriteQueueProofs.tla                                 # one proof

Contents: [inventory](#inventory), [modules](#modules), [runs](#runs),
[deviations](#deviations-of-the-code), [fairness](#fairness),
[proofs](#proofs), [not modelled](#what-is-not-modelled), [plan](#plan).

## Inventory

| Component | State | Operations | Interacts with | Hard behaviour |
|---|---|---|---|---|
| Database write queue (`storage/database.py`) | bounded queue, writer task, leases, `_writer_dead`, connection | execute, transaction, close; writer loop, supervisor, drain | every component that writes | 30 s watchdog against a body that still runs, cancelled callers, crash and respawn, queue at its limit, inherited context |
| Graph buffer (`storage/graph_buffer.py`) | staged rows, one asyncio lock | stage, commit_flush, clear | memory store, write queue | shared by all tasks; lock and lease taken in both orders; a commit later than its caller's patience |
| Memory store (`memory/`) | SQLite rows, ChromaDB vectors, `pending_vector_deletes` | add, add_manual, delete, archive, flush, reconcile, retry | buffer, write queue, cron process | no transaction over the two stores; crash between them; two processes |
| Saga (`core/saga.py`) | events, completed steps, pivot flag | execute, retry, escalate, roll back | planner and tools | a TaskGroup cancels siblings in the middle of an action |
| Approval gate (`tools/registry.py`) | `tool_approvals`, the polling gate | queue, poll, resolve, reload of tools | Telegram, Discord, terminal, chat API | an answer races a timeout, another answer, a reload or a crash |
| Daemon (`scripts/daemon.py`) | goals, `autonomous_jobs`, heartbeats, crash counters | recover, start, restart, kill, stop; claim, run, report | gateway, worker, watcher, cron; process lock | parallel processes over one file and one table; stale locks and heartbeats |
| Cognitive loop (`core/cognitive_loop.py`), sessions (`memory/session.py`) | process lock, session object and row, tool calls that wait to be logged | startup, process, shutdown, record_turn | all of the above | memory changed before a transaction that may fail; long turns; background tasks; child loops |
| Tree search (`core/tree_search.py`), code edits (`tools/code_editor.py`, `phantom.py`) | the user's git workspace, a stash, a file of drafts | search, expand, restore; propose, apply, try | cognitive loop, the user's own files | work of the user under a search that commits and checks out; a list rewritten as a whole |
| Context (`core/context_builder.py`), curation (`memory/pruner.py`) | history, summaries, syntheses | read, budget, compress; consolidate, forget | session, memory store | delete and insert that may fail between; locked turns; a guard that refuses |
| Worker orchestrator, pool, subagents (`agent/`) | worker status, handles, semaphore, containers | spawn, monitor, kill, shut down | cognitive loop, Docker | kill races completion; a child loop in its parent's process |
| Providers (`llm/`) | circuit breakers, cache, clients | call, retry, fall back, switch | turns, extraction, critic, daemon | one breaker shared by concurrent callers, some cancelled |
| HTTP gateway (`api/server.py`) | stream queues, cancel flags | stream, cancel, approve | cognitive loop, workers | two tasks awaited at once; a client that is gone |
| Console (`run.py`, `ui/`, `kinthic-ink-ui/`) | three queues, a socket, the reducer's state | submit, cancel, approve, show, stop | cognitive loop, approval gate | an Escape races the end of its turn; two processes |
| World model (`world/`) | nodes and edges in tables and in each process | add, reinforce, contradict, suppose, load, prune | turns, cron process | caches of one table in several processes; rollbacks |
| Goals and skills (`goal_tracker.py`, `evolution/`, `autonomy/`) | goals, skill files and rows | complete, synthesize, distil, admit | turn transaction | a task born in a transaction that may roll back |
| Governance (`meta_reasoning.py`, `tools/directives.py`) | proposals, the directives file | propose, decide, roll back, rewrite | console, shell, turns | two processes over one file and one table |
| Skills and plugins (`plugins/`, `core/skills.py`, `mcp/`) | catalog, directories, tables in memory | install, remove, refresh, watch, reload | console, shell, tool registry | a loader that runs while files change |
| Settings, backup, service (`runtime/`, `ops/`, `cli.py`) | JSON files, archives, `daemon.lock` | read, merge, write; export, restore; start, stop | every process | truncated files, crashes half-way, locks without a check-and-set |
| Trust, guards, ethics, other reasoning engines | scores, patterns, prompts | verdict on one call | approval gate, cognitive loop | pure functions |
| Indexers (`memory/indexer.py`, `file_indexer.py`) | a manifest, two collections, handles of them | run over the workspace; index a folder, clear | files of the user, ChromaDB, console | files edited while they are indexed; runs cut off; a manifest that claims too much |
| Adapters, migration, voice | connections | I/O | everything | network |

What makes each correct: the queue answers every caller, truthfully, and never
mixes two transactions; the two memory stores agree in the end and nothing
acknowledged is lost or comes back; a saga undoes what it did, in order, unless it
passed the point of no return; a gated tool runs because somebody decided so, and
what is reported happened; a goal is claimed once per
start, and the daemon neither gives up too early nor leaves the queue waiting. A turn is recorded once, under a number
of its own, with its tools; the user's files survive what the agent tries in
them; the prompt comes back; every job ends, and its success was one; a
provider that answers is used again; a restore, a merge or a compression that is
cut off loses nothing; what steers the model was approved.

`PROJECT.json` lists every component with its status, and every hazard with
its line and the properties that would catch it going wrong.

## Modules

Each module is one component; its header says what an action is. In all
of the asyncio modules an action is what a task runs between two awaits, so that
the interleavings of the model are those of the event loop; in `GoalDaemon`,
where processes run in parallel, an action is one access to a file or table.

| Module | Models | Lines of the correspondence |
|---|---|---|
| `WriteQueue` | The writer of `database.py`. Callers `Submit`, wait for room, are shed or cancelled; the writer `Get`s an item, answers a write or leases its connection to a transaction's body, commits, rolls back, crashes, is respawned or dies (`Crash`, `DrainedPc`, `DrainedTx`); `Close`. | `pc` is the caller's place, `tx` its events and `tx_state` dict, `connOf` the context variable, `wpc`/`cur` the writer task and its item, `pending`/`committed` the connection and the file |
| `AtomicStore` | What the queue promises: whole batches, truthful answers given once. | `WriteQueue!Store` is the refinement mapping |
| `MemoryStore` | `add`, `add_manual`, `delete`, `archive`, flush, reconciliation and retried deletes over `GraphTransactionBuffer`, SQLite and ChromaDB. A memory is the task that adds it. | `lease` is the writer's contract of `WriteQueue`, `lock` is `buffer._lock`, `staged` the buffer, `rows`/`vectors`/`pending` the stores, `rec` the startup and cron reconciliations |
| `Saga` | `execute()`: steps as tasks of a TaskGroup, events, pivots, retries, escalation, rollback. | `at` is where `run_step` of each step is, `events`, `completed`, `pivotPassed`, `failed` are the locals of `execute` |
| `ApprovalGate` | `execute_with_gate`, `_wait_for_approval`, `resolve_approval` and the decisions of adapters, terminals and the chat stream. | `gate` is the turn's task, `status`/`stored` the row, `op` each decision under way |
| `GoalDaemon` | `DaemonWatchdog`, the worker's loop, the process lock, the watcher's goals. | `at` is where each process is, named by its kind and the start it belongs to, `sup` is `_worker_state`, `lock` the lock file, `goal`/`beat` the tables, `hb` each worker's heartbeat task; whoever outlives a killed supervisor is an orphan |
| `Turn` | `process()` from the router to the flush, over sessions, tool audit and process lock; startup, shutdown, crash, child loops. | `pc` is where a call is, `sess` the `Session` object, `rows`/`turns`/`logged` the tables, `audit` the context variable of `_pending_tool_audit` |
| `TreeSearch` | `LATSTreeSearch.search()` and its git commands as git takes them. | `tree` is the nodes, `head`/`dirty`/`loose` the commit, the index and the untracked files |
| `CodeEdits` | `code_editor.py` and `phantom.py` over the file of drafts and one workspace file. | `list` is pending_edits.json, `text` the file, `hidden` the trial's copy beside it |
| `Console` | The turn loop of `run.py`, `ink_bridge.py` and the reducer of the terminal UI. | `py` is the loop's place, `inputs`/`cancels`/`answers` the bridge's queues, `wire` the socket, `mode` the reducer's |
| `History` | The history section of the prompt: window, budget, locks, compression. | `rows` is the turns table, `recent` the list in `build()` |
| `WorkerOrchestrator` | Jobs, containers, pool, monitors, kill, cancellation, shutdown. | `at` is where each job's task is (`starting` and `closing` while it reports), `status` `process.status`, `cont`/`pool` the containers |
| `Providers` | Circuit breakers, retries, fallback chain and cache. | `breaker` is `_CIRCUIT_BREAKERS`, `pc`/`at`/`tried` the call |
| `ChatStream` | `POST /api/chat/stream` and cancel, and what its workers report. | `queue` is the stream's queue, `sent` what the client has, `emitter` `orchestrator._emitter` |
| `Backup` | Export and restore, file by file, beside a process at work. | `db`/`wal`/`vec` are the stores, `job` the operation's place |
| `Extensions` | Registry, loader, watcher, MCP configuration; console and shell. | `files`/`dirs`/`catalog` are the disk, `loaded`/`tools` the console's tables |
| `World` | Graph, contradictions and hypotheses in two processes; pruning. | `rows`/`links` are the tables, `mem`/`memE` each process's graph |
| `Governance` | Proposals, decisions, drift, rollback, the directives tool. | `status` is the table of proposals, `file`/`saved` the core directives and their backups, `job` what a process is in the middle of |
| `Curation` | Consolidation, digest, remember and forget. | `row`/`kids` are the table, `pc` each process's consolidation |
| `Settings` | `RuntimeSettingsStore` in several processes. | `file` is the two JSON files, `loaded`/`merged` a call's locals |
| `Goals` | Goals of turns, synthesis and distillation of skills, `tick()`. | `overlay` is the uncommitted rows on the writer's connection, `rows` the committed |
| `WorkspaceIndex` | `WorkspaceIndexer.run()` in one or two processes, over files that are edited. | `manifest` is the JSON file, `chunks` the collection, `run` the locals of `run()` |
| `FileIndex` | `/index` and `/index --clear` of consoles. | `docs` is the collection, `gen` which one it is, `handle` the `_collection` of each process |
| `Service` | start, stop, status, run and the systemd unit around `daemon.lock`. | `lock` is the file, `proc` what each process id does |

`MC*` modules instantiate these for TLC (dependency relations, contents,
symmetry). `*Proofs` modules hold the theorems. The modules are composed by
contract: `MemoryStore` and `Turn` use the writer through what `WriteQueue`
guarantees (one lease at a time, atomic commits, a watchdog that may end a lease and
a caller that may give up before the commit), `Goals` and `World` through a turn
that commits or rolls back, `Backup` through a process whose rows come before their
vectors, as `MemoryStore` has it, instead of repeating the queue.

Three MC modules are suites: `MCServing`, `MCConversation` and `MCKeeping` each
instantiate several components side by side. The variable `part`, chosen at the
start, says which of them a behaviour is about, and only that one moves: the
components of a suite meet in files and tables that each module states
for itself, so their product would add interleavings of steps that commute, and no
case. A suite's states are thus the sum of its components' states.
A property of a suite is the conjunction of the components' properties
that answer one question. The instance is in the configuration: the suites take the
components' constants, so that the theorems about them hold for every instance.
`Looked` is the parts that are looked at (all of them in the runs;
`Looked = {"goal"}` for one). Each suite also has a `TypeOK`, which holds and is not
part of the run.

Operators named in a comment `Mutant:` are deliberate errors of the definition
that follows; no specification uses them. Each property of a run is broken by
one of them, and most conjuncts of the suites' properties by one of their own.

Data is abstract: a row is its writer's identity, a memory says one of a
few things, a step, tool call or goal is a model value. What a tool, an action or
a language model does is a free choice: return, raise, hang.

## Runs

Sizes are distinct states; every run takes three minutes at most on two cores.

| Run | Instance | States | Shows |
|---|---|---|---|
| `WriteQueueBase` | 2 writers, 2 transactions of 2 rows, queue of 1, death after 2 crashes, close(); symmetric clients | 342,130 | `ImplementsAtomicStore`, `LeaseIsolation`, `DeathAnswersTheQueue` |
| `WriteQueueTimeouts` | 2 writers, 1 transaction of 2 rows, 1 task born in its body; watchdog and commit timeouts | 104,000 | `AckedDurable` in spite of timeouts and zombies; `EveryoneAnswered` |
| `MemoryBase` | a turn, an extraction, an add(), a delete(); 1 crash, watchdog, cancellations, commits that are not heard of | 407,000 | `StoredIsDurable`, `VectorsAfterRows`, `DeletedStaysDeleted`, `EveryTaskEnds` |
| `MemoryDeletes` | an add(), an add_manual(), a delete(); 1 crash, 1 failure, cron process | 954,000 | `EventuallyInSync` |
| `SagaBase` | 5 steps: a diamond with a pivot in it and a step beside it; 3 retries | 33,700 | `PivotIsFinal`, `RunsAfterDependencies`, `DependentsFirst`, `Ends` |
| `GateBase` | 2 calls, one in a chat stream; 2 adapter decisions and 1 of the terminal; tools that go and come back, 1 crash | 873,000 | `ApprovedMeansRan`, `RunsOnlyByDecision`, `GateEnds` |
| `DaemonBase` | 1 goal from either source, gateway and worker, given up after 2 crashes, 2 starts, 1 fault besides lock conflicts and killed workers: a crash, a killed supervisor that its worker outlives, a power loss or a heartbeat that is not written | 499,000 | `OneClaimPerStart`, `GivenUpAfterStreak`, `PendingIsClaimed`, `FrozenIsKilled` |
| `Conversation` | `Turn`: 2 turns, one after the other or each in a task of its own, 2 processes, 2 startups that may overlap, a child loop, a flush that fails. `TreeSearch`: 2 searches of a root and one candidate, cut off anywhere, an edit and a new file of the user, HEAD on a branch or detached. `CodeEdits`: 2 drafts, 2 trials, 1 failure. `Console`: 2 inputs, 1 Escape, approvals. `History`: a window of 4, 6 turns, 1 crash. `WorkerOrchestrator`: a container job and a child loop, 1 slot, a pool of 1, cancelled callers, reports that raise | 2,318,000 | `TurnsAreRecorded`, `UserWorkKept`, `PromptReturns`, `HistoryIsKept`, `JobsAreSound` |
| `Keeping` | `Backup`: 1 memory, 2 processes, 1 crash. `Extensions`: a skill, a plugin, a server, 2 changes. `World`: 2 concepts, 2 processes, 2 turns, 1 pruning. `Governance`: 2 proposals, 5 turns, 2 decisions, 2 processes. `Curation`: 2 facts, 2 syntheses, one refused. `Settings`: 2 processes, 3 calls, 1 crash. `Goals`: a goal and a trajectory of one name, 1 crash. `Service`: 3 commands, 1 kill, pids that are reused. `WorkspaceIndex`: 2 files, 3 versions, 2 runs, 1 crash, 1 refusal. `FileIndex`: 2 files, 3 versions, 2 consoles, 3 commands, 1 restart | 724,000 | `RestoreIsSafe`, `StoredIsKept`, `OneOfEach`, `OnlyWhatShouldGoverns`, `LockIsRight` |
| `Serving` | `WorkerOrchestrator`: 1 container. `Providers`: a chain of two, outages, a cancelled caller. `ChatStream`: 1 stream of 2 events | 101,000 | `EveryJobEnds`, `HealthyIsClosed`, `StreamEnds`, `StreamIsWhole` |

The runs of a single component also check its `TypeOK` (but `WriteQueueTimeouts`
and `MemoryDeletes`, whose modules another run covers).

Why these bounds are enough for the interesting cases:

* A queue of one with two writers and two transactions has callers in every
  place at once: served, queued, blocked in put(), shed. Two rows make
  a half-written transaction possible. Two failures reach a respawn and a death.
* One turn, one extraction and one add() are the three ways to use the
  buffer: inside a transaction with a flush, inside one without, and outside.
  A crash may come before every action, a ChromaDB failure in every call of
  `MemoryDeletes`. With the delete() beside them there are two flushes that can
  store a memory, one before it is deleted and one after.
* The diamond has a join, a fork, a pivot on one of its branches and a step that
  no dependency protects from the failure of another.
* Two decisions suffice for two approvals of one call, for an approval and a
  rejection, and for a late one.
* Two turns are the least in which one may take the other's number, tools or
  session; two startups let a session be resumed after a crash. The theorem
  `TurnsAreSound` covers any number of both.
* A root and a candidate are nodes that can be better than each other and leave
  edits behind; the user's edit and new file are the two kinds of work that git
  treats apart.
* Six turns over a window of four let turns be compressed twice, so that a
  summary is compressed with turns, and a locked turn outlive both.
* Two processes over one file or table, and two writes of each, are a lost update.
* Three commands are a start, something that goes wrong, and what follows it.
* Three starts let a goal be recovered twice, with a stale lock and a stale
  heartbeat left by each start before.

`CHECK_DEADLOCK FALSE` is set because each system really stops when
its bounded inputs are used up: all callers answered, all memories stored, the
saga over, no start left. What must not stop is stated as liveness.

### Deviations of the code

Two runs expect a violation: they show that the code does not do what its
comments say (`findings` in `PROJECT.json` quotes the lines):

| Run | Property | What TLC finds |
|---|---|---|
| `MemoryRolledBack` | `RolledBackStaysOut` | Another task's flush commits what a turn has staged and then rolls back. |
| `GoalsAdmitted` | `AdmittedIsRecorded` | A skill is written in the background while the turn that completed its goal is open; the turn rolls back and takes the skill's row with it, and the skill is logged as admitted. |

The tables below name properties that the code does not keep either. Each can be
looked at by hand: copy the named run's configuration, put the property in the
place of the run's own, and make the changes given. For instance

    sed -e 's/Looked <- Parts/Looked = {"goal"}/' \
        -e 's/MaxGoalTurns = 1/MaxGoalTurns = 2/' -e '/^INVARIANT/d' \
        Keeping.cfg > Look.cfg
    echo 'INVARIANT RunIsClosed' >> Look.cfg
    tlc -workers 2 -config Look.cfg MCKeeping

Properties marked with an arrow (→) are actions or temporal: `PROPERTY` in
place of `INVARIANT`. TLC reports the violation within seconds,
`SkillsMatchDisk` and the two of long runs of goals within two minutes.

Of single components, from the run named:

| Property | Run, with | What TLC finds |
|---|---|---|
| `NonePersisted` | `WriteQueueTimeouts` | A body that outlives the watchdog (database.py:1162) writes into the next item's transaction and is committed with it; its caller is told "None of this transaction's writes were persisted" (database.py:996). |
| `NothingLeftOpen` | `WriteQueueTimeouts` | A task created in a body (cognitive_loop.py:1376) writes on the idle writer's connection; the row is neither committed nor queued. |
| `DeadOnlyAfterConsecutiveCrashes` | `WriteQueueBase` | Crashes with served writes in between add up (database.py:1101). |
| `NobodyQueuedOnDeadWriter` | `WriteQueueBase` | A caller blocked in put() gets in behind the drain of the dead writer. |
| `TurnIsAtomic` | `MemoryBase` | A crash between the turn's commit and its flush (cognitive_loop.py:985). |
| `NoCircularWait` | `MemoryBase` | Flush and turn wait for each other until the watchdog comes. |
| `ExtractedReachSQLite` → | `MemoryBase` | An extracted memory waits in the buffer for somebody else's flush (cognitive_loop.py:2120). |
| `NoDuplicates` | `MemoryBase`, `Content <- Same` | Two equal memories pass the duplicate check together. |
| `DeletedIsGone` | `MemoryBase` | A flush is cancelled while it waits for the writer's answer (database.py:977): the writer commits, but what it stored stays staged (graph_buffer.py:134 catches only `Exception`). The memory is deleted, and the next flush inserts it again. |
| `NoOrphanVector` | `MemoryDeletes` | A delete between a commit and its vector write leaves a vector. |
| `PurgesOnlyOrphans` → | `MemoryDeletes` | The cron process purges the vector of a memory that was added while it read. |
| `RestoresState` | `SagaBase` | A sibling cancelled within its action is not compensated (saga.py:130). |
| `RefusedOnlyPostPivot` | `SagaBase` | The pivot flag is raised before the pivot acts. |
| `ApprovalIsHeard` → | `GateBase` | The gate takes "Error:" for the id of its row: of the message split at `approval_id=` it keeps the first part longer than eight characters, the text before the id (registry.py:384). It polls a row that is not there and times out on a call that was approved meanwhile: "On approval, executes the tool and returns a real ToolResult" (registry.py:371). Lines 429-460 are never reached (`TheGateIsDeaf`). |
| `RefusedMeansNotRun` | `GateBase` | So an approval, in time or not, runs the tool that the model is told was refused: "On rejection or timeout, returns a refused ToolResult" (registry.py:372). |
| `RejectedMeansNotRun` | `GateBase` | Two operators decide on one row: the tool runs for the one, and the other's rejection overwrites the row. |
| `ApprovedInChatRuns` | `GateBase` | An approval in the chat stream never reaches the gate. |
| `ChatAnswerFindsItsCall` | `GateBase`, `ApiCalls = {c1, c2}` | Every stream registers its queue under the same wrong id (server.py:219): a second stream takes the first one's key, and whichever ends first takes it away. |
| `ClaimedIsHeld` | `DaemonBase` | The worker claims a goal, is refused the process lock that its own daemon's gateway holds, and dies (daemon.py:109): the goal stays active with nobody. |
| `NobodyElseGrabsIt` | `DaemonBase` | The goal is read and claimed in two statements (daemon.py:84, 92): an orphan, whose supervisor was killed, and the new start's worker both read it and both claim it, "to prevent other instances from grabbing it" (daemon.py:91). |
| `GoalsRunOnce` | `DaemonBase` | A goal whose run is over stays active, is recovered at the next start and run again (daemon.py:546); "the same goal won't be double-executed" (docs/blog/kinthic-agentic-upgrade.md:67). |

From `Conversation`, `MCConversation`:

| Property | `Looked` | With | What TLC finds |
|---|---|---|---|
| `OneLoopAtATime` | turn | `MayChild = FALSE` | Two processes find no lock, or the same stale one, and both write theirs (cognitive_loop.py:2030, 2063). |
| `OneLoopAtATime` | turn | `Overlaps = FALSE` | A child loop that was refused the lock removes its parent's when it shuts down, and another process starts (subagent.py:202). |
| `SessionsAreOwn` | turn | | So both resume one session. Two loops count its turns, and two turns can bear one number. |
| `UnsavedIsUnsaved` | turn | | The flush fails after the commit, and the user hears that the turn was not saved. |
| `EveryToolIsLogged` | turn | | A turn that is rolled back, cancelled or cut off leaves its tools unlogged. |
| `HttpTurnsAreSaved` | turn | `Bare = {c2}` | A request's context holds no session: its turn is answered as unsaved. |
| `TurnsAreRecorded` | turn | `LateCommit = TRUE` | A commit that its caller gave up is followed by the fallback, which records the turn again. |
| `RestoredAtEnd` | tree | | Cancelled between the stash and the `try` (tree_search.py:132) or in one of the `finally`'s git calls before the pop (:147-151), or ended with its process, a search never pops. |
| `WorkSurvives` | tree | | On a detached HEAD `symbolic-ref` (:150) leaves a branch without a commit: git refuses the next search's stash, and its `clean -fd` deletes the user's new files. |
| `AnswerSawTools` | tree | | The answer that is returned was written before its node's tools ran. |
| `AcceptableIsReturned` | tree | `Branching = 2` | The search stops at an acceptable node and returns one of a better score that is not. |
| `OnlyBestRemains` → | tree | | The edits of every candidate remain: `checkout --` takes a commit for a path. |
| `UserWorkKept` | tree | `SearchesMeet = TRUE` | One search pops the stash, and the other's `clean -fd` takes the user's new file. |
| `UserWorkKept` | tree | `WorksOn = TRUE` | A file that the user makes while a search runs is cleaned away. |
| `AppliedIsApplied` | edit | | A draft whose target is gone replaces nothing, and is told as applied. |
| `AppliedOnce` | edit | | The second of two drafts fails, both stay listed, and the first is applied again. |
| `ReplacedIsSaved` | edit | | Two drafts of one second share the name of their backup. |
| `VerdictIsOwn` | edit | | Two trials of a TypeScript file share the hidden file. |
| `UserWorkKept` | edit | `Editors = {"w1", "w2"}` | One process writes the list it read before the other's draft. |
| `UserWorkKept` | edit | `Tears = TRUE` | A process ends while it writes the list. |
| `PromptAlwaysReturns` | ui | | The terminal's socket is dropped before it hears of a cancellation: it thinks on. |
| `CancelsAreMeant` | ui | | An Escape that came before its turn began cancels the next one. |
| `AnswersAreShown` | ui | | A turn that was answered and recorded is shown as an error, when showing it fails. |
| `EveryTurnIsTold` | past | | Turns fall out of the window before anything summarizes them. |
| `SummariesLast` | past | | A summary that is compressed again is handed to the model as a placeholder and 400 characters (context_builder.py:770), to the digest as the placeholder alone (:790): the turns it told of are gone. |
| `EndedLeavesNothing` | work | | A job that is cancelled while it waits for its slot (orchestrator.py:356), whose report of its start raises (:358, before the `try`), or that of its end (:478, before the teardown), keeps its container. |
| `NothingOutlivesShutdown` | work | | A container that is being started for a job is met by nobody: the job has no handle yet. |
| `JobsAreSound` | work | `Echoes = {"j1"}` | The command prints an "Exit Code:" of its own, which is taken for its result (orchestrator.py:60). |
| `JobsAreSound` | work | `OldWaitFor = TRUE` | `wait_for()` drops the cancellation of `kill()`: a killed job is told as a success. |

From `Keeping`, `MCKeeping`:

| Property | `Looked` | With | What TLC finds |
|---|---|---|---|
| `SnapshotsAgree` | bak | `Keys = {k1, k2}` | The fence holds back rows, not vectors: an archive is made between a memory's row and its vector. |
| `HomeIsQuiet` | bak | `Overlaps = TRUE` | A process without the daemon's lock works in a home that is restored. |
| `NoForeignLog` | bak | | A restore cut off before its last step leaves the old log beside the new database. |
| `SkillsMatchDisk` | ext | `MaxChanges = 3` | A skill removed while the loader reads stays loaded. |
| `UninstalledIsGone` | ext | | A plugin that was removed stays registered until the end of the process. |
| `RefusedIsPresent` → | ext | | An installation is refused because of a catalog that was read before the files went. |
| `EntriesAreKept` → | ext | | Two processes rewrite the catalog. |
| `EnabledIsRegistered` → | ext | | No MCP tool is ever registered: the reload finds none. |
| `OneRowPerEdge` | graph | | Two processes add one edge: the edges in memory are looked at, not the table. |
| `EveryConceptOnce` | graph | `Missed = {n1}` | More than fifty rows share the words: the row is not among those looked at. |
| `GraphFollowsTables` | graph | | A turn rolls back, and its nodes stay in memory. |
| `PruningWorks` | graph | | Pruning of a node that edges point to fails at the foreign key. |
| `HypothesisIsFinal` → | graph | | A resolution of an open turn is overwritten by an operator who read before it was committed. |
| `RejectedStaysOut` | gov | | The directives file keeps what a rollback wrote from a proposal that is rejected later. |
| `ReplacedIsSaved` | gov | | A rollback overwrites the directives without a backup. |
| `RewriteKeepsOthers` → | gov | | A rewrite puts back what it read before another process wrote. |
| `RestoredStays` → | gov | | The next analysis under the same trend replaces a restored proposal by an older one. |
| `ForgetsTheListed` | mem | | `/forget n` counts archived rows that the listing leaves out (memory_store.py:288). |
| `ExplicitIsRecalled` | mem | | An archived row keeps its id: what the user asks to be remembered again cannot be inserted. |
| `DeletedIsNotTold` | mem | | The digest in the prompt still tells of a deleted memory. |
| `DeletedIsNotKept` | mem | | A synthesis that was begun before a deletion keeps what was deleted. |
| `WeeklyIsOnce` | mem | `Runs = {"r1", "r2"}` | A pass whose decay fails leaves no stamp, and the next process runs the week again. |
| `Kept`, `Accepted` | set | | A write over a file that another process has truncated, or that was torn by a crash, drops what was stored; the web key is generated anew. |
| `ScriptIsOwn` | goal | `MaxGoalTurns = 2` | A script is written beside a SKILL.md that another skill of its name has replaced. |
| `SkillsAreEarned` | goal | `MaxGoalTurns = 2` | The turn that completed the goal rolls back; the skill stays. |
| `CompletionIsHeard` | goal | `MaxGoalTurns = 2` | A completion within the cooldown is dropped. |
| `AdmittedIsShown` | goal | `MaxGoalTurns = 2` | A flat file of the same name, from skill_manage, is loaded first (skills.py:133). |
| `RunIsClosed` | goal | `MaxGoalTurns = 2` | The UPDATE of `autonomous_jobs` has its parameters in the wrong order (cognitive_loop.py:548). |
| `ClosedStays` → | goal | `MaxGoalTurns = 2` | `tick()` closes a goal that a turn has closed otherwise. |
| `AnnouncedOnce` | goal | `Trajectories = {}`, `Distils = FALSE`, `MaxGoalTurns = 3`, `MaxTicks = 3`, `MaxCrashes = 0` | A stray transaction takes back the write that closes the goal, and the next tick announces it again. |
| `LockIsRight` | svc | `Patient = FALSE` | Two commands typed at once see no lock, or one removes the other's. |
| `LockIsRight`, `StoppedIsStopped` → | svc | `Mixes = TRUE` | A daemon is started by hand beside an installed unit: `stop` stops the unit and removes the other's lock. |
| `StartedIsUp` → | svc | | "started" is said because of the pid of a dead daemon, which was given to a foreign process. |
| `OnlyTheDaemon` | svc | | A stop ends a foreign process that was given the dead daemon's id. |
| `UnchangedIsIndexed` | wsp | `Overlaps = TRUE`, `Indexers = {"w1", "w2"}` | Two processes start: one writes the manifest, the other deletes a file's chunks and ends; the file is skipped until it changes. |
| `ClaimedIsIndexed` | wsp | | A file whose chunks the store refused is in the manifest and is never tried again (indexer.py:89). |
| `RemovedIsGone` → | wsp | | A file is indexed, the run ends before its manifest, the file goes: no run deletes its chunks. |
| `IndexedOnce` | fil | `Overlaps = TRUE` | Two consoles delete a file's chunks and both add them; the next `/index` finds the file unchanged. |
| `HandleIsLive` | fil | | After `/index --clear` in one console, the others fail on every file and find nothing until they are restarted. |

From `Serving`, `MCServing`:

| Property | `Looked` | With | What TLC finds |
|---|---|---|---|
| `OneProbe` | call | | A half-open breaker admits every caller, not one. |
| `SuspendedMeansSuspended` | call | | A retry goes to the network although the breaker has opened meanwhile. |
| `AskedIsConnected` | call | | A provider that was switched to is asked although it is not connected. |
| `FallbackIsAsked` → | call | | An open breaker's error is not among those that switch to the next provider. |
| `AnswerIsStreamed` | chat | | No line of the stream carries the answer (server.py:255). |
| `CancelsAreLive` | chat | | A client that is gone before the generator begins leaves its entry. |
| `WorkersAreTornDown` | chat | | A cancelled report cuts off the end of a worker before its container is removed (orchestrator.py:484). |
| `ReportsAreOwn` | chat | `Requests = {"r1", "r2"}`, `MaxEvents = 1` | The orchestrator reports to the stream that began last. |

The properties of the passing runs are stated so that they hold beside these:
`ImplementsAtomicStore` where no body outlives the watchdog and no task
is born in one, `DeletedStaysDeleted` for memories whose flush was
heard of (`unheard` names the others), `ApprovedMeansRan`
for tools that were registered when the operator approved (registry.py:526 marks a
call approved whose tool is gone), `EveryoneAnswered` while the writer lives, `UserWorkKept` for one
search at a time, with the work back in the workspace if no search was cut off before its
pop and git refused nothing, and until a search has moved a detached HEAD, `HistoryIsKept` for turns until a
summary of them is compressed again (`again` names the others) and for answers that no
digest left out (`bare`), `JobsAreSound` for containers of commands that were started and
whose end was reported, `StoredIsKept` for calls of the settings that neither overlap nor crash and
for files that the vector store took, one process indexing at a time as in `OneOfEach`,
`LockIsRight` for commands typed one after the other, `PromptReturns`
with the exceptions that `Console` names. The numbers in `TurnsAreRecorded` are
those of sessions that no two loops have held at once (`shared` in `Turn`): the
proof of the stronger property failed for startups and sub-agents in general, and
TLC found why with three startups and three calls, a case beyond the run's two.

## Fairness

Safety runs state none. The liveness runs assume, and the code justifies:

* `WriteQueue`, `MemoryStore`, `Saga`, `ApprovalGate`: weak fairness of what
  the event loop runs once it is ready, and of the timers the code sets: the 30 s
  watchdog, the enqueue and commit timeouts, the gate's poll and its 120 s. No
  fairness of bodies, tools, step actions, operators, crashes or faults: they may
  hang for ever or never happen. The startup and cron reconciliations run on, as
  `startup()` and `run_cron_worker` do.
* `WorkerOrchestrator`: weak fairness of the steps of a job's task, its wall clock,
  its reports (which put an event on a queue)
  and a child loop's deadline included, of Docker's starts and removals, of the
  refill and of the shutdown's steps once it has begun; strong fairness of
  getting the slot, since asyncio's semaphore serves its waiters in their order.
  None of commands that exit, kills, cancellations or heartbeats.
* `Providers`: weak fairness of each caller (it calls again, and what it has sent is
  answered or fails), of the cooldown and of the cache's expiry; none of
  outages, cancellations or a change of provider. `HealthyIsClosed` speaks of
  a connected primary that stays up.
* `ChatStream`: weak fairness of a generator whose client reads on; none of the
  turn, which no deadline bounds, nor of disconnects or cancels. `StreamEnds`
  therefore starts where the turn is over.
* `GoalDaemon`: weak fairness of the workers' steps, orphans included, and of the
  supervisor's 2 s poll, and of time (a heartbeat nobody renews gets old). None of a turn:
  providers are called without a deadline, and a worker may think for ever.
  Strong fairness of the worker's fetch and claim: a stale heartbeat of an
  earlier worker may kill one that has just started, but 60 s
  (`HEARTBEAT_CHECK_INTERVAL`) lie between two looks at it, a poll comes every
  5 s, and a restarted worker polls at once.

## Proofs

Every theorem holds for all values of the constants that satisfy the module's
assumption (limits are positive, kinds of clients are disjoint), under the
hypotheses below. TLC checked each invariant below before it was proved, on the
instances above or on one made for it.

| Module | Theorems | Inductive invariant and argument |
|---|---|---|
| `WriteQueueProofs` | `TypeCorrect`, `AckedAreDurable`, `QueueIsAnswered`, `LeasesAreIsolated`, `StoreIsAtomic` | `IInv`: an item is queued at most once and by a caller that put it there (`QueuedOnce`, `QueuedByPut`); the writer serves the item its place says (`ServiceInv`); events, `tx_state` and what is open on the connection agree for each transaction (`WaitingOK`, `BodyOK` in `TxInv`). `AckedDurable` alone is not inductive: a caller is told "ok" because of an event, which must imply that the commit happened and was not the rollback of a watchdog. `QueueIsAnswered` adds `WritersInv`, what a queued single write's caller waits for. `LeaseInv`: what is open on the connection was written by the holder of the lease. `StoreInv` ties answers to `committed`: a step is then one step of `AtomicStore` or a stutter. |
| `MemoryStoreProofs` | `TypeCorrect`, `StoredAreDurable`, `VectorsFollowRows`, `NoResurrection` | `Kept`: an admitted memory is staged or durable at each place of its task; `VectorSources`: vectors still to be written, and rows the reconciliation has read, are durable. `NoResurrection` adds that a staged memory was never committed, unless its flush was not heard of (`Once`). |
| `SagaProofs` | `TypeCorrect`, `PivotsAreFinal`, `DependenciesFirst`, `DependentsUndoneFirst` | Completed steps are in an order in which dependencies come first; as long as nothing has failed a set event means completion; what was undone is the end of what was completed, backwards; no rollback starts while a step lives or after a pivot has acted. |
| `ApprovalGateProofs` | `TypeCorrect`, `RunsAreDecided`, `ApprovalsAreTrue`, `TheGateIsDeaf` | The decisions that have started a tool are an injection into its runs (`RunsInv`); a row is approved only after a run or with its tool gone (`RanInv`); the id the gate polls is no row's. |
| `GoalDaemonProofs` | `TypeCorrect`, `ClaimsAreFew`, `GivenUpIsEarned` | `ClaimsLeft`: a goal that is pending, waits for recovery or is about to be claimed by the supervisor's worker has been claimed in earlier starts only, and an orphan that polls has claimed nothing as one; `Phases`: watchers, recovery and supervisors belong to a start. `Counts`: what the supervisor's counter stands for while a process lives, has exited, or has crashed and was or was not yet noticed. |
| `ServingProofs` | `StreamsAreWhole` | `StreamInv`: until a stream ends, the lines sent followed by those queued carry exactly the events the turn has emitted, in their order (`Carries`), and only reports of the turn or of a worker are queued (`Waiting`); from then on the lines sent carry them all, the last one says that the turn is done, and the turn is over (`Closed`). |
| `ConversationProofs` | `TurnsAreSound`, `LockKeepsSessions` | `RecordInv`: no two calls in flight share a context (`Homes`), the lease is held by the call whose body runs (`LeaseIsHeld`), what waits to be logged is the call's own and complete (`Noted`), and a call is recorded once, at the commit (`Recorded`). `NumberInv`: a `Session` object counts at least what its row does, and the row at least what was recorded (`SessionsCount`); the number of a call not yet recorded was counted and is free (`NumberIsFree`); the row about to be committed is no older than the one it replaces (`RowIsCurrent`), which is why a crash between count and commit gives no number away. |
| | `NothingIsForgotten` | `PastInv`: the count is the number of the newest recorded turn (`CountIsNewest`), every row bears a number of its own and is that turn unless it is virtual (`RowsTell`), and what is being prepared ends with the newest turn (`Prepared`). The order of rows is that of their numbers (`HalvesOf`, `NewestIsRead`), and a virtual turn tells of the turns it replaces (`VirtualOf`). |
| | `ThePromptReturns` | `PromptInv` (`Opens`): while the loop waits for an input and none has come, the prompt is open, or the last event on the wire is the answer that opens it; unless the socket was dropped or an approval came after the answer. |
| | `WorkIsKept` | `SearchInv`: from the push on the user's work is committed or stashed (`PutAway`); while git has refused nothing and no search was cut off the stash is that of the search (`OwnStash`), and a search that had nothing to stash found a clean workspace (`NothingToStash`); all of it until a detached HEAD has been moved, for it never comes back (`Anchored`). `EditInv`: what a call has read is what the list holds (`ReadIsCurrent`), every draft was told of or is listed, and a hidden file's trial is under way. `WithoutOf` says what the recursive function `Without` leaves of a list. |
| | `WorkersAreSound` | `WorkInv`: a container that is owned has been started and has one owner, a job's task, a filler or the pool (`Owned`), where it may be by the job's place (`Placed`); a kill that was asked for is pending, or was heard (`KillIsHeard`), also by the shutdown (`ShutDownKills`); a job whose command was started and that has told of its end has given its container back, and what another leaves is in the handles (`TornDown`). |
| `KeepingProofs` | `GoverningIsRight` | `GovInv`: what the directives file holds, and what a process is about to write there, is an instruction of the operator or a proposal that was approved (`Granted`); a status of approval was earned by a decision. `ExtInv`: a skill on disk is loaded, or a loader that will read it is on its way (`Coming`), or the event of its change waits. |
| | `ThingsAreOnce` | `GraphInv`: a concept has one row, in the tables and in those a turn may roll back to. `GoalInv`: without its mark a trajectory has become a skill at most in the synthesis under way, and at most one; a mark names one that was recorded. `FilInv`: a command has read the version that its scan counted, and adds chunks only where there are none. |
| | `WhatIsStoredStays` | `MemInv`: children that are being archived have a parent that is live or was deleted on demand; `Stands` is closed under it. `SetInv`: a call on its way holds what its file must hold. `WspInv`: a mark by which a run skips a file tells the truth, be it in the manifest (`Good`), in what a run has read (`Found`, `InHand`) or in what it will write (`Claims`). |
| | `TheLockIsRight` | `SvcInv`: one daemon lives at most, the lock is empty while it claims, torn while it writes and holds its id while it is up (`OneLive`); a command under way has seen the lock as it still is, and one that waits for a stop or removes a lock has only a halting daemon beside it (`Typed`). |
| | `RestoresAreSafe` | `BakInv`: while the safety copy is made the rows are those the restore found (`Saves`); while files are replaced the copy holds those rows, nobody works in the home, and what was put back comes from the archive (`Follows`). |

The steps of the components of `MCKeeping` touch disjoint variables: `Parted` says it, and
a lemma `...Rests` that the steps of the others leave a component's invariant.

The large proofs rest on effect lemmas, one for each step of the program
(`SubmitEffect` to `TxEndsEffect` in `WriteQueueProofs`; `RouteOf`, `WriteOf`,
`Commits`, `Persisted`, `StartupOf` in `ConversationProofs`), which say what the step
changes; each conjunct of an invariant is then a lemma of its own.

The induction theorems of the library take an operator as parameter, which the provers
cannot instantiate. `SetInduction` states induction with a set of numbers instead and
follows from `NatLessThanWellFounded`; with it `WithoutOf` is proved for lists of every
length, by induction on the length.

Hypotheses beyond the modules' assumptions, each the negation of a named deviation:

* `LeasesAreIsolated`, `StoreIsAtomic`: no body outlasts the 30 s watchdog and no
  task is born in one (`NonePersisted`, `NothingLeftOpen`); `StoreIsAtomic`:
  no commit outlasts its caller's patience.
* `TurnsAreSound`: no commit succeeds after its caller gave up. Sub-agents, several
  processes and any number of startups are included.
* `LockKeepsSessions`: no sub-agent in a loop's process, and no startup that looks for the
  lock while another is about to write it (`~Overlaps`): the two are separate steps.
* `WorkIsKept`: one search at a time, a user who waits for it, and one process with
  drafts, which does not end while it writes their list. Cancellations and ends of the
  process are included wherever they fall in a search, and so is a detached HEAD.
* `ThingsAreOnce`, `WhatIsStoredStays`, `RestoresAreSafe`: one process indexes a folder
  at a time, and nobody works in a home that is being restored (`~Overlaps`).
  `WhatIsStoredStays` also takes one consolidation at a time. With two, TLC has found
  no violation of `NothingLost` up to a depth of 16, but has not seen all states.
* `TheLockIsRight`: commands are typed one after the other, and no unit is installed
  beside a daemon that was started by hand.
* `KeepingProofs` as a whole: no instruction is a proposal and no skill bears a verdict's
  name, which keeps the values of the model apart.
* `WorkersAreSound`: no command prints an "Exit Code:" of its own, and `wait_for()`
  is that of Python 3.12 or later. Jobs whose command was not started, or whose report of
  their end was cut off (`untold`), may leave a container, which then is in the handles.

Of the properties of the runs only liveness is model-checked and not proved
(`EveryoneAnswered`, `EveryTaskEnds`, `EventuallyInSync`, `Ends`, `GateEnds`,
`PendingIsClaimed`, `FrozenIsKilled`, `EveryJobEnds`, `HealthyIsClosed`, `StreamEnds`):
it is outside the reach of the proof system.

The proof of `TheLockIsRight` failed at first because the modelled systemd took a
foreign process for its own, when that process was given the id of a daemon that had
ended; `Reuse` now takes such an id out of `units`, as systemd knows its processes by
their control group and not by their ids.

## What is not modelled

In the modelled components:

* `WriteQueue`: reads; nested transactions and the depth a cancelled caller
  leaks; later writes in a context that a cancelled caller leaks;
  `execute_write_in_thread`; the checkpoint loop; several `Database` objects on
  one file; schema and migrations.
* `MemoryStore`: nodes, edges and raw queries of the buffer; FTS and the
  admission log; scores; a second process that adds.
* `Saga`: what the steps do; nothing recovers a saga after a crash, and nothing
  but a test starts one.
* `ApprovalGate`: trust scores, circuit breaker, ethics, arguments and results.
* `GoalDaemon`: two supervisors at once (`Service` has their lock); `SILEX_ALLOW_MULTI_WRITER`; the deletion of old goals; the order
  of pending goals; webhooks, logs, browser harvesting.
* `Turn`: intent, prompts, extraction of memories (`MemoryStore`), images.
* `TreeSearch`: UCB1 and ratings (any choice is allowed), merge conflicts inside
  one file, a workspace that is no repository.
* `Console`: layout, paste, history; most commands print.
* `Providers`: formats of the wire, token budgets, streaming.
* `World`: confidences, beyond low and not low.
* `Extensions`: a console that starts. A skill dropped between the first load
  (cognitive_loop.py:191) and the start of the watcher (:341) is loaded with the next one,
  not by itself; `SkillsAreLoaded` is about a console whose watcher is up.
* `WorkspaceIndex`, `FileIndex`: how a text is cut into chunks; a walk over several
  directories, which are listed one after the other; a version that comes back with
  the time it had; a store that cannot be opened, where nothing happens.
* `Service`: launchd and the Windows task; the lock of a daemon without systemd is
  the same code.

Code without an effect in the program, left out for that reason: the belief
engine, `PhantomSimulator`, the loops of `evolution/core.py`,
`self_modification.py` and `trajectory_optimizer.py` (tests call them),
`update`, `merge` and `decay_importance` of memories (nothing calls them),
`turn_checkpoints` (nothing inserts), `TelegramAdapter` and `DiscordAdapter`
(abstract: `run` is undefined). `tick()` is in `Goals` although only a test
calls it, since it is the documented way by which trajectories become skills.

Other components are listed with their reasons in `PROJECT.json`: pure functions
of one call, prompts around language-model calls, file and network I/O, user
interfaces, one-shot scripts, the website, and of the TypeScript front end what is
not the reducer or the socket.

## Plan

1. `WriteQueue` with `AtomicStore`, `MemoryStore`, `Saga`, `ApprovalGate`,
   `GoalDaemon`: done, with the proofs above.
2. The eighteen modules of the suites: modelled and checked.
3. Proofs of the queue's remaining properties, with the step simulation of
   `AtomicStore`, of `ChatStream`, `Turn`, `History`, `Console`,
   `WorkerOrchestrator`, `TreeSearch`, `CodeEdits` and the components of `MCKeeping`: done.
4. An abstract turn ("recorded whole or not at all") that `Turn` over
   `WriteQueue`'s lease refines.
5. The job life cycle of `autonomy/lifecycle.py`, the trust engine's counters, the
   debounced watcher.
