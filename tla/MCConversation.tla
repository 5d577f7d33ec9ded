--------------------------- MODULE MCConversation ---------------------------
(***************************************************************************)
(* Runs about the components that a conversation goes through: the turn,   *)
(* the search for its answer, code edits, the terminal, the history, the   *)
(* workers.                                                                *)
(* They meet in files and tables that each module states for itself: a     *)
(* behaviour is one of one of them.                                        *)
(***************************************************************************)
EXTENDS Naturals, TLC

CONSTANTS
    Calls, Bare, Procs, MaxStarts, LateCommit, MayChild, Overlaps,  \* of the turn
    Searches, UserEdits, UserFiles, MaxIter, Branching, SearchesMeet, WorksOn, Detached, \* of the search
    Editors, Drafts, Trials, MaxFailures, Tears,          \* of the code edits
    MaxInputs, MaxEscapes, MaxWire, Asks,                 \* of the terminal
    Window, MaxTurns, MaxCrashes,                         \* of the history
    Jobs, CogJobs, Echoes, Containers, MaxWorkers, PoolSize, OldWaitFor, \* of the workers
    Looked   \* the components that are looked at

VARIABLES
    part,  \* the component that this behaviour is about
    turn_pc, turn_heard, turn_home, turn_own, turn_num, turn_batch, turn_unbound, turn_opening, turn_up,
    turn_sess, turn_audit, turn_lock, turn_lease, turn_rows, turn_turns, turn_logged, turn_ran,
    turn_starts, turn_shared,
    tree_pc, tree_tree, tree_sel, tree_cands, tree_iter, tree_best, tree_hasStash, tree_head,
    tree_dirty, tree_loose, tree_stash, tree_unmerged, tree_ref, tree_made, tree_early,
    tree_clashed,
    edit_text, edit_list, edit_job, edit_failures, edit_now, edit_backups, edit_lost,
    edit_created, edit_told, edit_changed, edit_trial, edit_copies, edit_hidden, edit_verdict,
    ui_mode, ui_submitted, ui_asked, ui_inputs, ui_cancels, ui_answers, ui_py, ui_turn, ui_wire,
    ui_connected, ui_holder, ui_escapes, ui_meant, ui_closed, ui_raised, ui_answered, ui_late,
    past_rows, past_saved, past_count, past_pc, past_recent, past_cut, past_told, past_locked,
    past_again, past_bare, past_crashes,
    work_at, work_status, work_box, work_cancel, work_zero, work_cont, work_pool, work_filler,
    work_fresh, work_killing, work_handles, work_down, work_served, work_killed,
    work_untold

turnVars == <<
    turn_pc, turn_heard, turn_home, turn_own, turn_num, turn_batch, turn_unbound, turn_opening, turn_up,
    turn_sess, turn_audit, turn_lock, turn_lease, turn_rows, turn_turns, turn_logged, turn_ran,
    turn_starts, turn_shared>>
treeVars == <<
    tree_pc, tree_tree, tree_sel, tree_cands, tree_iter, tree_best, tree_hasStash, tree_head,
    tree_dirty, tree_loose, tree_stash, tree_unmerged, tree_ref, tree_made, tree_early,
    tree_clashed>>
editVars == <<
    edit_text, edit_list, edit_job, edit_failures, edit_now, edit_backups, edit_lost,
    edit_created, edit_told, edit_changed, edit_trial, edit_copies, edit_hidden, edit_verdict>>
uiVars == <<
    ui_mode, ui_submitted, ui_asked, ui_inputs, ui_cancels, ui_answers, ui_py, ui_turn, ui_wire,
    ui_connected, ui_holder, ui_escapes, ui_meant, ui_closed, ui_raised, ui_answered, ui_late>>
pastVars == <<
    past_rows, past_saved, past_count, past_pc, past_recent, past_cut, past_told, past_locked,
    past_again, past_bare, past_crashes>>
workVars == <<
    work_at, work_status, work_box, work_cancel, work_zero, work_cont, work_pool, work_filler,
    work_fresh, work_killing, work_handles, work_down, work_served, work_killed,
    work_untold>>

\* Turns come one after the other or each in a task of its own.
Turns == INSTANCE Turn WITH
    Calls <- Calls, Bare <- Bare, Procs <- Procs, MaxStarts <- MaxStarts, Concurrent <- TRUE,
    LateCommit <- LateCommit, FlushFails <- TRUE, MayChild <- MayChild, Overlaps <- Overlaps, Nobody <- "nobody",
    pc <- turn_pc, heard <- turn_heard, home <- turn_home, own <- turn_own, num <- turn_num,
    batch <- turn_batch, unbound <- turn_unbound, opening <- turn_opening, up <- turn_up, sess <- turn_sess,
    audit <- turn_audit, lock <- turn_lock, lease <- turn_lease, rows <- turn_rows,
    turns <- turn_turns, logged <- turn_logged, ran <- turn_ran, starts <- turn_starts,
    shared <- turn_shared

\* Where searches meet, the tools leave alone what the user has edited.
Search == INSTANCE TreeSearch WITH
    Searches <- Searches, UserEdits <- UserEdits, UserFiles <- UserFiles, MaxIter <- MaxIter,
    Branching <- Branching, Threshold <- 1, Concurrent <- SearchesMeet,
    MayConflict <- ~SearchesMeet, WorksOn <- WorksOn, Detached <- Detached,
    pc <- tree_pc, tree <- tree_tree, sel <- tree_sel, cands <- tree_cands, iter <- tree_iter,
    best <- tree_best, hasStash <- tree_hasStash, head <- tree_head, dirty <- tree_dirty,
    loose <- tree_loose, stash <- tree_stash, unmerged <- tree_unmerged, ref <- tree_ref,
    made <- tree_made,
    early <- tree_early, clashed <- tree_clashed

\* A failure is a write that raises, or an end of the process.
Edits == INSTANCE CodeEdits WITH
    Processes <- Editors, Terminals <- {"w1"}, Drafts <- Drafts, Trials <- Trials, Kind <- "ts",
    MaxFailures <- MaxFailures, Tears <- Tears, MaxSeconds <- 0,
    text <- edit_text, list <- edit_list, job <- edit_job, failures <- edit_failures,
    now <- edit_now, backups <- edit_backups, lost <- edit_lost, created <- edit_created,
    told <- edit_told, changed <- edit_changed, trial <- edit_trial, copies <- edit_copies,
    hidden <- edit_hidden, verdict <- edit_verdict

Prompt == INSTANCE Console WITH
    MaxInputs <- MaxInputs, MaxEscapes <- MaxEscapes, MaxWire <- MaxWire, Asks <- Asks,
    mode <- ui_mode, submitted <- ui_submitted, asked <- ui_asked, inputs <- ui_inputs,
    cancels <- ui_cancels, answers <- ui_answers, py <- ui_py, turn <- ui_turn, wire <- ui_wire,
    connected <- ui_connected, holder <- ui_holder, escapes <- ui_escapes, meant <- ui_meant,
    closed <- ui_closed, raised <- ui_raised, answered <- ui_answered, late <- ui_late

Past == INSTANCE History WITH
    Window <- Window, MaxTurns <- MaxTurns, MaxCrashes <- MaxCrashes,
    rows <- past_rows, saved <- past_saved, count <- past_count, pc <- past_pc,
    recent <- past_recent, cut <- past_cut, told <- past_told, locked <- past_locked,
    again <- past_again, bare <- past_bare, crashes <- past_crashes

Workers == INSTANCE WorkerOrchestrator WITH
    Jobs <- Jobs, CogJobs <- CogJobs, Echoes <- Echoes, Containers <- Containers,
    MaxWorkers <- MaxWorkers, PoolSize <- PoolSize, MayCancel <- TRUE,
    OldWaitFor <- OldWaitFor, Nobody <- "nobody",
    at <- work_at, status <- work_status, box <- work_box, cancel <- work_cancel,
    zero <- work_zero, cont <- work_cont, pool <- work_pool, filler <- work_filler,
    fresh <- work_fresh, killing <- work_killing, handles <- work_handles, down <- work_down,
    served <- work_served, killed <- work_killed,
    untold <- work_untold

-----------------------------------------------------------------------------

Parts == {"turn", "tree", "edit", "ui", "past", "work"}

Init ==
    /\ part \in Parts \cap Looked
    /\ Turns!Init /\ Search!Init /\ Edits!Init /\ Prompt!Init /\ Past!Init
    /\ Workers!Init
    /\ part # "tree" => tree_ref = "branch"

\* All components but one stay as they are.
Only(p) ==
    /\ part = p /\ UNCHANGED part
    /\ p # "turn" => UNCHANGED turnVars
    /\ p # "tree" => UNCHANGED treeVars
    /\ p # "edit" => UNCHANGED editVars
    /\ p # "ui" => UNCHANGED uiVars
    /\ p # "past" => UNCHANGED pastVars
    /\ p # "work" => UNCHANGED workVars

TurnsSteps == Only("turn") /\ Turns!Next
SearchSteps == Only("tree") /\ Search!Next
EditsSteps == Only("edit") /\ Edits!Next
PromptSteps == Only("ui") /\ Prompt!Next
PastSteps == Only("past") /\ Past!Next
WorkersSteps == Only("work") /\ Workers!Next

Next ==
    \/ TurnsSteps \/ SearchSteps \/ EditsSteps \/ PromptSteps
    \/ PastSteps \/ WorkersSteps

vars == <<part, turnVars, treeVars, editVars, uiVars, pastVars, workVars>>

Spec == Init /\ [][Next]_vars

\* Nothing names one of the calls or the processes.
Symmetry == Permutations(Calls) \cup Permutations(Procs)

ASSUME ConversationAssumption ==
    /\ Turns!TurnAssumption /\ Search!TreeAssumption /\ Edits!CodeEditsAssumption
    /\ Prompt!ConsoleAssumption /\ Past!HistoryAssumption /\ Workers!WorkerAssumption

-----------------------------------------------------------------------------
(* What the runs check. *)

\* Every variable of every component keeps its type.
TypeOK == Turns!TypeOK /\ Search!TypeOK /\ Edits!TypeOK /\ Prompt!TypeOK /\ Past!TypeOK /\ Workers!TypeOK

\* What a session records of its turns is sound, whatever rolls back, is cancelled or
\* crashes: no two turns of it bear one number, as long as no two loops hold it
\* (session.py:130), an answered input is recorded once, and tool calls are logged exactly
\* with their turn (cognitive_loop.py:1254).
TurnsAreRecorded ==
    /\ Turns!NumbersAreUnique /\ Turns!AnsweredOnce /\ Turns!AuditMatchesTurns

\* What the user has made is kept: edits and new files are in the workspace or in a stash,
\* whenever a search is cut off, and back when it is not (tree_search.py:153); a draft that was told of stays in the list until it is
\* decided (code_editor.py:244), and a trial leaves the workspace as it was (phantom.py:234).
UserWorkKept == Search!UserWorkKept /\ Edits!DraftsAreKept /\ Edits!WorkspaceIsClean

\* The prompt of the terminal comes back while the gateway process lives: no turn that has
\* ended, failed or was cancelled leaves it waiting (run.py:1368).
PromptReturns == Prompt!PromptReturns

\* The history loses a turn only where a summary of it is compressed again, never compresses
\* what is locked, and the prompt ends with the newest turn as it was (context_builder.py:341).
HistoryIsKept == Past!NothingForgotten /\ Past!LockedIsKept /\ Past!NewestIsShown

\* A success was one (orchestrator.py:62), no container serves twice, a job whose command was
\* started and that could report its end leaves none behind (warm_pool.py:4), and what an
\* accepted job leaves is in the handles (:506), whatever kills, raises or is cancelled.
JobsAreSound ==
    /\ Workers!SuccessIsReal /\ Workers!OwnContainer /\ Workers!ServedLeavesNothing
    /\ Workers!LeftIsKnown

-----------------------------------------------------------------------------
(* What the code does not keep, or not always: to be named in the configuration one at a
   time, with the constants that the README gives. *)

\* At most one process has a loop that is up (cognitive_loop.py:2059).
OneLoopAtATime == Turns!OneLoopAtATime
\* No two loops hold one session (session.py:59).
SessionsAreOwn == Turns!SessionsAreOwn
\* Who hears that nothing was saved finds nothing saved (cognitive_loop.py:989).
UnsavedIsUnsaved == Turns!UnsavedIsUnsaved
\* Every tool that a turn has run is logged once the turn is over.
EveryToolIsLogged == Turns!EveryToolIsLogged
\* A turn that comes by HTTP is saved (api/server.py:241).
HttpTurnsAreSaved == Turns!HttpTurnsAreSaved
\* The workspace is as before the search when it is over (tree_search.py:152).
RestoredAtEnd == Search!RestoredAtEnd
\* Nothing of the user's is deleted, also where HEAD was detached (tree_search.py:150).
WorkSurvives == Search!WorkSurvives
\* The answer knows what its tools have done.
AnswerSawTools == Search!AnswerSawTools
\* An answer above the threshold is preferred to one below.
AcceptableIsReturned == Search!AcceptableIsReturned
\* Of all candidates only the best one's edits remain.
OnlyBestRemains == Search!OnlyBestRemains
\* An edit that was told applied is in the file.
AppliedIsApplied == Edits!AppliedIsApplied
\* A draft is applied once.
AppliedOnce == Edits!AppliedOnce
\* What an edit replaces is in a backup.
ReplacedIsSaved == Edits!ReplacedIsSaved
\* A trial's verdict is about its own candidate.
VerdictIsOwn == Edits!VerdictIsOwn
\* The prompt comes back although a turn asked for an approval.
PromptAlwaysReturns == Prompt!PromptAlwaysReturns
\* An Escape cancels the turn that it was meant for.
CancelsAreMeant == Prompt!CancelsAreMeant
\* An answered turn is shown.
AnswersAreShown == Prompt!AnswersAreShown
\* Every turn is in a summary or in the prompt (context_builder.py:235).
EveryTurnIsTold == Past!EveryTurnIsTold
\* What a summary told of is not lost when it is compressed again (context_builder.py:790).
SummariesLast == Past!SummariesLast
\* No job that was accepted leaves its container behind (orchestrator.py:356).
EndedLeavesNothing == Workers!EndedLeavesNothing
\* The shutdown leaves no container and no job (cognitive_loop.py:448).
NothingOutlivesShutdown == Workers!NothingOutlivesShutdown

=============================================================================
