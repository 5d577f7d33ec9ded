----------------------------- MODULE TreeSearch -----------------------------
(***************************************************************************)
(* The tree search of core/tree_search.py over the user's git workspace.   *)
(* A search stashes what the user has not committed, drafts a root answer, *)
(* runs its tools in the workspace, has the critic rate it, expands it     *)
(* into children whose tools run in the same workspace, and at the end     *)
(* pops the stash, unless it is cancelled or its process ends before that. *)
(*                                                                         *)
(* What git does is modelled as git does it: "checkout -b -- X", "reset    *)
(* --hard -- X" and "checkout -- X" fail (X is taken for a path), and      *)
(* _run_git() reports no failure; "clean -fd", "add -A", "commit", "stash  *)
(* push -u" and "stash pop" work, the push not on a branch without a       *)
(* commit, which "symbolic-ref HEAD refs/heads/HEAD" makes of a detached   *)
(* HEAD.  A piece of work is who made it: an item of the user or a node of *)
(* a search.  UCB1 and the text of answers are abstracted: any leaf may be *)
(* selected, any rating given.                                             *)
(***************************************************************************)
EXTENDS Integers, Sequences, FiniteSets

CONSTANTS
    Searches,    \* searches of the run
    UserEdits,   \* edits the user may make to tracked files
    UserFiles,   \* untracked files the user may make
    MaxIter,     \* max_iterations
    Branching,   \* num_candidates
    Threshold,   \* critic_threshold, on a scale of its own
    Concurrent,  \* TRUE iff two searches may run at once
    MayConflict, \* TRUE iff a tool may edit what the user has edited
    WorksOn,     \* TRUE iff the user may work while a search runs or git cannot stash
    Detached     \* TRUE iff the user's HEAD may be detached

TreeAssumption ==
    /\ MaxIter \in Nat /\ Branching \in Nat \ {0} /\ Threshold \in Nat \ {0}
    /\ UserEdits \cap UserFiles = {}
    /\ {Concurrent, MayConflict, WorksOn, Detached} \subseteq BOOLEAN

Scores == 0 .. Threshold
UserItems == UserEdits \cup UserFiles

VARIABLES
    pc,        \* where each search is
    tree,      \* its nodes, in the order of their creation
    sel,       \* the node it expands
    cands,     \* candidates of the expansion not yet looked at
    iter,      \* iterations begun
    best,      \* best_node; 0 while there is none
    hasStash,  \* has_stash
    head,      \* what is committed, besides the user's own history
    dirty,     \* what is changed in tracked files
    loose,     \* what is untracked
    stash,     \* the stash, the latest entry first
    unmerged,  \* TRUE iff a pop has left conflicts in the index
    ref,       \* HEAD: on a branch, detached, on a branch "HEAD" without a commit or with one
    made,      \* history: what the user has made
    early,     \* history: searches that were cut off before their pop
    clashed    \* history: a push or a pop was refused

searchVars == <<pc, tree, sel, cands, iter, best, hasStash>>
gitVars    == <<head, dirty, loose, stash, unmerged, ref>>
vars == <<searchVars, gitVars, made, early, clashed>>

Init ==
    /\ pc = [s \in Searches |-> "idle"] /\ tree = [s \in Searches |-> <<>>]
    /\ sel = [s \in Searches |-> 0] /\ cands = [s \in Searches |-> 0]
    /\ iter = [s \in Searches |-> 0] /\ best = [s \in Searches |-> 0]
    /\ hasStash = [s \in Searches |-> FALSE]
    /\ head = {} /\ dirty = {} /\ loose = {} /\ stash = <<>> /\ unmerged = FALSE
    /\ ref \in IF Detached THEN {"branch", "detached"} ELSE {"branch"}
    /\ made = {} /\ early = {} /\ clashed = FALSE

Goto(s, place) == pc' = [pc EXCEPT ![s] = place]
Closed(s) == pc[s] \in {"idle", "done"}
Quiet == \A s \in Searches : Closed(s)

\* A node as its draft leaves it.  saw: the answer was written after the tools ran.
Draft(parent, tools) ==
    [parent |-> parent, tools |-> tools, saw |-> FALSE, score |-> 0, ok |-> FALSE]
Last(s) == Len(tree[s])
Work(s) == <<s, Last(s)>>
Leaves(s) == {n \in DOMAIN tree[s] : \A m \in DOMAIN tree[s] : tree[s][m].parent # n}

-----------------------------------------------------------------------------
(* The workspace. *)

\* git add -A and git commit: everything that lies there is committed.
CommitAll ==
    /\ head' = head \cup dirty \cup loose
    /\ dirty' = {} /\ loose' = {} /\ unmerged' = FALSE
    /\ ref' = IF ref = "unborn" THEN "strange" ELSE ref
    /\ UNCHANGED stash

Unstashable == unmerged \/ ref = "unborn"

\* Mutant: untracked files are not stashed.
StashTracked ==
    IF Unstashable THEN UNCHANGED gitVars /\ clashed' = TRUE
    ELSE /\ stash' = <<[dirty |-> dirty, loose |-> {}]>> \o stash
         /\ dirty' = {}
         /\ UNCHANGED <<head, loose, unmerged, ref, clashed>>

\* git stash push -u, refused while there are conflicts, or before a first commit.
StashAll ==
    IF Unstashable THEN UNCHANGED gitVars /\ clashed' = TRUE
    ELSE /\ stash' = <<[dirty |-> dirty, loose |-> loose]>> \o stash
         /\ dirty' = {} /\ loose' = {}
         /\ UNCHANGED <<head, unmerged, ref, clashed>>

\* git stash pop: refused on conflicts or over changes in the way; against commits in
\* the way it merges with conflicts, and keeps the entry.
StashPop ==
    IF stash = <<>> THEN UNCHANGED <<gitVars, clashed>>
    ELSE LET e == Head(stash)
         IN \/ /\ ~unmerged
               /\ dirty' = dirty \cup e.dirty /\ loose' = loose \cup e.loose
               /\ stash' = Tail(stash)
               /\ UNCHANGED <<head, unmerged, ref, clashed>>
            \/ /\ MayConflict /\ ~unmerged /\ dirty = {} /\ head # {} /\ e.dirty # {}
               /\ loose' = loose \cup e.loose /\ unmerged' = TRUE /\ clashed' = TRUE
               /\ UNCHANGED <<head, dirty, stash, ref>>
            \/ /\ unmerged \/ (MayConflict /\ dirty # {} /\ e.dirty # {})
               /\ clashed' = TRUE /\ UNCHANGED gitVars

\* The user writes.
UserWorks(i) ==
    /\ i \notin made /\ ((Quiet /\ ~Unstashable) \/ WorksOn)
    /\ made' = made \cup {i}
    /\ IF i \in UserEdits THEN dirty' = dirty \cup {i} /\ UNCHANGED loose
                          ELSE loose' = loose \cup {i} /\ UNCHANGED dirty
    /\ UNCHANGED <<searchVars, head, stash, unmerged, ref, early, clashed>>

-----------------------------------------------------------------------------
(* search(): before and after the try. *)

Open(s) ==
    /\ pc[s] = "idle" /\ (Concurrent \/ Quiet)
    /\ hasStash' = [hasStash EXCEPT ![s] = dirty \cup loose # {} \/ Unstashable]
    /\ Goto(s, "push")
    /\ UNCHANGED <<tree, sel, cands, iter, best, gitVars, made, early, clashed>>

Push(s) ==
    /\ pc[s] = "push" /\ Goto(s, "branch")
    /\ IF hasStash[s] THEN StashAll ELSE UNCHANGED <<gitVars, clashed>>
    /\ UNCHANGED <<tree, sel, cands, iter, best, hasStash, made, early>>

\* The temporary branch is not created; the hash of HEAD is read.
Branch(s) ==
    /\ pc[s] = "branch" /\ Goto(s, "draft")
    /\ UNCHANGED <<tree, sel, cands, iter, best, hasStash, gitVars, made, early, clashed>>

\* A search is over, and its tree forgotten.
Forget(s) ==
    /\ Goto(s, "done") /\ tree' = [tree EXCEPT ![s] = <<>>]
    /\ hasStash' = [hasStash EXCEPT ![s] = FALSE]
    /\ sel' = [sel EXCEPT ![s] = 0] /\ cands' = [cands EXCEPT ![s] = 0]
    /\ iter' = [iter EXCEPT ![s] = 0] /\ best' = [best EXCEPT ![s] = 0]
    /\ UNCHANGED made

\* The process ends, or the turn is cancelled before the try or inside the finally,
\* each of whose git calls is awaited: nothing is popped.
Cut(s) ==
    /\ ~Closed(s) /\ Forget(s) /\ early' = early \cup {s}
    /\ UNCHANGED <<gitVars, clashed>>

\* Inside the try the turn is cancelled, or a call raises: best_node stays None.
Abort(s) ==
    /\ pc[s] \notin {"idle", "push", "branch", "restore", "done"}
    /\ Goto(s, "restore") /\ best' = [best EXCEPT ![s] = 0]
    /\ UNCHANGED <<tree, sel, cands, iter, hasStash, gitVars, made, early, clashed>>

\* In the finally no checkout takes effect.  With a best node HEAD is set to the branch
\* it was on, or, was it detached, to a branch "HEAD" that does not exist, and what was
\* committed is staged as new.
Strays(s) == best[s] > 0 /\ ref = "detached"

Leave(s) ==
    /\ pc[s] = "restore" /\ Strays(s)
    /\ ref' = "unborn" /\ dirty' = dirty \cup head /\ head' = {}
    /\ UNCHANGED <<searchVars, loose, stash, unmerged, made, early, clashed>>

\* The finally's last step.
Restore(s) ==
    /\ pc[s] = "restore" /\ ~Strays(s) /\ Forget(s)
    /\ IF hasStash[s] THEN StashPop ELSE UNCHANGED <<gitVars, clashed>>
    /\ UNCHANGED early

-----------------------------------------------------------------------------
(* _search_internal(): the root. *)

Think(s) ==
    /\ pc[s] = "draft"
    /\ \E t \in {"none", "file", "edit"} : tree' = [tree EXCEPT ![s] = <<Draft(0, t)>>]
    /\ Goto(s, "act")
    /\ UNCHANGED <<sel, cands, iter, best, hasStash, gitVars, made, early, clashed>>

\* _execute_tools(): what its tools write lies in the workspace.
Act(s) ==
    /\ pc[s] = "act"
    /\ LET t == tree[s][Last(s)].tools
       IN /\ dirty' = IF t = "edit" THEN dirty \cup {Work(s)} ELSE dirty
          /\ loose' = IF t = "file" THEN loose \cup {Work(s)} ELSE loose
          /\ Goto(s, IF Last(s) > 1 THEN "commit" ELSE IF t = "none" THEN "judge" ELSE "redraft")
    /\ UNCHANGED <<tree, sel, cands, iter, best, hasStash, head, stash, unmerged, ref,
                   made, early, clashed>>

\* The root is written again with the results of its tools, or fails to be.
Redraft(s) ==
    /\ pc[s] = "redraft" /\ Goto(s, "judge")
    /\ tree' = [tree EXCEPT ![s][1].saw = TRUE]
    /\ UNCHANGED <<sel, cands, iter, best, hasStash, gitVars, made, early, clashed>>

\* critique() and geometric_score(): a score of 0 is never acceptable, else the model's
\* flag stands beside its scores; a critic that fails accepts with full marks.
Judge(s) ==
    /\ pc[s] = "judge" /\ Goto(s, IF Last(s) = 1 /\ tree[s][1].tools # "none" THEN "commit" ELSE "weigh")
    /\ \E x \in Scores, ok \in BOOLEAN :
          /\ x = 0 => ~ok
          /\ tree' = [tree EXCEPT ![s][Last(s)].score = x, ![s][Last(s)].ok = ok]
    /\ UNCHANGED <<sel, cands, iter, best, hasStash, gitVars, made, early, clashed>>

\* The root commits after it was rated and if it has tools, a child before and always.
Commit(s) ==
    /\ pc[s] = "commit" /\ CommitAll
    /\ Goto(s, IF Last(s) = 1 THEN "weigh" ELSE "judge")
    /\ UNCHANGED <<tree, sel, cands, iter, best, hasStash, made, early, clashed>>

-----------------------------------------------------------------------------
(* _search_internal(): the iterations. *)

\* The rated node becomes the best one if it is better; the search is over at an
\* acceptable root, an acceptable best or after the last iteration.
Weigh(s) ==
    /\ pc[s] = "weigh"
    /\ LET n == Last(s)  node == tree[s][n]
           b == IF n = 1 \/ node.score > tree[s][best[s]].score THEN n ELSE best[s]
           left == IF n > 1 /\ node.ok THEN 0 ELSE cands[s]
           over == IF n = 1 THEN node.ok \/ node.score >= Threshold
                            ELSE left = 0 /\ (tree[s][b].ok \/ iter[s] = MaxIter)
       IN /\ best' = [best EXCEPT ![s] = b] /\ cands' = [cands EXCEPT ![s] = left]
          /\ Goto(s, IF over \/ (n = 1 /\ MaxIter = 0) THEN "restore"
                     ELSE IF left > 0 THEN "child" ELSE "select")
    /\ UNCHANGED <<tree, sel, iter, hasStash, gitVars, made, early, clashed>>

\* Selection and _generate_candidates(): none of them may come, the fallback included.
Select(s) ==
    /\ pc[s] = "select" /\ iter' = [iter EXCEPT ![s] = @ + 1]
    /\ \E n \in Leaves(s), k \in 0 .. Branching :
          /\ sel' = [sel EXCEPT ![s] = n] /\ cands' = [cands EXCEPT ![s] = k]
          /\ Goto(s, IF k > 0 THEN "child"
                     ELSE IF tree[s][best[s]].ok \/ iter[s] + 1 = MaxIter THEN "restore" ELSE "select")
    /\ UNCHANGED <<tree, best, hasStash, gitVars, made, early, clashed>>

\* A child: the reset to its parent's commit fails, the clean works; then its tools run.
Child(s) ==
    /\ pc[s] = "child" /\ loose' = {}
    /\ \E t \in {"none", "file", "edit"} : tree' = [tree EXCEPT ![s] = Append(@, Draft(sel[s], t))]
    /\ cands' = [cands EXCEPT ![s] = @ - 1] /\ Goto(s, "act")
    /\ UNCHANGED <<sel, iter, best, hasStash, head, dirty, stash, unmerged, ref, made, early,
                   clashed>>

-----------------------------------------------------------------------------

Step(s) ==
    \/ Push(s) \/ Branch(s) \/ Think(s) \/ Act(s) \/ Redraft(s) \/ Judge(s) \/ Commit(s)
    \/ Weigh(s) \/ Select(s) \/ Child(s) \/ Leave(s) \/ Restore(s)

Next ==
    \/ \E s \in Searches : Open(s) \/ Step(s) \/ Cut(s) \/ Abort(s)
    \/ \E i \in UserItems : UserWorks(i)

Spec == Init /\ [][Next]_vars

-----------------------------------------------------------------------------

Nodes == Searches \X (1 .. MaxIter * Branching + 1)
Things == UserItems \cup Nodes

TypeOK ==
    /\ pc \in [Searches -> {"idle", "push", "branch", "draft", "act", "redraft", "judge",
                            "commit", "weigh", "select", "child", "restore", "done"}]
    /\ \A s \in Searches : /\ Len(tree[s]) <= MaxIter * Branching + 1
                           /\ best[s] \in 0 .. Len(tree[s]) /\ sel[s] \in 0 .. Len(tree[s])
                           /\ iter[s] \in 0 .. MaxIter /\ cands[s] \in 0 .. Branching
    /\ hasStash \in [Searches -> BOOLEAN] /\ unmerged \in BOOLEAN /\ ref \in {"branch", "detached", "unborn", "strange"}
    /\ head \cup dirty \cup loose \subseteq Things
    /\ made \subseteq UserItems /\ early \subseteq Searches /\ clashed \in BOOLEAN

Stashed == UNION {stash[i].dirty \cup stash[i].loose : i \in DOMAIN stash}

\* What the user has not committed survives every search, however it ends, in the
\* workspace or in the stash (tree_search.py:128, stash push, and :153, stash pop),
\* until a search has moved a detached HEAD to a branch without a commit (:150); and
\* unless git refused a push or a pop, or a search was cut off before its pop, it is
\* back in the workspace when no search runs.
UserWorkKept ==
    ref \in {"branch", "detached"} =>
        /\ made \subseteq head \cup dirty \cup loose \cup Stashed
        /\ Quiet /\ ~clashed /\ early = {} => made \subseteq dirty \cup loose

\* Nothing of the user's is ever deleted (tree_search.py:127, "if has_stash").
WorkSurvives == made \subseteq head \cup dirty \cup loose \cup Stashed

\* The user's work is back when no search runs (tree_search.py:152, "if has_stash").
RestoredAtEnd == Quiet => made \subseteq dirty \cup loose \cup head

\* An answer whose node ran tools was written after they ran (tree_search.py:359,
\* "Redraft to incorporate tool results").
AnswerSawTools ==
    \A s \in Searches : pc[s] = "restore" /\ best[s] > 0 =>
        tree[s][best[s]].saw \/ tree[s][best[s]].tools = "none"

\* A search that stops at an acceptable node returns an acceptable one
\* (tree_search.py:429, "Found acceptable node ... Stopping search").
AcceptableIsReturned ==
    \A s \in Searches :
        pc[s] = "restore" /\ best[s] > 0 /\ (\E n \in DOMAIN tree[s] : tree[s][n].ok) =>
            tree[s][best[s]].ok

\* The workspace a search leaves holds the work of the best node's branch and no
\* other's (tree_search.py:323, "Reset/Checkout to parent node's commit hash").
OnlyBestRemains ==
    [][\A s \in Searches : pc[s] = "restore" /\ pc'[s] = "done" /\ best[s] > 0 /\ early' = early =>
         \A n \in DOMAIN tree[s] : <<s, n>> \in head' \cup dirty' \cup loose' =>
             n \in {best[s], tree[s][best[s]].parent, 1}]_vars

=============================================================================
