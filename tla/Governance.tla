----------------------------- MODULE Governance -----------------------------
(***************************************************************************)
(* What steers the agent beside its model: the file of core directives     *)
(* and the proposals of improvement an operator has approved               *)
(* (silex/core/meta_reasoning.py, observability.py,                        *)
(* silex/tools/directives.py, the proposals commands of scripts/run.py and *)
(* scripts/cli.py).                                                        *)
(*                                                                         *)
(* Several processes share the file and the table.  Proposals are numbered *)
(* in the order of their creation.  The text of the directives is the set  *)
(* of what it demands: instructions given to the update_directives tool,   *)
(* and proposals that a rollback wrote into it.                            *)
(***************************************************************************)
EXTENDS Integers, Sequences, FiniteSets, FiniteSetsExt, SequencesExt

CONSTANTS
    Processes,     \* processes with a cognitive loop on the directory
    Instructions,  \* what the tool is asked to add, each at most once
    MaxProposals,  \* bound: proposals
    MaxTurns,      \* bound: recorded turns; the code looks at the last 30
    MaxDecisions   \* bound: decisions of the operator

GovernanceAssumption ==
    /\ MaxProposals \in Nat /\ MaxTurns \in Nat /\ MaxDecisions \in Nat
    /\ \A i \in Instructions, x \in 1 .. MaxProposals : i # <<"proposal", x>>

VARIABLES
    confidences,  \* of the recorded turns, the oldest first, in tenths
    made,         \* number of proposals
    status,       \* status of a proposal
    asked,        \* decision the console is about to write: <<proposal, status>>, or <<>>
    decisions,    \* decisions so far
    everApproved, \* proposals an operator has approved (history)
    lastWord,     \* last decision on a proposal, or "none" (history)
    file,         \* what the core directives demand
    saved,        \* texts of the file in the backups directory
    replaced,     \* texts of the file that were overwritten (history)
    requested,    \* instructions the tool was called with
    job           \* per process: what it is in the middle of

tableVars == <<made, status, asked, decisions, everApproved, lastWord>>
fileVars  == <<file, saved, replaced, requested>>
vars == <<confidences, tableVars, fileVars, job>>

Proposals == 1..MaxProposals
Idle == [at |-> "idle", of |-> 0, text |-> {}]

Init ==
    /\ confidences = <<>> /\ made = 0 /\ status = [x \in Proposals |-> "none"]
    /\ asked = <<>> /\ decisions = 0 /\ everApproved = {}
    /\ lastWord = [x \in Proposals |-> "none"]
    /\ file = {} /\ saved = {} /\ replaced = {} /\ requested = {}
    /\ job = [p \in Processes |-> Idle]

\* analyze_drift_trend(): least squares over at least five values; the slope is
\* Covariance / Variance, the threshold -0.015 a turn (both multiplied by Len).
SumOver(n, f(_)) == MapThenSumSet(f, 1..n)
Covariance(s) ==
    LET n == Len(s) IN
    n * SumOver(n, LAMBDA i : i * s[i]) - SumOver(n, LAMBDA i : i) * SumOver(n, LAMBDA i : s[i])
Variance(n) == n * SumOver(n, LAMBDA i : i * i) - SumOver(n, LAMBDA i : i) * SumOver(n, LAMBDA i : i)
Declines(s) == Len(s) >= 5 /\ 100 * Covariance(s) < -15 * Variance(Len(s))

\* What a prompt carries as binding: the file, and the proposals that are approved.
Governing == file \cup {<<"proposal", x>> : x \in {y \in Proposals : status[y] = "approved"}}

-----------------------------------------------------------------------------
\* A turn records its confidence, and the proposals the model made in it.
Turn(c) ==
    /\ Len(confidences) < MaxTurns /\ confidences' = Append(confidences, c)
    /\ UNCHANGED <<tableVars, fileVars, job>>

Insert == made < MaxProposals /\ made' = made + 1
          /\ status' = [status EXCEPT ![made + 1] = "pending"]
          /\ UNCHANGED <<asked, decisions, everApproved, lastWord>>

Inline == Insert /\ UNCHANGED <<confidences, fileVars, job>>

\* resolve_improvement_proposal() looks whether the row exists, then awaits the update.
Ask(x, s) ==
    /\ asked = <<>> /\ status[x] # "none" /\ decisions < MaxDecisions
    /\ asked' = <<x, s>> /\ decisions' = decisions + 1
    /\ UNCHANGED <<confidences, made, status, everApproved, lastWord, fileVars, job>>

\* update_status(): whatever the status was.
Update(x, s) ==
    /\ status' = [status EXCEPT ![x] = s]
    /\ lastWord' = [lastWord EXCEPT ![x] = s]
    /\ everApproved' = IF s = "approved" THEN everApproved \cup {x} ELSE everApproved
    /\ UNCHANGED made

Decide ==
    /\ asked # <<>> /\ Update(asked[1], asked[2]) /\ asked' = <<>>
    /\ UNCHANGED <<confidences, decisions, fileVars, job>>

\* `kinthic proposals approve` writes at once.
DecideAtShell(x, s) ==
    /\ status[x] # "none" /\ decisions < MaxDecisions /\ decisions' = decisions + 1
    /\ Update(x, s)
    /\ UNCHANGED <<confidences, asked, fileVars, job>>

-----------------------------------------------------------------------------
(* Meta-analysis and its rollback. *)

Overwrite(text) == file' = text /\ replaced' = replaced \cup {file}

AnyCandidates == {x \in Proposals : status[x] \in {"approved", "pending"}}

\* _trigger_prompt_rollback(): the approved proposals about the system prompt; those of
\* the model all are.
Candidates == {x \in Proposals : status[x] = "approved"}

\* Nothing is rolled back while the trend is stable; the default text is restored when no
\* proposal is approved.
CheckTrend(p) ==
    /\ job[p].at = "idle"
    /\ IF ~Declines(confidences)
       THEN job' = [job EXCEPT ![p].at = "analyse"] /\ UNCHANGED <<file, replaced>>
       ELSE IF Candidates = {}
       THEN job' = [job EXCEPT ![p].at = "analyse"] /\ Overwrite({})
       ELSE job' = [job EXCEPT ![p] = [Idle EXCEPT !.at = "chosen", !.of = Max(Candidates)]]
            /\ UNCHANGED <<file, replaced>>
    /\ UNCHANGED <<confidences, tableVars, saved, requested>>

\* The status is written whatever it is by now.
Mark(p) ==
    /\ job[p].at = "chosen" /\ job' = [job EXCEPT ![p].at = "marked"]
    /\ status' = [status EXCEPT ![job[p].of] = "implemented"]
    /\ UNCHANGED <<confidences, made, asked, decisions, everApproved, lastWord, fileVars>>

\* The file is written, without a backup; a failure is only logged.
Restore(p) ==
    /\ job[p].at = "marked" /\ job' = [job EXCEPT ![p] = [Idle EXCEPT !.at = "analyse"]]
    /\ Overwrite({<<"proposal", job[p].of>>}) \/ UNCHANGED <<file, replaced>>
    /\ UNCHANGED <<confidences, tableVars, saved, requested>>

\* The model proposes something, or nothing, or fails.
Analyse(p) ==
    /\ job[p].at = "analyse" /\ job' = [job EXCEPT ![p] = Idle]
    /\ Insert \/ UNCHANGED tableVars
    /\ UNCHANGED <<confidences, fileVars>>

-----------------------------------------------------------------------------
(* update_directives: the file is read, the model rewrites it, the file is written. *)

Read(p, i) ==
    /\ job[p].at = "idle" /\ i \notin requested /\ requested' = requested \cup {i}
    /\ job' = [job EXCEPT ![p] = [at |-> "rewrite", of |-> 0, text |-> file \cup {i}]]
    /\ UNCHANGED <<confidences, tableVars, file, saved, replaced>>

Rewrite(p) ==
    /\ job[p].at = "rewrite" /\ job' = [job EXCEPT ![p] = Idle]
    /\ saved' = saved \cup {file} /\ Overwrite(job[p].text)
    /\ UNCHANGED <<confidences, tableVars, requested>>

\* The model fails, or its text is longer than 5000 characters.
RewriteRefused(p) ==
    /\ job[p].at = "rewrite" /\ job' = [job EXCEPT ![p] = Idle]
    /\ UNCHANGED <<confidences, tableVars, fileVars>>

Next ==
    \/ \E c \in {2, 9} : Turn(c)
    \/ Inline \/ Decide
    \/ \E x \in Proposals, s \in {"approved", "rejected"} : Ask(x, s) \/ DecideAtShell(x, s)
    \/ \E p \in Processes : CheckTrend(p) \/ Mark(p) \/ Restore(p) \/ Analyse(p)
                            \/ Rewrite(p) \/ RewriteRefused(p)
    \/ \E p \in Processes, i \in Instructions : Read(p, i)

Spec == Init /\ [][Next]_vars

-----------------------------------------------------------------------------
\* Every variable has the shape the actions rely on.
TypeOK ==
    /\ made \in 0..MaxProposals /\ decisions \in 0..MaxDecisions
    /\ status \in [Proposals -> {"none", "pending", "approved", "rejected", "implemented"}]
    /\ \A p \in Processes : job[p].at \in {"idle", "chosen", "marked", "analyse", "rewrite"}
    /\ requested \subseteq Instructions

\* No proposal binds the agent, in the file or in the prompt, that an operator has not
\* approved: the rollback and the prompt pick by status, and nothing else sets it.
OnlyApprovedGoverns == \A x \in Proposals : <<"proposal", x>> \in Governing => x \in everApproved

\* A proposal the operator has rejected last does not bind the agent.  Violated: the file
\* keeps what a rollback wrote, and a rollback under way writes what was rejected since.
RejectedStaysOut ==
    \A x \in Proposals : lastWord[x] = "rejected" => <<"proposal", x>> \notin Governing

\* Every text of the directives that was overwritten is in the backups.  Violated: the
\* rollback makes none.
ReplacedIsSaved == replaced \subseteq saved

\* A rewriting keeps what the file demands by then.  Violated with two processes: the
\* second one writes the text it read before the first one wrote.
RewriteKeepsOthers == [][\A p \in Processes : Rewrite(p) => file \subseteq file']_vars

\* The directives a rollback restored stay until somebody asks for others.  Violated: the
\* restored proposal is no candidate any more, so that the next analysis under the same
\* trend replaces it by an older one, and at last by the default text.
RestoredStays ==
    [][(\E p \in Processes : CheckTrend(p)) /\ (\E x \in Proposals : <<"proposal", x>> \in file)
       => file' # {}]_vars
=============================================================================
