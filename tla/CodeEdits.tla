------------------------------ MODULE CodeEdits ------------------------------
(***************************************************************************)
(* Changes of files that the agent drafts and an operator confirms         *)
(* (silex/tools/code_editor.py), and the trial of a change before it is    *)
(* drafted (silex/tools/phantom.py).                                       *)
(*                                                                         *)
(* The drafts are one list in one JSON file, read and written as a whole   *)
(* by every process that uses the directory.  A tool call runs without an  *)
(* await, so that inside one process calls do not interleave; two          *)
(* processes do, and a process may end between two steps.                  *)
(* One workspace file is modelled; its text is a sequence of blocks.       *)
(***************************************************************************)
EXTENDS Naturals, Sequences, FiniteSets, SequencesExt

CONSTANTS
    Processes,    \* processes that share the list
    Terminals,    \* those of them with a terminal on standard input
    Drafts,       \* identities of drafts
    Trials,       \* runs of phantom_test on the workspace file
    Kind,         \* of the workspace file: "py" or "ts"
    Tears,        \* TRUE iff a process may end while it writes the list
    MaxFailures,  \* bound: writes that raise, and ends of processes
    MaxSeconds    \* bound: seconds that pass

CodeEditsAssumption ==
    Terminals \subseteq Processes /\ Kind \in {"py", "ts"}
    /\ Tears \in BOOLEAN /\ MaxFailures \in Nat /\ MaxSeconds \in Nat

VARIABLES
    text,     \* the workspace file
    list,     \* the file of drafts: a sequence, or Missing, or Torn
    job,      \* what a process is in the middle of
    failures, \* failures so far
    now,      \* the clock, in seconds: a backup is named after the second
    backups,  \* per second: the text saved in it, if any
    lost,     \* texts that a draft replaced and that were saved (history)
    created,  \* drafts whose creation was answered (history)
    told,     \* drafts answered with SUCCESS (history)
    changed,  \* how often a draft changed the text (history)
    trial,    \* per trial: new, running, judged, over
    copies,   \* trials whose private directory exists
    hidden,   \* trial whose text the hidden file in the workspace holds, or None
    verdict   \* per trial: the trial whose text was compiled, or None

editVars  == <<text, list, job, failures, now, backups, lost, created, told, changed>>
trialVars == <<trial, copies, hidden, verdict>>
vars == <<editVars, trialVars>>

Missing == <<>>                      \* no file; an empty list is never written
Torn == <<[id |-> "torn"]>>          \* the file is not valid JSON
None == "none"
Whole == "whole"                     \* an empty target: the file is overwritten
Targets == {"x", Whole}
Replacements == {<<"y">>, <<"x", "y">>}
Idle == [at |-> "idle", list |-> <<>>, todo |-> <<>>, done |-> {}]

Init ==
    /\ text = <<"x">> /\ list = Missing /\ job = [p \in Processes |-> Idle]
    /\ failures = 0 /\ now = 0 /\ backups = [s \in 0..MaxSeconds |-> {}] /\ lost = {}
    /\ created = {} /\ told = {} /\ changed = [d \in Drafts |-> 0]
    /\ trial = [t \in Trials |-> "new"] /\ copies = {} /\ hidden = None
    /\ verdict = [t \in Trials |-> None]

Listed == IF list = Torn THEN <<>> ELSE list
Ids(l) == {l[i].id : i \in DOMAIN l}
Occurrences(t) == Cardinality({i \in DOMAIN text : text[i] = t})

\* str.replace(target, replacement, 1): the text as it is when the target is gone.
Applied(e) ==
    IF e.target = Whole THEN e.repl
    ELSE IF Occurrences(e.target) = 0 THEN text
    ELSE LET i == SelectInSeq(text, LAMBDA b : b = e.target)
         IN SubSeq(text, 1, i - 1) \o e.repl \o SubSeq(text, i + 1, Len(text))

\* The drafts of a list that are not among ids, in their order.
Without(l, ids) ==
    LET rest[i \in 0..Len(l)] ==
            IF i = 0 THEN <<>>
            ELSE IF l[i].id \in ids THEN rest[i - 1] ELSE Append(rest[i - 1], l[i])
    IN rest[Len(l)]

\* Those that are among them.
Chosen(l, ids) == Without(l, Ids(l) \ ids)

\* The file is opened for writing, which empties it, then the list is dumped into it.
Save(l) == list' = l

-----------------------------------------------------------------------------
\* CodeEditorTool.execute(): the target occurs once; a list that cannot be read is empty.
Propose(p, d, t, r) ==
    /\ job[p].at = "idle" /\ d \notin created /\ \A q \in Processes : d \notin Ids(job[q].list)
    /\ t # Whole => Occurrences(t) = 1
    /\ LET e == [id |-> d, target |-> t, repl |-> r, status |-> "pending"]
       IN job' = [job EXCEPT ![p] = [at |-> "file", list |-> Append(Listed, e),
                                     todo |-> <<>>, done |-> {d}]]
    /\ UNCHANGED <<text, list, failures, now, backups, lost, created, told, changed, trialVars>>

File(p) ==
    /\ job[p].at = "file" /\ Save(job[p].list)
    /\ created' = created \cup job[p].done /\ job' = [job EXCEPT ![p] = Idle]
    /\ UNCHANGED <<text, failures, now, backups, lost, told, changed, trialVars>>

\* ApplyEditTool.execute(): one draft or all of them; one that is not approved makes the
\* tool ask for a code at the terminal, and fail where there is none.
Apply(p, chosen) ==
    /\ job[p].at = "idle" /\ Listed # <<>>
    /\ LET todo == Chosen(Listed, chosen)
           asks == \E i \in DOMAIN todo : todo[i].status # "approved"
       IN /\ todo # <<>> /\ (chosen = Drafts \/ Len(todo) = 1)
          /\ asks => p \in Terminals
          /\ job' = [job EXCEPT ![p] = [at |-> IF asks THEN "ask" ELSE "write", list |-> Listed,
                                        todo |-> todo, done |-> chosen]]
    /\ UNCHANGED <<text, list, failures, now, backups, lost, created, told, changed, trialVars>>

\* The right code approves what was chosen (a draft, or every draft of the list as it was
\* read) and writes the list; the wrong one ends the call.
Approved(l, chosen) ==
    [i \in DOMAIN l |-> IF l[i].id \in chosen THEN [l[i] EXCEPT !.status = "approved"] ELSE l[i]]

Challenge(p) ==
    /\ job[p].at = "ask"
    /\ LET l == Approved(job[p].list, job[p].done)
       IN \/ /\ Save(l) /\ job' = [job EXCEPT ![p].at = "write", ![p].list = l]
          \/ job' = [job EXCEPT ![p] = Idle] /\ UNCHANGED list
    /\ UNCHANGED <<text, failures, now, backups, lost, created, told, changed, trialVars>>

\* _apply_edit_logic(): the backup of this second, then the replacement.
Write(p) ==
    /\ job[p].at = "write" /\ job[p].todo # <<>>
    /\ LET e == Head(job[p].todo) IN
       /\ text' = Applied(e)
       /\ changed' = [changed EXCEPT ![e.id] = @ + IF text' # text THEN 1 ELSE 0]
       /\ backups' = [backups EXCEPT ![now] = {text}] /\ lost' = lost \cup {text}
    /\ job' = [job EXCEPT ![p].todo = Tail(@)]
    /\ UNCHANGED <<list, failures, now, created, told, trialVars>>

\* The path cannot be written: the call answers with an error, the list stays as it is.
WriteFails(p) ==
    /\ job[p].at = "write" /\ job[p].todo # <<>> /\ failures < MaxFailures
    /\ failures' = failures + 1 /\ job' = [job EXCEPT ![p] = Idle]
    /\ UNCHANGED <<text, list, now, backups, lost, created, told, changed, trialVars>>

FinishForgets(p) ==
    /\ job[p].at = "write" /\ job[p].todo = <<>>
    /\ list' = Missing /\ told' = told \cup (job[p].done \cap Ids(job[p].list))
    /\ job' = [job EXCEPT ![p] = Idle]
    /\ UNCHANGED <<text, failures, now, backups, lost, created, changed, trialVars>>

\* The list without the draft is written, or the file removed; that raises when it is gone.
Finish(p) ==
    /\ job[p].at = "write" /\ job[p].todo = <<>>
    /\ LET rest == Without(job[p].list, job[p].done)
       IN /\ Save(rest)
          /\ told' = IF rest = <<>> /\ list = Missing THEN told
                     ELSE told \cup (job[p].done \cap Ids(job[p].list))
    /\ job' = [job EXCEPT ![p] = Idle]
    /\ UNCHANGED <<text, failures, now, backups, lost, created, changed, trialVars>>

\* A process ends in the middle; a list that was being written is torn.
Crash(p) ==
    /\ job[p].at # "idle" /\ failures < MaxFailures
    /\ failures' = failures + 1 /\ job' = [job EXCEPT ![p] = Idle]
    /\ list' \in IF Tears /\ job[p].at = "file" THEN {list, Torn} ELSE {list}
    /\ UNCHANGED <<text, now, backups, lost, created, told, changed, trialVars>>

Tick == now < MaxSeconds /\ now' = now + 1
        /\ UNCHANGED <<text, list, job, failures, backups, lost, created, told, changed, trialVars>>

-----------------------------------------------------------------------------
(* phantom_test: a private copy; for TypeScript also a hidden file beside the real one. *)

TrialStart(t) ==
    /\ trial[t] = "new" /\ trial' = [trial EXCEPT ![t] = "running"]
    /\ copies' = copies \cup {t} /\ hidden' = IF Kind = "ts" THEN t ELSE hidden
    /\ UNCHANGED <<editVars, verdict>>

\* The compiler reads the file, or does not answer in time.
TrialJudged(t) ==
    /\ trial[t] = "running" /\ trial' = [trial EXCEPT ![t] = "judged"]
    /\ verdict' = [verdict EXCEPT ![t] = IF Kind = "ts" THEN hidden ELSE t]
    /\ UNCHANGED <<editVars, copies, hidden>>

TrialTimesOut(t) ==
    /\ trial[t] = "running" /\ trial' = [trial EXCEPT ![t] = "judged"]
    /\ UNCHANGED <<editVars, copies, hidden, verdict>>

\* finally: the hidden file and the directory are removed, whatever the outcome was.
TrialKept(t) ==
    /\ trial[t] = "judged" /\ trial' = [trial EXCEPT ![t] = "over"]
    /\ copies' = copies \ {t} /\ hidden' = IF verdict[t] = None THEN hidden ELSE None
    /\ UNCHANGED <<editVars, verdict>>

TrialEnd(t) ==
    /\ trial[t] = "judged" /\ trial' = [trial EXCEPT ![t] = "over"]
    /\ copies' = copies \ {t} /\ hidden' = None
    /\ UNCHANGED <<editVars, verdict>>

Next ==
    \/ \E p \in Processes, d \in Drafts, t \in Targets, r \in Replacements : Propose(p, d, t, r)
    \/ \E p \in Processes : File(p) \/ Challenge(p) \/ Write(p) \/ WriteFails(p) \/ Finish(p) \/ Crash(p)
    \/ \E p \in Processes, chosen \in {{d} : d \in Drafts} \cup {Drafts} : Apply(p, chosen)
    \/ Tick
    \/ \E t \in Trials : TrialStart(t) \/ TrialJudged(t) \/ TrialTimesOut(t) \/ TrialEnd(t)

Spec == Init /\ [][Next]_vars

-----------------------------------------------------------------------------
\* Every variable has the shape the actions rely on.
TypeOK ==
    /\ \A p \in Processes : job[p].at \in {"idle", "file", "ask", "write"}
    /\ list = Torn \/ Ids(list) \subseteq Drafts
    /\ failures \in 0..MaxFailures /\ now \in 0..MaxSeconds
    /\ created \subseteq Drafts /\ told \subseteq Drafts /\ copies \subseteq Trials
    /\ hidden \in Trials \cup {None} /\ verdict \in [Trials -> Trials \cup {None}]

\* A draft that was announced to the user is in the list until it is reported as applied.
\* Violated with two processes, and by a process that ends while it writes the list.
DraftsAreKept == created \subseteq told \cup Ids(Listed)

\* The workspace holds no hidden file of phantom_test when no trial is under way.
WorkspaceIsClean == hidden # None => \E t \in Trials : trial[t] \in {"running", "judged"}

\* "SUCCESS: ... applied" is said of drafts whose replacement is in the file.
\* Violated: the target may be gone by then, and replacing nothing is no error.
AppliedIsApplied == \A d \in told : changed[d] > 0

\* A draft changes the file once.  Violated: when the second of two drafts fails,
\* both stay in the list, and the next call applies the first again.
AppliedOnce == \A d \in Drafts : changed[d] <= 1

\* Every text that a draft replaced is in a backup.  Violated: two drafts applied in the
\* same second share the name of their backup.
ReplacedIsSaved == \A s \in lost : \E n \in DOMAIN backups : s \in backups[n]

\* The verdict of a trial is about the text of that trial.  Violated: two trials of one
\* TypeScript file share the hidden file.
VerdictIsOwn == \A t \in Trials : verdict[t] \in {t, None}
=============================================================================
