--------------------------- MODULE WorkspaceIndex ---------------------------
(***************************************************************************)
(* WorkspaceIndexer: the files of the workspace, cut into chunks in the    *)
(* Chroma collection aria_workspace.  Every process with a cognitive loop  *)
(* runs it once, in a thread, when it starts, while the files are edited.  *)
(* A manifest keeps the fingerprint of every file that was seen, so that   *)
(* the next run skips what has not changed.                                *)
(*                                                                         *)
(* A file is its path and its version.  Its chunks are added and deleted   *)
(* together and stand for one; ignored names and the cutting are left out. *)
(***************************************************************************)
EXTENDS Naturals

CONSTANTS
    Processes,
    Paths,
    Large,        \* versions that are too large to be indexed
    Blank,        \* versions without text
    MaxEdits,     \* bound: versions
    MaxRuns,      \* bound: runs
    MaxCrashes,   \* bound: processes that end within a run
    MaxFailures,  \* bound: calls of the vector store that raise
    Overlaps,     \* TRUE iff two processes index at a time
    None

WorkspaceIndexAssumption ==
    /\ {MaxEdits, MaxRuns, MaxCrashes, MaxFailures} \subseteq Nat
    /\ Large \cup Blank \subseteq Nat /\ Overlaps \in BOOLEAN /\ None \notin Paths

VARIABLES
    file,     \* version of each file; Absent if there is none
    edits,    \* versions so far
    manifest, \* fingerprint of each file; one that is torn reads like an empty one
    chunks,   \* the collection: path, digest in the id, version of the text
    run,      \* per process: its run
    runs, crashes, failures,
    failed    \* fingerprints whose chunks the store refused (history)

vars == <<file, edits, manifest, chunks, run, runs, crashes, failures, failed>>

Absent == 0
Versions == 1 .. MaxEdits
NoMark == [sha |-> 0, stat |-> 0]
Empty == [f \in Paths |-> NoMark]
Over == [at |-> "over", todo |-> {}, cur |-> None, sha |-> 0, text |-> 0, prev |-> Empty,
         next |-> Empty]

Init ==
    /\ file = [f \in Paths |-> Absent] /\ edits = 0 /\ manifest = Empty /\ chunks = {}
    /\ run = [p \in Processes |-> Over] /\ runs = 0 /\ crashes = 0 /\ failures = 0
    /\ failed = {}

-----------------------------------------------------------------------------
(* The user, and Kinthic's tools *)

Edit(f) ==
    /\ edits < MaxEdits /\ edits' = edits + 1 /\ file' = [file EXCEPT ![f] = edits']
    /\ UNCHANGED <<manifest, chunks, run, runs, crashes, failures, failed>>

Remove(f) ==
    /\ file[f] # Absent /\ file' = [file EXCEPT ![f] = Absent]
    /\ UNCHANGED <<edits, manifest, chunks, run, runs, crashes, failures, failed>>

-----------------------------------------------------------------------------
(* WorkspaceIndexer.run(): one at a time in a process *)

To(p, r) == run' = [run EXCEPT ![p] = r]
Calm == UNCHANGED <<file, edits, runs, crashes>>   \* what the steps of a run leave alone
Walking(r) == [r EXCEPT !.at = "walk", !.cur = None, !.sha = 0, !.text = 0]

Begin(p) ==
    /\ run[p].at = "over" /\ runs < MaxRuns /\ runs' = runs + 1
    /\ Overlaps \/ \A q \in Processes : run[q].at = "over"
    /\ To(p, [at |-> "walk", todo |-> {f \in Paths : file[f] # Absent}, cur |-> None, sha |-> 0,
              text |-> 0, prev |-> manifest, next |-> Empty])
    /\ UNCHANGED <<file, edits, manifest, chunks, crashes, failures, failed>>

\* getsize() is outside of the `try`: a file that is gone ends the run.
Visit(p, f) ==
    LET r == [run[p] EXCEPT !.todo = @ \ {f}]
    IN  /\ run[p].at = "walk" /\ f \in run[p].todo
        /\ To(p, IF file[f] = Absent THEN Over
                 ELSE IF file[f] \in Large THEN r ELSE [r EXCEPT !.at = "digest", !.cur = f])
        /\ Calm /\ UNCHANGED <<manifest, chunks, failures, failed>>

\* _fingerprint(): the digest, and then the time and size.  A file that is gone by now is
\* logged and left out of the manifest.
Digest(p) ==
    LET r == run[p]
    IN  /\ r.at = "digest"
        /\ To(p, IF file[r.cur] = Absent THEN Walking(r)
                 ELSE [r EXCEPT !.at = "stat", !.sha = file[r.cur]])
        /\ Calm /\ UNCHANGED <<manifest, chunks, failures, failed>>

Stat(p) ==
    LET r == run[p]
        f == r.cur
        mark == [sha |-> r.sha, stat |-> file[f]]
        claimed == [r EXCEPT !.next[f] = mark]
    IN  /\ r.at = "stat"
        /\ To(p, IF file[f] = Absent THEN Walking(r)
                 ELSE IF r.prev[f] = mark THEN Walking(claimed)
                 ELSE [claimed EXCEPT !.at = "delete"])
        /\ Calm /\ UNCHANGED <<manifest, chunks, failures, failed>>

Without(f) == {c \in chunks : c.path # f}

\* Mutant: only files that the manifest knows are deleted.
DeleteKnown(p) ==
    LET r == run[p]
    IN  /\ r.at = "delete"
        /\ chunks' = IF r.prev[r.cur] = NoMark THEN chunks ELSE Without(r.cur)
        /\ To(p, [r EXCEPT !.at = "read"])
        /\ Calm /\ UNCHANGED <<manifest, failures, failed>>

\* delete_by_path(), whether the manifest knows the file or not: it may have been indexed by
\* a run that did not come to its end.
Delete(p) ==
    /\ run[p].at = "delete" /\ chunks' = Without(run[p].cur)
    /\ To(p, [run[p] EXCEPT !.at = "read"])
    /\ Calm /\ UNCHANGED <<manifest, failures, failed>>

\* _index_file() reads the file once more.  One that is gone is logged.
ReadFile(p) ==
    LET r == run[p]
        v == file[r.cur]
    IN  /\ r.at = "read"
        /\ To(p, IF v = Absent \/ v \in Blank THEN Walking(r)
                 ELSE [r EXCEPT !.at = "add", !.text = v])
        /\ Calm /\ UNCHANGED <<manifest, chunks, failures, failed>>

\* add_chunks(): an id that is there keeps its text.
Add(p) ==
    LET r == run[p]
        there == \E c \in chunks : c.path = r.cur /\ c.sha = r.sha
    IN  /\ r.at = "add"
        /\ chunks' = IF there THEN chunks
                     ELSE chunks \cup {[path |-> r.cur, sha |-> r.sha, text |-> r.text]}
        /\ failed' = failed \ {<<r.cur, r.next[r.cur]>>}
        /\ To(p, Walking(r))
        /\ Calm /\ UNCHANGED <<manifest, failures>>

\* The store raises: the file is logged, and the manifest has it.
Fail(p) ==
    LET r == run[p]
    IN  /\ r.at \in {"delete", "add"} /\ failures < MaxFailures /\ failures' = failures + 1
        /\ failed' = failed \cup {<<r.cur, r.next[r.cur]>>}
        /\ To(p, Walking(r)) /\ Calm /\ UNCHANGED <<manifest, chunks>>

\* What the last manifest had and this run did not find.
Removed(r) == {f \in Paths : r.prev[f] # NoMark /\ r.next[f] = NoMark}
Walked(p) == run[p].at = "walk" /\ run[p].todo = {}

Purge(p, f) ==
    /\ Walked(p) /\ f \in Removed(run[p]) /\ chunks' = Without(f)
    /\ To(p, [run[p] EXCEPT !.prev[f] = NoMark])
    /\ Calm /\ UNCHANGED <<manifest, failures, failed>>

\* The store raises: this ends the run, and the manifest stays as it was.
PurgeFails(p) ==
    /\ Walked(p) /\ Removed(run[p]) # {} /\ failures < MaxFailures
    /\ failures' = failures + 1 /\ To(p, Over)
    /\ Calm /\ UNCHANGED <<manifest, chunks, failed>>

\* write_text() truncates and then writes.
OpenManifest(p) ==
    /\ Walked(p) /\ Removed(run[p]) = {} /\ manifest' = Empty
    /\ To(p, [run[p] EXCEPT !.at = "save"])
    /\ Calm /\ UNCHANGED <<chunks, failures, failed>>

SaveManifest(p) ==
    /\ run[p].at = "save" /\ manifest' = run[p].next /\ To(p, Over)
    /\ Calm /\ UNCHANGED <<chunks, failures, failed>>

Crash(p) ==
    /\ run[p].at # "over" /\ crashes < MaxCrashes /\ crashes' = crashes + 1 /\ To(p, Over)
    /\ UNCHANGED <<file, edits, manifest, chunks, runs, failures, failed>>

Next ==
    \/ \E f \in Paths : Edit(f) \/ Remove(f)
    \/ \E p \in Processes :
        \/ Begin(p) \/ Digest(p) \/ Stat(p) \/ Delete(p) \/ ReadFile(p) \/ Add(p) \/ Fail(p)
        \/ PurgeFails(p) \/ OpenManifest(p) \/ SaveManifest(p) \/ Crash(p)
        \/ \E f \in Paths : Visit(p, f) \/ Purge(p, f)

Spec == Init /\ [][Next]_vars

-----------------------------------------------------------------------------
Marks == [sha : 0 .. MaxEdits, stat : 0 .. MaxEdits]

\* Every variable keeps its type.
TypeOK ==
    /\ file \in [Paths -> 0 .. MaxEdits] /\ edits \in 0 .. MaxEdits
    /\ manifest \in [Paths -> Marks]
    /\ chunks \subseteq [path : Paths, sha : Versions, text : Versions]
    /\ \A p \in Processes : run[p] \in
        [at : {"over", "walk", "digest", "stat", "delete", "read", "add", "save"},
         todo : SUBSET Paths, cur : Paths \cup {None}, sha : 0 .. MaxEdits,
         text : 0 .. MaxEdits, prev : [Paths -> Marks], next : [Paths -> Marks]]
    /\ runs \in 0 .. MaxRuns /\ crashes \in 0 .. MaxCrashes /\ failures \in 0 .. MaxFailures
    /\ failed \subseteq Paths \X Marks

Texts(f) == {c.text : c \in {d \in chunks : d.path = f}}
Expected(f) == {file[f]} \ (Blank \cup {Absent})

\* What the next run would skip.
Skipped(f) ==
    /\ \A p \in Processes : run[p].at = "over"
    /\ file[f] \notin Large \cup {Absent}
    /\ manifest[f] = [sha |-> file[f], stat |-> file[f]]

\* A file that the next run would skip has been indexed as it is, whatever was edited during
\* the runs before and wherever they ended (indexer.py:90), unless the store refused it.
UnchangedIsIndexed ==
    \A f \in Paths : Skipped(f) => <<f, manifest[f]>> \in failed \/ Texts(f) = Expected(f)

\* The same of all files.
ClaimedIsIndexed == \A f \in Paths : Skipped(f) => Texts(f) = Expected(f)

\* A run that ends leaves nothing of files that it did not find (indexer.py:99).
RemovedIsGone ==
    [][\A p \in Processes : SaveManifest(p) =>
        \A f \in Paths : run[p].next[f] = NoMark => Texts(f) = {}]_vars
=============================================================================
