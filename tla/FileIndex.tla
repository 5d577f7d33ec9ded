------------------------------ MODULE FileIndex ------------------------------
(***************************************************************************)
(* FileIndexer: folders that the user has indexed with `/index` in a       *)
(* console, in the Chroma collection kinthic_files.  A console runs one    *)
(* command at a time, in a thread; the files are edited meanwhile, and     *)
(* other processes have consoles of their own.                             *)
(*                                                                         *)
(* A process keeps a handle of the collection that it found when it        *)
(* started.  `/index --clear` deletes the collection and makes a new one,  *)
(* and a handle of the old one raises.                                     *)
(***************************************************************************)
EXTENDS Naturals, Sequences

CONSTANTS
    Consoles,
    Paths,
    Large,        \* versions that are too large
    Blank,        \* versions without text
    MaxEdits,     \* bound: versions
    MaxCommands,  \* bound: commands
    MaxCrashes,   \* bound: processes that end and are started again
    Overlaps,     \* TRUE iff two consoles run commands at a time
    None

FileIndexAssumption ==
    /\ {MaxEdits, MaxCommands, MaxCrashes} \subseteq Nat
    /\ Large \cup Blank \subseteq Nat /\ Overlaps \in BOOLEAN /\ None \notin Paths

VARIABLES
    file,      \* version of each file; Absent if there is none
    edits,     \* versions so far
    gen, gens, \* the collection: its number, or 0 if there is none; collections so far
    docs,      \* per path: the versions it was indexed as, each with new ids
    handle,    \* per console: the number of the collection it has
    cmd,       \* per console: its command
    commands, crashes,
    told       \* per path: the version that a command counted as indexed or unchanged (history)

vars == <<file, edits, gen, gens, docs, handle, cmd, commands, crashes, told>>

Absent == 0
Over == [at |-> "over", todo |-> {}, cur |-> None, text |-> 0]
Nothing == [f \in Paths |-> <<>>]

Init ==
    /\ file = [f \in Paths |-> Absent] /\ edits = 0
    /\ gen = 1 /\ gens = 1 /\ docs = Nothing /\ handle = [c \in Consoles |-> 1]
    /\ cmd = [c \in Consoles |-> Over] /\ commands = 0 /\ crashes = 0
    /\ told = [f \in Paths |-> Absent]

Files == <<file, edits>>
Collection == <<gen, gens, docs>>
Counts == <<commands, crashes>>
To(c, r) == cmd' = [cmd EXCEPT ![c] = r]
Walking(r) == [r EXCEPT !.at = "walk", !.cur = None, !.text = 0]
Reaches(c) == handle[c] = gen

-----------------------------------------------------------------------------
(* The user *)

Edit(f) ==
    /\ edits < MaxEdits /\ edits' = edits + 1 /\ file' = [file EXCEPT ![f] = edits']
    /\ UNCHANGED <<Collection, handle, cmd, Counts, told>>

Remove(f) ==
    /\ file[f] # Absent /\ file' = [file EXCEPT ![f] = Absent]
    /\ UNCHANGED <<edits, Collection, handle, cmd, Counts, told>>

-----------------------------------------------------------------------------
(* `/index <folder>` *)

Type(c, r) ==
    /\ cmd[c].at = "over" /\ commands < MaxCommands /\ commands' = commands + 1
    /\ Overlaps \/ \A d \in Consoles : cmd[d].at = "over"
    /\ To(c, r)
    /\ UNCHANGED <<Files, Collection, handle, crashes, told>>

IndexFolder(c) ==
    Type(c, [at |-> "walk", todo |-> {f \in Paths : file[f] # Absent}, cur |-> None, text |-> 0])

\* _walk(): stat() is outside of the `try`, a file that is gone ends the command.
Walk(c, f) ==
    LET r == [cmd[c] EXCEPT !.todo = @ \ {f}]
    IN  /\ cmd[c].at = "walk" /\ f \in cmd[c].todo
        /\ To(c, IF file[f] = Absent THEN Over
                 ELSE IF file[f] \in Large THEN r ELSE [r EXCEPT !.at = "read", !.cur = f])
        /\ UNCHANGED <<Files, Collection, handle, Counts, told>>

\* A file that is gone by now is counted as an error.
ReadText(c) ==
    LET r == cmd[c]
    IN  /\ r.at = "read"
        /\ To(c, IF file[r.cur] = Absent THEN Walking(r)
                 ELSE [r EXCEPT !.at = "look", !.text = file[r.cur]])
        /\ UNCHANGED <<Files, Collection, handle, Counts, told>>

\* The collection is gone, or another one: an error for each file.
Unreachable(c) ==
    /\ cmd[c].at \in {"look", "delete", "add"} /\ ~Reaches(c) /\ To(c, Walking(cmd[c]))
    /\ UNCHANGED <<Files, Collection, handle, Counts, told>>

Count(r) == told' = [told EXCEPT ![r.cur] = r.text]

\* get(limit=1) returns some chunk of the file; one with this text's hash settles it.
Unchanged(c) ==
    LET r == cmd[c]
    IN  /\ r.at = "look" /\ Reaches(c) /\ \E i \in DOMAIN docs[r.cur] : docs[r.cur][i] = r.text
        /\ To(c, Walking(r)) /\ Count(r)
        /\ UNCHANGED <<Files, Collection, handle, Counts>>

Changed(c) ==
    LET r == cmd[c]
        d == docs[r.cur]
    IN  /\ r.at = "look" /\ Reaches(c) /\ (d = <<>> \/ \E i \in DOMAIN d : d[i] # r.text)
        /\ To(c, [r EXCEPT !.at = "delete"])
        /\ UNCHANGED <<Files, Collection, handle, Counts, told>>

\* Mutant: the old chunks are left when the text is blank.
DeleteWithText(c) ==
    LET r == cmd[c]
    IN  /\ r.at = "delete" /\ Reaches(c)
        /\ docs' = IF r.text \in Blank THEN docs ELSE [docs EXCEPT ![r.cur] = <<>>]
        /\ IF r.text \in Blank THEN To(c, Walking(r)) /\ Count(r)
           ELSE To(c, [r EXCEPT !.at = "add"]) /\ UNCHANGED told
        /\ UNCHANGED <<Files, gen, gens, handle, Counts>>

Delete(c) ==
    LET r == cmd[c]
    IN  /\ r.at = "delete" /\ Reaches(c) /\ docs' = [docs EXCEPT ![r.cur] = <<>>]
        /\ IF r.text \in Blank THEN To(c, Walking(r)) /\ Count(r)
           ELSE To(c, [r EXCEPT !.at = "add"]) /\ UNCHANGED told
        /\ UNCHANGED <<Files, gen, gens, handle, Counts>>

Add(c) ==
    LET r == cmd[c]
    IN  /\ r.at = "add" /\ Reaches(c) /\ docs' = [docs EXCEPT ![r.cur] = Append(@, r.text)]
        /\ To(c, Walking(r)) /\ Count(r)
        /\ UNCHANGED <<Files, gen, gens, handle, Counts>>

Indexed(c) ==
    /\ cmd[c].at = "walk" /\ cmd[c].todo = {} /\ To(c, Over)
    /\ UNCHANGED <<Files, Collection, handle, Counts, told>>

-----------------------------------------------------------------------------
(* `/index --clear`, and the start of a process *)

Clear(c) == Type(c, [Over EXCEPT !.at = "clear"])

\* There may be none: this raises, and the console is told that the index was cleared.
DeleteCollection(c) ==
    /\ cmd[c].at = "clear" /\ gen' = 0 /\ docs' = Nothing
    /\ To(c, IF gen = 0 THEN Over ELSE [cmd[c] EXCEPT !.at = "create"])
    /\ told' = [f \in Paths |-> Absent]
    /\ UNCHANGED <<Files, gens, handle, Counts>>

\* get_or_create_collection()
Open(c) ==
    /\ gens' = IF gen = 0 THEN gens + 1 ELSE gens
    /\ gen' = IF gen = 0 THEN gens' ELSE gen
    /\ handle' = [handle EXCEPT ![c] = gen'] /\ UNCHANGED docs

Create(c) ==
    /\ cmd[c].at = "create" /\ Open(c) /\ To(c, Over)
    /\ UNCHANGED <<Files, Counts, told>>

\* The process ends, whatever it was doing, and is started again.
Restart(c) ==
    /\ crashes < MaxCrashes /\ crashes' = crashes + 1 /\ Open(c) /\ To(c, Over)
    /\ UNCHANGED <<Files, commands, told>>

Next ==
    \/ \E f \in Paths : Edit(f) \/ Remove(f)
    \/ \E c \in Consoles :
        \/ IndexFolder(c) \/ ReadText(c) \/ Unreachable(c) \/ Unchanged(c) \/ Changed(c)
        \/ Delete(c) \/ Add(c) \/ Indexed(c)
        \/ Clear(c) \/ DeleteCollection(c) \/ Create(c) \/ Restart(c)
        \/ \E f \in Paths : Walk(c, f)

Spec == Init /\ [][Next]_vars

-----------------------------------------------------------------------------
\* Every variable keeps its type.
TypeOK ==
    /\ file \in [Paths -> 0 .. MaxEdits] /\ edits \in 0 .. MaxEdits
    /\ gens \in 1 .. (1 + MaxCommands) /\ gen \in 0 .. gens
    /\ \A f \in Paths : \A i \in DOMAIN docs[f] : docs[f][i] \in 1 .. MaxEdits
    /\ handle \in [Consoles -> 1 .. gens]
    /\ cmd \in [Consoles -> [at : {"over", "walk", "read", "look", "delete", "add", "clear", "create"},
                             todo : SUBSET Paths, cur : Paths \cup {None}, text : 0 .. MaxEdits]]
    /\ commands \in 0 .. MaxCommands /\ crashes \in 0 .. MaxCrashes
    /\ told \in [Paths -> 0 .. MaxEdits]

Expected(v) == IF v \in Blank THEN <<>> ELSE <<v>>

\* A file that a command counted as indexed or unchanged, and that was not edited since, is
\* in the collection once and as it is (file_indexer.py:162), over crashes and the commands
\* of other consoles.
CountedIsIndexed ==
    \A f \in Paths : told[f] # Absent /\ told[f] = file[f] => docs[f] = Expected(told[f])

\* A file is in the collection once.
IndexedOnce == \A f \in Paths : Len(docs[f]) <= 1

\* A console can use the collection that is there.
HandleIsLive == \A c \in Consoles : gen # 0 => Reaches(c)
=============================================================================
