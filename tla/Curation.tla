------------------------------ MODULE Curation ------------------------------
(***************************************************************************)
(* How memories are curated: the /memories, /remember and /forget commands *)
(* of the console and the memory tools of the MCP server over the table    *)
(* memories, beside the two tasks every process starts with: the weekly    *)
(* consolidation, which replaces rows by a synthesis of them, and the      *)
(* digest of the memories that every prompt carries.                       *)
(*                                                                         *)
(* The id of a memory is a hash of its content, so a row is named by its   *)
(* content, here a number: the smaller, the more important, which only     *)
(* orders the rows of a listing.  The score, the ranks and the budget of a *)
(* recall choose among more rows than there are here.  The vector index is *)
(* MemoryStore's.                                                          *)
(***************************************************************************)
EXTENDS Integers, FiniteSets, SequencesExt

CONSTANTS
    Facts,       \* what people and turns say
    Syntheses,   \* what the model writes in place of several facts
    Blocked,     \* those that the memory guard refuses
    Bad,         \* those whose row no longer matches its signature
    Quorum,      \* fewest rows that are consolidated (20)
    Runs,        \* processes over the database
    MaxCalls,    \* bound: explicit remembers and forgets
    MaxClusters  \* bound: clusters of one answer

Contents == Facts \cup Syntheses

CurationAssumption ==
    /\ Contents \subseteq Nat /\ Facts \cap Syntheses = {}
    /\ Blocked \subseteq Contents /\ Bad \subseteq Facts
    /\ Quorum \in Nat /\ MaxCalls \in Nat /\ MaxClusters \in Nat

VARIABLES
    row,      \* table memories: "none", "live" or "archived"
    kids,     \* child_memory_ids; {} is a memory of level 1
    stamped,  \* TRUE iff last_memory_consolidation_at is of this week
    saved,    \* memory_summary of the session's row: what it was made from
    pc,       \* where the consolidation of a process is
    due,      \* what its fetch returned
    left,     \* clusters its answer may still hold
    todo,     \* children it has still to archive
    digest,   \* memory_summary of its Session object
    rpc,      \* where its refresh of the digest is
    draft,    \* what that read
    shown,    \* the listing on the user's screen
    calls,    \* explicit calls so far
    told,     \* history: what was ever stored, but for syntheses
    gone,     \* history: what was deleted, and what it stood for
    slips,    \* history: deletions of another memory than the one shown
    refused,  \* history: explicit remembers that raised
    weekly    \* history: consolidations run to the end

table == <<row, kids>>
job   == <<pc, due, left, todo>>
fresh == <<rpc, draft>>
hist  == <<told, gone, slips, refused>>
vars  == <<table, stamped, saved, job, digest, fresh, shown, calls, hist, weekly>>

Init ==
    /\ row = [c \in Contents |-> IF c \in Bad THEN "live" ELSE "none"]
    /\ kids = [c \in Contents |-> {}]
    /\ stamped = FALSE /\ saved = {}
    /\ pc = [r \in Runs |-> "off"] /\ due = [r \in Runs |-> {}]
    /\ left = [r \in Runs |-> 0] /\ todo = [r \in Runs |-> {}]
    /\ digest = [r \in Runs |-> {}]
    /\ rpc = [r \in Runs |-> "off"] /\ draft = [r \in Runs |-> {}]
    /\ shown = <<>> /\ calls = 0
    /\ told = Bad /\ gone = {} /\ slips = {} /\ refused = {} /\ weekly = 0

\* What a row stands for: its children, and theirs.  A synthesis may be worded as a fact that
\* has been deleted, and then be a child itself.
Stands(c) ==
    {k \in Facts : \A S \in SUBSET Facts :
        kids[c] \subseteq S /\ (\A j \in S : kids[j] \subseteq S) => k \in S}

Live    == {c \in Contents : row[c] = "live"}
Level1  == {c \in Live : kids[c] = {}}

\* _row_to_memory() answers None for a tampered row.
Recallable == Live \ Bad

\* get_by_index() counts every row, archived or unreadable ones too; the
\* listing shows those it could read.
Rows    == SetToSortSeq({c \in Contents : row[c] # "none"}, <)
Listing == SelectSeq(Rows, LAMBDA c : c \notin Bad)

------------------------------------------------------------------------------
\* The INSERT of add_manual(); the content of an archived row is still taken.
Insert(c, of) ==
    /\ c \notin Blocked /\ row[c] = "none"
    /\ row' = [row EXCEPT ![c] = "live"]
    /\ kids' = [kids EXCEPT ![c] = of]

Taken(c) == c \notin Blocked /\ row[c] # "none"

Delete(c) ==
    /\ row' = [row EXCEPT ![c] = "none"]
    /\ kids' = [kids EXCEPT ![c] = {}]
    /\ gone' = gone \cup {c} \cup Stands(c)

\* A turn extracts a fact; _is_duplicate() and admission are MemoryStore's.
Learn(c) ==
    /\ c \notin gone
    /\ Insert(c, {}) /\ told' = told \cup {c}
    /\ UNCHANGED <<stamped, saved, job, digest, fresh, shown, calls, gone, slips, refused, weekly>>

\* /remember, silex_remember_explicit.
Remember(c) ==
    /\ calls < MaxCalls /\ calls' = calls + 1
    /\ \/ Insert(c, {}) /\ told' = told \cup {c} /\ UNCHANGED refused
       \/ Taken(c) /\ refused' = refused \cup {c} /\ UNCHANGED <<table, told>>
    /\ UNCHANGED <<stamped, saved, job, digest, fresh, shown, gone, slips, weekly>>

ListAll ==
    /\ shown # Listing /\ shown' = Listing
    /\ UNCHANGED <<table, stamped, saved, job, digest, fresh, calls, hist, weekly>>

\* /forget n, of a memory the user sees under that number.
Forget(n) ==
    /\ calls < MaxCalls /\ n \in DOMAIN shown /\ calls' = calls + 1
    /\ IF n \in DOMAIN Rows /\ Rows[n] \notin Bad
       THEN /\ Delete(Rows[n])
            /\ slips' = IF Rows[n] = shown[n] THEN slips ELSE slips \cup {Rows[n]}
       ELSE UNCHANGED <<table, gone, slips>>
    /\ UNCHANGED <<stamped, saved, job, digest, fresh, shown, told, refused, weekly>>

\* silex_forget, by the id that a recall, a search or a listing answered.
ForgetById(c) ==
    /\ calls < MaxCalls /\ row[c] # "none" /\ calls' = calls + 1
    /\ Delete(c)
    /\ UNCHANGED <<stamped, saved, job, digest, fresh, shown, told, slips, refused, weekly>>

------------------------------------------------------------------------------
\* initialize() resumes the session and spawns both tasks.
Start(r) ==
    /\ pc[r] = "off"
    /\ pc' = [pc EXCEPT ![r] = IF stamped THEN "done" ELSE "fetch"]
    /\ rpc' = [rpc EXCEPT ![r] = IF saved # {} THEN "done" ELSE "read"]
    /\ digest' = [digest EXCEPT ![r] = saved]
    /\ UNCHANGED <<table, stamped, saved, due, left, todo, draft, shown, calls, hist, weekly>>

\* Too few rows: nothing to do.  A row that cannot be read: m.id of None
\* raises, before the try, and the whole task ends.
Fetch(r) ==
    /\ pc[r] = "fetch"
    /\ pc' = [pc EXCEPT ![r] = IF Cardinality(Level1) < Quorum THEN "decay"
                               ELSE IF Level1 \cap Bad # {} THEN "done" ELSE "merge"]
    /\ due' = [due EXCEPT ![r] = IF pc'[r] = "merge" THEN Level1 ELSE {}]
    /\ left' = [left EXCEPT ![r] = IF pc'[r] = "merge" THEN MaxClusters ELSE 0]
    /\ UNCHANGED <<table, stamped, saved, todo, digest, fresh, shown, calls, hist, weekly>>

Clusters(r) == {of \in SUBSET due[r] : Cardinality(of) > 1}

\* Mutants: the children of a synthesis that the guard blocked are archived
\* all the same; the children are archived before the synthesis is stored.
MergeAnyway(r, c, of) ==
    /\ pc[r] = "merge" /\ left[r] > 0 /\ todo[r] = {} /\ of \in Clusters(r)
    /\ Insert(c, of) \/ (c \in Blocked /\ UNCHANGED table)
    /\ todo' = [todo EXCEPT ![r] = of] /\ left' = [left EXCEPT ![r] = @ - 1]
    /\ UNCHANGED <<pc, due, stamped, saved, digest, fresh, shown, calls, hist, weekly>>

\* One more cluster of the answer: stored, blocked by the guard, or taken,
\* which ends the consolidation with what it has done.
Merge(r, c, of) ==
    /\ pc[r] = "merge" /\ left[r] > 0 /\ todo[r] = {} /\ of \in Clusters(r)
    /\ \/ /\ Insert(c, of)
          /\ todo' = [todo EXCEPT ![r] = of \ {c}] /\ left' = [left EXCEPT ![r] = @ - 1]
          /\ UNCHANGED pc
       \/ /\ c \in Blocked /\ left' = [left EXCEPT ![r] = @ - 1]
          /\ UNCHANGED <<table, todo, pc>>
       \/ /\ Taken(c) /\ left' = [left EXCEPT ![r] = 0]
          /\ UNCHANGED <<table, todo, pc>>
    /\ UNCHANGED <<due, stamped, saved, digest, fresh, shown, calls, hist, weekly>>

Archive(r, c) ==
    /\ pc[r] = "merge" /\ c \in todo[r]
    /\ row' = [row EXCEPT ![c] = IF @ = "live" THEN "archived" ELSE @]
    /\ todo' = [todo EXCEPT ![r] = @ \ {c}]
    /\ UNCHANGED <<kids, stamped, saved, pc, due, left, digest, fresh, shown, calls, hist, weekly>>

\* No cluster is left, or the model did not answer.
Merged(r) ==
    /\ pc[r] = "merge" /\ todo[r] = {}
    /\ pc' = [pc EXCEPT ![r] = "decay"]
    /\ due' = [due EXCEPT ![r] = {}] /\ left' = [left EXCEPT ![r] = 0]
    /\ UNCHANGED <<table, stamped, saved, todo, digest, fresh, shown, calls, hist, weekly>>

\* decay_graph_entropy() raises when a node it deletes has an edge.
DecayFails(r) ==
    /\ pc[r] = "decay" /\ pc' = [pc EXCEPT ![r] = "done"] /\ weekly' = weekly + 1
    /\ UNCHANGED <<table, stamped, saved, due, left, todo, digest, fresh, shown, calls, hist>>

Stamp(r) ==
    /\ pc[r] = "decay" /\ pc' = [pc EXCEPT ![r] = "clear"]
    /\ stamped' = TRUE /\ weekly' = weekly + 1
    /\ UNCHANGED <<table, saved, due, left, todo, digest, fresh, shown, calls, hist>>

Clear(r) ==
    /\ pc[r] = "clear" /\ pc' = [pc EXCEPT ![r] = "done"]
    /\ saved' = {} /\ digest' = [digest EXCEPT ![r] = {}]
    /\ UNCHANGED <<table, stamped, due, left, todo, fresh, shown, calls, hist, weekly>>

------------------------------------------------------------------------------
\* So few rows are all in the pools of a recall, and within its budget.
ReadMemories(r) ==
    /\ rpc[r] = "read"
    /\ rpc' = [rpc EXCEPT ![r] = IF Recallable = {} THEN "done" ELSE "write"]
    /\ draft' = [draft EXCEPT ![r] = Recallable]
    /\ UNCHANGED <<table, stamped, saved, job, digest, shown, calls, hist, weekly>>

WriteDigest(r) ==
    /\ rpc[r] = "write" /\ rpc' = [rpc EXCEPT ![r] = "done"]
    /\ saved' = draft[r] /\ digest' = [digest EXCEPT ![r] = draft[r]]
    /\ draft' = [draft EXCEPT ![r] = {}]
    /\ UNCHANGED <<table, stamped, job, shown, calls, hist, weekly>>

\* The process ends, in the middle of whatever it does.
Stop(r) ==
    /\ pc[r] # "off" /\ <<pc[r], rpc[r]>> # <<"stopped", "done">>
    /\ pc' = [pc EXCEPT ![r] = "stopped"] /\ rpc' = [rpc EXCEPT ![r] = "done"]
    /\ todo' = [todo EXCEPT ![r] = {}] /\ digest' = [digest EXCEPT ![r] = {}]
    /\ due' = [due EXCEPT ![r] = {}] /\ left' = [left EXCEPT ![r] = 0]
    /\ draft' = [draft EXCEPT ![r] = {}]
    /\ UNCHANGED <<table, stamped, saved, shown, calls, hist, weekly>>

Next ==
    \/ \E c \in Facts : Learn(c) \/ Remember(c)
    \/ \E c \in Contents : ForgetById(c)
    \/ ListAll
    \/ \E n \in 1..Len(shown) : Forget(n)
    \/ \E r \in Runs :
          \/ Start(r) \/ Fetch(r) \/ Merged(r) \/ DecayFails(r) \/ Stamp(r) \/ Clear(r)
          \/ \E c \in Contents, of \in SUBSET Facts : Merge(r, c, of)
          \/ \E c \in Facts : Archive(r, c)
          \/ ReadMemories(r) \/ WriteDigest(r) \/ Stop(r)

Spec == Init /\ [][Next]_vars

------------------------------------------------------------------------------
\* Every variable keeps its type; a level-1 memory has no children, and a
\* synthesis has facts only.
TypeOK ==
    /\ row \in [Contents -> {"none", "live", "archived"}]
    /\ kids \in [Contents -> SUBSET Facts]
    /\ stamped \in BOOLEAN /\ saved \subseteq Contents
    /\ pc \in [Runs -> {"off", "fetch", "merge", "decay", "clear", "done", "stopped"}]
    /\ due \in [Runs -> SUBSET Contents] /\ left \in [Runs -> 0..MaxClusters]
    /\ todo \in [Runs -> SUBSET Facts]
    /\ digest \in [Runs -> SUBSET Contents] /\ draft \in [Runs -> SUBSET Contents]
    /\ rpc \in [Runs -> {"off", "read", "write", "done"}]
    /\ Range(shown) \subseteq Contents /\ calls \in 0..MaxCalls
    /\ told \subseteq Facts /\ gone \subseteq Contents
    /\ slips \subseteq Contents /\ refused \subseteq Facts
    /\ weekly \in 0..Cardinality(Runs)

\* Consolidation loses nothing: a fact that was stored, and that nobody has
\* deleted, is a live row or among what one stands for, whatever the guard blocks and
\* wherever a process ends (pruner.py:155-165, and the comment of add_manual).
NothingLost ==
    \A c \in told \ gone : c \in Live \/ \E s \in Live : c \in Stands(s)

\* /forget n deletes the memory that the listing shows under n ("Use /forget
\* <#> to remove a memory", run.py:182): it does not.
ForgetsTheListed == slips = {}

\* "user explicitly wants it" (memory_store.py:495): what the user asked to
\* be remembered can be recalled.  An archived row keeps the id of its
\* content, so that the INSERT raises: it does not hold.
ExplicitIsRecalled == refused \ gone \subseteq Live \cup Bad

\* "Run weekly memory consolidation" (cognitive_loop.py:385): once a week.
WeeklyIsOnce == weekly <= 1

\* What was deleted is not in the digest that the next prompt carries.
DeletedIsNotTold == \A r \in Runs : digest[r] \cap gone = {}

\* A synthesis does not tell what was deleted before it was stored.
DeletedIsNotKept == \A s \in Live : kids[s] \cap gone = {}
=============================================================================
