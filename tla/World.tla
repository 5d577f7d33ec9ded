------------------------------- MODULE World -------------------------------
(***************************************************************************)
(* The world model: the knowledge graph in the memory of each process and  *)
(* in the tables all processes share (silex/world/graph.py), the           *)
(* contradictions and hypotheses of a turn (contradictions.py,             *)
(* hypotheses.py, core/cognitive_loop.py) and the daemon's pruning         *)
(* (scripts/daemon.py).                                                    *)
(*                                                                         *)
(* A turn writes the graph inside the one transaction that records it; the *)
(* write lock lets one such transaction run at a time.  Two contents are   *)
(* one concept iff find_similar_node() takes them for the same.  Strengths *)
(* and counts are left out; a confidence is low or not.                    *)
(***************************************************************************)
EXTENDS Naturals, FiniteSets

CONSTANTS
    Concepts,  \* what the nodes are about
    Missed,    \* concepts the search of the tables may overlook: more than fifty rows share
               \* a word of theirs, or they have no word of four letters
    Processes, \* console, gateway, worker: each with a graph in memory
    MaxTurns,  \* bound: turns
    MaxLoads,  \* bound: restarts
    MaxPrunes  \* bound: pruning passes that delete a row

WorldAssumption ==
    Missed \subseteq Concepts /\ {MaxTurns, MaxLoads, MaxPrunes} \subseteq Nat

VARIABLES
    rows,    \* rows of knowledge_nodes about a concept
    low,     \* concepts whose rows have a confidence below 0.5
    links,   \* rows of causal_edges from one concept to another
    contras, \* rows of contradictions
    hyp,     \* status of a hypothesis: none, pending, confirmed, denied
    mem,     \* per process: concepts with a node in memory
    dead,    \* per process: those whose node has no row
    memE,    \* per process: edges in memory
    turn,    \* the process whose turn holds the transaction, or Nobody
    before,  \* the tables as they were at BEGIN
    fresh,   \* concepts inserted by this turn
    asked,   \* TRUE iff the operator's command has read the hypothesis as pending
    failed,  \* history: a pruning pass failed
    turns, loads, prunes

tables == <<rows, low, links, contras, hyp>>
memory == <<mem, dead, memE>>
bounds == <<turns, loads, prunes>>
vars == <<tables, memory, turn, before, fresh, asked, failed, bounds>>

Nobody == "nobody"
Pairs == {e \in Concepts \X Concepts : e[1] # e[2]}
Stored == {c \in Concepts : rows[c] > 0}

Init ==
    /\ rows = [c \in Concepts |-> 0] /\ low = {} /\ links = [e \in Pairs |-> 0] /\ contras = {}
    /\ hyp = "none"
    /\ mem = [p \in Processes |-> {}] /\ dead = mem /\ memE = mem
    /\ turn = Nobody /\ before = tables /\ fresh = {} /\ asked = FALSE /\ failed = FALSE
    /\ turns = 0 /\ loads = 0 /\ prunes = 0

-----------------------------------------------------------------------------
(* The transaction of a turn. *)

\* BEGIN IMMEDIATE.
Begin(p) ==
    /\ turn = Nobody /\ turns < MaxTurns /\ turns' = turns + 1
    /\ turn' = p /\ before' = tables /\ fresh' = {}
    /\ UNCHANGED <<tables, memory, asked, failed, loads, prunes>>

Commit(p) ==
    /\ turn = p /\ turn' = Nobody /\ before' = tables /\ fresh' = {}
    /\ UNCHANGED <<tables, memory, asked, failed, bounds>>

\* A later step of the turn fails, or the turn is cancelled: the tables go back, the graph
\* in memory does not.
Rollback(p) ==
    /\ turn = p /\ turn' = Nobody /\ fresh' = {}
    /\ rows' = before[1] /\ low' = before[2] /\ links' = before[3] /\ contras' = before[4]
    /\ hyp' = before[5] /\ UNCHANGED before
    /\ dead' = [dead EXCEPT ![p] = @ \cup (fresh \cap mem[p])]
    /\ UNCHANGED <<mem, memE, asked, failed, bounds>>

\* find_similar_node(): the memory, then the tables, which may overlook a row.
Found(p, c, over) == c \in mem[p] \/ (rows[c] > 0 /\ ~(over /\ c \in Missed))

\* Mutant: only the memory is searched.
FoundInMemory(p, c, over) == c \in mem[p]

\* find_similar_node()
IsKnown(p, c, over) == Found(p, c, over)

\* add_node() for each concept of C that is not known: a row first, then a node.  One that
\* only the tables know comes into memory without its edges.
AddNodes(p, C, over, weak) ==
    LET ins == {c \in C : ~IsKnown(p, c, over)}
    IN  /\ \A c \in ins : rows[c] < 2
        /\ rows' = [c \in Concepts |-> IF c \in ins THEN rows[c] + 1 ELSE rows[c]]
        /\ mem' = [mem EXCEPT ![p] = @ \cup C] /\ fresh' = fresh \cup ins
        /\ low' = IF weak THEN low \cup ins ELSE low \ ins

\* add_edge(): an edge the memory has is reinforced; the foreign key refuses a node
\* without a row.
AddEdge(p, e) ==
    IF e \in memE[p] \/ {e[1], e[2]} \cap dead[p] # {}
    THEN UNCHANGED <<links, memE>>
    ELSE /\ links[e] < 2 /\ links' = [links EXCEPT ![e] = @ + 1]
         /\ memE' = [memE EXCEPT ![p] = @ \cup {e}]

\* _process_causal_observations(): the edge may fail by itself, and is then skipped.
Observe(p, e) ==
    /\ turn = p
    /\ \E over, weak \in BOOLEAN : AddNodes(p, {e[1], e[2]}, over, weak)
    /\ AddEdge(p, e) \/ UNCHANGED <<links, memE>>
    /\ UNCHANGED <<contras, hyp, dead, turn, before, asked, failed, bounds>>

\* process_contradiction(): two nodes of low confidence, the record, the edge, and the
\* losing claim is downgraded.  A node without a row ends it at the record.
Contradict(p, e) ==
    /\ turn = p
    /\ \E over \in BOOLEAN, loser \in {e[1], e[2]}, sinks \in BOOLEAN :
          LET weak == IF sinks THEN {loser} ELSE {}
              ins == {c \in {e[1], e[2]} : ~IsKnown(p, c, over)}
              refused == {e[1], e[2]} \cap dead[p] # {}
          IN  /\ \A c \in ins : rows[c] < 2
              /\ rows' = [c \in Concepts |-> IF c \in ins THEN rows[c] + 1 ELSE rows[c]]
              /\ mem' = [mem EXCEPT ![p] = @ \cup {e[1], e[2]}] /\ fresh' = fresh \cup ins
              /\ low' = low \cup ins \cup (IF refused THEN {} ELSE weak)
              /\ contras' = IF refused THEN contras ELSE contras \cup {e}
    /\ AddEdge(p, e)
    /\ UNCHANGED <<hyp, dead, turn, before, asked, failed, bounds>>

\* store_hypothesis(), _process_hypothesis_resolutions()
Suppose(p) ==
    /\ turn = p /\ hyp = "none" /\ hyp' = "pending"
    /\ UNCHANGED <<rows, low, links, contras, memory, turn, before, fresh, asked, failed, bounds>>

Resolve(p, verdict) ==
    /\ turn = p /\ hyp = "pending" /\ hyp' = verdict
    /\ UNCHANGED <<rows, low, links, contras, memory, turn, before, fresh, asked, failed, bounds>>

-----------------------------------------------------------------------------
(* Outside a turn. *)

\* load_relevant(): the nodes a query matches, and the edges between them.
Load(p) ==
    /\ turn # p /\ loads < MaxLoads /\ loads' = loads + 1
    /\ LET there == IF turn = Nobody THEN Stored ELSE {c \in Concepts : before[1][c] > 0}
           edges == IF turn = Nobody THEN links ELSE before[3]
       IN \E S \in SUBSET there :
             /\ mem' = [mem EXCEPT ![p] = S] /\ dead' = [dead EXCEPT ![p] = {}]
             /\ memE' = [memE EXCEPT ![p] = {e \in Pairs : {e[1], e[2]} \subseteq S /\ edges[e] > 0}]
    /\ UNCHANGED <<tables, turn, before, fresh, asked, failed, turns, prunes>>

\* The daemon's pass, one DELETE of the nodes that are old and of low confidence: a node
\* with an edge or a contradiction makes it fail as a whole.
Prune(S) ==
    /\ turn = Nobody /\ S # {} /\ S \subseteq low \cap Stored
    /\ LET held == {c \in S : \/ \E e \in Pairs : links[e] > 0 /\ c \in {e[1], e[2]}
                              \/ \E e \in contras : c \in {e[1], e[2]}}
       IN IF held # {} THEN failed' = TRUE /\ UNCHANGED <<rows, dead, prunes>>
          ELSE /\ prunes < MaxPrunes /\ prunes' = prunes + 1
               /\ rows' = [c \in Concepts |-> IF c \in S THEN 0 ELSE rows[c]]
               /\ dead' = [p \in Processes |-> dead[p] \cup (S \cap mem[p])]
               /\ UNCHANGED failed
    /\ UNCHANGED <<low, links, contras, hyp, mem, memE, turn, before, fresh, asked, turns, loads>>

\* resolve_hypothesis(): the operator's command reads what is committed, then writes.
OperatorAsks ==
    /\ ~asked /\ (IF turn = Nobody THEN hyp ELSE before[5]) = "pending" /\ asked' = TRUE
    /\ UNCHANGED <<tables, memory, turn, before, fresh, failed, bounds>>

OperatorResolves(verdict) ==
    /\ asked /\ turn = Nobody /\ asked' = FALSE /\ hyp' = verdict
    /\ UNCHANGED <<rows, low, links, contras, memory, turn, before, fresh, failed, bounds>>

-----------------------------------------------------------------------------

Next ==
    \/ \E p \in Processes :
          \/ Begin(p) \/ Commit(p) \/ Rollback(p) \/ Suppose(p) \/ Load(p)
          \/ \E e \in Pairs : Observe(p, e) \/ Contradict(p, e)
          \/ \E verdict \in {"confirmed", "denied"} : Resolve(p, verdict)
    \/ \E S \in SUBSET Concepts : Prune(S)
    \/ OperatorAsks
    \/ \E verdict \in {"confirmed", "denied"} : OperatorResolves(verdict)

Spec == Init /\ [][Next]_vars

-----------------------------------------------------------------------------

TypeOK ==
    /\ rows \in [Concepts -> 0 .. 2] /\ links \in [Pairs -> 0 .. 2]
    /\ low \subseteq Concepts /\ contras \subseteq Pairs /\ fresh \subseteq Concepts
    /\ hyp \in {"none", "pending", "confirmed", "denied"} /\ turn \in Processes \cup {Nobody}
    /\ \A p \in Processes : dead[p] \subseteq mem[p] /\ mem[p] \subseteq Concepts /\ memE[p] \subseteq Pairs
    /\ {asked, failed} \subseteq BOOLEAN

\* Each process holds a part of the graph and they all write it, yet a concept has one
\* row: the memory is searched, then the tables, under the write lock (graph.py:247,
\* "two-tier cache/DB strategy").
OneRowPerConcept == \A c \in Concepts \ Missed : rows[c] <= 1

\* So has a concept that the search may overlook.
EveryConceptOnce == \A c \in Concepts : rows[c] <= 1

\* An edge is one row too: "Same typed edge already exists - reinforce only that
\* relationship" (graph.py:391).
OneRowPerEdge == \A e \in Pairs : links[e] <= 1

\* The node in memory has a row: "All mutations go through SQLite first (source of
\* truth), then update the in-memory graph" (graph.py:9).
GraphFollowsTables == turn = Nobody => \A p \in Processes : dead[p] = {}

\* A hypothesis is resolved once (cognitive_loop.py:1766, "Mark a pending hypothesis").
HypothesisIsFinal ==
    [][turn = Nobody /\ hyp \in {"confirmed", "denied"} => hyp' = hyp]_hyp

\* Pruning removes what it selects.
PruningWorks == ~failed

=============================================================================
