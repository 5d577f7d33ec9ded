------------------------------- MODULE History -------------------------------
(***************************************************************************)
(* What the model is told of the conversation: ContextBuilder.build() as   *)
(* far as it reads, compresses and cuts the turns of the session, over the *)
(* rows that SessionManager keeps of them.                                 *)
(*                                                                         *)
(* A row stands for the turns whose content it carries: one when it is the *)
(* turn itself, several when it is the virtual turn that replaces them.  A *)
(* summary tells of every turn that was handed to it as itself, if only of *)
(* its first characters; of a virtual turn it is handed a placeholder and  *)
(* the first 400 characters, which may tell of any of its turns or none.   *)
(* Lengths in characters are not kept: whether a prompt is over its budget *)
(* is a free choice.  ContextPruner.prune() is not here, because it does   *)
(* nothing: it returns its argument up to 10 turns, and is handed at most  *)
(* MAX_HISTORY_TURNS = 10.                                                 *)
(***************************************************************************)
EXTENDS Integers, FiniteSets, SequencesExt

CONSTANTS
    Window,    \* MAX_HISTORY_TURNS
    MaxTurns,  \* bound: turns that get a number
    MaxCrashes \* bound: ends of the process

HistoryAssumption ==
    Window \in Nat \ {0} /\ MaxTurns \in Nat /\ MaxCrashes \in Nat

VARIABLES
    rows,    \* table turns, told apart by what they hold: whose inputs (of), whose answers (said)
    saved,   \* turn_count of the session's row
    count,   \* turn_count of the Session object
    pc,      \* where the turn that is being prepared is
    recent,  \* its recent_turns
    cut,     \* TRUE iff its prompt lost a turn to the budget
    told,    \* history: numbers of the turns that were recorded
    locked,  \* history: those with a priority tag
    again,   \* history: those of which a virtual turn told that was compressed in its turn
    bare,    \* history: those that a digest told of without their answer
    crashes  \* ends of the process so far

table == <<rows, saved, told, locked, again, bare>>
vars == <<table, count, pc, recent, cut, crashes>>

Init ==
    /\ rows = {} /\ saved = 0 /\ count = 0
    /\ pc = "idle" /\ recent = <<>> /\ cut = FALSE
    /\ told = {} /\ locked = {} /\ again = {} /\ bare = {} /\ crashes = 0

Turn(n, tagged) ==
    [num |-> n, of |-> {n}, said |-> {n}, tagged |-> tagged, virtual |-> FALSE]

Told(turns, ofVirtual) == UNION {r.of : r \in {q \in ToSet(turns) : q.virtual = ofVirtual}}

\* The virtual turn: it takes the number of the first turn it replaces, and
\* the tag COMPRESSED, which locks nothing.
Virtual(turns, inputs, answers) ==
    [num |-> turns[1].num, of |-> inputs, said |-> answers, tagged |-> FALSE, virtual |-> TRUE]

\* The model's summary; it has read of some of the turns of earlier summaries.
Summary(turns, read) ==
    LET inputs == Told(turns, FALSE) \cup read
    IN  Virtual(turns, inputs, inputs \cap UNION {r.said : r \in ToSet(turns)})

\* When the model fails: the first 80 characters of each input, a placeholder for a virtual turn.
Digest(turns) == Virtual(turns, Told(turns, FALSE), {})

\* Turns are listed by their number; rows of one number, of which there are none, in any order.
InOrder(turns) ==
    IsInjective(turns) /\ \A i, j \in DOMAIN turns : i < j => turns[i].num <= turns[j].num

Chronological(set) == {turns \in SeqOf(set, Window) : ToSet(turns) = set /\ InOrder(turns)}

\* The last Window rows of the session, oldest first.
RecentTurns ==
    {turns \in SeqOf(rows, Window) :
        /\ InOrder(turns)
        /\ \A r \in rows \ ToSet(turns) :
              Len(turns) = Window /\ \A i \in DOMAIN turns : r.num <= turns[i].num}

Content(turns) == UNION {r.of : r \in ToSet(turns)}

------------------------------------------------------------------------------
Read ==
    /\ pc = "idle" /\ recent' \in RecentTurns /\ cut' = FALSE /\ pc' = "read"
    /\ UNCHANGED <<table, count, crashes>>

\* Up to 80 % of the budget, or fewer than four turns: nothing is compressed.
Fits ==
    /\ pc = "read" /\ pc' = "fit"
    /\ UNCHANGED <<table, count, recent, cut, crashes>>

Older == SubSeq(recent, 1, Len(recent) \div 2)
Newer == SubSeq(recent, Len(recent) \div 2 + 1, Len(recent))
Preserved    == {r \in ToSet(Older) : r.tagged}
Aggregatable == {r \in ToSet(Older) : ~r.tagged}

\* Mutants: the virtual turn also replaces the locked turns; the turns are
\* deleted before the transaction that inserts the summary; the budget costs
\* the newest turn.
CompressLocked ==
    /\ pc = "read" /\ Len(recent) >= 4
    /\ rows' = (rows \ ToSet(Older)) \cup {Digest(Older)}
    /\ recent' = <<Digest(Older)>> \o Newer
    /\ pc' = "fit"
    /\ UNCHANGED <<saved, told, locked, again, bare, count, cut, crashes>>

DeletedAlready ==
    /\ pc = "read" /\ Len(recent) >= 4 /\ Aggregatable # {}
    /\ rows' = rows \ Aggregatable
    /\ pc' = "idle" /\ recent' = <<>>
    /\ UNCHANGED <<saved, told, locked, again, bare, count, cut, crashes>>

DropNewest ==
    /\ pc = "fit" /\ Len(recent) > 1
    /\ recent' = Front(recent) /\ cut' = TRUE
    /\ UNCHANGED <<table, count, pc, crashes>>

\* C3: the older half, but for its locked turns, becomes one virtual turn, in
\* the table as in the prompt.
Compress ==
    /\ pc = "read" /\ Len(recent) >= 4
    /\ \E kept \in Chronological(Preserved), gone \in Chronological(Aggregatable) :
          IF gone = <<>>
          THEN recent' = kept \o Newer /\ UNCHANGED <<rows, again, bare>>
          ELSE \E v \in {Digest(gone)} \cup {Summary(gone, read) : read \in SUBSET Told(gone, TRUE)} :
                  /\ rows' = (rows \ ToSet(gone)) \cup {v}
                  /\ recent' = kept \o <<v>> \o Newer
                  /\ again' = again \cup Told(gone, TRUE) /\ bare' = bare \cup (v.of \ v.said)
    /\ pc' = "fit"
    /\ UNCHANGED <<saved, told, locked, count, cut, crashes>>

\* compress_turns() is rolled back: build() raises, and with it the turn.
CompressFails ==
    /\ pc = "read" /\ Len(recent) >= 4 /\ Aggregatable # {}
    /\ pc' = "idle" /\ recent' = <<>>
    /\ UNCHANGED <<table, count, cut, crashes>>

\* Still over the budget: the oldest turn goes, as long as one is left.
Drop ==
    /\ pc = "fit" /\ Len(recent) > 1
    /\ recent' = Tail(recent) /\ cut' = TRUE
    /\ UNCHANGED <<table, count, pc, crashes>>

Built ==
    /\ pc = "fit" /\ pc' = "built"
    /\ UNCHANGED <<table, count, recent, cut, crashes>>

\* record_turn(), at the end of a turn or of the chat path, which builds no
\* prompt: the Session object counts first, the transaction follows.
Record(tagged) ==
    /\ pc \in {"idle", "built"} /\ count < MaxTurns
    /\ count' = count + 1 /\ saved' = count'
    /\ rows' = rows \cup {Turn(count', tagged)}
    /\ told' = told \cup {count'}
    /\ locked' = IF tagged THEN locked \cup {count'} ELSE locked
    /\ pc' = "idle" /\ recent' = <<>> /\ UNCHANGED <<again, bare, cut, crashes>>

RecordFails ==
    /\ pc \in {"idle", "built"} /\ count < MaxTurns
    /\ count' = count + 1 /\ pc' = "idle" /\ recent' = <<>>
    /\ UNCHANGED <<table, cut, crashes>>

\* The next process resumes the session, whose row was never closed.
Crash ==
    /\ crashes < MaxCrashes /\ crashes' = crashes + 1
    /\ count' = saved /\ pc' = "idle" /\ recent' = <<>>
    /\ UNCHANGED <<table, cut>>

Next ==
    \/ Read \/ Fits \/ Compress \/ CompressFails \/ Drop \/ Built
    \/ \E tagged \in BOOLEAN : Record(tagged)
    \/ RecordFails \/ Crash

Spec == Init /\ [][Next]_vars

------------------------------------------------------------------------------
\* Rows carry recorded turns only, and the prompt lists rows of the table.
TypeOK ==
    /\ rows \subseteq [num : told, of : SUBSET told, said : SUBSET told, tagged : BOOLEAN,
                       virtual : BOOLEAN]
    /\ saved \in 0 .. MaxTurns /\ count \in saved .. MaxTurns
    /\ pc \in {"idle", "read", "fit", "built"} /\ ToSet(recent) \subseteq rows
    /\ cut \in BOOLEAN /\ told \subseteq 1 .. saved /\ locked \cup again \cup bare \subseteq told
    /\ crashes \in 0 .. MaxCrashes

\* However often the session is compressed, cut, rolled back and resumed, what
\* was said in a recorded turn is in the table, as the turn or in the virtual
\* turn that replaced it, until that one is compressed in its turn; of its
\* answer, if no digest has left that out (context_builder.py:790).
NothingForgotten ==
    \A n \in told \ again : \E r \in rows : n \in r.of /\ (n \in r.said \/ n \in bare)

\* What a summary told of is told of by the next one (context_builder.py:790,
\* "better than losing the turns entirely").
SummariesLast == \A n \in told : \E r \in rows : n \in r.of

\* A turn that was recorded with a priority tag is never summarised.
LockedIsKept == \A n \in locked : Turn(n, TRUE) \in rows

\* Whatever was compressed, and whatever the budget cost it, a prompt ends
\* with the turn before it, as that was recorded.
NewestIsShown ==
    pc = "built" /\ told # {} =>
        LET newest == CHOOSE n \in told : \A k \in told : k <= n
        IN  recent[Len(recent)] \in {Turn(newest, tagged) : tagged \in BOOLEAN}

\* A prompt that lost nothing to the budget tells of every turn: what is too
\* old to be listed is in a summary, as the pruner is there to see to.
EveryTurnIsTold == pc = "built" /\ ~cut => told \subseteq Content(recent)

==============================================================================
