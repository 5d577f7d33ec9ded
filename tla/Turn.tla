-------------------------------- MODULE Turn --------------------------------
(***************************************************************************)
(* A conversation turn: CognitiveLoop.process() from the intent router to  *)
(* the transaction that records it, over the Session object of             *)
(* memory/session.py, the list of tool calls that wait to be logged, and   *)
(* the start, end and crash of the processes that run it.                  *)
(*                                                                         *)
(* An action is what a task runs between two awaits.  The transaction is   *)
(* the lease of WriteQueue: one body at a time, whole commits.  What a     *)
(* model answers and a tool does is a free choice; the search itself is    *)
(* TreeSearch, the memories and their flush are MemoryStore.               *)
(***************************************************************************)
EXTENDS Integers, FiniteSets

CONSTANTS
    Calls,      \* calls of process()
    Bare,       \* those from an HTTP request, whose context has no session
    Procs,      \* processes with a CognitiveLoop
    MaxStarts,  \* bound: startups
    Concurrent, \* TRUE iff a turn may run in a task of its own, beside others
    LateCommit, \* TRUE iff a commit may succeed after its caller gave up
    FlushFails, \* TRUE iff memory.flush() may fail
    MayChild,   \* TRUE iff a turn may spawn a cognitive sub-agent
    Overlaps,   \* TRUE iff two processes may look for the lock at the same time
    Nobody

TurnAssumption ==
    /\ Bare \subseteq Calls /\ MaxStarts \in Nat
    /\ Calls \cap Procs = {} /\ Nobody \notin Calls \cup Procs
    /\ {Concurrent, LateCommit, FlushFails, MayChild, Overlaps} \subseteq BOOLEAN

VARIABLES
    pc,      \* where each call is
    heard,   \* what its caller has heard
    home,    \* the process it runs in
    own,     \* calls that run in a task of their own
    num,     \* turn_number of the Turn it records
    batch,   \* what its transaction has written
    unbound, \* all_turn_tool_ids is not bound: the router raised
    opening, \* processes that have found no lock of a live process
    up,      \* processes whose loop is up
    sess,    \* the Session object of each: [sid, count]; sid 0 is None
    audit,   \* _pending_tool_audit by context: calls whose tools wait to be logged
    lock,    \* the process lock: the process whose pid it holds
    lease,   \* the call whose transaction the database runs
    rows,    \* the sessions table: [count, open] by sid
    turns,   \* the turns table
    logged,  \* action_logs: calls whose tools are logged
    ran,     \* history: calls that have run tools in a session
    starts,  \* startups so far
    shared   \* history: sessions that a startup resumed while a loop had them

place    == <<home, own>>
callVars == <<pc, heard, place, num, batch, unbound, ran>>
procVars == <<opening, up, sess, audit, lock, starts, shared>>
dbVars   == <<rows, turns, logged>>
vars == <<callVars, procVars, lease, dbVars>>

Sids == 1 .. MaxStarts
Empty == [logs |-> {}, row |-> 0]
InFlight == {c \in Calls : pc[c] \notin {"idle", "done"}}

Init ==
    /\ pc = [c \in Calls |-> "idle"] /\ heard = [c \in Calls |-> "none"]
    /\ home = [c \in Calls |-> Nobody] /\ own = {} /\ num = [c \in Calls |-> 0]
    /\ batch = [c \in Calls |-> Empty] /\ unbound = {} /\ ran = {}
    /\ opening = {} /\ up = {} /\ sess = [p \in Procs |-> [sid |-> 0, count |-> 0]]
    /\ audit = [x \in Procs \cup Calls |-> {}] /\ lock = Nobody /\ starts = 0
    /\ shared = {}
    /\ lease = Nobody
    /\ rows = [s \in Sids |-> [count |-> 0, open |-> FALSE]]
    /\ turns = {} /\ logged = {}

Goto(c, there) == pc' = [pc EXCEPT ![c] = there]
Hear(c, what)  == heard' = [heard EXCEPT ![c] = what]
\* _pending_tool_audit is a ContextVar: turns that follow each other in a process's main
\* task share it, one in a task of its own has its own.
Context(c) == IF c \in own THEN c ELSE home[c]
OpenSids == {s \in Sids : rows[s].open}
Session(c) == IF c \in Bare THEN [sid |-> 0, count |-> 0] ELSE sess[home[c]]

-----------------------------------------------------------------------------
(* Processes. *)

\* startup() first looks for the lock: that of a live process refuses, a stale one is
\* removed.
FindLock(p) ==
    /\ p \notin up \cup opening /\ lock \notin up
    /\ starts + Cardinality(opening) < MaxStarts
    /\ Overlaps \/ opening = {}
    /\ opening' = opening \cup {p} /\ lock' = Nobody
    /\ UNCHANGED <<callVars, up, sess, audit, starts, shared, lease, dbVars>>

\* It then writes a lock of its own, whatever is there by now; the latest open session
\* is resumed with the count of its row, or a new one begins.
Startup(p) ==
    /\ p \in opening /\ starts < MaxStarts
    /\ opening' = opening \ {p}
    /\ starts' = starts + 1 /\ up' = up \cup {p} /\ lock' = p
    /\ \/ \E s \in OpenSids :
             /\ \A o \in OpenSids : o <= s
             /\ sess' = [sess EXCEPT ![p] = [sid |-> s, count |-> rows[s].count]]
             /\ shared' = IF \E q \in up : sess[q].sid = s THEN shared \cup {s} ELSE shared
             /\ UNCHANGED rows
       \/ /\ OpenSids = {}
          /\ sess' = [sess EXCEPT ![p] = [sid |-> starts + 1, count |-> 0]]
          /\ rows' = [rows EXCEPT ![starts + 1].open = TRUE] /\ UNCHANGED shared
    /\ audit' = [audit EXCEPT ![p] = {}]
    /\ UNCHANGED <<callVars, lease, turns, logged>>

\* The process is gone, its calls and its transaction with it.
Gone(p) ==
    /\ opening' = opening \ {p} /\ up' = up \ {p}
    /\ sess' = [sess EXCEPT ![p] = [sid |-> 0, count |-> 0]]
    /\ pc' = [c \in Calls |-> IF c \in InFlight /\ home[c] = p THEN "done" ELSE pc[c]]
    /\ heard' = [c \in Calls |-> IF c \in InFlight /\ home[c] = p THEN "dead" ELSE heard[c]]
    /\ lease' = IF lease # Nobody /\ home[lease] = p THEN Nobody ELSE lease
    /\ UNCHANGED <<place, num, batch, unbound, ran, audit, starts, shared, turns, logged>>

Crash(p) == p \in up \cup opening /\ Gone(p) /\ UNCHANGED <<lock, rows>>

\* shutdown(): the session is ended, the lock file removed, whoever it names.
Shutdown(p) ==
    /\ p \in up /\ Gone(p) /\ lock' = Nobody
    /\ rows' = [rows EXCEPT ![sess[p].sid].open = FALSE]

\* A sub-agent in the process is refused the lock by its parent's pid; its shutdown()
\* ends the session that its context inherits and removes the lock.
ChildRefused(c) ==
    /\ MayChild /\ pc[c] = "search" /\ Session(c).sid # 0
    /\ lock' = Nobody /\ rows' = [rows EXCEPT ![Session(c).sid].open = FALSE]
    /\ UNCHANGED <<callVars, opening, up, sess, audit, starts, shared, lease, turns, logged>>

-----------------------------------------------------------------------------
(* The way to an answer. *)

\* A turn in the process's main task comes after the one before it, a request's or a
\* message's runs in a task of its own.
TakesPlace(c, p) ==
    /\ home' = [home EXCEPT ![c] = p]
    /\ \/ Concurrent /\ own' = own \cup {c}
       \/ (\A d \in InFlight \ own : home[d] # p) /\ UNCHANGED own

\* Mutant: the calls of an earlier turn keep waiting to be logged.
StartKeeping(c, p) ==
    /\ pc[c] = "idle" /\ p \in up
    /\ TakesPlace(c, p)
    /\ Goto(c, "route")
    /\ UNCHANGED <<heard, num, batch, unbound, ran, procVars, lease, dbVars>>

\* process() begins by forgetting what waits to be logged in its context.
Start(c, p) ==
    /\ pc[c] = "idle" /\ p \in up
    /\ TakesPlace(c, p)
    /\ Goto(c, "route")
    /\ audit' = [audit EXCEPT ![IF c \in own' THEN c ELSE p] = {}]
    /\ UNCHANGED <<heard, num, batch, unbound, ran, opening, up, sess, lock, starts, shared, lease, dbVars>>

\* The router says CHAT and the fast model has answered: record_turn() counts the turn
\* before its transaction.  Anything else, an error included, goes on to the gate.
Route(c) ==
    /\ pc[c] = "route"
    /\ \/ /\ Session(c).sid # 0 /\ Goto(c, "chat")
          /\ sess' = [sess EXCEPT ![home[c]].count = @ + 1]
          /\ num' = [num EXCEPT ![c] = Session(c).count + 1]
       \/ Goto(c, "gate") /\ UNCHANGED <<sess, num>>
    /\ UNCHANGED <<heard, place, batch, unbound, ran, opening, up, audit, lock, starts, shared, lease, dbVars>>

\* The taste gate objects: the input is answered and not recorded.
Friction(c) ==
    /\ pc[c] = "gate" /\ Goto(c, "done") /\ Hear(c, "friction")
    /\ UNCHANGED <<place, num, batch, unbound, ran, procVars, lease, dbVars>>

\* The gate lets it pass and the context is built, which may raise; then the model is
\* chosen, which may raise before all_turn_tool_ids is bound.
Prepare(c) ==
    /\ pc[c] = "gate"
    /\ \/ Goto(c, "search") /\ UNCHANGED <<heard, unbound>>
       \/ Goto(c, "done") /\ Hear(c, "raised") /\ UNCHANGED unbound
       \/ Goto(c, "save") /\ unbound' = unbound \cup {c} /\ UNCHANGED heard
    /\ UNCHANGED <<place, num, batch, ran, procVars, lease, dbVars>>

\* A tool of the search has run: in a session it will be logged.
RunTool(c) ==
    /\ pc[c] = "search" /\ Session(c).sid # 0
    /\ audit' = [audit EXCEPT ![Context(c)] = @ \cup {c}] /\ ran' = ran \cup {c}
    /\ UNCHANGED <<pc, heard, place, num, batch, unbound, opening, up, sess, lock, starts, shared, lease, dbVars>>

\* The search has an answer, or has raised and an apology stands for it.
Searched(c) ==
    /\ pc[c] = "search" /\ Goto(c, "save")
    /\ UNCHANGED <<heard, place, num, batch, unbound, ran, procVars, lease, dbVars>>

-----------------------------------------------------------------------------
(* Recording. *)

Lease(c) ==
    /\ pc[c] \in {"chat", "save"} /\ lease = Nobody
    /\ lease' = c /\ Goto(c, IF pc[c] = "chat" THEN "chatting" ELSE "saving")
    /\ UNCHANGED <<heard, place, num, batch, unbound, ran, procVars, dbVars>>

\* Mutant: the row has the count without this turn.
WriteStaleRow(c) ==
    /\ pc[c] = "chatting" /\ lease = c /\ Goto(c, "chatted")
    /\ batch' = [batch EXCEPT ![c] = [logs |-> {}, row |-> Session(c).count - 1]]
    /\ UNCHANGED <<heard, place, num, unbound, ran, procVars, lease, dbVars>>

\* The body of record_turn() on the chat path: the row gets the count as it is now.
WriteChat(c) ==
    /\ pc[c] = "chatting" /\ lease = c /\ Goto(c, "chatted")
    /\ batch' = [batch EXCEPT ![c] = [logs |-> {}, row |-> Session(c).count]]
    /\ UNCHANGED <<heard, place, num, unbound, ran, procVars, lease, dbVars>>

\* _flush_pending_tool_audit(): the list is emptied before its rows are written.
FlushAudit(c) ==
    /\ pc[c] = "saving" /\ lease = c /\ Goto(c, "flushed")
    /\ batch' = [batch EXCEPT ![c] = [logs |-> audit[Context(c)], row |-> 0]]
    /\ audit' = [audit EXCEPT ![Context(c)] = {}]
    /\ UNCHANGED <<heard, place, num, unbound, ran, opening, up, sess, lock, starts, shared, lease, dbVars>>

\* The rest of the body, record_turn() and its nested transaction included.  It raises
\* without a session, with an unbound name, or by any of its writes.
WriteTurn(c) ==
    /\ pc[c] = "flushed" /\ lease = c
    /\ \/ /\ Session(c).sid # 0 /\ c \notin unbound /\ Goto(c, "written")
          /\ sess' = [sess EXCEPT ![home[c]].count = @ + 1]
          /\ num' = [num EXCEPT ![c] = Session(c).count + 1]
          /\ batch' = [batch EXCEPT ![c].row = Session(c).count + 1]
          /\ UNCHANGED <<heard, lease>>
       \/ /\ Goto(c, "done") /\ Hear(c, "unsaved") /\ lease' = Nobody
          /\ UNCHANGED <<sess, num, batch>>
    /\ UNCHANGED <<place, unbound, ran, opening, up, audit, lock, starts, shared, dbVars>>

Persist(c) ==
    /\ turns' = turns \cup {[sid |-> Session(c).sid, num |-> num[c], call |-> c]}
    /\ rows' = [rows EXCEPT ![Session(c).sid].count = batch[c].row]
    /\ logged' = logged \cup batch[c].logs

\* Mutant: a chat turn that is recorded goes on to the gate.
CommitChatGoesOn(c) ==
    /\ pc[c] = "chatted" /\ lease = c /\ lease' = Nobody
    /\ Persist(c) /\ Goto(c, "gate") /\ UNCHANGED heard
    /\ UNCHANGED <<place, num, batch, unbound, ran, procVars>>

\* The chat turn is committed and answered; if record_turn() raises, the turn goes on
\* to the gate, also when the commit was only late.
CommitChat(c) ==
    /\ pc[c] = "chatted" /\ lease = c /\ lease' = Nobody
    /\ \/ Persist(c) /\ Goto(c, "done") /\ Hear(c, "answer")
       \/ UNCHANGED <<dbVars, heard>> /\ Goto(c, "gate")
       \/ LateCommit /\ Persist(c) /\ Goto(c, "gate") /\ UNCHANGED heard
    /\ UNCHANGED <<place, num, batch, unbound, ran, procVars>>

\* The transaction of a full turn commits, and the buffer of memories is flushed; or
\* it fails, and the answer is replaced.
CommitTurn(c) ==
    /\ pc[c] = "written" /\ lease = c /\ lease' = Nobody
    /\ \/ Persist(c) /\ Goto(c, "flush") /\ UNCHANGED heard
       \/ UNCHANGED dbVars /\ Goto(c, "done") /\ Hear(c, "unsaved")
       \/ LateCommit /\ Persist(c) /\ Goto(c, "done") /\ Hear(c, "unsaved")
    /\ UNCHANGED <<place, num, batch, unbound, ran, procVars>>

FlushMemory(c) ==
    /\ pc[c] = "flush" /\ Goto(c, "done")
    /\ \/ Hear(c, "answer")
       \/ FlushFails /\ Hear(c, "unsaved")
    /\ UNCHANGED <<place, num, batch, unbound, ran, procVars, lease, dbVars>>

\* The caller's task is cancelled: a body rolls back.
Cancel(c) ==
    /\ c \in InFlight /\ Goto(c, "done") /\ Hear(c, "cancelled")
    /\ lease' = IF lease = c THEN Nobody ELSE lease
    /\ UNCHANGED <<place, num, batch, unbound, ran, procVars, dbVars>>

-----------------------------------------------------------------------------

Next ==
    \/ \E p \in Procs : FindLock(p) \/ Startup(p) \/ Crash(p) \/ Shutdown(p) \/ \E c \in Calls : Start(c, p)
    \/ \E c \in Calls :
          \/ Route(c) \/ Friction(c) \/ Prepare(c) \/ RunTool(c) \/ Searched(c)
          \/ ChildRefused(c) \/ Lease(c) \/ WriteChat(c) \/ FlushAudit(c) \/ WriteTurn(c)
          \/ CommitChat(c) \/ CommitTurn(c) \/ FlushMemory(c) \/ Cancel(c)

Spec == Init /\ [][Next]_vars

-----------------------------------------------------------------------------

TypeOK ==
    /\ pc \in [Calls -> {"idle", "route", "chat", "chatting", "chatted", "gate", "search", "save",
                         "saving", "flushed", "written", "flush", "done"}]
    /\ heard \in [Calls -> {"none", "answer", "unsaved", "friction", "raised", "cancelled", "dead"}]
    /\ home \in [Calls -> Procs \cup {Nobody}] /\ own \cup unbound \cup ran \subseteq Calls
    /\ opening \cup up \subseteq Procs /\ lock \in Procs \cup {Nobody} /\ lease \in Calls \cup {Nobody}
    /\ \A p \in Procs : sess[p].sid \in 0 .. MaxStarts
    /\ \A x \in Procs \cup Calls : audit[x] \subseteq Calls
    /\ \A t \in turns : t.sid \in Sids /\ t.num \in Nat /\ t.call \in Calls \ Bare
    /\ logged \subseteq Calls /\ shared \subseteq Sids

Of(c) == {t \in turns : t.call = c}

\* Two turns of a session that no two loops have held at once never bear the same
\* number, whatever was rolled back, cancelled, interleaved or cut off by a crash
\* (session.py:130 counts in memory, session.py:171 writes the row that a restart reads).
NumbersAreUnique ==
    \A t, u \in turns : t.sid = u.sid /\ t.num = u.num /\ t.sid \notin shared => t = u

\* An input whose answer was given is recorded once, and no input twice
\* (cognitive_loop.py:715, record_turn() within the try that falls back).
AnsweredOnce ==
    \A c \in Calls : /\ Cardinality(Of(c)) <= 1
                     /\ heard[c] = "answer" => Of(c) # {}

\* The tool calls of a turn are logged exactly if the turn itself is recorded
\* (cognitive_loop.py:1254, "Defer DB writes until turn transaction").
AuditMatchesTurns == \A c \in ran : c \in logged <=> Of(c) # {}

\* Who hears that nothing was saved finds nothing saved (cognitive_loop.py:989).
UnsavedIsUnsaved == \A c \in Calls : heard[c] = "unsaved" => Of(c) = {}

\* Every tool that a turn has run is logged once the turn is over.
EveryToolIsLogged == \A c \in ran : pc[c] = "done" => c \in logged

\* At most one process has a loop that is up (cognitive_loop.py:2059, "LOCK_EXISTS").
OneLoopAtATime == Cardinality(up) <= 1

\* No two loops hold one session (session.py:59 resumes the latest that is open).
SessionsAreOwn == shared = {}

\* A turn that comes by HTTP is answered like any other (api/server.py:241).
HttpTurnsAreSaved == \A c \in Bare : heard[c] # "unsaved"

=============================================================================
