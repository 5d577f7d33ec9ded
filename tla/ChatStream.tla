----------------------------- MODULE ChatStream -----------------------------
(***************************************************************************)
(* POST /api/chat/stream of the gateway: a turn puts its events in a queue *)
(* that a generator sends to the client, line by line, until the turn has  *)
(* ended; POST /api/chat/cancel sets a flag that the next event notices.   *)
(* The orchestrator of the workers keeps the emitter of the stream that    *)
(* began last, and its workers report to it after the turn has ended.      *)
(*                                                                         *)
(* An event is its request or its worker with a number; texts are not      *)
(* kept.  What an approval of the stream leads to is ApprovalGate's.       *)
(***************************************************************************)
EXTENDS Integers, SequencesExt

CONSTANTS
    Streams,  \* requests
    MaxEvents \* bound: events that a turn emits

StreamAssumption == MaxEvents \in Nat

NoOne == "no one"

VARIABLES
    stream,  \* "none", "new" (answered, generator not begun), "open", "gone", "ended"
    turn,    \* "none", "running", "asking", "answered", "failed", "cancelled"
    events,  \* events that the turn has emitted
    queue,   \* the lines that wait
    sent,    \* the lines that the client was sent
    flagged, \* requests whose cancel event is set
    cancels, \* active_cancels
    asked,   \* active_approvals
    emitter, \* the stream that the orchestrator reports to
    worker   \* the worker of a turn: "none", "running", "done", "torn down", "broken"

vars == <<stream, turn, events, queue, sent, flagged, cancels, asked, emitter, worker>>
talk == <<queue, sent>>

Init ==
    /\ stream = [r \in Streams |-> "none"] /\ turn = [r \in Streams |-> "none"]
    /\ events = [r \in Streams |-> 0]
    /\ queue = [r \in Streams |-> <<>>] /\ sent = [r \in Streams |-> <<>>]
    /\ flagged = {} /\ cancels = {} /\ asked = {}
    /\ emitter = NoOne /\ worker = [r \in Streams |-> "none"]

\* A line is its type and, of an event of the turn, its number.
Put(r, kind, n) == queue' = [queue EXCEPT ![r] = Append(@, <<kind, n>>)]

Over(r) == turn[r] \in {"answered", "failed", "cancelled"}

------------------------------------------------------------------------------
Request(r) ==
    /\ stream[r] = "none" /\ stream' = [stream EXCEPT ![r] = "new"]
    /\ cancels' = cancels \cup {r}
    /\ UNCHANGED <<turn, events, talk, flagged, asked, emitter, worker>>

\* The first step of the generator starts the turn, which takes the
\* orchestrator's reports over.
Begin(r) ==
    /\ stream[r] = "new" /\ stream' = [stream EXCEPT ![r] = "open"]
    /\ turn' = [turn EXCEPT ![r] = "running"] /\ emitter' = r
    /\ UNCHANGED <<events, talk, flagged, cancels, asked, worker>>

\* event_emitter(): a set flag raises CancelledError through the turn.
Emit(r) ==
    /\ turn[r] = "running"
    /\ IF r \in flagged
       THEN turn' = [turn EXCEPT ![r] = "cancelled"] /\ UNCHANGED <<queue, events>>
       ELSE /\ events[r] < MaxEvents
            /\ events' = [events EXCEPT ![r] = @ + 1]
            /\ Put(r, "event", events'[r]) /\ UNCHANGED turn
    /\ UNCHANGED <<stream, sent, flagged, cancels, asked, emitter, worker>>

\* The event of a tool that needs approval holds the turn for an answer, at
\* most for 300 s; the registry swallows the exception of a refusal.
Ask(r) ==
    /\ turn[r] = "running" /\ r \notin flagged /\ events[r] < MaxEvents
    /\ turn' = [turn EXCEPT ![r] = "asking"]
    /\ events' = [events EXCEPT ![r] = @ + 1] /\ Put(r, "event", events'[r])
    /\ asked' = asked \cup {r}
    /\ UNCHANGED <<stream, sent, flagged, cancels, emitter, worker>>

Answer(r) ==
    /\ turn[r] = "asking" /\ turn' = [turn EXCEPT ![r] = "running"]
    /\ asked' = asked \ {r} /\ Put(r, "resolved", 0)
    /\ UNCHANGED <<stream, events, sent, flagged, cancels, emitter, worker>>

\* The turn returns its response, or raises.
TurnEnds(r, how) ==
    /\ turn[r] = "running" /\ how \in {"answered", "failed"}
    /\ turn' = [turn EXCEPT ![r] = how]
    /\ UNCHANGED <<stream, events, talk, flagged, cancels, asked, emitter, worker>>

Cancel(r) ==
    /\ r \in cancels \ flagged /\ flagged' = flagged \cup {r}
    /\ UNCHANGED <<stream, turn, events, talk, cancels, asked, emitter, worker>>

------------------------------------------------------------------------------
Send(r) ==
    /\ stream[r] = "open" /\ queue[r] # <<>>
    /\ sent' = [sent EXCEPT ![r] = Append(@, Head(queue[r]))]
    /\ queue' = [queue EXCEPT ![r] = Tail(@)]
    /\ UNCHANGED <<stream, turn, events, flagged, cancels, asked, emitter, worker>>

Ending(r) == CASE turn[r] = "cancelled" -> <<<<"cancel", 0>>, <<"done", 0>>>>
               [] turn[r] = "failed"    -> <<<<"error", 0>>, <<"done", 0>>>>
               [] OTHER                 -> <<<<"done", 0>>>>

\* Mutants: the generator stops as soon as the turn has; it looks at the turn
\* only after a line.
FinishAtOnce(r) ==
    /\ stream[r] = "open" /\ Over(r)
    /\ sent' = [sent EXCEPT ![r] = @ \o Ending(r)]
    /\ stream' = [stream EXCEPT ![r] = "ended"] /\ cancels' = cancels \ {r}
    /\ UNCHANGED <<turn, events, queue, flagged, asked, emitter, worker>>

FinishAfterLine(r) ==
    /\ stream[r] = "open" /\ Over(r) /\ queue[r] = <<>> /\ sent[r] # <<>>
    /\ sent' = [sent EXCEPT ![r] = @ \o Ending(r)]
    /\ stream' = [stream EXCEPT ![r] = "ended"] /\ cancels' = cancels \ {r}
    /\ UNCHANGED <<turn, events, queue, flagged, asked, emitter, worker>>

\* The turn is over and the queue drained: the response is not a line.
Finish(r) ==
    /\ stream[r] = "open" /\ Over(r) /\ queue[r] = <<>>
    /\ sent' = [sent EXCEPT ![r] = @ \o Ending(r)]
    /\ stream' = [stream EXCEPT ![r] = "ended"] /\ cancels' = cancels \ {r}
    /\ UNCHANGED <<turn, events, queue, flagged, asked, emitter, worker>>

\* The client is gone: the generator's finally cancels the turn; of one that
\* has not begun there is no finally.
Disconnect(r) ==
    /\ stream[r] \in {"new", "open"}
    /\ stream' = [stream EXCEPT ![r] = "gone"]
    /\ turn' = [turn EXCEPT ![r] = IF @ \in {"running", "asking"} THEN "cancelled" ELSE @]
    /\ cancels' = IF stream[r] = "open" THEN cancels \ {r} ELSE cancels
    /\ asked' = asked \ {r}
    /\ UNCHANGED <<events, talk, flagged, emitter, worker>>

------------------------------------------------------------------------------
Spawn(r) ==
    /\ turn[r] = "running" /\ worker[r] = "none" /\ r \notin flagged
    /\ worker' = [worker EXCEPT ![r] = "running"]
    /\ UNCHANGED <<stream, turn, events, talk, flagged, cancels, asked, emitter>>

\* The job is done and reports to the emitter there is; a flag that is set
\* there raises CancelledError out of the job's finally.
Report(r) ==
    /\ worker[r] = "running"
    /\ IF emitter \in flagged
       THEN worker' = [worker EXCEPT ![r] = "broken"] /\ UNCHANGED queue
       ELSE worker' = [worker EXCEPT ![r] = "done"] /\ Put(emitter, "worker", 0)
    /\ UNCHANGED <<stream, turn, events, sent, flagged, cancels, asked, emitter>>

TearDown(r) ==
    /\ worker[r] = "done" /\ worker' = [worker EXCEPT ![r] = "torn down"]
    /\ UNCHANGED <<stream, turn, events, talk, flagged, cancels, asked, emitter>>

Next == \E r \in Streams :
    \/ Request(r) \/ Begin(r) \/ Emit(r) \/ Ask(r) \/ Answer(r) \/ Cancel(r)
    \/ \E how \in {"answered", "failed"} : TurnEnds(r, how)
    \/ Send(r) \/ Finish(r) \/ Disconnect(r)
    \/ Spawn(r) \/ Report(r) \/ TearDown(r)

\* The server runs the generator of a client that reads.  A turn need not end: no
\* deadline bounds the call of a model.
Fairness == \A r \in Streams : WF_vars(Send(r)) /\ WF_vars(Finish(r))

Spec == Init /\ [][Next]_vars /\ Fairness

------------------------------------------------------------------------------
Kinds(lines)   == {line[1] : line \in Range(lines)}
EventLines(lines) == {line \in Range(lines) : line[1] = "event"}

\* The events among these lines come in the order in which they were emitted, each once.
InOrder(lines) ==
    \A i, j \in DOMAIN lines :
        i < j /\ lines[i][1] = "event" /\ lines[j][1] = "event" => lines[i][2] < lines[j][2]

Ended(r)       == stream[r] = "ended"

\* Every variable keeps its type.
TypeOK ==
    /\ stream \in [Streams -> {"none", "new", "open", "gone", "ended"}]
    /\ turn \in [Streams -> {"none", "running", "asking", "answered", "failed", "cancelled"}]
    /\ events \in [Streams -> 0..MaxEvents]
    /\ \A r \in Streams : Kinds(queue[r]) \subseteq {"event", "resolved", "worker"}
    /\ flagged \subseteq Streams /\ cancels \subseteq Streams /\ asked \subseteq Streams
    /\ emitter \in Streams \cup {NoOne}
    /\ worker \in [Streams -> {"none", "running", "done", "torn down", "broken"}]

\* A client that stays is sent every event of its turn, in order and before
\* "done", which is the last line; a cancelled or failed turn says so
\* (server.py:233-263).
StreamIsWhole == \A r \in Streams :
    /\ Ended(r) => /\ EventLines(sent[r]) = {<<"event", i>> : i \in 1..events[r]}
                   /\ InOrder(sent[r])
                   /\ Last(sent[r])[1] = "done"
                   /\ turn[r] = "cancelled" => "cancel" \in Kinds(sent[r])
    /\ ~Ended(r) => "done" \notin Kinds(sent[r])

\* A stream whose turn is over ends, unless its client is gone before, whatever a
\* worker of the turn still reports to it (server.py:233-263).
StreamEnds == \A r \in Streams :
    stream[r] = "open" /\ Over(r) ~> stream[r] \in {"ended", "gone"}

\* "event_emitter should cover it" (server.py:255): of an answered turn, the
\* client was sent the response.  No line carries it.
AnswerIsStreamed == \A r \in Streams :
    Ended(r) /\ turn[r] = "answered" => "response" \in Kinds(sent[r])

\* active_cancels holds streams that run.
CancelsAreLive == \A r \in cancels : stream[r] \in {"new", "open"}

\* A cancelled stream ends no worker before its sandbox is torn down.
WorkersAreTornDown == \A r \in Streams : worker[r] # "broken"

\* A stream carries the reports of its own workers only.
ReportsAreOwn == \A r \in Streams :
    "worker" \in Kinds(queue[r]) \cup Kinds(sent[r]) => worker[r] # "none"
=============================================================================
