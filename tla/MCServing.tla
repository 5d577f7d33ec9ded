------------------------------ MODULE MCServing ------------------------------
(***************************************************************************)
(* Runs about three components that never end by themselves: the jobs of   *)
(* workers, the calls of language-model providers, and the chat stream.    *)
(* Nothing connects the three: a behaviour is one of one of them.          *)
(***************************************************************************)
EXTENDS Naturals, TLC

CONSTANTS
    Looked,   \* the components that are looked at
    Requests, \* requests to the chat stream
    MaxEvents \* bound: events that the turn of a request emits

VARIABLES
    part,  \* the component that this behaviour is about
    work_at, work_status, work_box, work_cancel, work_zero, work_cont, work_pool, work_filler,
    work_fresh, work_killing, work_handles, work_down, work_served, work_killed,
    work_untold,
    call_pc, call_at, call_tried, call_attempt, call_out, call_breaker, call_primary,
    call_connected, call_cached, call_up, call_outages, call_early,
    chat_stream, chat_turn, chat_events, chat_queue, chat_sent, chat_flagged, chat_cancels,
    chat_asked, chat_emitter, chat_worker

workVars == <<
    work_at, work_status, work_box, work_cancel, work_zero, work_cont, work_pool, work_filler,
    work_fresh, work_killing, work_handles, work_down, work_served, work_killed,
    work_untold>>
callVars == <<
    call_pc, call_at, call_tried, call_attempt, call_out, call_breaker, call_primary,
    call_connected, call_cached, call_up, call_outages, call_early>>
chatVars == <<
    chat_stream, chat_turn, chat_events, chat_queue, chat_sent, chat_flagged, chat_cancels,
    chat_asked, chat_emitter, chat_worker>>

\* A job for a container and one for a child loop, one slot, one container.
Workers == INSTANCE WorkerOrchestrator WITH
    Jobs <- {"j1"}, CogJobs <- {"k1"}, Echoes <- {}, Containers <- {"b1"}, MaxWorkers <- 1,
    PoolSize <- 1, MayCancel <- TRUE, OldWaitFor <- FALSE, Nobody <- "nobody",
    at <- work_at, status <- work_status, box <- work_box, cancel <- work_cancel,
    zero <- work_zero, cont <- work_cont, pool <- work_pool, filler <- work_filler,
    fresh <- work_fresh, killing <- work_killing, handles <- work_handles, down <- work_down,
    served <- work_served, killed <- work_killed,
    untold <- work_untold

\* Two callers, one of whom may be cancelled; a primary provider and one fallback.
Calls == INSTANCE Providers WITH
    Calls <- {"c1", "c2"}, Cancellable <- {"c2"}, Chain <- <<"gemini", "anthropic">>,
    Keys <- {"gemini", "anthropic"}, MaxFailures <- 2, MaxRetries <- 2, MaxOutages <- 1,
    pc <- call_pc, at <- call_at, tried <- call_tried, attempt <- call_attempt, out <- call_out,
    breaker <- call_breaker, primary <- call_primary, connected <- call_connected,
    cached <- call_cached, up <- call_up, outages <- call_outages, early <- call_early

Streams == INSTANCE ChatStream WITH
    Streams <- Requests, MaxEvents <- MaxEvents,
    stream <- chat_stream, turn <- chat_turn, events <- chat_events, queue <- chat_queue,
    sent <- chat_sent, flagged <- chat_flagged, cancels <- chat_cancels, asked <- chat_asked,
    emitter <- chat_emitter, worker <- chat_worker

-----------------------------------------------------------------------------

Parts == {"work", "call", "chat"}

Init ==
    /\ part \in Parts \cap Looked
    /\ Workers!Init /\ Calls!Init /\ Streams!Init

\* All components but one stay as they are.
Only(p) ==
    /\ part = p /\ UNCHANGED part
    /\ p # "work" => UNCHANGED workVars
    /\ p # "call" => UNCHANGED callVars
    /\ p # "chat" => UNCHANGED chatVars

WorkersSteps == Only("work") /\ Workers!Next
CallsSteps == Only("call") /\ Calls!Next
StreamsSteps == Only("chat") /\ Streams!Next

Next ==
    \/ WorkersSteps \/ CallsSteps \/ StreamsSteps

vars == <<part, workVars, callVars, chatVars>>

\* Workers and streams at rest have nothing that must happen, so that their fairness says
\* nothing about the behaviours of the others; callers never rest.
Spec ==
    /\ Init /\ [][Next]_vars
    /\ Workers!Fairness /\ Streams!Fairness
    /\ part = "call" => Calls!Fairness

ASSUME ServingAssumption ==
    Workers!WorkerAssumption /\ Calls!ProvidersAssumption /\ Streams!StreamAssumption

-----------------------------------------------------------------------------
(* What the runs check. *)

\* Every variable of every component keeps its type.
TypeOK == Workers!TypeOK /\ Calls!TypeOK /\ Streams!TypeOK

\* Every job that was accepted comes to an end (orchestrator.py:404, _wall_clock_timeout).
EveryJobEnds == Workers!EveryJobEnds

\* A provider that answers again, and stays the primary, has its breaker closed again
\* (base.py:85): no order of failures, probes and cancelled probes keeps it open.
HealthyIsClosed == Calls!HealthyIsClosed

\* The lines of a stream are its turn's, in their order, and the end comes last (server.py:241).
StreamIsWhole == Streams!StreamIsWhole

\* A stream whose turn is over ends, unless its client is gone before (server.py:233).
StreamEnds == Streams!StreamEnds

-----------------------------------------------------------------------------
(* What the code does not keep, or not always: to be named in the configuration one at a
   time, and where a condition is given, under it. *)

\* While a breaker probes, one request of it is under way (base.py:88).
OneProbe == Calls!OneProbe
\* An open breaker lets nothing pass (base.py:70).
SuspendedMeansSuspended == Calls!SuspendedMeansSuspended
\* A call fails only after every provider with a key was asked.
FallbackIsAsked == Calls!FallbackIsAsked
\* Who is asked is connected.
AskedIsConnected == Calls!AskedIsConnected
\* The client of an answered turn was sent the answer (server.py:255).
AnswerIsStreamed == Streams!AnswerIsStreamed
\* active_cancels holds streams that run.
CancelsAreLive == Streams!CancelsAreLive
\* A worker's teardown is not cut off by a stream's cancellation (orchestrator.py:484).
WorkersAreTornDown == Streams!WorkersAreTornDown
\* A client sees the workers of its own turn only; with two requests.
ReportsAreOwn == Streams!ReportsAreOwn

=============================================================================
