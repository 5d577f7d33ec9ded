------------------------------ MODULE Console ------------------------------
(***************************************************************************)
(* The interactive console: the turn loop of scripts/run.py, the bridge    *)
(* of silex/ui/ink_bridge.py with its queues and event socket, and the Ink *)
(* process, whose state is the reducer of kinthic-ink-ui/src/state.ts.     *)
(*                                                                         *)
(* The pipe from the UI and the reader that drains it only add delay, so a *)
(* packet is in its queue when the UI writes it; the socket to the UI      *)
(* keeps the order of the events.  An event is what it does to the UI;     *)
(* process() itself is Turn, the approval gate ApprovalGate.               *)
(***************************************************************************)
EXTENDS Integers, Sequences, FiniteSets

CONSTANTS
    MaxInputs, \* bound: inputs the user submits
    MaxEscapes,\* bound: times the user presses Escape
    MaxWire,   \* bound: events under way before a turn emits another
    Asks       \* TRUE iff a turn may ask for an approval

ConsoleAssumption == {MaxInputs, MaxEscapes, MaxWire} \subseteq Nat /\ Asks \in BOOLEAN

VARIABLES
    mode,      \* the UI: prompt, thinking, done
    submitted, \* inputs submitted: turnCounter
    asked,     \* approvalQueue of the UI: the turns whose approval it shows
    inputs,    \* _user_input_queue; 0 is None
    cancels,   \* _cancel_queue: all its items are True
    answers,   \* _approval_response_queue
    py,        \* where the turn loop is
    turn,      \* the input it works on
    wire,      \* events on their way to the UI
    connected, \* FALSE iff the bridge has dropped the UI's socket
    holder,    \* _turn_emitter_holder[0]; 0 is None
    escapes,   \* Escapes pressed so far
    meant,     \* history: inputs during whose turn, as shown, Escape was pressed
    closed,    \* history: how each turn ended for the UI
    raised,    \* history: turns that have asked for an approval
    answered,  \* history: turns whose process() returned an answer
    late       \* history: an approval was answered when its turn was over

uiVars   == <<mode, submitted, asked, escapes, meant>>
pyVars   == <<py, turn, holder, closed, raised, answered, late>>
pipeVars == <<inputs, cancels, answers, wire, connected>>
vars == <<uiVars, pyVars, pipeVars>>

Inputs == 1 .. MaxInputs

Init ==
    /\ mode = "prompt" /\ submitted = 0 /\ asked = {} /\ escapes = 0 /\ meant = {}
    /\ inputs = <<>> /\ cancels = 0 /\ answers = <<>>
    /\ wire = <<>> /\ connected = TRUE
    /\ py = "read" /\ turn = 0 /\ holder = 0
    /\ closed = [n \in Inputs |-> "open"] /\ raised = {} /\ answered = {} /\ late = FALSE

Event(kind, n) == [kind |-> kind, n |-> IF kind = "approval" THEN n ELSE 0]
\* emit(): without a connected client the event waits in _pending_event_lines.
Emit(kinds) ==
    wire' = IF connected THEN wire \o [i \in DOMAIN kinds |-> Event(kinds[i], turn)] ELSE wire

-----------------------------------------------------------------------------
(* The Ink process. *)

\* handleSubmit() and reduceUserSubmit(): the prompt row takes input in prompt mode only.
Submit ==
    /\ mode = "prompt" /\ submitted < MaxInputs
    /\ submitted' = submitted + 1 /\ mode' = "thinking" /\ inputs' = Append(inputs, submitted + 1)
    /\ UNCHANGED <<asked, escapes, meant, pyVars, cancels, answers, wire, connected>>

\* Escape is heard in thinking mode; the UI is at its prompt again at once.
Escape ==
    /\ mode = "thinking" /\ escapes < MaxEscapes
    /\ escapes' = escapes + 1 /\ mode' = "prompt" /\ cancels' = cancels + 1
    /\ meant' = meant \cup {submitted}
    /\ UNCHANGED <<submitted, asked, pyVars, inputs, answers, wire, connected>>

\* The user decides the approval shown, in any mode, whatever became of its turn.
Answer(n) ==
    /\ mode # "done" /\ n \in asked
    /\ asked' = asked \ {n} /\ answers' = Append(answers, n)
    /\ UNCHANGED <<mode, submitted, escapes, meant, pyVars, inputs, cancels, wire, connected>>

\* reduceAppState(): what an event does to the mode.  A tool that fails in the midst of a
\* turn (an error event) opens the prompt as well.
ModeAfter(kind) ==
    CASE kind = "progress" -> "thinking"
      [] kind \in {"answer", "cancel", "error"} -> "prompt"
      [] kind = "done" -> "done"
      [] OTHER -> mode

Receive ==
    /\ wire # <<>> /\ mode # "done"
    /\ LET e == Head(wire)
       IN /\ mode' = ModeAfter(e.kind)
          /\ asked' = IF e.kind = "approval" THEN asked \cup {e.n} ELSE asked
    /\ wire' = Tail(wire)
    /\ UNCHANGED <<submitted, escapes, meant, pyVars, inputs, cancels, answers, connected>>

\* Ctrl-C: the Ink process exits.
Quit ==
    /\ mode # "done" /\ mode' = "done"
    /\ UNCHANGED <<submitted, asked, escapes, meant, pyVars, pipeVars>>

-----------------------------------------------------------------------------
\* The end of _stderr_reader(), when the child has exited: None ends the loop at its next read.
ReadEof ==
    /\ mode = "done" /\ py # "over"
    /\ \A i \in DOMAIN inputs : inputs[i] # 0
    /\ inputs' = Append(inputs, 0)
    /\ UNCHANGED <<uiVars, pyVars, cancels, answers, wire, connected>>

-----------------------------------------------------------------------------
(* The turn loop of run(). *)

Close(how) == closed' = [closed EXCEPT ![turn] = how]

\* An input is a command, answered on the spot, or begins a turn with its own emitter.
Take ==
    /\ py = "read" /\ inputs # <<>> /\ inputs' = Tail(inputs)
    /\ LET n == Head(inputs)
       IN \/ /\ n = 0 /\ py' = "stop" /\ UNCHANGED <<turn, holder, closed, wire>>
          \/ /\ n # 0 /\ turn' = n /\ closed' = [closed EXCEPT ![n] = "answer"]
             /\ wire' = IF connected THEN Append(wire, Event("answer", n)) ELSE wire
             /\ UNCHANGED <<py, holder>>
          \/ /\ n # 0 /\ turn' = n /\ holder' = n /\ py' = "race"
             /\ wire' = IF connected THEN Append(wire, Event("progress", n)) ELSE wire
             /\ UNCHANGED closed
    /\ UNCHANGED <<uiVars, raised, answered, late, cancels, answers, connected>>

\* process() reports progress, a failed tool or an approval that it waits for.
Report ==
    /\ py = "race" /\ Len(wire) < MaxWire
    /\ \/ \E kind \in {"progress", "error"} : Emit(<<kind>>) /\ UNCHANGED raised
       \/ /\ Asks /\ turn \notin raised /\ raised' = raised \cup {turn}
          /\ Emit(<<"approval">>)
    /\ UNCHANGED <<uiVars, py, turn, holder, closed, answered, late, inputs, cancels, answers, connected>>

\* process() returns, or raises.  A cancel that comes in the same turn of the event loop is
\* consumed and ignored.
Finish ==
    /\ py = "race"
    /\ \/ py' = "show" /\ answered' = answered \cup {turn}
       \/ py' = "fail" /\ UNCHANGED answered
    /\ cancels' \in {cancels, IF cancels > 0 THEN cancels - 1 ELSE 0}
    /\ UNCHANGED <<uiVars, turn, holder, closed, raised, late, inputs, answers, wire, connected>>

\* The cancel watcher finishes first: process() is cancelled.
SeeCancel ==
    /\ py = "race" /\ cancels > 0 /\ cancels' = cancels - 1 /\ py' = "unwind"
    /\ UNCHANGED <<uiVars, turn, holder, closed, raised, answered, late, inputs, answers, wire, connected>>

\* _push_event_line() takes the cancellation for a broken socket and drops it: process()
\* goes on, and nothing reaches the UI from here on.
Swallow ==
    /\ py = "unwind" /\ connected /\ connected' = FALSE
    /\ UNCHANGED <<uiVars, pyVars, inputs, cancels, answers, wire>>

\* Mutant: the loop goes on without a word to the UI.
UnwindSilent ==
    /\ py = "unwind"
    /\ \/ py' = "read" /\ Close("cancelled") /\ UNCHANGED <<wire, answered>>
       \/ py' = "read" /\ Close("cancelled") /\ UNCHANGED wire /\ answered' = answered \cup {turn}
       \/ py' = "fail" /\ UNCHANGED <<closed, wire, answered>>
    /\ UNCHANGED <<uiVars, raised, turn, holder, late, inputs, cancels, answers, connected>>

\* The cancelled process() has ended, in whatever way; the turn counts as cancelled, unless
\* an exception came out of it.  The holder keeps the emitter.
Unwind ==
    /\ py = "unwind"
    /\ \/ py' = "read" /\ Close("cancelled") /\ Emit(<<"cancel", "answer">>) /\ UNCHANGED answered
       \/ ~connected /\ py' = "read" /\ Close("cancelled") /\ Emit(<<"cancel", "answer">>)
          /\ answered' = answered \cup {turn}
       \/ py' = "fail" /\ UNCHANGED <<closed, wire, answered>>
    /\ UNCHANGED <<uiVars, raised, turn, holder, late, inputs, cancels, answers, connected>>

\* The answer is shown and the holder cleared.  If the answer has tool calls, the import of
\* approve_edit_internally, which code_editor.py does not define, raises first.
Show ==
    /\ py = "show"
    /\ \/ py' = "read" /\ Close("answer") /\ Emit(<<"answer">>) /\ holder' = 0
       \/ py' = "fail" /\ UNCHANGED <<closed, wire, holder>>
    /\ UNCHANGED <<uiVars, raised, turn, answered, late, inputs, cancels, answers, connected>>

\* The except of the turn: emit_error().
Fail ==
    /\ py = "fail" /\ py' = "read" /\ Close("error") /\ Emit(<<"error", "answer">>)
    /\ UNCHANGED <<uiVars, raised, turn, holder, answered, late, inputs, cancels, answers, connected>>

\* _ink_approval_listener(): whichever emitter the holder has reports the result and, if
\* it was approved, that the tool runs.
Listen ==
    /\ answers # <<>> /\ py # "over" /\ answers' = Tail(answers)
    /\ \/ Emit(IF holder # 0 THEN <<"progress">> ELSE <<>>)
          /\ late' = (late \/ (holder # 0 /\ py # "race"))
       \/ UNCHANGED <<wire, late>>
    /\ UNCHANGED <<uiVars, py, turn, holder, closed, raised, answered, inputs, cancels, connected>>

\* bridge.stop() in the finally: done is emitted, and a child that stays is killed.
Stop ==
    /\ py = "stop" /\ py' = "over" /\ mode' = "done"
    /\ UNCHANGED <<submitted, asked, escapes, meant, turn, holder, closed, raised, answered, late, pipeVars>>

-----------------------------------------------------------------------------

Next ==
    \/ Submit \/ Escape \/ Receive \/ Quit \/ ReadEof \/ Take \/ Report \/ Finish
    \/ SeeCancel \/ Swallow \/ Unwind \/ Show \/ Fail \/ Listen \/ Stop
    \/ \E n \in Inputs : Answer(n)

Spec == Init /\ [][Next]_vars

-----------------------------------------------------------------------------

TypeOK ==
    /\ mode \in {"prompt", "thinking", "done"} /\ submitted \in 0 .. MaxInputs
    /\ asked \cup meant \cup raised \cup answered \subseteq Inputs
    /\ py \in {"read", "race", "unwind", "show", "fail", "stop", "over"}
    /\ turn \in 0 .. MaxInputs /\ holder \in 0 .. MaxInputs /\ cancels \in 0 .. MaxEscapes
    /\ \A i \in DOMAIN inputs : inputs[i] \in 0 .. MaxInputs
    /\ closed \in [Inputs -> {"open", "answer", "cancelled", "error"}]
    /\ {connected, late} \subseteq BOOLEAN

Settled == /\ py = "read" /\ inputs = <<>> /\ answers = <<>> /\ wire = <<>>
           /\ mode # "done"

\* When nothing is under way between the UI and the turn loop, the UI is at its prompt
\* and the user can go on, however turns, cancels and events crossed (run.py:1369
\* "emit_cancel", ink_bridge.py:264 "Return Ink UI to prompt state"); unless the bridge
\* dropped the socket or an approval was answered after its turn.
PromptReturns == Settled /\ connected /\ ~late => mode = "prompt"

\* The same without the exceptions.
PromptAlwaysReturns == Settled => mode = "prompt"

\* A turn is cancelled only if Escape was pressed during it (run.py:1368, "User cancelled").
CancelsAreMeant == \A n \in Inputs : closed[n] = "cancelled" => n \in meant

\* What process() answered, and has recorded, is shown (run.py:1479).
AnswersAreShown ==
    \A n \in answered : closed[n] \in {"open", "answer"}

=============================================================================
