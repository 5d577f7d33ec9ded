---------------------------- MODULE ApprovalGate ----------------------------
(***************************************************************************)
(* The approval gate of silex/tools/registry.py: execute_with_gate() puts  *)
(* a tool call that needs approval in the table tool_approvals and polls   *)
(* its status; an operator's resolve_approval() runs the tool and then     *)
(* updates the status.  The gate takes the row's id from a message, and    *)
(* what it takes is not the id (ExtractedId): it polls a row that is not   *)
(* there, and its events give that id to the terminal and to the chat      *)
(* stream of the API server, whose event emitter waits for the answer in   *)
(* the gate's own task.  Only the Telegram and Discord adapters list the   *)
(* pending rows and know their ids.  An action is what runs between two    *)
(* awaits; what a tool does is external: it runs, and may raise or hang.   *)
(***************************************************************************)
EXTENDS Naturals, FiniteSets

CONSTANTS
    Calls,       \* tool calls
    ApiCalls,    \* those of a turn that streams to the API server
    Adapters,    \* decisions made in Telegram or Discord
    Terminals,   \* decisions made in the terminal
    Reloads,     \* TRUE iff reload_mcp_tools may drop a tool, or find it again
    MaxCrashes   \* bound: crashes of the process

Operators == Adapters \cup Terminals

ASSUME ApprovalGateAssumption ==
    /\ ApiCalls \subseteq Calls /\ {"Error:", "none"} \cap Calls = {} /\ Adapters \cap Terminals = {} /\ IsFiniteSet(Operators)
    /\ Reloads \in BOOLEAN /\ MaxCrashes \in Nat

VARIABLES
    gate,       \* where execute_with_gate is with each call
    status,     \* tool_approvals.status of each call
    stored,     \* calls with execution_result_json
    tools,      \* calls whose tool is registered
    runs,       \* history: how often each call's tool was started
    op,         \* each operator's decision: its call, what it is, how far it is
    missed,     \* history: approved calls whose tool was not registered
    asked,      \* active_approvals: the call whose queue has the one key in use
    apiAnswer,  \* what the API server was told about a call
    crashes

vars == <<gate, status, stored, tools, runs, op, missed, asked, apiAnswer, crashes>>

Decisions  == {"approved", "rejected"}
Ended      == {"executed", "severed", "refused", "rejected", "timedout", "cancelled"}
GateValues == {"idle", "running", "queue", "emit", "poll"} \cup Ended

Init ==
    /\ gate = [c \in Calls |-> "idle"] /\ status = [c \in Calls |-> "none"]
    /\ stored = {} /\ tools = Calls /\ runs = [c \in Calls |-> 0]
    /\ op = [o \in Operators |-> [at |-> "idle"]] /\ missed = {} /\ asked = "none"
    /\ apiAnswer = [c \in ApiCalls |-> "none"] /\ crashes = 0

\* The id that the gate finds in its message: the first part of the text, split at
\* "approval_id=", that is longer than 8 characters is the one before the id.
ExtractedId(c) == "Error:"

RowStatus(id) == IF id \in Calls THEN status[id] ELSE "none"

Goto(c, label) == gate' = [gate EXCEPT ![c] = label]
Run(c) == runs' = [runs EXCEPT ![c] = @ + 1]

-----------------------------------------------------------------------------
(* execute_with_gate(). *)

\* Policy refuses the call or the tool is unknown, lets it run, or wants approval.
Execute(c) ==
    /\ gate[c] = "idle"
    /\ \/ Goto(c, "refused") /\ UNCHANGED runs
       \/ c \in tools /\ Goto(c, "running") /\ Run(c)
       \/ c \in tools /\ Goto(c, "queue") /\ UNCHANGED runs
    /\ UNCHANGED <<status, stored, tools, op, missed, asked, apiAnswer, crashes>>

\* The tool returns or raises, or wait_for severs it.
Return(c) ==
    /\ gate[c] = "running" /\ (Goto(c, "executed") \/ Goto(c, "severed"))
    /\ UNCHANGED <<status, stored, tools, runs, op, missed, asked, apiAnswer, crashes>>

\* The row is written and the event sent, with the id that the gate has found; the
\* stream registers its queue under it, in place of another stream's.
QueueApproval(c) ==
    /\ gate[c] = "queue"
    /\ status' = [status EXCEPT ![c] = "pending"]
    /\ Goto(c, IF c \in ApiCalls THEN "emit" ELSE "poll")
    /\ asked' = IF c \in ApiCalls THEN c ELSE asked
    /\ UNCHANGED <<stored, tools, runs, op, missed, apiAnswer, crashes>>

\* Mutant: the emitter's wait has no timeout.
ApiWaitsForEver(c) ==
    /\ gate[c] = "emit" /\ apiAnswer[c] # "none"
    /\ Goto(c, "poll") /\ asked' = "none"
    /\ UNCHANGED <<status, stored, tools, runs, op, missed, apiAnswer, crashes>>

\* The event emitter has its answer, or has waited 300 s; an exception it raises
\* is swallowed.  It takes the key away, whosever queue it holds.
ApiWaits(c) ==
    /\ gate[c] = "emit"
    /\ Goto(c, "poll") /\ asked' = "none"
    /\ UNCHANGED <<status, stored, tools, runs, op, missed, apiAnswer, crashes>>

\* POST /api/chat/approve, whichever call it is meant for.
ApproveChat ==
    /\ asked # "none" /\ apiAnswer[asked] = "none"
    /\ \E d \in Decisions : apiAnswer' = [apiAnswer EXCEPT ![asked] = d]
    /\ UNCHANGED <<gate, status, stored, tools, runs, op, missed, asked, crashes>>

\* _wait_for_approval sees a decision in the row it looks for, or its deadline passes.
Poll(c) ==
    /\ gate[c] = "poll"
    /\ Goto(c, CASE RowStatus(ExtractedId(c)) = "approved" -> "executed"
                 [] RowStatus(ExtractedId(c)) = "rejected" -> "rejected"
                 [] OTHER -> "timedout")
    /\ UNCHANGED <<status, stored, tools, runs, op, missed, asked, apiAnswer, crashes>>

Cancellable == {"running", "queue", "emit", "poll"}

\* Mutant: a cancelled call is marked in the table.
CancelMarks(c) ==
    /\ gate[c] \in Cancellable /\ Goto(c, "cancelled")
    /\ status' = [status EXCEPT ![c] = "cancelled"]
    /\ asked' = IF gate[c] = "emit" THEN "none" ELSE asked
    /\ UNCHANGED <<stored, tools, runs, op, missed, apiAnswer, crashes>>

\* The turn is cancelled.
Cancel(c) ==
    /\ gate[c] \in Cancellable /\ Goto(c, "cancelled")
    /\ asked' = IF gate[c] = "emit" THEN "none" ELSE asked
    /\ UNCHANGED <<status, stored, tools, runs, op, missed, apiAnswer, crashes>>

-----------------------------------------------------------------------------
(* resolve_approval(). *)

\* An operator decides: the adapters on a pending row that they list, the terminal
\* on the id in the event that its own turn has sent.
Decide(o, c) ==
    /\ op[o].at = "idle" /\ status[c] # "none"
    /\ IF o \in Adapters THEN status[c] = "pending" ELSE c \notin ApiCalls
    /\ \E d \in Decisions :
          op' = [op EXCEPT ![o] =
                   [at |-> "fetch", says |-> d,
                    call |-> IF o \in Adapters THEN c ELSE ExtractedId(c)]]
    /\ UNCHANGED <<gate, status, stored, tools, runs, missed, asked, apiAnswer, crashes>>

\* The id is in the table?  What happens to the call then, and where that leads.
Fetched(o, run) ==
    LET c == op[o].call IN
    /\ op[o].at = "fetch"
    /\ IF c \in Calls /\ run THEN Run(c) ELSE UNCHANGED runs
    /\ missed' = IF c \in Calls \ tools /\ op[o].says = "approved" THEN missed \cup {c}
                                                                  ELSE missed
    /\ op' = [op EXCEPT ![o].at = CASE c \notin Calls -> "done"
                                     [] c \in Calls /\ run -> "run"
                                     [] OTHER -> "update"]
    /\ UNCHANGED <<gate, status, stored, tools, asked, apiAnswer, crashes>>

\* Mutant: a rejected call is run as well.
FetchRuns(o) == Fetched(o, op[o].call \in tools)

\* Mutant: a row that another operator has decided meanwhile is not run again.
FetchPending(o) ==
    Fetched(o, op[o].says = "approved" /\ op[o].call \in tools
               /\ RowStatus(op[o].call) = "pending")

\* An approved call runs, if its tool is still registered.
Fetch(o) == Fetched(o, op[o].says = "approved" /\ op[o].call \in tools)

\* The tool has returned or raised.
Ran(o) ==
    /\ op[o].at = "run" /\ op' = [op EXCEPT ![o].at = "store"]
    /\ UNCHANGED <<gate, status, stored, tools, runs, missed, asked, apiAnswer, crashes>>

\* The decision and the result, or no result, overwrite what the row says.
Update(o) ==
    /\ op[o].at \in {"store", "update"}
    /\ LET c == op[o].call IN
          /\ status' = [status EXCEPT ![c] = op[o].says]
          /\ stored' = IF op[o].at = "store" THEN stored \cup {c} ELSE stored \ {c}
    /\ op' = [op EXCEPT ![o].at = "done"]
    /\ UNCHANGED <<gate, tools, runs, missed, asked, apiAnswer, crashes>>

\* reload_mcp_tools no longer finds the tool, or finds it again.
Reload(c) ==
    /\ Reloads /\ tools' = IF c \in tools THEN tools \ {c} ELSE tools \cup {c}
    /\ UNCHANGED <<gate, status, stored, runs, op, missed, asked, apiAnswer, crashes>>

\* The process dies and starts again; the table remains.
Crash ==
    /\ crashes < MaxCrashes /\ crashes' = crashes + 1
    /\ gate' = [c \in Calls |-> IF gate[c] \in Cancellable THEN "cancelled" ELSE gate[c]]
    /\ op' = [o \in Operators |-> IF op[o].at = "idle" THEN op[o]
                                                       ELSE [op[o] EXCEPT !.at = "done"]]
    /\ asked' = "none"
    /\ UNCHANGED <<status, stored, tools, runs, missed, apiAnswer>>

-----------------------------------------------------------------------------

GateStep(c) ==
    \/ Execute(c) \/ Return(c) \/ QueueApproval(c) \/ ApiWaits(c) \/ Poll(c)

OpStep(o) == Fetch(o) \/ Ran(o) \/ Update(o)

Next ==
    \/ \E c \in Calls : GateStep(c) \/ Cancel(c) \/ Reload(c)
    \/ ApproveChat
    \/ \E o \in Operators : OpStep(o) \/ \E c \in Calls : Decide(o, c)
    \/ Crash

Spec == Init /\ [][Next]_vars

\* The event loop runs the gate's task, and its waits have timeouts; nobody has
\* to decide, and an approved tool need not return.
LiveSpec == Spec /\ \A c \in Calls : WF_vars(GateStep(c))

-----------------------------------------------------------------------------

TypeOK ==
    /\ gate \in [Calls -> GateValues]
    /\ status \in [Calls -> {"none", "pending"} \cup Decisions]
    /\ stored \subseteq Calls /\ tools \subseteq Calls /\ runs \in [Calls -> Nat]
    /\ op \in [Operators -> {[at |-> "idle"]} \cup
                   [at : {"fetch", "done"}, call : Calls \cup {"Error:"}, says : Decisions] \cup
                   [at : {"run", "store", "update"}, call : Calls, says : Decisions]]
    /\ missed \subseteq Calls /\ asked \in ApiCalls \cup {"none"}
    /\ apiAnswer \in [ApiCalls -> {"none"} \cup Decisions] /\ crashes \in Nat

\* What the table says was approved was run, and a result in it is that of a run
\* (registry.py:438, "execution already happened in resolve_approval"), whoever else
\* has decided on the row meanwhile, unless its tool was gone: resolve_approval marks
\* the row approved all the same (registry.py:526).
ApprovedMeansRan ==
    /\ \A c \in Calls \ missed : status[c] = "approved" => runs[c] > 0
    /\ \A c \in stored : runs[c] > 0

\* A call that had to wait for approval runs no more often than operators approve it.
RunsOnlyByDecision ==
    \A c \in Calls : status[c] # "none" =>
        runs[c] <= Cardinality({o \in Operators : /\ op[o].at # "idle" /\ op[o].call = c
                                                  /\ op[o].says = "approved"})

\* A turn never waits for ever for an operator (registry.py:332-335, "Poll the DB
\* until the approval is resolved or timeout is reached").
GateEnds == \A c \in Calls : gate[c] # "idle" ~> gate[c] \in Ended

\* A call that the model was told was refused has not run (registry.py:372, "On
\* rejection or timeout, returns a refused ToolResult").
RefusedMeansNotRun == \A c \in Calls : gate[c] \in {"rejected", "timedout"} => runs[c] = 0

\* The gate does not give up on a call that was approved while it polled
\* (registry.py:371, "On approval, executes the tool and returns a real ToolResult").
ApprovalIsHeard ==
    [][\A c \in Calls : gate[c] = "poll" /\ gate'[c] = "timedout" => status[c] # "approved"]_vars

\* A call that an operator approved in the chat stream does not time out
\* (registry.py:371, "On approval, executes the tool").
ApprovedInChatRuns ==
    \A c \in ApiCalls : apiAnswer[c] = "approved" => gate[c] # "timedout"

\* While a stream waits for an answer, the answer reaches it (server.py:218-219).
ChatAnswerFindsItsCall == \A c \in ApiCalls : gate[c] = "emit" => asked = c

\* A row that says rejected is that of a tool that was not run (registry.py:372).
RejectedMeansNotRun == \A c \in Calls : status[c] = "rejected" => runs[c] = 0

=============================================================================
