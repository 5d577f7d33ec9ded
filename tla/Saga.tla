-------------------------------- MODULE Saga --------------------------------
(***************************************************************************)
(* AutonomousSagaOrchestrator.execute() of silex/core/saga.py: the steps   *)
(* of a saga run as the tasks of one TaskGroup, each after the steps it    *)
(* depends on.  Before a pivot step a failure rolls the completed steps    *)
(* back in LIFO order; after it the failed step is retried, and then the   *)
(* failure is raised.  An action of the module is what a task runs between *)
(* two awaits; what the steps themselves do is external: an action may     *)
(* return or raise.                                                        *)
(***************************************************************************)
EXTENDS Naturals, Sequences

CONSTANTS
    Steps,
    Deps,        \* depends_on: the registered steps each step waits for
    Pivots,      \* the steps with is_pivot
    MaxRetries   \* max_retries of _forward_retry

ASSUME SagaAssumption ==
    Deps \in [Steps -> SUBSET Steps] /\ Pivots \subseteq Steps /\ MaxRetries \in Nat \ {0}

VARIABLES
    at,           \* where run_step of each step is
    tries,        \* forward retries of each step that have failed
    acted,        \* history: steps whose action has begun
    events,       \* steps whose event is set
    completed,    \* completed_steps
    undone,       \* history: steps whose compensation has returned
    pivotPassed,  \* pivot_passed
    failed,       \* failed_exception is set
    outcome       \* of execute(): it runs, rolls back, or has ended

vars == <<at, tries, acted, events, completed, undone, pivotPassed, failed, outcome>>

Ended    == {"done", "skipped", "failed", "cancelled"}
AtValues == {"wait", "pending", "pivot", "act", "log", "sleep", "retry", "escalate"} \cup Ended
Outcomes == {"running", "rolling", "true", "false", "raised", "unrestored", "cancelled"}
Elems(s) == {s[i] : i \in DOMAIN s}

Init ==
    /\ at = [s \in Steps |-> "wait"] /\ tries = [s \in Steps |-> 0]
    /\ acted = {} /\ events = {} /\ completed = <<>> /\ undone = <<>>
    /\ pivotPassed = FALSE /\ failed = FALSE /\ outcome = "running"

Goto(s, label) == at' = [at EXCEPT ![s] = label]

\* Mutant: the failure of a sibling is not looked at.
ProceedAlways(s) ==
    /\ at[s] = "wait" /\ Deps[s] \subseteq events
    /\ Goto(s, "pending")
    /\ UNCHANGED <<tries, acted, events, completed, undone, pivotPassed, failed, outcome>>

\* The dependencies' events are set: by their completion, or by a failure.
Proceed(s) ==
    /\ at[s] = "wait" /\ Deps[s] \subseteq events
    /\ Goto(s, IF Deps[s] # {} /\ failed THEN "skipped" ELSE "pending")
    /\ UNCHANGED <<tries, acted, events, completed, undone, pivotPassed, failed, outcome>>

\* Mutant: a pivot is started like any other step.
StartAlike(s) ==
    /\ at[s] = "pending"
    /\ Goto(s, "act") /\ acted' = acted \cup {s}
    /\ UNCHANGED <<tries, events, completed, undone, pivotPassed, failed, outcome>>

\* PENDING has been logged.
Start(s) ==
    /\ at[s] = "pending"
    /\ IF s \in Pivots
       THEN pivotPassed' = TRUE /\ Goto(s, "pivot") /\ UNCHANGED acted
       ELSE Goto(s, "act") /\ acted' = acted \cup {s} /\ UNCHANGED pivotPassed
    /\ UNCHANGED <<tries, events, completed, undone, failed, outcome>>

\* PIVOT_REACHED has been logged.
StartPivot(s) ==
    /\ at[s] = "pivot"
    /\ Goto(s, "act") /\ acted' = acted \cup {s}
    /\ UNCHANGED <<tries, events, completed, undone, pivotPassed, failed, outcome>>

\* The action, or its retry, returns.
Succeed(s) ==
    /\ at[s] \in {"act", "retry"}
    /\ completed' = Append(completed, s) /\ Goto(s, "log")
    /\ UNCHANGED <<tries, acted, events, undone, pivotPassed, failed, outcome>>

\* Mutant: a recovered step does not set its event.
FinishUnheard(s) ==
    /\ at[s] = "log"
    /\ Goto(s, "done") /\ events' = IF tries[s] > 0 THEN events ELSE events \cup {s}
    /\ UNCHANGED <<tries, acted, completed, undone, pivotPassed, failed, outcome>>

\* STEP_COMPLETED has been logged.
Finish(s) ==
    /\ at[s] = "log"
    /\ Goto(s, "done") /\ events' = events \cup {s}
    /\ UNCHANGED <<tries, acted, completed, undone, pivotPassed, failed, outcome>>

\* Mutant: the failure names the step.
FailNamed(s) == Goto(s, "failed") /\ failed' = s /\ events' = Steps

\* The step gives up: everybody who waits is woken, and sees the failure.
Fail(s) == Goto(s, "failed") /\ failed' = TRUE /\ events' = Steps

\* The action raises.
Raise(s) ==
    /\ at[s] = "act"
    /\ IF pivotPassed THEN Goto(s, "sleep") /\ UNCHANGED <<events, failed>> ELSE Fail(s)
    /\ UNCHANGED <<tries, acted, completed, undone, pivotPassed, outcome>>

Retry(s) ==
    /\ at[s] = "sleep" /\ Goto(s, "retry")
    /\ UNCHANGED <<tries, acted, events, completed, undone, pivotPassed, failed, outcome>>

RetryRaises(s) ==
    /\ at[s] = "retry"
    /\ tries' = [tries EXCEPT ![s] = @ + 1]
    /\ Goto(s, IF tries[s] + 1 < MaxRetries THEN "sleep" ELSE "escalate")
    /\ UNCHANGED <<acted, events, completed, undone, pivotPassed, failed, outcome>>

\* The diagnostics have been written.
Escalate(s) ==
    /\ at[s] = "escalate" /\ Fail(s)
    /\ UNCHANGED <<tries, acted, completed, undone, pivotPassed, outcome>>

Live == {s \in Steps : at[s] \notin Ended}
CancelLive == at' = [s \in Steps |-> IF s \in Live THEN "cancelled" ELSE at[s]]

\* The TaskGroup has heard of the failure and cancels the other tasks, wherever
\* they are; until then any of them may still run.
Abort ==
    /\ \E s \in Steps : at[s] = "failed"
    /\ Live # {} /\ CancelLive
    /\ UNCHANGED <<tries, acted, events, completed, undone, pivotPassed, failed, outcome>>

\* The caller of execute() is cancelled; a TaskGroup with a failure swallows it.
Cancel ==
    /\ \/ outcome = "running" /\ ~failed /\ Live # {} /\ CancelLive
       \/ outcome = "rolling" /\ UNCHANGED at
    /\ outcome' = "cancelled"
    /\ UNCHANGED <<tries, acted, events, completed, undone, pivotPassed, failed>>

\* The TaskGroup is left.
Settle ==
    /\ outcome = "running" /\ Live = {}
    /\ outcome' = IF ~failed THEN "true" ELSE IF pivotPassed THEN "raised" ELSE "rolling"
    /\ UNCHANGED <<at, tries, acted, events, completed, undone, pivotPassed, failed>>

\* Mutant: in the order of completion.
CompensateFifo ==
    /\ outcome = "rolling" /\ Len(undone) < Len(completed)
    /\ \/ undone' = Append(undone, completed[Len(undone) + 1]) /\ UNCHANGED outcome
       \/ outcome' = "unrestored" /\ UNCHANGED undone
    /\ UNCHANGED <<at, tries, acted, events, completed, pivotPassed, failed>>

\* The next compensation returns, or raises and ends the rollback.
Compensate ==
    /\ outcome = "rolling" /\ Len(undone) < Len(completed)
    /\ \/ undone' = Append(undone, completed[Len(completed) - Len(undone)])
          /\ UNCHANGED outcome
       \/ outcome' = "unrestored" /\ UNCHANGED undone
    /\ UNCHANGED <<at, tries, acted, events, completed, pivotPassed, failed>>

EndRollback ==
    /\ outcome = "rolling" /\ Len(undone) = Len(completed)
    /\ outcome' = "false"
    /\ UNCHANGED <<at, tries, acted, events, completed, undone, pivotPassed, failed>>

StepTask(s) ==
    \/ Proceed(s) \/ Start(s) \/ StartPivot(s) \/ Succeed(s) \/ Finish(s)
    \/ Raise(s) \/ Retry(s) \/ RetryRaises(s) \/ Escalate(s)

Orchestrate == Settle \/ Compensate \/ EndRollback

Next == (\E s \in Steps : StepTask(s)) \/ Abort \/ Cancel \/ Orchestrate

Spec == Init /\ [][Next]_vars

\* The event loop runs every task that can run; actions and compensations end.
LiveSpec == Spec /\ WF_vars(Orchestrate) /\ WF_vars(Abort)
                 /\ \A s \in Steps : WF_vars(StepTask(s))

-----------------------------------------------------------------------------

TypeOK ==
    /\ at \in [Steps -> AtValues] /\ tries \in [Steps -> Nat]
    /\ acted \subseteq Steps /\ events \subseteq Steps
    /\ completed \in Seq(Steps) /\ undone \in Seq(Steps)
    /\ pivotPassed \in BOOLEAN /\ failed \in BOOLEAN /\ outcome \in Outcomes

\* Nothing is compensated once the action of a pivot has begun, whatever its
\* siblings do meanwhile (saga.py:28, "Irreversibility flag").
PivotIsFinal == undone # <<>> => acted \cap Pivots = {}

\* No action begins before everything it depends on has completed, although a
\* failure sets all events (saga.py:67, "Wait for dependencies to complete").
RunsAfterDependencies == \A s \in acted : Deps[s] \subseteq Elems(completed)

\* A completed step is compensated before the steps it depends on (saga.py:165,
\* "Executes compensating transactions in LIFO order").
DependentsFirst ==
    \A i \in DOMAIN undone : \A t \in Elems(completed) :
        undone[i] \in Deps[t] => \E j \in 1..(i-1) : undone[j] = t

\* execute() ends, if the dependencies have no cycle.
Ends == <>(outcome \notin {"running", "rolling"})

\* When execute() returns False no step but those that raised has had an effect
\* that was not compensated (saga.py:189, "Rollback complete. System state
\* successfully restored").
RestoresState ==
    outcome = "false" => acted \subseteq Elems(undone) \cup {s \in Steps : at[s] = "failed"}

\* The rollback is refused only once a pivot has acted (saga.py:101, "Fault
\* occurred post-pivot ... Rollback impossible").
RefusedOnlyPostPivot == outcome = "raised" => acted \cap Pivots # {}

=============================================================================
