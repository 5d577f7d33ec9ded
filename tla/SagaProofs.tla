----------------------------- MODULE SagaProofs -----------------------------
(***************************************************************************)
(* Proofs about Saga, for every dependency relation, with or without       *)
(* cycles, any pivots and any number of retries.                           *)
(***************************************************************************)
EXTENDS Saga, TLAPS

\* What has completed, and what may still complete.
CompletedInv ==
    /\ \A s \in Steps :
          /\ at[s] \in {"wait", "pending", "pivot", "act", "sleep", "retry", "escalate"}
                => s \notin Elems(completed)
          /\ at[s] = "log" => s \in Elems(completed)
    /\ \A i, j \in DOMAIN completed : completed[i] \in Deps[completed[j]] => i < j

\* A step that was let through has its dependencies behind it.
DepsInv ==
    /\ ~failed => events \subseteq Elems(completed)
    /\ \A s \in Steps :
          \/ at[s] \in {"wait", "skipped", "failed", "cancelled"}
          \/ Deps[s] \subseteq Elems(completed)
    /\ RunsAfterDependencies
    /\ Elems(completed) \subseteq acted
    /\ \A s \in Steps : at[s] \in {"act", "sleep", "retry"} => s \in acted

\* Where a pivot has acted, and where a rollback may run.
PivotInv ==
    /\ \A s \in Steps : at[s] = "pivot" \/ s \in acted \cap Pivots => pivotPassed
    /\ outcome # "running" => Live = {}
    /\ outcome = "rolling" \/ undone # <<>> => outcome # "running" /\ ~pivotPassed

\* What was undone is the end of what was completed, backwards.
UndoneInv ==
    /\ Len(undone) <= Len(completed)
    /\ \A i \in DOMAIN undone : undone[i] = completed[Len(completed) - i + 1]

IInv == TypeOK /\ CompletedInv /\ DepsInv /\ PivotInv /\ UndoneInv

-----------------------------------------------------------------------------

LEMMA TypeInit == Init => TypeOK
<1> SUFFICES ASSUME Init PROVE TypeOK
  OBVIOUS
<1>1. completed \in Seq(Steps) /\ undone \in Seq(Steps)
  BY DEF Init
<1>2. at \in [Steps -> AtValues] /\ tries \in [Steps -> Nat]
  BY DEF Init, AtValues
<1> QED  BY <1>1, <1>2 DEF Init, TypeOK, Outcomes

LEMMA TypeStep == TypeOK /\ [Next]_vars => TypeOK'
<1> SUFFICES ASSUME TypeOK, [Next]_vars PROVE TypeOK'
  OBVIOUS
<1>1. ASSUME NEW s \in Steps, StepTask(s) PROVE TypeOK'
  <2>1. CASE Proceed(s) \/ Start(s) \/ StartPivot(s) \/ Finish(s) \/ Raise(s)
    BY <2>1 DEF TypeOK, AtValues, Ended, Proceed, Start, StartPivot, Finish, Raise, Fail, Goto
  <2>2. CASE Succeed(s)
    BY <2>2 DEF TypeOK, AtValues, Succeed, Goto
  <2>3. CASE Retry(s) \/ Escalate(s)
    BY <2>3 DEF TypeOK, AtValues, Ended, Retry, Escalate, Fail, Goto
  <2>4. CASE RetryRaises(s)
    <3>1. at' \in [Steps -> AtValues] /\ tries' \in [Steps -> Nat]
      BY <2>4 DEF TypeOK, AtValues, RetryRaises, Goto
    <3> QED  BY <2>4, <3>1 DEF TypeOK, RetryRaises
  <2> QED  BY <1>1, <2>1, <2>2, <2>3, <2>4 DEF StepTask
<1>2. CASE Abort \/ Cancel
  BY <1>2 DEF TypeOK, AtValues, Ended, Outcomes, Abort, Cancel, CancelLive
<1>3. CASE Settle \/ EndRollback
  BY <1>3 DEF TypeOK, Outcomes, Settle, EndRollback
<1>4. CASE Compensate
  <2>1. Len(completed) - Len(undone) \in DOMAIN completed
    BY <1>4 DEF TypeOK, Compensate
  <2>2. completed[Len(completed) - Len(undone)] \in Steps
    BY <2>1 DEF TypeOK
  <2>3. undone' \in Seq(Steps)
    <3>1. undone \in Seq(Steps)
      BY DEF TypeOK
    <3>2. \A x \in Steps : Append(undone, x) \in Seq(Steps)
      BY <3>1
    <3> QED  BY <1>4, <2>2, <3>1, <3>2 DEF Compensate
  <2> QED  BY <1>4, <2>3 DEF TypeOK, Outcomes, Compensate
<1>5. CASE UNCHANGED vars
  BY <1>5 DEF TypeOK, vars
<1> QED  BY <1>1, <1>2, <1>3, <1>4, <1>5 DEF Next, Orchestrate

\* Every variable keeps its shape.
THEOREM TypeCorrect == Spec => []TypeOK
BY TypeInit, TypeStep, PTL DEF Spec

-----------------------------------------------------------------------------

LEMMA InvInit == Init => IInv
BY TypeInit, SagaAssumption
   DEF Init, IInv, CompletedInv, DepsInv, RunsAfterDependencies, PivotInv, UndoneInv, Elems

LEMMA AppendElems ==
    ASSUME NEW q \in Seq(Steps), NEW s \in Steps
    PROVE  Elems(Append(q, s)) = Elems(q) \cup {s}
<1>1. /\ DOMAIN Append(q, s) = 1 .. Len(q) + 1
      /\ \A i \in 1 .. Len(q) : Append(q, s)[i] = q[i]
      /\ Append(q, s)[Len(q) + 1] = s
      /\ DOMAIN q = 1 .. Len(q) /\ Len(q) \in Nat
  OBVIOUS
<1>2. Elems(Append(q, s)) \subseteq Elems(q) \cup {s}
  BY <1>1 DEF Elems
<1>3. Elems(q) \cup {s} \subseteq Elems(Append(q, s))
  BY <1>1 DEF Elems
<1> QED  BY <1>2, <1>3

\* A task is live, and so the TaskGroup is still running.
LEMMA LiveRuns ==
    ASSUME IInv, NEW s \in Steps, at[s] \notin Ended
    PROVE  outcome = "running" /\ undone = <<>>
BY DEF IInv, PivotInv, Live, TypeOK

\* A step of a task that completes nothing.
LEMMA InvTask ==
    ASSUME IInv, NEW s \in Steps,
           \/ Proceed(s) \/ Start(s) \/ StartPivot(s) \/ Finish(s)
           \/ Raise(s) \/ Retry(s) \/ RetryRaises(s) \/ Escalate(s)
    PROVE  CompletedInv' /\ DepsInv' /\ PivotInv' /\ UndoneInv'
<1>1. UNCHANGED <<completed, undone, outcome>>
  BY DEF Proceed, Start, StartPivot, Finish, Raise, Retry, RetryRaises, Escalate
<1>2. at[s] \notin Ended
  BY DEF Proceed, Start, StartPivot, Finish, Raise, Retry, RetryRaises, Escalate, Ended
<1>3. outcome = "running" /\ undone = <<>>
  BY <1>2, LiveRuns
<1>4. UNCHANGED Elems(completed)
  BY <1>1
<1>5. /\ at \in [Steps -> AtValues]
      /\ \A t \in Steps : t # s => at'[t] = at[t]
  BY DEF IInv, TypeOK, Proceed, Start, StartPivot, Finish, Raise, Fail, Retry, RetryRaises,
         Escalate, Goto
<1>6. CompletedInv'
  <2>1. at'[s] \in {"pending", "pivot", "act", "sleep", "retry", "escalate"}
           => s \notin Elems(completed)
    BY <1>5 DEF IInv, CompletedInv, Proceed, Start, StartPivot, Finish, Raise, Fail, Retry,
                RetryRaises, Escalate, Goto
  <2>2. at'[s] \notin {"wait", "log"}
    BY <1>5 DEF Proceed, Start, StartPivot, Finish, Raise, Fail, Retry, RetryRaises, Escalate, Goto
  <2> QED  BY <1>1, <1>4, <1>5, <2>1, <2>2 DEF IInv, CompletedInv
<1>7. DepsInv'
  <2>1. ~failed' => events' \subseteq Elems(completed)
    BY DEF IInv, DepsInv, CompletedInv, Proceed, Start, StartPivot, Finish, Raise, Fail, Retry,
           RetryRaises, Escalate
  <2>2. at'[s] \in {"skipped", "failed"} \/ Deps[s] \subseteq Elems(completed)
    <3>1. CASE Proceed(s)
      BY <1>5, <3>1 DEF IInv, DepsInv, Proceed, Goto
    <3>2. CASE at[s] # "wait"
      BY <1>2, <3>2 DEF IInv, DepsInv, Ended
    <3> QED
      BY <3>1, <3>2 DEF Proceed, Start, StartPivot, Finish, Raise, Retry, RetryRaises, Escalate
  <2>3. /\ acted' \in {acted, acted \cup {s}}
        /\ at'[s] \in {"act", "sleep", "retry"} => s \in acted'
        /\ acted' # acted => at'[s] = "act"
    BY <1>5 DEF IInv, DepsInv, Proceed, Start, StartPivot, Finish, Raise, Fail, Retry,
                RetryRaises, Escalate, Goto
  <2> QED
    BY <1>4, <1>5, <2>1, <2>2, <2>3 DEF IInv, TypeOK, DepsInv, RunsAfterDependencies
<1>8. PivotInv'
  <2>1. pivotPassed => pivotPassed'
    BY DEF Proceed, Start, StartPivot, Finish, Raise, Retry, RetryRaises, Escalate
  <2>2. at'[s] = "pivot" \/ s \in acted' \cap Pivots => pivotPassed'
    BY <1>5 DEF IInv, PivotInv, Proceed, Start, StartPivot, Finish, Raise, Fail, Retry,
                RetryRaises, Escalate, Goto
  <2>3. \A t \in Steps : t # s /\ t \in acted' => t \in acted
    BY DEF Proceed, Start, StartPivot, Finish, Raise, Retry, RetryRaises, Escalate
  <2> QED  BY <1>1, <1>3, <1>5, <2>1, <2>2, <2>3 DEF IInv, PivotInv
<1>9. UndoneInv'
  BY <1>1 DEF IInv, UndoneInv
<1> QED  BY <1>6, <1>7, <1>8, <1>9

LEMMA InvSucceed ==
    ASSUME IInv, NEW s \in Steps, Succeed(s)
    PROVE  CompletedInv' /\ DepsInv' /\ PivotInv' /\ UndoneInv'
<1>1. /\ at[s] \in {"act", "retry"} /\ completed' = Append(completed, s)
      /\ UNCHANGED <<acted, events, undone, pivotPassed, failed, outcome>>
  BY DEF Succeed
<1>2. outcome = "running" /\ undone = <<>>
  BY <1>1, LiveRuns DEF Ended
<1>3. completed \in Seq(Steps) /\ at \in [Steps -> AtValues]
  BY DEF IInv, TypeOK
<1>4. Elems(completed)' = Elems(completed) \cup {s}
  <2>1. Elems(Append(completed, s)) = Elems(completed) \cup {s}
    BY <1>3, AppendElems
  <2> QED  BY <1>1, <2>1 DEF Elems
<1>5. \A t \in Steps : at'[t] = IF t = s THEN "log" ELSE at[t]
  BY <1>3 DEF Succeed, Goto
<1>6. s \notin Elems(completed) /\ s \in acted
  BY <1>1 DEF IInv, CompletedInv, DepsInv
<1>7. CompletedInv'
  <2>1. \A i, j \in DOMAIN completed' : completed'[i] \in Deps[completed'[j]] => i < j
    <3> SUFFICES ASSUME NEW i \in DOMAIN completed', NEW j \in DOMAIN completed',
                        completed'[i] \in Deps[completed'[j]]
                 PROVE  i < j
      OBVIOUS
    <3>1. /\ DOMAIN completed' = 1 .. Len(completed) + 1
          /\ \A k \in 1 .. Len(completed) : completed'[k] = completed[k]
          /\ completed'[Len(completed) + 1] = s
          /\ DOMAIN completed = 1 .. Len(completed) /\ Len(completed) \in Nat
      BY <1>1, <1>3
    <3>2. completed'[j] \in acted
      BY <1>6, <3>1 DEF IInv, DepsInv, Elems
    <3>3. Deps[completed'[j]] \subseteq Elems(completed)
      BY <3>2 DEF IInv, DepsInv, RunsAfterDependencies
    <3>4. i # Len(completed) + 1
      BY <1>6, <3>1, <3>3
    <3>5. CASE j = Len(completed) + 1
      BY <3>1, <3>4, <3>5
    <3>6. CASE j # Len(completed) + 1
      BY <3>1, <3>4, <3>6 DEF IInv, CompletedInv
    <3> QED  BY <3>5, <3>6
  <2> QED  BY <1>4, <1>5, <2>1 DEF IInv, CompletedInv
<1>8. DepsInv'
  BY <1>1, <1>4, <1>5, <1>6 DEF IInv, DepsInv, RunsAfterDependencies
<1>9. PivotInv'
  BY <1>1, <1>2, <1>5 DEF IInv, PivotInv
<1>10. UndoneInv'
  BY <1>1, <1>2, <1>3 DEF UndoneInv
<1> QED  BY <1>7, <1>8, <1>9, <1>10

LEMMA InvCancel ==
    ASSUME IInv, Abort \/ Cancel
    PROVE  CompletedInv' /\ DepsInv' /\ PivotInv' /\ UndoneInv'
<1>1. /\ UNCHANGED <<acted, events, completed, undone, pivotPassed, failed>>
      /\ \A t \in Steps : at'[t] = at[t] \/ at'[t] = "cancelled"
      /\ outcome' \in {outcome, "cancelled"}
  BY DEF IInv, TypeOK, Abort, Cancel, CancelLive
<1>2. UNCHANGED Elems(completed)
  BY <1>1
<1>3. outcome' # "running" => Live' = {}
  <2>1. CASE Abort
    BY <2>1 DEF IInv, PivotInv, Abort, Live
  <2>2. CASE Cancel /\ outcome = "running"
    BY <2>2 DEF Cancel, CancelLive, Live, Ended
  <2>3. CASE Cancel /\ outcome = "rolling"
    BY <2>3 DEF IInv, PivotInv, Cancel, Live
  <2> QED  BY <2>1, <2>2, <2>3 DEF Cancel
<1>4. CompletedInv'
  BY <1>1, <1>2 DEF IInv, CompletedInv
<1>5. DepsInv'
  BY <1>1, <1>2 DEF IInv, DepsInv, RunsAfterDependencies
<1>6. PivotInv'
  BY <1>1, <1>3 DEF IInv, PivotInv
<1>7. UndoneInv'
  BY <1>1 DEF IInv, UndoneInv
<1> QED  BY <1>4, <1>5, <1>6, <1>7

LEMMA InvOrchestrate ==
    ASSUME IInv, Orchestrate
    PROVE  CompletedInv' /\ DepsInv' /\ PivotInv' /\ UndoneInv'
<1>1. UNCHANGED <<at, acted, events, completed, pivotPassed, failed>>
  BY DEF Orchestrate, Settle, Compensate, EndRollback
<1>2. CompletedInv' /\ DepsInv'
  BY <1>1 DEF IInv, CompletedInv, DepsInv, RunsAfterDependencies, Elems
<1>3. CASE Settle \/ EndRollback
  BY <1>1, <1>2, <1>3 DEF IInv, TypeOK, PivotInv, UndoneInv, Settle, EndRollback, Live
<1>4. CASE Compensate
  <2>1. PivotInv'
    BY <1>1, <1>4 DEF IInv, TypeOK, PivotInv, Compensate, Live
  <2>2. UndoneInv'
    <3>1. /\ completed \in Seq(Steps) /\ undone \in Seq(Steps) /\ Len(undone) < Len(completed)
          /\ Len(completed) \in Nat /\ Len(undone) \in Nat
      BY <1>4 DEF IInv, TypeOK, Compensate
    <3>2. CASE undone' = Append(undone, completed[Len(completed) - Len(undone)])
      BY <1>1, <3>1, <3>2 DEF IInv, UndoneInv
    <3>3. CASE UNCHANGED undone
      BY <1>1, <3>3 DEF IInv, UndoneInv
    <3> QED  BY <1>4, <3>2, <3>3 DEF Compensate
  <2> QED  BY <1>2, <2>1, <2>2
<1> QED  BY <1>3, <1>4 DEF Orchestrate

LEMMA InvStep == IInv /\ [Next]_vars => IInv'
<1> SUFFICES ASSUME IInv, [Next]_vars PROVE IInv'
  OBVIOUS
<1>1. TypeOK'
  BY TypeStep DEF IInv
<1>2. CASE UNCHANGED vars
  BY <1>1, <1>2 DEF IInv, CompletedInv, DepsInv, RunsAfterDependencies, PivotInv, UndoneInv, Elems,
                    Live, vars
<1>3. CASE Next
  <2>1. CompletedInv' /\ DepsInv' /\ PivotInv' /\ UndoneInv'
    BY <1>3, InvTask, InvSucceed, InvCancel, InvOrchestrate DEF Next, StepTask
  <2> QED  BY <1>1, <2>1 DEF IInv
<1> QED  BY <1>2, <1>3

\* Nothing is compensated once a pivot has acted.
THEOREM PivotsAreFinal == Spec => []PivotIsFinal
<1>1. IInv => PivotIsFinal
  BY DEF IInv, PivotInv, PivotIsFinal, TypeOK
<1> QED  BY <1>1, InvInit, InvStep, PTL DEF Spec

\* No action begins before its dependencies have completed.
THEOREM DependenciesFirst == Spec => []RunsAfterDependencies
<1>1. IInv => RunsAfterDependencies
  BY DEF IInv, DepsInv
<1> QED  BY <1>1, InvInit, InvStep, PTL DEF Spec

\* A step is compensated after every completed step that depends on it.
THEOREM DependentsUndoneFirst == Spec => []DependentsFirst
<1>1. IInv => DependentsFirst
  <2> SUFFICES ASSUME IInv, NEW i \in DOMAIN undone, NEW t \in Elems(completed),
                      undone[i] \in Deps[t]
               PROVE  \E j \in 1..(i-1) : undone[j] = t
    BY DEF DependentsFirst
  <2>1. /\ undone \in Seq(Steps) /\ completed \in Seq(Steps)
        /\ DOMAIN undone = 1 .. Len(undone) /\ DOMAIN completed = 1 .. Len(completed)
        /\ Len(undone) \in Nat /\ Len(completed) \in Nat /\ Len(undone) <= Len(completed)
    BY DEF IInv, TypeOK, UndoneInv
  <2>2. PICK m \in DOMAIN completed : t = completed[m]
    BY DEF Elems
  <2>3. undone[i] = completed[Len(completed) - i + 1] /\ Len(completed) - i + 1 \in DOMAIN completed
    BY <2>1 DEF IInv, UndoneInv
  <2>4. Len(completed) - i + 1 < m
    BY <2>2, <2>3 DEF IInv, CompletedInv
  <2>5. Len(completed) - m + 1 \in 1..(i-1)
    BY <2>1, <2>2, <2>4
  <2>6. undone[Len(completed) - m + 1] = t
    BY <2>1, <2>2, <2>5 DEF IInv, UndoneInv
  <2> QED  BY <2>5, <2>6
<1> QED  BY <1>1, InvInit, InvStep, PTL DEF Spec

=============================================================================
