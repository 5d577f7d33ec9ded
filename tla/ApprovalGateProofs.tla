------------------------- MODULE ApprovalGateProofs -------------------------
(***************************************************************************)
(* Proofs about ApprovalGate, for any calls, operators and crashes.        *)
(***************************************************************************)
EXTENDS ApprovalGate, FiniteSetTheorems, TLAPS

\* The operators who have approved a call and gone on to run it.
Began(c) == {o \in Operators : /\ op[o].at \notin {"idle", "fetch"}
                               /\ op[o].call = c /\ op[o].says = "approved"}

\* The table and the gate's task keep step.
QueueInv ==
    /\ \A c \in Calls : status[c] # "none" => gate[c] \notin {"idle", "running", "queue"}
    /\ \A c \in Calls : gate[c] \in {"idle", "queue"} => runs[c] = 0
    /\ \A c \in Calls : gate[c] \in {"emit", "poll"} => status[c] # "none"
    /\ \A o \in Operators : op[o].at # "idle" /\ op[o].call \in Calls => status[op[o].call] # "none"

RunsInv == \A c \in Calls : status[c] # "none" => runs[c] <= Cardinality(Began(c))

IInv == TypeOK /\ QueueInv /\ RunsInv

\* What an operator's decision can be.
Deciding == [at : {"fetch", "done"}, call : Calls \cup {"Error:"}, says : Decisions] \cup
            [at : {"run", "store", "update"}, call : Calls, says : Decisions]

-----------------------------------------------------------------------------

LEMMA TypeInit == Init => TypeOK
BY DEF Init, TypeOK, GateValues, Decisions

LEMMA DecidingIs == TypeOK => \A o \in Operators : op[o].at # "idle" => op[o] \in Deciding
BY DEF TypeOK, Deciding

\* Where the operators' steps lead.
LEMMA OpStepIs ==
    ASSUME TypeOK, NEW o \in Operators, OpStep(o)
    PROVE  /\ op[o] \in Deciding /\ op[o].at # "idle" /\ op[o].at # "done"
           /\ op' = [op EXCEPT ![o] = op'[o]] /\ op'[o] \in Deciding
           /\ op'[o].call = op[o].call /\ op'[o].says = op[o].says
           /\ op'[o].at \notin {"idle", "fetch"}
<1>1. op[o] \in Deciding /\ op[o].at \in {"fetch", "run", "store", "update"}
  BY DecidingIs DEF OpStep, Fetch, Fetched, Ran, Update
<1>2. PICK l \in {"run", "update", "store", "done"} :
         /\ op' = [op EXCEPT ![o].at = l]
         /\ op[o].call \notin Calls => l = "done"
  BY <1>1 DEF OpStep, Fetch, Fetched, Ran, Update, Deciding
<1>3. op'[o] = [op[o] EXCEPT !.at = l]
  BY <1>2 DEF TypeOK
<1>4. op' = [op EXCEPT ![o] = op'[o]]
  BY <1>2, <1>3
<1>5. op'[o].call = op[o].call /\ op'[o].says = op[o].says /\ op'[o].at = l
  BY <1>1, <1>3 DEF Deciding
<1>6. op'[o] \in Deciding
  BY <1>1, <1>2, <1>3 DEF Deciding
<1> QED  BY <1>1, <1>4, <1>5, <1>6

LEMMA TypeStep == TypeOK /\ [Next]_vars => TypeOK'
<1> SUFFICES ASSUME TypeOK, [Next]_vars PROVE TypeOK'
  OBVIOUS
<1> USE DEF GateValues, Ended, Decisions, Goto, Run
<1>1. ASSUME NEW c \in Calls, GateStep(c) PROVE TypeOK'
  <2>1. CASE Execute(c)
    BY <2>1 DEF TypeOK, Execute
  <2>2. CASE Return(c) \/ QueueApproval(c) \/ ApiWaits(c)
    BY <2>2 DEF TypeOK, Return, QueueApproval, ApiWaits
  <2>3. CASE Poll(c)
    BY <2>3 DEF TypeOK, Poll
  <2> QED  BY <1>1, <2>1, <2>2, <2>3 DEF GateStep
<1>2. ASSUME NEW c \in Calls, Cancel(c) \/ Reload(c) PROVE TypeOK'
  BY <1>2 DEF TypeOK, Cancel, Reload
<1>a. CASE ApproveChat
  BY <1>a DEF TypeOK, ApproveChat
<1>3. ASSUME NEW o \in Operators, NEW c \in Calls, Decide(o, c) PROVE TypeOK'
  BY <1>3 DEF TypeOK, Decide, ExtractedId
<1>4. ASSUME NEW o \in Operators, OpStep(o) PROVE TypeOK'
  <2>1. op[o] \in Deciding /\ op' = [op EXCEPT ![o] = op'[o]] /\ op'[o] \in Deciding
    BY <1>4, OpStepIs
  <2>2. op' \in [Operators -> {[at |-> "idle"]} \cup Deciding]
    BY <2>1 DEF TypeOK, Deciding
  <2>3. CASE Fetch(o)
    BY <2>1, <2>2, <2>3 DEF TypeOK, Fetch, Fetched, Deciding
  <2>4. CASE Ran(o) \/ Update(o)
    <3>1. CASE Ran(o)
      BY <2>2, <3>1 DEF TypeOK, Ran, Deciding
    <3>2. CASE Update(o)
      <4>1. op[o].call \in Calls /\ op[o].says \in Decisions
        BY <2>1, <3>2 DEF Update, Deciding
      <4> QED  BY <2>2, <3>2, <4>1 DEF TypeOK, Update, Deciding
    <3> QED  BY <2>4, <3>1, <3>2
  <2> QED  BY <1>4, <2>3, <2>4 DEF OpStep
<1>5. CASE Crash
  <2>1. \A o \in Operators : op'[o] \in {[at |-> "idle"]} \cup Deciding
    BY <1>5, DecidingIs DEF TypeOK, Crash, Deciding
  <2>2. op' \in [Operators -> {[at |-> "idle"]} \cup Deciding]
    BY <1>5, <2>1 DEF Crash
  <2> QED  BY <1>5, <2>2 DEF TypeOK, Crash, Deciding
<1>6. CASE UNCHANGED vars
  BY <1>6 DEF TypeOK, vars
<1> QED  BY <1>1, <1>2, <1>a, <1>3, <1>4, <1>5, <1>6 DEF Next

\* Every variable keeps its shape.
THEOREM TypeCorrect == Spec => []TypeOK
BY TypeInit, TypeStep, PTL DEF Spec

-----------------------------------------------------------------------------
(* Runs *)

LEMMA BeganFinite == \A c : IsFiniteSet(Began(c)) /\ IsFiniteSet(Began(c)')
<1> SUFFICES ASSUME NEW c PROVE IsFiniteSet(Began(c)) /\ IsFiniteSet(Began(c)')
  OBVIOUS
<1>1. Began(c) \subseteq Operators /\ Began(c)' \subseteq Operators
  BY DEF Began
<1> QED  BY <1>1, FS_Subset, ApprovalGateAssumption

\* A step of the gate: the operators do nothing.
LEMMA GateInv ==
    ASSUME IInv, UNCHANGED op, NEW c \in Calls, GateStep(c) \/ Cancel(c) \/ Reload(c)
    PROVE  QueueInv' /\ RunsInv'
<1> USE DEF Goto, Run, Ended
<1>0. /\ gate \in [Calls -> GateValues] /\ runs \in [Calls -> Nat]
      /\ status \in [Calls -> {"none", "pending"} \cup Decisions]
  BY DEF IInv, TypeOK
<1>1. \A x \in Calls : x # c => /\ gate'[x] = gate[x] /\ status'[x] = status[x]
                                /\ runs'[x] = runs[x]
  BY <1>0 DEF GateStep, Execute, Return, QueueApproval, ApiWaits, Poll, Cancel, Reload
<1>2. \A x : UNCHANGED Began(x) /\ Cardinality(Began(x)) \in Nat
  BY BeganFinite, FS_CardinalityType DEF Began
<1>3. CASE Execute(c)
  BY <1>0, <1>1, <1>2, <1>3 DEF IInv, QueueInv, RunsInv, Execute
<1>4. CASE QueueApproval(c)
  BY <1>0, <1>1, <1>2, <1>4 DEF IInv, QueueInv, RunsInv, QueueApproval
<1>5. CASE Return(c) \/ ApiWaits(c) \/ Poll(c) \/ Cancel(c) \/ Reload(c)
  <2>1. UNCHANGED <<status, runs>>
    BY <1>5 DEF Return, ApiWaits, Poll, Cancel, Reload
  <2>2. \/ gate'[c] = gate[c]
        \/ gate'[c] \in Ended
        \/ gate[c] = "emit" /\ gate'[c] = "poll"
    BY <1>0, <1>5 DEF Return, ApiWaits, Poll, Cancel, Reload
  <2> QED  BY <1>0, <1>1, <1>2, <2>1, <2>2 DEF IInv, QueueInv, RunsInv
<1> QED  BY <1>3, <1>4, <1>5 DEF GateStep

\* A step of an operator: the gate's tasks do nothing.
LEMMA OperatorInv ==
    ASSUME IInv, NEW o \in Operators, OpStep(o) \/ \E c \in Calls : Decide(o, c)
    PROVE  QueueInv' /\ RunsInv'
<1>0. /\ status \in [Calls -> {"none", "pending"} \cup Decisions] /\ runs \in [Calls -> Nat]
      /\ "Error:" \notin Calls
  BY ApprovalGateAssumption DEF IInv, TypeOK
<1>f. \A c : Cardinality(Began(c)) \in Nat /\ Cardinality(Began(c)') \in Nat
  BY BeganFinite, FS_CardinalityType
<1>1. CASE \E c \in Calls : Decide(o, c)
  <2>1. PICK c \in Calls, i \in Calls \cup {"Error:"}, d \in Decisions :
           /\ op' = [op EXCEPT ![o] = [at |-> "fetch", says |-> d, call |-> i]]
           /\ op[o].at = "idle" /\ status[c] # "none" /\ i \in {c, "Error:"}
           /\ UNCHANGED <<gate, status, runs>>
    BY <1>1 DEF Decide, ExtractedId
  <2>2. /\ op'[o].at = "fetch" /\ op'[o].call = i
        /\ \A p \in Operators : p # o => op'[p] = op[p]
    BY <2>1 DEF IInv, TypeOK
  <2>3. \A x : UNCHANGED Began(x)
    BY <2>1, <2>2 DEF Began
  <2> QED  BY <1>0, <2>1, <2>2, <2>3 DEF IInv, QueueInv, RunsInv
<1>2. CASE OpStep(o)
  <2>0. /\ op[o] \in Deciding /\ op[o].at # "idle" /\ op'[o].at \notin {"idle", "fetch"}
        /\ op'[o].call = op[o].call /\ op'[o].says = op[o].says
        /\ \A p \in Operators : p # o => op'[p] = op[p]
        /\ UNCHANGED gate
    <3>1. UNCHANGED gate
      BY <1>2 DEF OpStep, Fetch, Fetched, Ran, Update
    <3> QED  BY <1>2, <3>1, OpStepIs DEF IInv, TypeOK
  <2>a. \A c \in Calls : status'[c] = "none" <=> status[c] = "none"
    <3>1. CASE Update(o)
      <4>1. op[o].call \in Calls /\ op[o].says \in Decisions
        BY <2>0, <3>1 DEF Update, Deciding
      <4>2. status[op[o].call] # "none"
        BY <2>0, <4>1 DEF IInv, QueueInv
      <4> QED  BY <1>0, <3>1, <4>1, <4>2 DEF Update, Decisions
    <3> QED  BY <1>2, <3>1 DEF OpStep, Fetch, Fetched, Ran
  <2>b. \/ UNCHANGED runs
        \/ /\ op[o].at = "fetch" /\ op[o].says = "approved" /\ op[o].call \in Calls
           /\ runs' = [runs EXCEPT ![op[o].call] = @ + 1]
    BY <1>2 DEF OpStep, Fetch, Fetched, Ran, Update, Run
  <2>1. QueueInv'
    <3>1. \A c \in Calls : runs'[c] # runs[c] => status[c] # "none"
      BY <1>0, <2>0, <2>b DEF IInv, QueueInv
    <3> QED  BY <1>0, <2>0, <2>a, <3>1 DEF IInv, QueueInv
  <2>2. RunsInv'
    <3>1. \A c : Began(c) \subseteq Began(c)'
      BY <2>0 DEF Began
    <3>2. \A c : Cardinality(Began(c)) <= Cardinality(Began(c)')
      BY <3>1, BeganFinite, FS_Subset
    <3>4. CASE UNCHANGED runs
      BY <1>0, <1>f, <2>a, <3>2, <3>4 DEF IInv, RunsInv
    <3>5. CASE runs' # runs
      <4> PICK c \in Calls : c = op[o].call
        BY <2>b, <3>5
      <4>1. /\ op[o].at = "fetch" /\ op[o].says = "approved"
            /\ runs' = [runs EXCEPT ![c] = @ + 1]
        BY <2>b, <3>5
      <4>2. o \in Began(c)' /\ o \notin Began(c)
        BY <2>0, <4>1 DEF Began
      <4>3. Cardinality(Began(c) \cup {o}) = Cardinality(Began(c)) + 1
        BY <4>2, BeganFinite, FS_AddElement
      <4>4. Cardinality(Began(c) \cup {o}) <= Cardinality(Began(c)')
        <5>1. Began(c) \cup {o} \subseteq Began(c)'
          BY <3>1, <4>2
        <5> QED  BY <5>1, BeganFinite, FS_Subset
      <4> QED  BY <1>0, <1>f, <2>a, <3>2, <4>1, <4>3, <4>4 DEF IInv, RunsInv
    <3> QED  BY <3>4, <3>5
  <2> QED  BY <2>1, <2>2
<1> QED  BY <1>1, <1>2

LEMMA CrashInv == IInv /\ Crash => QueueInv' /\ RunsInv'
<1> SUFFICES ASSUME IInv, Crash PROVE QueueInv' /\ RunsInv'
  OBVIOUS
<1>1. \A o \in Operators : /\ op'[o].at = "idle" <=> op[o].at = "idle"
                           /\ op[o].at = "idle" => op'[o] = op[o]
                           /\ op[o].at # "idle" => /\ op'[o].at = "done"
                                                   /\ op'[o].call = op[o].call
                                                   /\ op'[o].says = op[o].says
  BY DEF IInv, TypeOK, Crash
<1>2. \A c : Began(c) \subseteq Began(c)'
  BY <1>1 DEF Began
<1>3. \A c : /\ Cardinality(Began(c)) <= Cardinality(Began(c)')
             /\ Cardinality(Began(c)) \in Nat /\ Cardinality(Began(c)') \in Nat
  BY <1>2, BeganFinite, FS_Subset, FS_CardinalityType
<1>4. QueueInv'
  BY <1>1 DEF IInv, TypeOK, QueueInv, Crash, Cancellable
<1>5. RunsInv'
  BY <1>3 DEF IInv, TypeOK, RunsInv, Crash
<1> QED  BY <1>4, <1>5

LEMMA InvInit == Init => IInv
BY TypeInit DEF Init, IInv, QueueInv, RunsInv

LEMMA InvStep == IInv /\ [Next]_vars => IInv'
<1> SUFFICES ASSUME IInv, [Next]_vars PROVE IInv'
  OBVIOUS
<1>1. TypeOK'
  BY TypeStep DEF IInv
<1>2. CASE UNCHANGED vars
  BY <1>1, <1>2 DEF IInv, QueueInv, RunsInv, Began, vars
<1>3. ASSUME NEW c \in Calls, GateStep(c) \/ Cancel(c) \/ Reload(c) PROVE IInv'
  <2>1. UNCHANGED op
    BY <1>3 DEF GateStep, Execute, Return, QueueApproval, ApiWaits, Poll, Cancel, Reload
  <2> QED  BY <1>1, <1>3, <2>1, GateInv DEF IInv
<1>4. CASE ApproveChat
  BY <1>1, <1>4 DEF ApproveChat, IInv, QueueInv, RunsInv, Began
<1> QED  BY <1>1, <1>2, <1>3, <1>4, OperatorInv, CrashInv DEF IInv, Next

\* A call in the approval queue runs no more often than operators approve it.
THEOREM RunsAreDecided == Spec => []RunsOnlyByDecision
<1>1. IInv => RunsOnlyByDecision
  <2> SUFFICES ASSUME IInv, NEW c \in Calls, status[c] # "none"
               PROVE  runs[c] <= Cardinality({o \in Operators : /\ op[o].at # "idle"
                                                                /\ op[o].call = c
                                                                /\ op[o].says = "approved"})
    BY DEF RunsOnlyByDecision
  <2> DEFINE All == {o \in Operators : /\ op[o].at # "idle" /\ op[o].call = c
                                       /\ op[o].says = "approved"}
  <2>1. IsFiniteSet(All) /\ Began(c) \subseteq All
    BY FS_Subset, ApprovalGateAssumption DEF Began
  <2>2. Cardinality(Began(c)) <= Cardinality(All)
    BY <2>1, FS_Subset
  <2>3. /\ Cardinality(Began(c)) \in Nat /\ Cardinality(All) \in Nat /\ runs[c] \in Nat
        /\ runs[c] <= Cardinality(Began(c))
    BY <2>1, BeganFinite, FS_CardinalityType DEF IInv, TypeOK, RunsInv
  <2> QED  BY <2>2, <2>3
<1> QED  BY <1>1, InvInit, InvStep, PTL DEF Spec

-----------------------------------------------------------------------------
(* Approvals *)

\* Whatever leads to an approved row, or to a result in it, has run or has missed its tool.
RanInv ==
    /\ \A c \in Calls \ missed : status[c] = "approved" => runs[c] > 0
    /\ \A c \in stored : runs[c] > 0
    /\ \A o \in Operators : op[o].at \in {"run", "store"} => runs[op[o].call] > 0
    /\ \A o \in Operators : op[o].at = "update" =>
           op[o].says = "rejected" \/ op[o].call \in missed

LEMMA RanGate ==
    ASSUME TypeOK, RanInv, NEW c \in Calls, GateStep(c) \/ Cancel(c) \/ Reload(c)
    PROVE  RanInv'
<1>1. UNCHANGED <<op, missed, stored>>
  BY DEF GateStep, Execute, Return, QueueApproval, ApiWaits, Poll, Cancel, Reload
<1>2. \A x \in Calls : /\ runs'[x] >= runs[x] /\ runs[x] \in Nat /\ runs'[x] \in Nat
                       /\ status'[x] = "approved" => status[x] = "approved"
  BY DEF TypeOK, GateStep, Execute, Return, QueueApproval, ApiWaits, Poll, Cancel, Reload, Run
<1>3. stored \subseteq Calls
  BY DEF TypeOK
<1>4. \A o \in Operators : op[o].at \in {"run", "store"} => op[o].call \in Calls
  BY DecidingIs DEF Deciding
<1> QED  BY <1>1, <1>2, <1>3, <1>4 DEF RanInv

LEMMA RanOperator ==
    ASSUME TypeOK, RanInv, NEW o \in Operators, OpStep(o) \/ \E c \in Calls : Decide(o, c)
    PROVE  RanInv'
<1>0. /\ runs \in [Calls -> Nat] /\ status \in [Calls -> {"none", "pending"} \cup Decisions]
      /\ stored \subseteq Calls
      /\ \A p \in Operators : op[p].at \in {"run", "store", "update"} => op[p].call \in Calls
  BY DecidingIs DEF TypeOK, Deciding
<1>1. CASE \E c \in Calls : Decide(o, c)
  <2>1. /\ op'[o].at = "fetch" /\ UNCHANGED <<runs, status, stored, missed>>
        /\ \A p \in Operators : p # o => op'[p] = op[p]
    BY <1>1 DEF Decide, TypeOK
  <2> QED  BY <2>1 DEF RanInv
<1>2. CASE OpStep(o)
  <2>1. /\ op[o] \in Deciding /\ op'[o] \in Deciding
        /\ op'[o].call = op[o].call /\ op'[o].says = op[o].says
        /\ \A p \in Operators : p # o => op'[p] = op[p]
    BY <1>2, OpStepIs DEF TypeOK
  <2>2. CASE Fetch(o)
    <3>1. /\ \A c \in Calls : runs'[c] >= runs[c] /\ runs'[c] \in Nat
          /\ missed \subseteq missed' /\ UNCHANGED <<status, stored>>
      BY <1>0, <2>2 DEF Fetch, Fetched, Run
    <3>2. /\ op'[o].at \in {"run", "update", "done"}
          /\ op'[o].at = "run" => op[o].call \in Calls /\ runs'[op[o].call] = runs[op[o].call] + 1
          /\ op'[o].at = "update" => op[o].says = "rejected" \/ op[o].call \in missed'
      <4>1. op'[o].at = CASE op[o].call \notin Calls -> "done"
                          [] op[o].call \in Calls /\ (op[o].says = "approved" /\ op[o].call \in tools)
                                -> "run"
                          [] OTHER -> "update"
        BY <2>1, <2>2 DEF Fetch, Fetched, TypeOK, Deciding
      <4> QED  BY <1>0, <2>1, <2>2, <4>1 DEF Fetch, Fetched, Run, Deciding, Decisions
    <3>3. \A p \in Operators : op'[p].at \in {"run", "store"} => runs'[op'[p].call] > 0
      BY <1>0, <2>1, <3>1, <3>2 DEF RanInv
    <3>4. \A p \in Operators : op'[p].at = "update" =>
              op'[p].says = "rejected" \/ op'[p].call \in missed'
      BY <2>1, <3>1, <3>2 DEF RanInv
    <3> QED  BY <1>0, <3>1, <3>3, <3>4 DEF RanInv
  <2>3. CASE Ran(o)
    <3>1. op[o].at = "run" /\ op'[o].at = "store" /\ UNCHANGED <<runs, status, stored, missed>>
      BY <2>1, <2>3 DEF Ran, TypeOK, Deciding
    <3> QED  BY <2>1, <3>1 DEF RanInv
  <2>4. CASE Update(o)
    <3>1. /\ op[o].at \in {"store", "update"} /\ op'[o].at = "done" /\ op[o].call \in Calls
          /\ op[o].says \in Decisions /\ UNCHANGED <<runs, missed>>
      BY <2>1, <2>4 DEF Update, TypeOK, Deciding
    <3>2. op[o].call \notin missed /\ op[o].says = "approved" => runs[op[o].call] > 0
      BY <3>1 DEF RanInv
    <3>3. op[o].at = "store" => runs[op[o].call] > 0
      BY DEF RanInv
    <3> QED  BY <1>0, <2>1, <2>4, <3>1, <3>2, <3>3 DEF RanInv, Update
  <2> QED  BY <1>2, <2>2, <2>3, <2>4 DEF OpStep
<1> QED  BY <1>1, <1>2

LEMMA RanStep == TypeOK /\ RanInv /\ [Next]_vars => RanInv'
<1> SUFFICES ASSUME TypeOK, RanInv, [Next]_vars PROVE RanInv'
  OBVIOUS
<1>1. CASE UNCHANGED vars
  BY <1>1 DEF RanInv, vars
<1>2. CASE Crash
  <2>1. \A o \in Operators : op'[o].at \in {"idle", "done"}
    BY <1>2 DEF TypeOK, Crash
  <2> QED  BY <1>2, <2>1 DEF RanInv, Crash
<1>3. CASE ApproveChat
  BY <1>3 DEF RanInv, ApproveChat
<1> QED  BY <1>1, <1>2, <1>3, RanGate, RanOperator DEF Next

\* What the table says was approved has run, unless its tool was gone; a result in it
\* is that of a run.
THEOREM ApprovalsAreTrue == Spec => []ApprovedMeansRan
<1>1. Init => TypeOK /\ RanInv
  BY TypeInit DEF Init, RanInv
<1>2. TypeOK /\ RanInv /\ [Next]_vars => (TypeOK /\ RanInv)'
  BY TypeStep, RanStep
<1>3. RanInv => ApprovedMeansRan
  BY DEF RanInv, ApprovedMeansRan
<1> QED  BY <1>1, <1>2, <1>3, PTL DEF Spec

-----------------------------------------------------------------------------
(* What the gate hears *)

\* No call that went to an operator is ever reported as executed or as rejected.
Deaf == \A c \in Calls : status[c] # "none" => gate[c] \notin {"executed", "severed", "rejected"}

\* The gate hears nobody: a call that had to wait for approval ends timed out or
\* cancelled, whatever the operators decide.
THEOREM TheGateIsDeaf == Spec => []Deaf
<1>1. Init => IInv /\ Deaf
  BY InvInit DEF Init, Deaf
<1>2. IInv /\ Deaf /\ [Next]_vars => (IInv /\ Deaf)'
  <2> SUFFICES ASSUME IInv, Deaf, [Next]_vars PROVE Deaf'
    BY InvStep
  <2> USE DEF Goto, Deaf
  <2>0. /\ gate \in [Calls -> GateValues] /\ "Error:" \notin Calls
        /\ status \in [Calls -> {"none", "pending"} \cup Decisions]
    BY ApprovalGateAssumption DEF IInv, TypeOK
  <2>1. ASSUME NEW c \in Calls, GateStep(c) \/ Cancel(c) \/ Reload(c) PROVE Deaf'
    <3>1. CASE Execute(c) \/ Return(c)
      BY <2>0, <3>1 DEF IInv, QueueInv, Execute, Return
    <3>2. CASE QueueApproval(c) \/ ApiWaits(c) \/ Cancel(c) \/ Reload(c)
      BY <2>0, <3>2 DEF QueueApproval, ApiWaits, Cancel, Reload
    <3>3. CASE Poll(c)
      <4>1. gate' = [gate EXCEPT ![c] = "timedout"] /\ UNCHANGED status
        BY <2>0, <3>3 DEF Poll, RowStatus, ExtractedId
      <4> QED  BY <2>0, <4>1
    <3> QED  BY <2>1, <3>1, <3>2, <3>3 DEF GateStep
  <2>2. ASSUME NEW o \in Operators, OpStep(o) \/ \E c \in Calls : Decide(o, c) PROVE Deaf'
    <3>1. UNCHANGED gate
      BY <2>2 DEF OpStep, Fetch, Fetched, Ran, Update, Decide
    <3>2. \A c \in Calls : status'[c] # "none" => status[c] # "none"
      <4>1. CASE Update(o)
        <5>1. op[o] \in Deciding /\ op[o].call \in Calls
          BY <4>1, DecidingIs DEF IInv, Update, Deciding
        <5>2. status[op[o].call] # "none"
          BY <4>1, <5>1 DEF IInv, QueueInv, Update
        <5> QED  BY <2>0, <4>1, <5>1, <5>2 DEF Update
      <4> QED  BY <2>2, <4>1 DEF OpStep, Fetch, Fetched, Ran, Decide
    <3> QED  BY <3>1, <3>2
  <2>3. CASE Crash
    BY <2>0, <2>3 DEF Crash, Cancellable
  <2>4. CASE ApproveChat \/ UNCHANGED vars
    BY <2>4 DEF ApproveChat, vars
  <2> QED  BY <2>1, <2>2, <2>3, <2>4 DEF Next
<1> QED  BY <1>1, <1>2, PTL DEF Spec

=============================================================================
