-------------------------- MODULE WriteQueueProofs --------------------------
(***************************************************************************)
(* Proofs about WriteQueue, for every set of clients, every queue size and *)
(* every number of crashes, with cancellations, close() and, unless a      *)
(* theorem says otherwise, timeouts and inherited contexts:                *)
(*   - type correctness; AckedDurable, from the inductive invariant IInv;  *)
(*   - DeathAnswersTheQueue, from IInv and WritersInv;                     *)
(*   - LeaseIsolation, from LeaseInv beside them;                          *)
(*   - the refinement of AtomicStore, from StoreInv beside these.          *)
(***************************************************************************)
EXTENDS WriteQueue, TLAPS

\* A client is on the queue at most once.
QueuedOnce ==
    \A i, j \in 1..Len(queue) : queue[i] = queue[j] /\ queue[i] \in Clients => i = j

\* A client is on the queue only after its put().
QueuedByPut == \A c \in Clients : pc[c] \in {"idle", "putting"} => ~InQueue(c)

\* The writer serves an item exactly in the states that say so.
ServiceInv ==
    /\ wpc \in {"single", "refused"} <=> cur \in Writers
    /\ wpc \in {"lease", "committing", "rollingback"} <=> cur \in Txs
    /\ wpc = "single" => <<cur, 1>> \in pending

\* A transaction whose body has not begun: on the queue, being woken, or failed.
WaitingOK(t) ==
    /\ pc[t] \in {"idle", "putting"} => tx[t] = NewTx /\ cur # t
    /\ InQueue(t) => cur # t /\ pc[t] \in {"wait_start", "cancelled"}
    /\ pc[t] = "wait_start" /\ InQueue(t) =>
          ~tx[t].start /\ ~tx[t].done /\ ~tx[t].finish /\ ~tx[t].error /\ ~tx[t].forced
    /\ pc[t] = "wait_start" /\ cur = t =>
          wpc = "lease" /\ ~tx[t].done /\ ~tx[t].finish /\ ~tx[t].error /\ ~tx[t].forced
    /\ pc[t] = "wait_start" /\ ~InQueue(t) /\ cur # t => tx[t].error
    /\ pc[t] \in {"idle", "putting", "wait_start"} => n[t] = 0

\* A body that has not been rolled back by force holds the lease, and what it
\* wrote is open on the writer's connection or, once it is over, in the file.
BodyOK(t) ==
    /\ pc[t] = "body" =>
          /\ ~tx[t].done
          /\ ~tx[t].forced =>
                /\ cur = t /\ wpc = "lease" /\ ~tx[t].finish
                /\ \A i \in 1..n[t] : <<t, i>> \in pending
    /\ pc[t] = "finish" =>
          /\ n[t] = K
          /\ ~tx[t].forced =>
                /\ tx[t].action = "commit" /\ tx[t].done
                /\ \/ /\ cur = t /\ wpc \in {"lease", "committing"} /\ ~tx[t].finish
                      /\ \A i \in 1..n[t] : <<t, i>> \in pending
                   \/ cur # t /\ RowsOf(t) \subseteq committed

TxInv == \A t \in Txs : WaitingOK(t) /\ BodyOK(t)

IInv ==
    /\ TypeOK /\ QueuedOnce /\ QueuedByPut /\ ServiceInv
    /\ TxInv /\ AckedDurable

-----------------------------------------------------------------------------
(* Type correctness *)

\* Every update a caller or the writer makes to a tx_state keeps its shape.
LEMMA TxUpdates ==
    ASSUME NEW s \in TxState
    PROVE  /\ [s EXCEPT !.start = TRUE] \in TxState
           /\ [s EXCEPT !.finish = TRUE] \in TxState
           /\ [s EXCEPT !.action = "commit", !.done = TRUE] \in TxState
           /\ [s EXCEPT !.action = "rollback", !.done = TRUE] \in TxState
           /\ [s EXCEPT !.error = TRUE, !.action = "rollback",
                        !.done = TRUE, !.finish = TRUE] \in TxState
           /\ [s EXCEPT !.error = TRUE, !.action = "rollback", !.forced = TRUE] \in TxState
           /\ Failed(s) \in TxState
BY DEF TxState, Failed

LEMMA QueueTyped ==
    ASSUME TypeOK
    PROVE  /\ << >> \in Seq(Clients \cup {Stop})
           /\ \A c \in Clients \cup {Stop} : Append(queue, c) \in Seq(Clients \cup {Stop})
           /\ queue # << >> => /\ Tail(queue) \in Seq(Clients \cup {Stop})
                               /\ Head(queue) \in Clients \cup {Stop}
<1> DEFINE Q == Clients \cup {Stop}
<1>1. queue \in Seq(Q)
  BY DEF TypeOK
<1> HIDE DEF Q
<1>2. << >> \in Seq(Q) /\ \A c \in Q : Append(queue, c) \in Seq(Q)
  BY <1>1
<1>3. queue # << >> => Tail(queue) \in Seq(Q) /\ Head(queue) \in Q
  BY <1>1
<1> QED  BY <1>2, <1>3 DEF Q

LEMMA DrainTyped ==
    ASSUME TypeOK
    PROVE  /\ DrainedPc \in [Clients \cup Kids -> PcValues]
           /\ DrainedTx \in [Txs -> TxState]
           /\ Disconnected \in [Txs \cup Kids -> {"none", "live", "closed"}]
BY DEF TypeOK, DrainedPc, DrainedTx, Disconnected, TxState, PcValues, Clients, Answered

LEMMA CrashTyped ==
    ASSUME TypeOK, Crash, inTx' \in BOOLEAN, pending' \subseteq Rows,
           committed' \subseteq Rows, UNCHANGED <<n, closeVars>>
    PROVE  TypeOK'
<1>1. pc' \in [Clients \cup Kids -> PcValues] /\ tx' \in [Txs -> TxState]
  BY DrainTyped DEF TypeOK, Crash
<1>2. queue' \in Seq(Clients \cup {Stop})
  BY QueueTyped DEF TypeOK, Crash
<1>3. /\ wpc' \in {"connect", "dead", "stopped"} /\ cur' = Nobody
      /\ failures' \in Nat /\ streak' \in Nat
      /\ connOf' \in [Txs \cup Kids -> {"none", "live", "closed"}]
  BY DrainTyped DEF TypeOK, Crash
<1>4. /\ n' \in [Txs -> 0..K]
      /\ running' \in BOOLEAN /\ closer' \in {"open", "putting", "closed"}
  BY DEF TypeOK, closeVars
<1> QED  BY <1>1, <1>2, <1>3, <1>4 DEF TypeOK

LEMMA NextItemTyped ==
    ASSUME TypeOK, NextItem, inTx' \in BOOLEAN, pending' \subseteq Rows,
           committed' \subseteq Rows, UNCHANGED <<n, closeVars>>,
           pc' \in [Clients \cup Kids -> PcValues],
           tx' \in [Txs -> TxState], queue' \in Seq(Clients \cup {Stop})
    PROVE  TypeOK'
BY DrainTyped DEF TypeOK, NextItem, closeVars

LEMMA AnswerTyped ==
    ASSUME TypeOK, NEW w \in Writers, NEW o \in Answered, Answer(w, o),
           inTx' \in BOOLEAN, pending' \subseteq Rows,
           committed' \subseteq Rows, UNCHANGED <<n, closeVars>>
    PROVE  TypeOK'
<1>1. CASE pc[w] = "cancelled"
  BY <1>1, CrashTyped DEF Answer
<1>2. CASE pc[w] # "cancelled"
  <2>1. NextItem /\ pc' = [pc EXCEPT ![w] = o] /\ UNCHANGED <<tx, queue>>
    BY <1>2 DEF Answer
  <2>2. pc' \in [Clients \cup Kids -> PcValues]
    BY <2>1 DEF TypeOK, PcValues
  <2>3. tx' \in [Txs -> TxState] /\ queue' \in Seq(Clients \cup {Stop})
    BY <2>1 DEF TypeOK
  <2> QED  BY <2>1, <2>2, <2>3, NextItemTyped
<1> QED  BY <1>1, <1>2

\* Every client and every writer step keeps the types.
LEMMA TypeStep == TypeOK /\ [Next]_vars => TypeOK'
<1> SUFFICES ASSUME TypeOK, [Next]_vars PROVE TypeOK'
  OBVIOUS
<1> USE DEF clientVars, sqlVars, superVars, closeVars
<1>1. CASE UNCHANGED vars
  BY <1>1 DEF vars, TypeOK
<1>2. ASSUME NEW c \in Clients, Submit(c) \/ PutWhenRoom(c) PROVE TypeOK'
  <2>1. queue' \in Seq(Clients \cup {Stop})
    BY <1>2, QueueTyped DEF Submit, PutWhenRoom, TypeOK
  <2>2. Queued(c) \in PcValues /\ {"err", "putting"} \subseteq PcValues
    BY DEF Queued, PcValues, Answered
  <2>3. pc' \in [Clients \cup Kids -> PcValues]
    BY <1>2, <2>2 DEF Submit, PutWhenRoom, TypeOK
  <2> QED  BY <1>2, <2>1, <2>3 DEF Submit, PutWhenRoom, TypeOK
<1>3. ASSUME NEW c \in Clients, Shed(c) \/ CancelWrite(c) PROVE TypeOK'
  BY <1>3 DEF TypeOK, Shed, CancelWrite, PcValues, Answered
<1>4. ASSUME NEW t \in Txs, CancelLease(t) \/ BodyReturn(t) \/ BodyRaise(t) PROVE TypeOK'
  <2>1. PICK s \in TxState : tx' = [tx EXCEPT ![t] = s]
    <3>1. tx[t] \in TxState
      BY DEF TypeOK
    <3>2. CASE CancelLease(t)
      BY <3>1, <3>2, TxUpdates DEF CancelLease
    <3>3. CASE BodyReturn(t)
      BY <3>1, <3>3, TxUpdates DEF BodyReturn
    <3>4. CASE BodyRaise(t)
      BY <3>1, <3>4, TxUpdates DEF BodyRaise
    <3> QED  BY <1>4, <3>2, <3>3, <3>4
  <2>2. pc' \in [Clients \cup Kids -> PcValues]
    BY <1>4 DEF CancelLease, BodyReturn, BodyRaise, TypeOK, PcValues, Answered
  <2>3. tx' \in [Txs -> TxState]
    BY <2>1 DEF TypeOK
  <2> QED  BY <1>4, <2>2, <2>3 DEF CancelLease, BodyReturn, BodyRaise, TypeOK
<1>5. ASSUME NEW t \in Txs, StartBody(t) \/ CloseTx(t) \/ CancelFinish(t) PROVE TypeOK'
  <2>1. Outcome(t) \in PcValues /\ {"err", "body", "cancelled"} \subseteq PcValues
    BY DEF Outcome, PcValues, Answered
  <2> QED  BY <1>5, <2>1 DEF StartBody, CloseTx, CancelFinish, TypeOK
<1>6. ASSUME NEW t \in Txs, BodyWrite(t) PROVE TypeOK'
  <2>1. n[t] + 1 \in 1..K /\ n' \in [Txs -> 0..K]
    BY <1>6, WriteQueueAssumption DEF BodyWrite, TypeOK
  <2>2. <<t, n[t] + 1>> \in Rows
    BY <2>1 DEF Rows, RowsOf
  <2>3. inTx' \in BOOLEAN /\ pending' \subseteq Rows /\ committed' \subseteq Rows
    BY <1>6, <2>2 DEF BodyWrite, OnWriterConn, TypeOK
  <2> QED  BY <1>6, <2>1, <2>3 DEF TypeOK, BodyWrite
<1>7. ASSUME NEW k \in Kids, KidWrite(k) PROVE TypeOK'
  <2>1. <<k, 1>> \in Rows /\ {"ok", "err"} \subseteq PcValues
    BY DEF Rows, PcValues, Answered
  <2>2. pc' \in [Clients \cup Kids -> PcValues]
    BY <1>7, <2>1 DEF KidWrite, TypeOK
  <2>3. inTx' \in BOOLEAN /\ pending' \subseteq Rows /\ committed' \subseteq Rows
    BY <1>7, <2>1 DEF KidWrite, OnWriterConn, TypeOK
  <2> QED  BY <1>7, <2>2, <2>3 DEF KidWrite, TypeOK
<1>8. ASSUME NEW k \in Kids, NEW t \in Txs, SpawnKid(k, t) PROVE TypeOK'
  BY <1>8 DEF TypeOK, SpawnKid, PcValues
<1>9. ASSUME Connect \/ StopInsteadOfConnect \/ Close \/ ClosePut PROVE TypeOK'
  <2>1. queue' \in Seq(Clients \cup {Stop})
    BY <1>9, QueueTyped DEF Connect, StopInsteadOfConnect, Close, ClosePut, TypeOK
  <2> QED  BY <1>9, <2>1 DEF TypeOK, Connect, StopInsteadOfConnect, Close, ClosePut
<1>10. ASSUME ConnectFails PROVE TypeOK'
  <2>1. inTx' \in BOOLEAN /\ pending' \subseteq Rows /\ committed' \subseteq Rows
    BY <1>10 DEF ConnectFails, TypeOK
  <2> QED  BY <1>10, <2>1, CrashTyped DEF ConnectFails
<1>11. ASSUME TakeStop PROVE TypeOK'
  BY <1>11, DrainTyped, QueueTyped DEF TakeStop, Get, Rollback, TypeOK
<1>12. ASSUME NEW w \in Writers, TakeWrite(w) PROVE TypeOK'
  <2>1. <<w, 1>> \in Rows /\ queue' \in Seq(Clients \cup {Stop}) /\ cur' \in Clients
    BY <1>12, QueueTyped DEF Rows, TakeWrite, Get, Clients
  <2>2. /\ inTx' \in BOOLEAN /\ pending' \subseteq Rows /\ committed' \subseteq Rows
        /\ wpc' \in {"single", "refused"}
    BY <1>12, <2>1 DEF TakeWrite, OnWriterConn, TypeOK
  <2> QED  BY <1>12, <2>1, <2>2 DEF TakeWrite, TypeOK
<1>13. ASSUME NEW w \in Writers, CommitWrite(w) \/ FailWrite(w) PROVE TypeOK'
  <2>1. inTx' \in BOOLEAN /\ pending' \subseteq Rows /\ committed' \subseteq Rows
    BY <1>13 DEF CommitWrite, FailWrite, Commit, Rollback, TypeOK
  <2>2. /\ Answer(w, "ok") \/ Answer(w, "err")
        /\ UNCHANGED <<n, closeVars>> /\ {"ok", "err"} \subseteq Answered
    BY <1>13 DEF CommitWrite, FailWrite, Answered
  <2> QED  BY <2>1, <2>2, AnswerTyped
<1>14. ASSUME NEW t \in Txs, TakeTx(t) PROVE TypeOK'
  <2>1. tx' \in [Txs -> TxState] /\ queue' \in Seq(Clients \cup {Stop}) /\ cur' \in Clients
    BY <1>14, TxUpdates, QueueTyped DEF TakeTx, Get, TypeOK, Clients
  <2> QED  BY <1>14, <2>1 DEF TakeTx, TypeOK
<1>15. ASSUME NEW t \in Txs, Release(t) \/ Watchdog(t) PROVE TypeOK'
  <2>0. tx[t] \in TxState
    BY DEF TypeOK
  <2>1. tx' = tx \/ \E s \in TxState : tx' = [tx EXCEPT ![t] = s]
    BY <1>15, <2>0, TxUpdates DEF Release, Watchdog
  <2>2. tx' \in [Txs -> TxState]
    BY <2>1 DEF TypeOK
  <2> QED  BY <1>15, <2>2 DEF Release, Watchdog, TypeOK
<1>16. ASSUME NEW t \in Txs,
              RefuseTx(t) \/ CommitTx(t) \/ CommitTxFails(t) \/ RollbackTx(t)
       PROVE  TypeOK'
  <2>0. tx[t] \in TxState
    BY DEF TypeOK
  <2>1. PICK s \in TxState : tx' = [tx EXCEPT ![t] = s]
    <3>1. CASE RefuseTx(t) \/ CommitTxFails(t)
      BY <2>0, <3>1, TxUpdates DEF RefuseTx, CommitTxFails
    <3>2. CASE CommitTx(t) \/ RollbackTx(t)
      <4>1. tx' = [tx EXCEPT ![t] = [tx[t] EXCEPT !.finish = TRUE]]
        BY <3>2 DEF CommitTx, RollbackTx
      <4> QED  BY <2>0, <4>1, TxUpdates
    <3> QED  BY <1>16, <3>1, <3>2
  <2>4. tx' \in [Txs -> TxState]
    BY <2>1 DEF TypeOK
  <2>3. queue' \in Seq(Clients \cup {Stop}) /\ NextItem /\ UNCHANGED <<pc, n, closeVars>>
    BY <1>16, QueueTyped DEF RefuseTx, CommitTx, CommitTxFails, RollbackTx, Get, TypeOK
  <2>2. inTx' \in BOOLEAN /\ pending' \subseteq Rows /\ committed' \subseteq Rows
    BY <1>16 DEF RefuseTx, CommitTx, CommitTxFails, RollbackTx, Commit, Rollback, TypeOK
  <2>5. pc' \in [Clients \cup Kids -> PcValues]
    BY <2>3 DEF TypeOK
  <2> QED  BY <2>2, <2>3, <2>4, <2>5, NextItemTyped
<1> QED
  BY <1>1, <1>2, <1>3, <1>4, <1>5, <1>6, <1>7, <1>8, <1>9, <1>10, <1>11, <1>12, <1>13,
     <1>14, <1>15, <1>16 DEF Next, WriterStep, ClientStep

LEMMA TypeInit == Init => TypeOK
<1> SUFFICES ASSUME Init PROVE TypeOK
  OBVIOUS
<1>1. << >> \in Seq(Clients \cup {Stop}) /\ "idle" \in PcValues
  BY DEF PcValues
<1>2. NewTx \in TxState
  BY DEF NewTx, TxState
<1>3. 0 \in 0..K
  BY WriteQueueAssumption
<1> QED  BY <1>1, <1>2, <1>3 DEF Init, TypeOK

\* The variables of database.py keep the shapes TypeOK gives them.
THEOREM TypeCorrect == Spec => []TypeOK
BY TypeInit, TypeStep, PTL DEF Spec

-----------------------------------------------------------------------------
(* The queue *)

LEMMA QueueTail ==
    ASSUME TypeOK, QueuedOnce, queue # << >>, queue' = Tail(queue)
    PROVE  /\ \A c : InQueue(c)' => InQueue(c)
           /\ \A c : InQueue(c) /\ c # Head(queue) => InQueue(c)'
           /\ \A c \in Clients : c = Head(queue) => ~InQueue(c)'
           /\ QueuedOnce'
<1>1. queue \in Seq(Clients \cup {Stop})
  BY DEF TypeOK
<1>2. /\ Len(queue) \in Nat \ {0} /\ Len(queue') = Len(queue) - 1
      /\ \A i \in 1..Len(queue') : queue'[i] = queue[i + 1]
      /\ Head(queue) = queue[1]
  BY <1>1
<1>3. \A c : InQueue(c)' => InQueue(c)
  BY <1>2 DEF InQueue
<1>4. ASSUME NEW c, InQueue(c), c # Head(queue) PROVE InQueue(c)'
  <2>1. PICK i \in 1..Len(queue) : queue[i] = c
    BY <1>4 DEF InQueue
  <2>2. i # 1
    BY <1>2, <1>4, <2>1
  <2>3. i - 1 \in 1..Len(queue') /\ queue'[i - 1] = c
    BY <1>2, <2>1, <2>2
  <2> QED  BY <2>3 DEF InQueue
<1>5. ASSUME NEW c \in Clients, c = Head(queue), InQueue(c)' PROVE FALSE
  <2>1. PICK i \in 1..Len(queue') : queue'[i] = c
    BY <1>5 DEF InQueue
  <2>2. 1 \in 1..Len(queue) /\ i + 1 \in 1..Len(queue) /\ queue[i + 1] = queue[1]
    BY <1>2, <1>5, <2>1
  <2>3. i + 1 = 1
    BY <1>2, <1>5, <2>2 DEF QueuedOnce
  <2> QED  BY <2>1, <2>3
<1>6. QueuedOnce'
  BY <1>2 DEF QueuedOnce
<1> QED  BY <1>3, <1>4, <1>5, <1>6

LEMMA QueueAppend ==
    ASSUME TypeOK, QueuedOnce, NEW e \in Clients \cup {Stop},
           e \in Clients => ~InQueue(e), queue' = Append(queue, e)
    PROVE  /\ \A c : InQueue(c)' <=> (InQueue(c) \/ c = e)
           /\ QueuedOnce'
<1>1. queue \in Seq(Clients \cup {Stop})
  BY DEF TypeOK
<1>2. /\ Len(queue) \in Nat /\ Len(queue') = Len(queue) + 1
      /\ \A i \in 1..Len(queue) : queue'[i] = queue[i]
      /\ queue'[Len(queue) + 1] = e
  BY <1>1
<1>3. ASSUME NEW c PROVE InQueue(c)' <=> (InQueue(c) \/ c = e)
  BY <1>2 DEF InQueue
<1>4. QueuedOnce'
  BY <1>2 DEF QueuedOnce, InQueue
<1> QED  BY <1>3, <1>4

LEMMA QueueSame ==
    ASSUME QueuedOnce, queue' = queue
    PROVE  QueuedOnce' /\ \A c : InQueue(c)' <=> InQueue(c)
BY DEF QueuedOnce, InQueue

LEMMA QueueEmptied ==
    ASSUME queue' = << >>
    PROVE  QueuedOnce' /\ \A c : ~InQueue(c)'
BY DEF QueuedOnce, InQueue

LEMMA HeadInQueue ==
    ASSUME TypeOK, queue # << >>
    PROVE  InQueue(Head(queue))
<1>1. queue \in Seq(Clients \cup {Stop})
  BY DEF TypeOK
<1>2. 1 \in 1..Len(queue) /\ queue[1] = Head(queue)
  BY <1>1
<1> QED  BY <1>2 DEF InQueue

-----------------------------------------------------------------------------
(* What each operation does to the queue, the callers and the writer *)

LEMMA SubmitEffect ==
    ASSUME IInv, NEW c \in Clients, Submit(c) \/ PutWhenRoom(c)
    PROVE  /\ UNCHANGED <<wpc, cur, pending, committed, n, tx>>
           /\ pc[c] \in {"idle", "putting"} /\ ~InQueue(c)
           /\ QueuedOnce'
           /\ \A u \in Clients \ {c} : pc'[u] = pc[u] /\ (InQueue(u)' <=> InQueue(u))
           /\ \/ pc'[c] \in {"err", "putting"} /\ ~InQueue(c)'
              \/ pc'[c] = Queued(c) /\ InQueue(c)'
<1> USE DEF clientVars, sqlVars, superVars, closeVars
<1>1. /\ UNCHANGED <<wpc, cur, pending, committed, n, tx>>
      /\ pc[c] \in {"idle", "putting"}
      /\ \/ queue' = queue /\ \E x \in {"err", "putting"} : pc' = [pc EXCEPT ![c] = x]
         \/ queue' = Append(queue, c) /\ pc' = [pc EXCEPT ![c] = Queued(c)]
  BY DEF Submit, PutWhenRoom
<1>2. /\ \A u \in Clients : u \in DOMAIN pc
      /\ ~InQueue(c) /\ c \in Clients \cup {Stop}
  BY <1>1 DEF IInv, TypeOK, QueuedByPut
<1>3. CASE queue' = queue
  BY <1>1, <1>2, <1>3, QueueSame DEF IInv
<1>4. CASE queue' = Append(queue, c)
  BY <1>1, <1>2, <1>4, QueueAppend DEF IInv
<1> QED  BY <1>1, <1>3, <1>4

LEMMA GiveUpEffect ==
    ASSUME IInv, NEW c \in Clients, Shed(c) \/ CancelWrite(c)
    PROVE  /\ UNCHANGED <<queue, wpc, cur, pending, committed, n, tx>>
           /\ \/ pc[c] = "putting"
              \/ c \in Writers /\ pc[c] = "await" /\ pc'[c] = "cancelled"
           /\ pc'[c] \in {"shed", "cancelled"}
           /\ \A u \in Clients \ {c} : pc'[u] = pc[u]
           /\ QueuedOnce' /\ \A u : InQueue(u)' <=> InQueue(u)
<1>1. UNCHANGED <<queue, wpc, cur, pending, committed, n, tx>>
  BY DEF Shed, CancelWrite, sqlVars
<1>2. /\ QueuedOnce' /\ \A u : InQueue(u)' <=> InQueue(u)
      /\ \A u \in Clients : u \in DOMAIN pc
  BY <1>1, QueueSame DEF IInv, TypeOK
<1>3. CASE Shed(c)
  BY <1>1, <1>2, <1>3 DEF Shed
<1>4. CASE CancelWrite(c)
  BY <1>1, <1>2, <1>4 DEF CancelWrite
<1> QED  BY <1>3, <1>4

\* A transaction's own steps leave the queue, the writer and the file alone.
LEMMA TxStepEffect ==
    ASSUME IInv, NEW t \in Txs,
           CancelLease(t) \/ StartBody(t) \/ BodyReturn(t) \/ BodyRaise(t)
             \/ CloseTx(t) \/ CancelFinish(t)
    PROVE  /\ UNCHANGED <<queue, wpc, cur, pending, committed, n>>
           /\ \A u \in Txs \ {t} : pc'[u] = pc[u] /\ tx'[u] = tx[u]
           /\ \A w \in Writers : pc'[w] = pc[w]
           /\ QueuedOnce' /\ \A c : InQueue(c)' <=> InQueue(c)
<1> USE DEF sqlVars
<1>1. /\ UNCHANGED <<queue, wpc, cur, pending, committed, n>>
  BY DEF CancelLease, StartBody, BodyReturn, BodyRaise, CloseTx, CancelFinish
<1>2. /\ \E x : pc' = [pc EXCEPT ![t] = x]
      /\ tx' = tx \/ \E x : tx' = [tx EXCEPT ![t] = x]
  BY DEF CancelLease, StartBody, BodyReturn, BodyRaise, CloseTx, CancelFinish
<1>3. /\ \A u \in Txs : u \in DOMAIN pc /\ u \in DOMAIN tx
      /\ \A w \in Writers : w \in DOMAIN pc /\ w # t
  BY WriteQueueAssumption DEF IInv, TypeOK, Clients
<1> QED  BY <1>1, <1>2, <1>3, QueueSame DEF IInv

LEMMA BodyWriteEffect ==
    ASSUME IInv, NEW t \in Txs, BodyWrite(t)
    PROVE  /\ UNCHANGED <<queue, wpc, cur, committed, pc, tx>>
           /\ pc[t] = "body" /\ pending' = pending \cup {<<t, n[t] + 1>>}
           /\ n' = [n EXCEPT ![t] = n[t] + 1] /\ n[t] < K
           /\ QueuedOnce' /\ \A u : InQueue(u)' <=> InQueue(u)
BY QueueSame DEF BodyWrite, OnWriterConn, IInv, clientVars, sqlVars

LEMMA KidEffect ==
    ASSUME IInv, NEW k \in Kids, KidWrite(k) \/ \E t \in Txs : SpawnKid(k, t)
    PROVE  /\ UNCHANGED <<queue, wpc, cur, committed, n, tx>> /\ pending \subseteq pending'
           /\ \A u \in Clients : pc'[u] = pc[u]
           /\ QueuedOnce' /\ \A u : InQueue(u)' <=> InQueue(u)
<1>1. /\ UNCHANGED <<queue, wpc, cur, committed, n, tx>> /\ pending \subseteq pending'
      /\ \E x : pc' = [pc EXCEPT ![k] = x]
  BY DEF KidWrite, SpawnKid, OnWriterConn, sqlVars
<1> QED
  BY <1>1, QueueSame, WriteQueueAssumption DEF IInv, TypeOK, Clients

\* The writer's task starts, stops, or is told to stop.
LEMMA IdleEffect ==
    ASSUME IInv, Connect \/ StopInsteadOfConnect \/ TakeStop
    PROVE  /\ UNCHANGED <<pc, tx, n, cur, committed>> /\ pending' \subseteq pending
           /\ wpc' \in {"get", "stopped"} /\ wpc \in {"connect", "get"} /\ cur \notin Clients
           /\ QueuedOnce' /\ \A u \in Clients : InQueue(u)' <=> InQueue(u)
<1> USE DEF clientVars, sqlVars, superVars, closeVars
<1>1. /\ UNCHANGED <<pc, tx, n, cur, committed>> /\ pending' \subseteq pending
      /\ wpc' \in {"get", "stopped"} /\ wpc \in {"connect", "get"}
      /\ \/ queue' = queue
         \/ queue # << >> /\ Head(queue) = Stop /\ queue' = Tail(queue)
  <2>1. CASE Connect
    BY <2>1 DEF Connect
  <2>2. CASE StopInsteadOfConnect
    BY <2>2 DEF StopInsteadOfConnect
  <2>3. CASE TakeStop
    BY <2>3 DEF TakeStop, Get, Rollback
  <2> QED  BY <2>1, <2>2, <2>3
<1>2. QueuedOnce' /\ \A u \in Clients : InQueue(u)' <=> InQueue(u)
  <2>1. CASE queue' = queue
    BY <2>1, QueueSame DEF IInv
  <2>2. CASE queue # << >> /\ Head(queue) = Stop /\ queue' = Tail(queue)
    BY <2>2, QueueTail, WriteQueueAssumption DEF IInv, Clients
  <2> QED  BY <1>1, <2>1, <2>2
<1>3. cur \notin Clients
  BY <1>1 DEF IInv, ServiceInv, Clients
<1> QED  BY <1>1, <1>2, <1>3

LEMMA CloseEffect ==
    ASSUME IInv, Close \/ ClosePut
    PROVE  /\ UNCHANGED <<pc, tx, n, cur, wpc, pending, committed>>
           /\ QueuedOnce' /\ \A u \in Clients : InQueue(u)' <=> InQueue(u)
<1>1. /\ UNCHANGED <<pc, tx, n, cur, wpc, pending, committed>>
      /\ queue' = queue \/ queue' = Append(queue, Stop)
  BY DEF Close, ClosePut, clientVars, sqlVars
<1> QED
  BY <1>1, QueueSame, QueueAppend, WriteQueueAssumption DEF IInv, Clients

LEMMA CrashEffect ==
    ASSUME IInv, Crash
    PROVE  /\ cur' = Nobody /\ wpc' \in {"connect", "stopped", "dead"}
           /\ QueuedOnce' /\ \A u : InQueue(u)' => InQueue(u)
           /\ \/ UNCHANGED <<pc, tx, queue>> /\ wpc' # "dead"
              \/ /\ pc' = DrainedPc /\ tx' = DrainedTx /\ wpc' = "dead"
                 /\ \A u : ~InQueue(u)'
                 /\ \A u \in Clients : \/ pc'[u] = pc[u]
                                       \/ /\ u \in Writers /\ InQueue(u)
                                          /\ pc[u] = "await" /\ pc'[u] = "err"
<1>1. CASE UNCHANGED <<pc, tx, queue>> /\ wpc' \in {"connect", "stopped"}
  BY <1>1, QueueSame DEF IInv, Crash
<1>2. CASE pc' = DrainedPc /\ tx' = DrainedTx /\ queue' = << >> /\ wpc' = "dead"
  <2>1. \A u \in Clients : \/ pc'[u] = pc[u]
                           \/ /\ u \in Writers /\ InQueue(u)
                              /\ pc[u] = "await" /\ pc'[u] = "err"
    BY <1>2 DEF DrainedPc
  <2> QED  BY <1>2, <2>1, QueueEmptied DEF Crash
<1> QED  BY <1>1, <1>2 DEF Crash

LEMMA TakeWriteEffect ==
    ASSUME IInv, NEW w \in Writers, TakeWrite(w)
    PROVE  /\ UNCHANGED <<pc, tx, n, committed>> /\ cur' = w /\ wpc = "get"
           /\ \/ wpc' = "refused" /\ pending' = pending
              \/ wpc' = "single" /\ pending' = pending \cup {<<w, 1>>}
           /\ cur \notin Clients /\ w \notin Txs
           /\ QueuedOnce' /\ InQueue(w) /\ ~InQueue(w)'
           /\ \A u \in Clients \ {w} : InQueue(u)' <=> InQueue(u)
<1> USE DEF clientVars, sqlVars, superVars, closeVars
<1>1. /\ UNCHANGED <<pc, tx, n, committed>> /\ cur' = w /\ wpc = "get"
      /\ queue # << >> /\ Head(queue) = w /\ queue' = Tail(queue)
      /\ \/ wpc' = "refused" /\ pending' = pending
         \/ wpc' = "single" /\ pending' = pending \cup {<<w, 1>>}
  BY DEF TakeWrite, Get, OnWriterConn
<1>2. w \notin Txs /\ cur \notin Clients
  BY <1>1, WriteQueueAssumption DEF IInv, ServiceInv, Clients
<1>3. InQueue(w)
  BY <1>1, HeadInQueue DEF IInv
<1> QED  BY <1>1, <1>2, <1>3, QueueTail DEF IInv, Clients

\* A single write is answered, or the loop crashes over a cancelled one.
LEMMA WriteEndsEffect ==
    ASSUME IInv, NEW w \in Writers, CommitWrite(w) \/ FailWrite(w)
    PROVE  /\ n' = n /\ cur = w /\ cur \notin Txs /\ pending' = {}
           /\ \/ Crash /\ pc[w] = "cancelled"
              \/ /\ cur' = Nobody /\ wpc' \in {"get", "stopped"} /\ tx' = tx
                 /\ QueuedOnce' /\ \A u : InQueue(u)' <=> InQueue(u)
                 /\ \A u \in Clients \ {w} : pc'[u] = pc[u]
                 /\ pc[w] # "cancelled" /\ pc'[w] \in {"ok", "err"}
           /\ \/ /\ <<w, 1>> \in pending /\ committed' = committed \cup pending
                 /\ pc[w] # "cancelled" => pc'[w] = "ok"
              \/ /\ committed' = committed
                 /\ pc[w] # "cancelled" => pc'[w] = "err"
<1>1. /\ n' = n /\ cur = w /\ cur \notin Txs /\ pending' = {}
      /\ CommitWrite(w) => <<w, 1>> \in pending /\ committed' = committed \cup pending
      /\ FailWrite(w) => committed' = committed
  BY WriteQueueAssumption DEF CommitWrite, FailWrite, Commit, Rollback, IInv, ServiceInv
<1>2. CASE pc[w] = "cancelled"
  <2>1. Crash
    BY <1>2 DEF CommitWrite, FailWrite, Answer
  <2> QED  BY <1>1, <1>2, <2>1
<1>3. CASE pc[w] # "cancelled"
  <2>1. /\ NextItem /\ UNCHANGED <<tx, queue>>
        /\ \/ CommitWrite(w) /\ pc' = [pc EXCEPT ![w] = "ok"]
           \/ FailWrite(w) /\ pc' = [pc EXCEPT ![w] = "err"]
    BY <1>3 DEF CommitWrite, FailWrite, Answer
  <2>2. /\ cur' = Nobody /\ wpc' \in {"get", "stopped"}
        /\ w \in DOMAIN pc /\ \A u \in Clients : u \in DOMAIN pc
    BY <2>1 DEF NextItem, IInv, TypeOK, Clients
  <2>3. QueuedOnce' /\ \A u : InQueue(u)' <=> InQueue(u)
    BY <2>1, QueueSame DEF IInv
  <2>4. CASE CommitWrite(w) /\ pc' = [pc EXCEPT ![w] = "ok"]
    BY <1>1, <1>3, <2>1, <2>2, <2>3, <2>4
  <2>5. CASE FailWrite(w) /\ pc' = [pc EXCEPT ![w] = "err"]
    BY <1>1, <1>3, <2>1, <2>2, <2>3, <2>5
  <2> QED  BY <2>1, <2>4, <2>5
<1> QED  BY <1>2, <1>3

LEMMA TakeTxEffect ==
    ASSUME IInv, NEW t \in Txs, TakeTx(t) \/ RefuseTx(t)
    PROVE  /\ UNCHANGED <<pc, n, committed>> /\ wpc = "get" /\ cur \notin Clients
           /\ QueuedOnce' /\ InQueue(t) /\ ~InQueue(t)'
           /\ \A u \in Clients \ {t} : InQueue(u)' <=> InQueue(u)
           /\ \A u \in Txs \ {t} : tx'[u] = tx[u]
           /\ \/ /\ cur' = t /\ wpc' = "lease" /\ pending' = pending
                 /\ tx'[t] = [tx[t] EXCEPT !.start = TRUE]
              \/ /\ cur' = Nobody /\ wpc' \in {"get", "stopped"} /\ pending' = {}
                 /\ tx'[t] = Failed(tx[t])
<1>1. /\ UNCHANGED <<pc, n, committed>> /\ wpc = "get"
      /\ queue # << >> /\ Head(queue) = t /\ queue' = Tail(queue)
  BY DEF TakeTx, RefuseTx, Get, Rollback
<1>2. t \in Clients /\ cur \notin Clients /\ tx \in [Txs -> TxState]
  BY <1>1 DEF IInv, ServiceInv, TypeOK, Clients
<1>3. InQueue(t)
  BY <1>1, HeadInQueue DEF IInv
<1>4. /\ QueuedOnce' /\ ~InQueue(t)'
      /\ \A u \in Clients \ {t} : InQueue(u)' <=> InQueue(u)
  BY <1>1, <1>2, QueueTail DEF IInv
<1>5. CASE TakeTx(t)
  <2>1. /\ cur' = t /\ wpc' = "lease" /\ pending' = pending
        /\ tx' = [tx EXCEPT ![t] = [tx[t] EXCEPT !.start = TRUE]]
    BY <1>5 DEF TakeTx
  <2> QED  BY <1>1, <1>2, <1>3, <1>4, <2>1
<1>6. CASE RefuseTx(t)
  <2>1. /\ cur' = Nobody /\ wpc' \in {"get", "stopped"} /\ pending' = {}
        /\ tx' = [tx EXCEPT ![t] = Failed(tx[t])]
    BY <1>6 DEF RefuseTx, NextItem, Rollback
  <2> QED  BY <1>1, <1>2, <1>3, <1>4, <2>1
<1> QED  BY <1>5, <1>6

\* The lease ends: the body is over, or the watchdog fired.
LEMMA LeaseEndsEffect ==
    ASSUME IInv, NEW t \in Txs, Release(t) \/ Watchdog(t)
    PROVE  /\ UNCHANGED <<pc, n, committed, pending, queue, cur>>
           /\ wpc = "lease" /\ cur = t /\ wpc' \in {"committing", "rollingback"}
           /\ QueuedOnce' /\ \A u : InQueue(u)' <=> InQueue(u)
           /\ \/ /\ tx' = tx /\ tx[t].done
                 /\ wpc' = "committing" <=> tx[t].action = "commit"
              \/ /\ BodyHangs /\ wpc' = "rollingback" /\ pc[t] # "wait_start"
                 /\ \A u \in Txs \ {t} : tx'[u] = tx[u]
                 /\ tx'[t].forced /\ tx'[t].done = tx[t].done
<1>1. /\ UNCHANGED <<pc, n, committed, pending, queue, cur>>
      /\ wpc = "lease" /\ cur = t /\ wpc' \in {"committing", "rollingback"}
  BY DEF Release, Watchdog, clientVars, sqlVars
<1>2. QueuedOnce' /\ \A u : InQueue(u)' <=> InQueue(u)
  BY <1>1, QueueSame DEF IInv
<1>3. CASE Release(t)
  BY <1>1, <1>2, <1>3 DEF Release, clientVars
<1>4. CASE Watchdog(t)
  <2>1. /\ BodyHangs /\ wpc' = "rollingback" /\ pc[t] # "wait_start"
        /\ tx' = [tx EXCEPT ![t] = [tx[t] EXCEPT !.error = TRUE, !.action = "rollback",
                                                 !.forced = TRUE]]
        /\ tx \in [Txs -> TxState]
    BY <1>4 DEF Watchdog, IInv, TypeOK
  <2> QED  BY <1>1, <1>2, <2>1 DEF TxState
<1> QED  BY <1>3, <1>4

LEMMA TxEndsEffect ==
    ASSUME IInv, NEW t \in Txs, CommitTx(t) \/ CommitTxFails(t) \/ RollbackTx(t)
    PROVE  /\ UNCHANGED <<pc, n, queue>> /\ cur = t /\ wpc \in {"committing", "rollingback"}
           /\ cur' = Nobody /\ wpc' \in {"get", "stopped"} /\ pending' = {}
           /\ QueuedOnce' /\ \A u : InQueue(u)' <=> InQueue(u)
           /\ \A u \in Txs \ {t} : tx'[u] = tx[u]
           /\ tx'[t].done = tx[t].done /\ tx'[t].action = tx[t].action
           /\ \/ tx'[t].forced /\ committed' = committed
              \/ /\ tx'[t].forced = tx[t].forced
                 /\ \/ wpc = "committing" /\ committed' = committed \cup pending
                    \/ wpc = "rollingback" /\ committed' = committed
<1>1. /\ UNCHANGED <<pc, n, queue>> /\ cur = t /\ wpc \in {"committing", "rollingback"}
      /\ pending' = {} /\ NextItem
  BY DEF CommitTx, CommitTxFails, RollbackTx, Commit, Rollback
<1>2. cur' = Nobody /\ wpc' \in {"get", "stopped"}
  BY <1>1 DEF NextItem
<1>3. QueuedOnce' /\ \A u : InQueue(u)' <=> InQueue(u)
  BY <1>1, QueueSame DEF IInv
<1>4. tx \in [Txs -> TxState]
  BY DEF IInv, TypeOK
<1>5. CASE CommitTxFails(t)
  <2>1. committed' = committed /\ tx' = [tx EXCEPT ![t] = Failed(tx[t])]
    BY <1>5 DEF CommitTxFails, Rollback
  <2> QED  BY <1>1, <1>2, <1>3, <1>4, <2>1 DEF Failed, TxState
<1>6. CASE CommitTx(t) \/ RollbackTx(t)
  <2>1. /\ tx' = [tx EXCEPT ![t] = [tx[t] EXCEPT !.finish = TRUE]]
        /\ \/ wpc = "committing" /\ committed' = committed \cup pending
           \/ wpc = "rollingback" /\ committed' = committed
    BY <1>6 DEF CommitTx, RollbackTx, Commit, Rollback
  <2> QED  BY <1>1, <1>2, <1>3, <1>4, <2>1 DEF TxState
<1> QED  BY <1>5, <1>6

-----------------------------------------------------------------------------
(* AckedDurable *)

LEMMA InvInit == Init => IInv
<1> SUFFICES ASSUME Init PROVE IInv
  OBVIOUS
<1>1. TypeOK
  BY TypeInit
<1>2. QueuedOnce /\ \A c : ~InQueue(c)
  BY DEF Init, QueuedOnce, InQueue
<1>3. cur = Nobody /\ wpc = "connect" /\ (\A c \in Clients : pc[c] = "idle")
  BY DEF Init
<1>4. \A t \in Txs : pc[t] = "idle" /\ tx[t] = NewTx /\ n[t] = 0 /\ t # Nobody
  BY WriteQueueAssumption DEF Init, Clients
<1>5. cur \notin Writers /\ cur \notin Txs
  BY <1>3, WriteQueueAssumption
<1> QED  BY <1>1, <1>2, <1>3, <1>4, <1>5
            DEF IInv, QueuedByPut, ServiceInv, TxInv, WaitingOK, BodyOK, AckedDurable, Clients

\* A step that does not touch transaction u, nor the writer's place.
LEMMA FrameUntouched ==
    ASSUME NEW u \in Txs, WaitingOK(u), BodyOK(u), pc'[u] = pc[u], tx'[u] = tx[u],
           n'[u] = n[u], cur' = cur, wpc' = wpc, InQueue(u)' <=> InQueue(u),
           pending \subseteq pending', committed \subseteq committed'
    PROVE  WaitingOK(u)' /\ BodyOK(u)'
BY DEF WaitingOK, BodyOK

\* A step of the writer that does not serve transaction u.
LEMMA FrameUnserved ==
    ASSUME NEW u \in Txs, WaitingOK(u), BodyOK(u), pc'[u] = pc[u], tx'[u] = tx[u],
           n'[u] = n[u], cur # u, cur' # u, InQueue(u)' <=> InQueue(u),
           committed \subseteq committed'
    PROVE  WaitingOK(u)' /\ BodyOK(u)'
BY DEF WaitingOK, BodyOK

LEMMA InvTxStep ==
    ASSUME IInv, TypeOK', NEW t \in Txs,
           CancelLease(t) \/ StartBody(t) \/ BodyReturn(t) \/ BodyRaise(t)
             \/ CloseTx(t) \/ CancelFinish(t)
    PROVE  IInv'
<1> USE DEF clientVars, sqlVars, superVars, closeVars
<1>1. /\ UNCHANGED <<queue, wpc, cur, pending, committed, n>>
      /\ \A u \in Txs \ {t} : pc'[u] = pc[u] /\ tx'[u] = tx[u]
      /\ \A w \in Writers : pc'[w] = pc[w]
  BY TxStepEffect
<1>2. QueuedOnce' /\ \A c : InQueue(c)' <=> InQueue(c)
  BY TxStepEffect
<1>3. ServiceInv'
  BY <1>1 DEF IInv, ServiceInv
<1>4. /\ t \in Clients /\ WaitingOK(t) /\ BodyOK(t)
      /\ tx[t] \in TxState /\ n[t] \in 0..K /\ tx' \in [Txs -> TxState]
      /\ t \in DOMAIN pc /\ t \in DOMAIN tx
  BY DEF IInv, TypeOK, TxInv, Clients
<1>5. /\ WaitingOK(t)' /\ BodyOK(t)'
      /\ pc'[t] \notin {"idle", "putting"}
      /\ pc'[t] = "ok" => RowsOf(t) \subseteq committed
  <2>1. CASE CancelLease(t)
    BY <1>1, <1>2, <1>4, <2>1 DEF CancelLease, WaitingOK, BodyOK
  <2>2. CASE StartBody(t)
    <3>1. CASE tx[t].error
      BY <1>1, <1>2, <1>4, <2>2, <3>1 DEF StartBody, WaitingOK, BodyOK
    <3>2. CASE ~tx[t].error
      BY <1>1, <1>2, <1>4, <2>2, <3>2 DEF StartBody, WaitingOK, BodyOK
    <3> QED  BY <3>1, <3>2
  <2>3. CASE BodyReturn(t)
    <3>1. /\ pc[t] = "body" /\ pc'[t] = "finish" /\ n[t] = K
          /\ tx'[t] = [tx[t] EXCEPT !.action = "commit", !.done = TRUE]
      BY <1>4, <2>3 DEF BodyReturn
    <3>2. /\ tx'[t].action = "commit" /\ tx'[t].done
          /\ tx'[t].forced = tx[t].forced /\ tx'[t].finish = tx[t].finish
      BY <1>4, <3>1 DEF TxState
    <3> QED  BY <1>1, <1>2, <1>4, <3>1, <3>2 DEF WaitingOK, BodyOK
  <2>4. CASE BodyRaise(t)
    BY <1>1, <1>2, <1>4, <2>4 DEF BodyRaise, WaitingOK, BodyOK
  <2>5. CASE CloseTx(t)
    BY <1>1, <1>2, <1>4, <2>5 DEF CloseTx, Outcome, WaitingOK, BodyOK
  <2>6. CASE CancelFinish(t)
    BY <1>1, <1>2, <1>4, <2>6 DEF CancelFinish, WaitingOK, BodyOK
  <2> QED  BY <2>1, <2>2, <2>3, <2>4, <2>5, <2>6
<1>6. TxInv'
  <2>1. ASSUME NEW u \in Txs \ {t} PROVE WaitingOK(u)' /\ BodyOK(u)'
    BY <1>1, <1>2, FrameUntouched DEF IInv, TxInv
  <2> QED  BY <1>5, <2>1 DEF TxInv
<1>7. QueuedByPut'
  BY <1>1, <1>2, <1>5 DEF IInv, QueuedByPut, Clients
<1>8. AckedDurable'
  BY <1>1, <1>5 DEF IInv, AckedDurable, Clients, RowsWritten
<1> QED  BY <1>2, <1>3, <1>6, <1>7, <1>8 DEF IInv

LEMMA InvSubmit ==
    ASSUME IInv, TypeOK', NEW c \in Clients, Submit(c) \/ PutWhenRoom(c)
    PROVE  IInv'
<1>1. /\ UNCHANGED <<wpc, cur, pending, committed, n, tx>>
      /\ pc[c] \in {"idle", "putting"}
  BY SubmitEffect
<1>2. /\ QueuedOnce'
      /\ \A u \in Clients \ {c} : pc'[u] = pc[u] /\ (InQueue(u)' <=> InQueue(u))
      /\ \/ pc'[c] \in {"err", "putting"} /\ ~InQueue(c)'
         \/ pc'[c] = Queued(c) /\ InQueue(c)'
  BY SubmitEffect
<1>3. ServiceInv'
  BY <1>1 DEF IInv, ServiceInv
<1>4. QueuedByPut'
  BY <1>2 DEF IInv, QueuedByPut, Queued
<1>5. TxInv'
  <2>1. ASSUME NEW u \in Txs, u # c PROVE WaitingOK(u)' /\ BodyOK(u)'
    BY <1>1, <1>2, <2>1, FrameUntouched DEF IInv, TxInv, Clients
  <2>2. ASSUME c \in Txs PROVE WaitingOK(c)' /\ BodyOK(c)'
    <3>1. WaitingOK(c) /\ c \notin Writers
      BY <2>2, WriteQueueAssumption DEF IInv, TxInv
    <3>2. tx[c] = NewTx /\ cur # c /\ n[c] = 0
      BY <1>1, <3>1 DEF WaitingOK
    <3> QED  BY <1>1, <1>2, <3>1, <3>2 DEF WaitingOK, BodyOK, NewTx, Queued
  <2> QED  BY <2>1, <2>2 DEF TxInv
<1>6. AckedDurable'
  BY <1>1, <1>2 DEF IInv, AckedDurable, Queued
<1> QED  BY <1>2, <1>3, <1>4, <1>5, <1>6 DEF IInv

LEMMA InvGiveUp ==
    ASSUME IInv, TypeOK', NEW c \in Clients, Shed(c) \/ CancelWrite(c)
    PROVE  IInv'
<1>1. /\ UNCHANGED <<queue, wpc, cur, pending, committed, n, tx>>
      /\ pc[c] = "putting" \/ c \in Writers
      /\ \A u \in Clients \ {c} : pc'[u] = pc[u]
      /\ pc'[c] \in {"shed", "cancelled"}
  BY GiveUpEffect
<1>2. QueuedOnce' /\ \A u : InQueue(u)' <=> InQueue(u)
  BY GiveUpEffect
<1>3. TxInv'
  <2>1. ASSUME NEW u \in Txs, u # c PROVE WaitingOK(u)' /\ BodyOK(u)'
    BY <1>1, <1>2, <2>1, FrameUntouched DEF IInv, TxInv, Clients
  <2>2. ASSUME c \in Txs PROVE WaitingOK(c)' /\ BodyOK(c)'
    BY <1>1, <1>2, <2>2, WriteQueueAssumption DEF IInv, TxInv, WaitingOK, BodyOK
  <2> QED  BY <2>1, <2>2 DEF TxInv
<1> QED
  BY <1>1, <1>2, <1>3 DEF IInv, ServiceInv, QueuedByPut, AckedDurable

LEMMA InvBodyWrite ==
    ASSUME IInv, TypeOK', NEW t \in Txs, BodyWrite(t)
    PROVE  IInv'
<1>1. /\ UNCHANGED <<queue, wpc, cur, committed, pc, tx>>
      /\ pc[t] = "body" /\ pending' = pending \cup {<<t, n[t] + 1>>}
      /\ n' = [n EXCEPT ![t] = n[t] + 1]
  BY BodyWriteEffect
<1>2. /\ QueuedOnce' /\ \A u : InQueue(u)' <=> InQueue(u)
      /\ \A u \in Txs : u \in DOMAIN n /\ n[u] \in 0..K /\ n'[u] \in 0..K
  BY BodyWriteEffect DEF IInv, TypeOK
<1>3. TxInv'
  <2>1. ASSUME NEW u \in Txs, u # t PROVE WaitingOK(u)' /\ BodyOK(u)'
    BY <1>1, <1>2, <2>1, FrameUntouched DEF IInv, TxInv
  <2>2. WaitingOK(t)'
    BY <1>1, <1>2 DEF IInv, TxInv, WaitingOK
  <2>3. BodyOK(t)'
    <3>1. n'[t] = n[t] + 1
      BY <1>1, <1>2
    <3>2. ~tx[t].forced => \A i \in 1..n'[t] : <<t, i>> \in pending'
      BY <1>1, <1>2, <3>1 DEF IInv, TxInv, BodyOK
    <3> QED  BY <1>1, <1>2, <3>2 DEF IInv, TxInv, BodyOK
  <2> QED  BY <2>1, <2>2, <2>3 DEF TxInv
<1> QED
  BY <1>1, <1>2, <1>3 DEF IInv, ServiceInv, QueuedByPut, AckedDurable

LEMMA InvKid ==
    ASSUME IInv, TypeOK', NEW k \in Kids,
           KidWrite(k) \/ \E t \in Txs : SpawnKid(k, t)
    PROVE  IInv'
<1>1. /\ UNCHANGED <<queue, wpc, cur, committed, n, tx>> /\ pending \subseteq pending'
      /\ \A u \in Clients : pc'[u] = pc[u]
      /\ QueuedOnce' /\ \A u : InQueue(u)' <=> InQueue(u)
  BY KidEffect
<1>2. TxInv'
  BY <1>1, FrameUntouched DEF IInv, TxInv, Clients
<1> QED
  BY <1>1, <1>2 DEF IInv, ServiceInv, QueuedByPut, AckedDurable

LEMMA InvIdle ==
    ASSUME IInv, TypeOK', Connect \/ StopInsteadOfConnect \/ TakeStop
    PROVE  IInv'
<1>1. /\ UNCHANGED <<pc, tx, n, cur, committed>>
      /\ wpc' \in {"get", "stopped"} /\ cur \notin Clients
      /\ QueuedOnce' /\ \A u \in Clients : InQueue(u)' <=> InQueue(u)
  BY IdleEffect
<1>2. TxInv'
  <2>1. ASSUME NEW u \in Txs PROVE WaitingOK(u)' /\ BodyOK(u)'
    BY <1>1, FrameUnserved DEF IInv, TxInv, Clients
  <2> QED  BY <2>1 DEF TxInv
<1> QED
  BY <1>1, <1>2 DEF IInv, ServiceInv, QueuedByPut, AckedDurable, Clients

LEMMA InvClose ==
    ASSUME IInv, TypeOK', Close \/ ClosePut
    PROVE  IInv'
<1>1. /\ UNCHANGED <<pc, tx, n, cur, wpc, pending, committed>>
      /\ QueuedOnce' /\ \A u \in Clients : InQueue(u)' <=> InQueue(u)
  BY CloseEffect
<1>2. TxInv'
  <2>1. ASSUME NEW u \in Txs PROVE WaitingOK(u)' /\ BodyOK(u)'
    BY <1>1, FrameUntouched DEF IInv, TxInv, Clients
  <2> QED  BY <2>1 DEF TxInv
<1> QED
  BY <1>1, <1>2 DEF IInv, ServiceInv, QueuedByPut, AckedDurable

\* A crash of the loop, from a state in which no transaction is served.
LEMMA InvCrash ==
    ASSUME IInv, TypeOK', Crash, cur \notin Txs, n' = n, committed \subseteq committed'
    PROVE  IInv'
<1>1. cur' = Nobody /\ cur' \notin Txs /\ cur' \notin Writers
  BY CrashEffect, WriteQueueAssumption
<1>2. ServiceInv'
  BY <1>1, CrashEffect DEF ServiceInv
<1>3. CASE UNCHANGED <<pc, tx, queue>>
  <2>1. QueuedOnce' /\ \A u : InQueue(u)' <=> InQueue(u)
    BY <1>3, QueueSame DEF IInv
  <2>2. TxInv'
    <3>1. ASSUME NEW u \in Txs PROVE WaitingOK(u)' /\ BodyOK(u)'
      BY <1>1, <1>3, <2>1, FrameUnserved DEF IInv, TxInv
    <3> QED  BY <3>1 DEF TxInv
  <2> QED
    BY <1>2, <1>3, <2>1, <2>2 DEF IInv, QueuedByPut, AckedDurable
<1>4. CASE /\ tx' = DrainedTx /\ QueuedOnce' /\ \A u : ~InQueue(u)'
           /\ \A u \in Clients : \/ pc'[u] = pc[u]
                                 \/ u \in Writers /\ pc'[u] = "err"
  <2>1. /\ \A u \in Clients : pc'[u] = "ok" => pc[u] = "ok"
        /\ \A u \in Txs : pc'[u] = pc[u]
    BY <1>4, WriteQueueAssumption DEF Clients
  <2>2. TxInv'
    <3>1. ASSUME NEW u \in Txs, InQueue(u) PROVE WaitingOK(u)' /\ BodyOK(u)'
      <4>1. tx'[u].error /\ pc'[u] \in {"wait_start", "cancelled"} /\ WaitingOK(u)
        BY <1>4, <2>1, <3>1 DEF DrainedTx, IInv, TxInv, WaitingOK
      <4> QED  BY <1>1, <1>4, <2>1, <4>1 DEF WaitingOK, BodyOK
    <3>2. ASSUME NEW u \in Txs, ~InQueue(u) PROVE WaitingOK(u)' /\ BodyOK(u)'
      <4>1. tx'[u] = tx[u]
        BY <1>4, <3>2 DEF DrainedTx
      <4> QED  BY <1>1, <1>4, <2>1, <3>2, <4>1, FrameUnserved DEF IInv, TxInv
    <3> QED  BY <3>1, <3>2 DEF TxInv
  <2> QED
    BY <1>2, <1>4, <2>1, <2>2 DEF IInv, QueuedByPut, AckedDurable
<1> QED  BY <1>3, <1>4, CrashEffect

LEMMA InvTakeWrite ==
    ASSUME IInv, TypeOK', NEW w \in Writers, TakeWrite(w)
    PROVE  IInv'
<1>1. /\ UNCHANGED <<pc, tx, n, committed>> /\ cur' = w
      /\ \/ wpc' = "refused"
         \/ wpc' = "single" /\ <<w, 1>> \in pending'
  BY TakeWriteEffect
<1>2. /\ w \notin Txs /\ cur \notin Clients /\ QueuedOnce' /\ ~InQueue(w)'
      /\ \A u \in Clients \ {w} : InQueue(u)' <=> InQueue(u)
  BY TakeWriteEffect
<1>3. TxInv'
  <2>1. ASSUME NEW u \in Txs PROVE WaitingOK(u)' /\ BodyOK(u)'
    BY <1>1, <1>2, FrameUnserved DEF IInv, TxInv, Clients
  <2> QED  BY <2>1 DEF TxInv
<1>4. ServiceInv'
  BY <1>1, <1>2 DEF ServiceInv
<1> QED
  BY <1>1, <1>2, <1>3, <1>4 DEF IInv, QueuedByPut, AckedDurable

\* The writer answers a single write, or crashes over a cancelled one.
LEMMA InvWriteEnds ==
    ASSUME IInv, TypeOK', NEW w \in Writers, CommitWrite(w) \/ FailWrite(w)
    PROVE  IInv'
<1>1. /\ n' = n /\ committed \subseteq committed' /\ cur = w
      /\ cur \notin Txs /\ Nobody \notin Txs /\ Nobody \notin Writers
  BY WriteEndsEffect, WriteQueueAssumption
<1>2. CASE Crash
  BY <1>1, <1>2, InvCrash
<1>3. CASE /\ cur' = Nobody /\ wpc' \in {"get", "stopped"} /\ tx' = tx
           /\ QueuedOnce' /\ \A u : InQueue(u)' <=> InQueue(u)
           /\ \A u \in Clients \ {w} : pc'[u] = pc[u]
           /\ \/ pc'[w] = "err"
              \/ pc'[w] = "ok" /\ <<w, 1>> \in committed'
  <2>1. ServiceInv'
    BY <1>1, <1>3 DEF ServiceInv
  <2>2. TxInv'
    <3>1. ASSUME NEW u \in Txs PROVE WaitingOK(u)' /\ BodyOK(u)'
      BY <1>1, <1>3, FrameUnserved DEF IInv, TxInv, Clients
    <3> QED  BY <3>1 DEF TxInv
  <2>3. QueuedByPut'
    BY <1>3 DEF IInv, QueuedByPut
  <2>4. AckedDurable'
    BY <1>1, <1>3 DEF IInv, AckedDurable, RowsWritten
  <2> QED  BY <1>3, <2>1, <2>2, <2>3, <2>4 DEF IInv
<1>4. pc'[w] = "ok" /\ pc[w] # "cancelled" => <<w, 1>> \in committed'
  BY WriteEndsEffect
<1> QED  BY <1>2, <1>3, <1>4, WriteEndsEffect

\* What a step of the writer that serves transaction t has to establish.
LEMMA InvServe ==
    ASSUME IInv, TypeOK', NEW t \in Txs, UNCHANGED <<pc, n>>,
           committed \subseteq committed', cur = t \/ cur \notin Txs, cur' \in {t, Nobody},
           QueuedOnce', ServiceInv', InQueue(t)' => InQueue(t), WaitingOK(t)', BodyOK(t)',
           \A u \in Txs \ {t} : tx'[u] = tx[u],
           \A u \in Clients \ {t} : InQueue(u)' <=> InQueue(u)
    PROVE  IInv'
<1>1. TxInv'
  <2>1. ASSUME NEW u \in Txs, u # t PROVE WaitingOK(u)' /\ BodyOK(u)'
    BY <2>1, FrameUnserved, WriteQueueAssumption DEF IInv, TxInv, Clients
  <2> QED  BY <2>1 DEF TxInv
<1>2. QueuedByPut' /\ AckedDurable'
  BY DEF IInv, QueuedByPut, AckedDurable
<1> QED  BY <1>1, <1>2 DEF IInv

LEMMA InvTakeTx ==
    ASSUME IInv, TypeOK', NEW t \in Txs, TakeTx(t) \/ RefuseTx(t)
    PROVE  IInv'
<1>1. /\ UNCHANGED <<pc, n, committed>> /\ QueuedOnce' /\ InQueue(t) /\ ~InQueue(t)'
      /\ \A u \in Clients \ {t} : InQueue(u)' <=> InQueue(u)
      /\ \A u \in Txs \ {t} : tx'[u] = tx[u]
  BY TakeTxEffect
<1>2. /\ cur \notin Txs /\ WaitingOK(t) /\ tx[t] \in TxState
      /\ Nobody \notin Txs /\ Nobody \notin Writers /\ t \notin Writers
  BY TakeTxEffect, WriteQueueAssumption DEF IInv, TxInv, TypeOK, Clients
<1>3. pc[t] \in {"wait_start", "cancelled"} /\ (pc[t] = "wait_start" => n[t] = 0)
  BY <1>1, <1>2 DEF WaitingOK
<1>4. CASE cur' = t /\ wpc' = "lease" /\ tx'[t] = [tx[t] EXCEPT !.start = TRUE]
  <2>1. /\ tx'[t].done = tx[t].done /\ tx'[t].finish = tx[t].finish
        /\ tx'[t].error = tx[t].error /\ tx'[t].forced = tx[t].forced
    BY <1>2, <1>4 DEF TxState
  <2>2. WaitingOK(t)' /\ BodyOK(t)'
    BY <1>1, <1>2, <1>3, <1>4, <2>1 DEF WaitingOK, BodyOK
  <2>3. ServiceInv'
    BY <1>2, <1>4 DEF ServiceInv
  <2> QED  BY <1>1, <1>2, <1>4, <2>2, <2>3, InvServe
<1>5. CASE cur' = Nobody /\ wpc' \in {"get", "stopped"} /\ tx'[t] = Failed(tx[t])
  <2>1. tx'[t].error
    BY <1>2, <1>5 DEF Failed, TxState
  <2>2. WaitingOK(t)' /\ BodyOK(t)'
    BY <1>1, <1>2, <1>3, <1>5, <2>1 DEF WaitingOK, BodyOK
  <2>3. ServiceInv'
    BY <1>2, <1>5 DEF ServiceInv
  <2> QED  BY <1>1, <1>2, <1>5, <2>2, <2>3, InvServe
<1> QED  BY <1>4, <1>5, TakeTxEffect

LEMMA InvLeaseEnds ==
    ASSUME IInv, TypeOK', NEW t \in Txs, Release(t) \/ Watchdog(t)
    PROVE  IInv'
<1>1. /\ UNCHANGED <<pc, n, committed, pending, queue, cur>> /\ wpc = "lease" /\ cur = t
      /\ wpc' \in {"committing", "rollingback"}
      /\ QueuedOnce' /\ \A u : InQueue(u)' <=> InQueue(u)
  BY LeaseEndsEffect
<1>2. WaitingOK(t) /\ BodyOK(t) /\ Nobody \notin Txs /\ t \notin Writers
  BY WriteQueueAssumption DEF IInv, TxInv
<1>3. ServiceInv'
  BY <1>1, <1>2 DEF ServiceInv
<1>4. CASE tx' = tx /\ tx[t].done /\ (wpc' = "committing" <=> tx[t].action = "commit")
  <2>1. WaitingOK(t)' /\ BodyOK(t)'
    BY <1>1, <1>2, <1>4 DEF WaitingOK, BodyOK
  <2> QED  BY <1>1, <1>2, <1>3, <1>4, <2>1, InvServe
<1>5. CASE /\ pc[t] # "wait_start" /\ \A u \in Txs \ {t} : tx'[u] = tx[u]
           /\ tx'[t].forced /\ tx'[t].done = tx[t].done
  <2>1. WaitingOK(t)' /\ BodyOK(t)'
    BY <1>1, <1>2, <1>5 DEF WaitingOK, BodyOK
  <2> QED  BY <1>1, <1>2, <1>3, <1>5, <2>1, InvServe
<1> QED  BY <1>4, <1>5, LeaseEndsEffect

LEMMA InvTxEnds ==
    ASSUME IInv, TypeOK', NEW t \in Txs, CommitTx(t) \/ CommitTxFails(t) \/ RollbackTx(t)
    PROVE  IInv'
<1>1. /\ UNCHANGED <<pc, n, queue>> /\ committed \subseteq committed' /\ cur = t
      /\ wpc \in {"committing", "rollingback"}
      /\ cur' = Nobody /\ wpc' \in {"get", "stopped"}
      /\ QueuedOnce' /\ \A u : InQueue(u)' <=> InQueue(u)
  BY TxEndsEffect
<1>2. /\ \A u \in Txs \ {t} : tx'[u] = tx[u]
      /\ tx'[t].done = tx[t].done
      /\ \/ tx'[t].forced
         \/ /\ tx'[t].forced = tx[t].forced /\ tx'[t].action = tx[t].action
            /\ wpc = "committing" => pending \subseteq committed'
  BY TxEndsEffect
<1>3. WaitingOK(t) /\ BodyOK(t) /\ Nobody \notin Txs /\ Nobody \notin Writers
  BY WriteQueueAssumption DEF IInv, TxInv
<1>4. ServiceInv'
  BY <1>1, <1>3 DEF ServiceInv
<1>5. pc[t] \notin {"idle", "putting", "wait_start"} /\ ~InQueue(t)
  BY <1>1, <1>3 DEF WaitingOK
<1>6. WaitingOK(t)'
  BY <1>1, <1>5 DEF WaitingOK
<1>7. BodyOK(t)'
  <2>1. CASE pc[t] = "body"
    BY <1>1, <1>2, <1>3, <2>1 DEF BodyOK
  <2>2. CASE pc[t] = "finish" /\ ~tx'[t].forced
    <3>1. /\ wpc = "committing" /\ n[t] = K /\ tx[t].action = "commit" /\ tx[t].done
          /\ \A i \in 1..n[t] : <<t, i>> \in pending
      BY <1>1, <1>2, <1>3, <2>2 DEF BodyOK
    <3>2. RowsOf(t) \subseteq committed'
      BY <1>2, <2>2, <3>1 DEF RowsOf
    <3> QED  BY <1>1, <1>2, <1>3, <2>2, <3>1, <3>2 DEF BodyOK, RowsOf
  <2>3. CASE pc[t] = "finish" /\ tx'[t].forced
    BY <1>1, <1>3, <2>3 DEF BodyOK
  <2> QED  BY <1>1, <2>1, <2>2, <2>3 DEF BodyOK
<1> QED  BY <1>1, <1>2, <1>3, <1>4, <1>6, <1>7, InvServe

LEMMA InvStep == IInv /\ [Next]_vars => IInv'
<1> SUFFICES ASSUME IInv, [Next]_vars PROVE IInv'
  OBVIOUS
<1>1. TypeOK'
  BY TypeStep DEF IInv
<1>2. CASE UNCHANGED vars
  <2>1. QueuedOnce' /\ \A u : InQueue(u)' <=> InQueue(u)
    BY <1>2, QueueSame DEF vars, IInv
  <2>2. TxInv'
    BY <1>2, <2>1, FrameUntouched DEF vars, clientVars, sqlVars, IInv, TxInv
  <2> QED
    BY <1>1, <1>2, <2>1, <2>2
       DEF vars, clientVars, sqlVars, IInv, ServiceInv, QueuedByPut, AckedDurable
<1>3. CASE WriterStep
  <2>1. CASE Connect \/ StopInsteadOfConnect \/ TakeStop
    BY <1>1, <2>1, InvIdle
  <2>2. CASE ConnectFails
    <3>1. Crash /\ n' = n /\ committed' = committed /\ cur \notin Txs
      BY <2>2 DEF ConnectFails, sqlVars, IInv, ServiceInv
    <3> QED  BY <1>1, <3>1, InvCrash
  <2>3. ASSUME NEW w \in Writers, TakeWrite(w) \/ CommitWrite(w) \/ FailWrite(w)
        PROVE  IInv'
    BY <1>1, <2>3, InvTakeWrite, InvWriteEnds
  <2>4. ASSUME NEW t \in Txs,
               \/ TakeTx(t) \/ RefuseTx(t) \/ Release(t) \/ Watchdog(t)
               \/ CommitTx(t) \/ CommitTxFails(t) \/ RollbackTx(t)
        PROVE  IInv'
    BY <1>1, <2>4, InvTakeTx, InvLeaseEnds, InvTxEnds
  <2> QED  BY <1>3, <2>1, <2>2, <2>3, <2>4 DEF WriterStep
<1>4. CASE ClientStep
  <2>1. ASSUME NEW c \in Clients, Submit(c) \/ PutWhenRoom(c) \/ Shed(c) \/ CancelWrite(c)
        PROVE  IInv'
    BY <1>1, <2>1, InvSubmit, InvGiveUp
  <2>2. ASSUME NEW t \in Txs,
               \/ CancelLease(t) \/ StartBody(t) \/ BodyReturn(t)
               \/ BodyRaise(t) \/ CloseTx(t) \/ CancelFinish(t)
        PROVE  IInv'
    BY <1>1, <2>2, InvTxStep
  <2>3. ASSUME NEW t \in Txs, BodyWrite(t) PROVE IInv'
    BY <1>1, <2>3, InvBodyWrite
  <2>4. ASSUME NEW k \in Kids, KidWrite(k) \/ \E t \in Txs : SpawnKid(k, t) PROVE IInv'
    BY <1>1, <2>4, InvKid
  <2> QED  BY <1>4, <2>1, <2>2, <2>3, <2>4 DEF ClientStep
<1>5. CASE Close \/ ClosePut
  BY <1>1, <1>5, InvClose
<1> QED  BY <1>2, <1>3, <1>4, <1>5 DEF Next

\* Whatever times out, crashes or is cancelled, a caller of execute() or
\* transaction() that was told of success finds its rows in the database file.
THEOREM AckedAreDurable == Spec => []AckedDurable
<1>1. IInv => AckedDurable
  BY DEF IInv
<1> QED  BY <1>1, InvInit, InvStep, PTL DEF Spec

-----------------------------------------------------------------------------
(* The callers of execute(), and DeathAnswersTheQueue *)

\* A single write that is queued or served is still waited for, or was cancelled.
WriterOK(w) ==
    /\ pc[w] \in {"idle", "putting", "await"} \cup Answered
    /\ InQueue(w) \/ cur = w => pc[w] \in {"await", "cancelled"}
    /\ InQueue(w) => cur # w

WritersInv == \A w \in Writers : WriterOK(w)

\* A step that neither answers writer w nor begins to serve it.
LEMMA FrameWriter ==
    ASSUME NEW w \in Writers, WriterOK(w), pc'[w] = pc[w],
           InQueue(w)' => InQueue(w), cur' = w => cur = w
    PROVE  WriterOK(w)'
BY DEF WriterOK

LEMMA WritersInit == Init => WritersInv
BY WriteQueueAssumption DEF Init, WritersInv, WriterOK, InQueue, Clients

LEMMA WritersStep ==
    ASSUME IInv, WritersInv, [Next]_vars
    PROVE  WritersInv'
<1>1. ASSUME NEW w \in Writers PROVE WriterOK(w) /\ w \in Clients /\ w \notin Txs /\ w # Nobody
  BY WriteQueueAssumption DEF WritersInv, Clients
<1>2. CASE UNCHANGED vars
  BY <1>1, <1>2, QueueSame, FrameWriter DEF vars, clientVars, IInv, WritersInv
<1>3. ASSUME NEW c \in Clients, Submit(c) \/ PutWhenRoom(c) PROVE WritersInv'
  <2>1. ASSUME NEW w \in Writers, w # c PROVE WriterOK(w)'
    BY <1>1, <1>3, <2>1, SubmitEffect, FrameWriter
  <2>2. ASSUME c \in Writers PROVE WriterOK(c)'
    BY <1>1, <1>3, <2>2, SubmitEffect DEF WriterOK, Queued, Answered
  <2> QED  BY <2>1, <2>2 DEF WritersInv
<1>4. ASSUME NEW c \in Clients, Shed(c) \/ CancelWrite(c) PROVE WritersInv'
  <2>1. ASSUME NEW w \in Writers, w # c PROVE WriterOK(w)'
    BY <1>1, <1>4, <2>1, GiveUpEffect, FrameWriter
  <2>2. ASSUME c \in Writers PROVE WriterOK(c)'
    BY <1>1, <1>4, <2>2, GiveUpEffect DEF WriterOK, Answered
  <2> QED  BY <2>1, <2>2 DEF WritersInv
<1>5. ASSUME NEW t \in Txs,
             CancelLease(t) \/ StartBody(t) \/ BodyReturn(t) \/ BodyRaise(t)
               \/ CloseTx(t) \/ CancelFinish(t)
      PROVE  WritersInv'
  BY <1>1, <1>5, TxStepEffect, FrameWriter DEF WritersInv
<1>6. ASSUME NEW t \in Txs, BodyWrite(t) PROVE WritersInv'
  BY <1>1, <1>6, BodyWriteEffect, FrameWriter DEF WritersInv
<1>7. ASSUME NEW k \in Kids, KidWrite(k) \/ \E t \in Txs : SpawnKid(k, t) PROVE WritersInv'
  BY <1>1, <1>7, KidEffect, FrameWriter DEF WritersInv
<1>8. ASSUME Connect \/ StopInsteadOfConnect \/ TakeStop PROVE WritersInv'
  BY <1>1, <1>8, IdleEffect, FrameWriter DEF WritersInv
<1>9. ASSUME Close \/ ClosePut PROVE WritersInv'
  BY <1>1, <1>9, CloseEffect, FrameWriter DEF WritersInv
<1>10. ASSUME Crash PROVE WritersInv'
  BY <1>1, <1>10, CrashEffect, FrameWriter DEF WritersInv, WriterOK, Answered
<1>11. ASSUME NEW v \in Writers, TakeWrite(v) PROVE WritersInv'
  <2>1. ASSUME NEW w \in Writers, w # v PROVE WriterOK(w)'
    BY <1>1, <1>11, <2>1, TakeWriteEffect, FrameWriter
  <2>2. WriterOK(v)'
    BY <1>1, <1>11, TakeWriteEffect DEF WriterOK
  <2> QED  BY <2>1, <2>2 DEF WritersInv
<1>12. ASSUME NEW v \in Writers, CommitWrite(v) \/ FailWrite(v) PROVE WritersInv'
  <2>1. CASE Crash
    BY <1>10, <2>1
  <2>2. CASE ~Crash
    <3>1. ASSUME NEW w \in Writers, w # v PROVE WriterOK(w)'
      BY <1>1, <1>12, <2>2, <3>1, WriteEndsEffect, FrameWriter
    <3>2. WriterOK(v)'
      BY <1>1, <1>12, <2>2, WriteEndsEffect DEF WriterOK, Answered
    <3> QED  BY <3>1, <3>2 DEF WritersInv
  <2> QED  BY <2>1, <2>2
<1>13. ASSUME NEW t \in Txs, TakeTx(t) \/ RefuseTx(t) PROVE WritersInv'
  BY <1>1, <1>13, TakeTxEffect, FrameWriter DEF WritersInv
<1>14. ASSUME NEW t \in Txs, Release(t) \/ Watchdog(t) PROVE WritersInv'
  BY <1>1, <1>14, LeaseEndsEffect, FrameWriter DEF WritersInv
<1>15. ASSUME NEW t \in Txs, CommitTx(t) \/ CommitTxFails(t) \/ RollbackTx(t)
       PROVE  WritersInv'
  BY <1>1, <1>15, TxEndsEffect, FrameWriter DEF WritersInv
<1> QED
  BY <1>2, <1>3, <1>4, <1>5, <1>6, <1>7, <1>8, <1>9, <1>10, <1>11, <1>12, <1>13, <1>14,
     <1>15 DEF Next, WriterStep, ClientStep, ConnectFails

\* Only a crash of the loop ends in a dead writer.
LEMMA DiesByCrash ==
    ASSUME IInv, Next, wpc # "dead", wpc' = "dead"
    PROVE  Crash
<1>1. ASSUME NEW c \in Clients, Submit(c) \/ PutWhenRoom(c) \/ Shed(c) \/ CancelWrite(c)
      PROVE  FALSE
  BY <1>1, SubmitEffect, GiveUpEffect
<1>2. ASSUME NEW t \in Txs,
             \/ CancelLease(t) \/ StartBody(t) \/ BodyReturn(t)
             \/ BodyRaise(t) \/ CloseTx(t) \/ CancelFinish(t) \/ BodyWrite(t)
      PROVE  FALSE
  BY <1>2, TxStepEffect, BodyWriteEffect
<1>3. ASSUME NEW k \in Kids, KidWrite(k) \/ \E t \in Txs : SpawnKid(k, t) PROVE FALSE
  BY <1>3, KidEffect
<1>4. ASSUME NEW t \in Txs,
             \/ TakeTx(t) \/ RefuseTx(t) \/ Release(t) \/ Watchdog(t)
             \/ CommitTx(t) \/ CommitTxFails(t) \/ RollbackTx(t)
      PROVE  FALSE
  BY <1>4, TakeTxEffect, LeaseEndsEffect, TxEndsEffect
<1>5. ASSUME NEW w \in Writers, TakeWrite(w) \/ CommitWrite(w) \/ FailWrite(w) PROVE Crash
  BY <1>5, TakeWriteEffect, WriteEndsEffect
<1>6. ASSUME Connect \/ StopInsteadOfConnect \/ TakeStop \/ Close \/ ClosePut PROVE FALSE
  BY <1>6, IdleEffect, CloseEffect
<1> QED
  BY <1>1, <1>2, <1>3, <1>4, <1>5, <1>6 DEF Next, WriterStep, ClientStep, ConnectFails

\* Whoever is on the queue when the supervisor gives up is answered: a single write
\* with an error, a transaction by waking it with the error in its tx_state.
THEOREM QueueIsAnswered == Spec => DeathAnswersTheQueue
<1>1. ASSUME IInv, WritersInv, Next, wpc # "dead", wpc' = "dead",
             NEW c \in Clients, InQueue(c)
      PROVE  \/ pc'[c] \in Answered
             \/ c \in Txs /\ tx'[c].start /\ tx'[c].error
  <2>1. pc' = DrainedPc /\ tx' = DrainedTx
    BY <1>1, DiesByCrash, CrashEffect
  <2>2. CASE c \in Writers
    BY <1>1, <2>1, <2>2 DEF DrainedPc, WritersInv, WriterOK, Answered
  <2>3. CASE c \in Txs
    BY <1>1, <2>1, <2>3 DEF DrainedTx
  <2> QED  BY <2>2, <2>3 DEF Clients
<1>2. IInv /\ WritersInv /\ [Next]_vars =>
        [wpc # "dead" /\ wpc' = "dead" =>
           \A c \in Clients : InQueue(c) =>
              \/ pc'[c] \in Answered
              \/ c \in Txs /\ tx'[c].start /\ tx'[c].error]_vars
  BY <1>1
<1>3. IInv /\ WritersInv /\ [Next]_vars => IInv' /\ WritersInv'
  BY InvStep, WritersStep
<1> QED
  BY <1>2, <1>3, InvInit, WritersInit, PTL DEF Spec, DeathAnswersTheQueue

-----------------------------------------------------------------------------
(* LeaseIsolation, when no body outlasts the watchdog or leaves a task behind *)

\* A transaction that was rolled back by force has lost the lease, and is not running.
ForcedOK(t) == tx[t].forced => cur # t /\ ~InQueue(t) /\ pc[t] # "body"

\* Between two items nothing is open on the writer's connection.
LeaseInv ==
    /\ cur = Nobody => pending = {}
    /\ LeaseIsolation
    /\ \A t \in Txs : ForcedOK(t)

\* A step that neither starts nor forces transaction t.
LEMMA FrameForced ==
    ASSUME NEW t \in Txs, ForcedOK(t), pc'[t] = pc[t], tx'[t] = tx[t],
           InQueue(t)' => InQueue(t), cur' = t => cur = t
    PROVE  ForcedOK(t)'
BY DEF ForcedOK

LEMMA LeaseInit == Init => LeaseInv
BY WriteQueueAssumption DEF Init, LeaseInv, LeaseIsolation, ForcedOK, NewTx, Clients

LEMMA LeaseStep ==
    ASSUME IInv, LeaseInv, [Next]_vars, ~BodyHangs, Kids = {}
    PROVE  LeaseInv'
<1>1. /\ Nobody \notin Txs /\ Nobody \notin Writers /\ Txs \cap Writers = {}
      /\ Clients = Writers \cup Txs
      /\ \A u \in Txs : ForcedOK(u) /\ WaitingOK(u) /\ BodyOK(u) /\ tx[u] \in TxState
  BY WriteQueueAssumption DEF LeaseInv, Clients, IInv, TxInv, TypeOK
<1>2. ASSUME cur' = cur, pending' = pending, \A u \in Txs : ForcedOK(u)' PROVE LeaseInv'
  BY <1>2 DEF LeaseInv, LeaseIsolation
<1>3. CASE UNCHANGED vars
  BY <1>1, <1>2, <1>3, QueueSame, FrameForced DEF vars, clientVars, sqlVars, IInv
<1>4. ASSUME NEW c \in Clients, Submit(c) \/ PutWhenRoom(c) PROVE LeaseInv'
  <2>1. ASSUME NEW u \in Txs, u # c PROVE ForcedOK(u)'
    BY <1>1, <1>4, <2>1, SubmitEffect, FrameForced
  <2>2. ASSUME c \in Txs PROVE ForcedOK(c)'
    <3>1. tx[c] = NewTx /\ tx'[c] = tx[c]
      BY <1>1, <1>4, <2>2, SubmitEffect DEF WaitingOK
    <3> QED  BY <3>1 DEF ForcedOK, NewTx
  <2> QED  BY <1>2, <1>4, <2>1, <2>2, SubmitEffect
<1>5. ASSUME NEW c \in Clients, Shed(c) \/ CancelWrite(c) PROVE LeaseInv'
  <2>1. ASSUME NEW u \in Txs PROVE ForcedOK(u)'
    BY <1>1, <1>5, GiveUpEffect DEF ForcedOK
  <2> QED  BY <1>2, <1>5, <2>1, GiveUpEffect
<1>6. ASSUME NEW t \in Txs,
             CancelLease(t) \/ StartBody(t) \/ BodyReturn(t) \/ BodyRaise(t)
               \/ CloseTx(t) \/ CancelFinish(t)
      PROVE  LeaseInv'
  <2>1. ASSUME NEW u \in Txs, u # t PROVE ForcedOK(u)'
    BY <1>1, <1>6, <2>1, TxStepEffect, FrameForced
  <2>2. ForcedOK(t)'
    <3>1. t \in DOMAIN pc /\ tx \in [Txs -> TxState]
      BY DEF IInv, TypeOK, Clients
    <3>2. CASE StartBody(t)
      BY <1>1, <1>6, <3>1, <3>2, TxStepEffect DEF StartBody, ForcedOK, WaitingOK
    <3>3. CASE ~StartBody(t)
      <4>1. tx'[t].forced = tx[t].forced /\ pc'[t] # "body"
        BY <1>6, <3>1, <3>3
           DEF CancelLease, BodyReturn, BodyRaise, CloseTx, CancelFinish, Outcome, TxState
      <4> QED  BY <1>1, <1>6, <4>1, TxStepEffect DEF ForcedOK
    <3> QED  BY <3>2, <3>3
  <2> QED  BY <1>2, <1>6, <2>1, <2>2, TxStepEffect
<1>7. ASSUME NEW t \in Txs, BodyWrite(t) PROVE LeaseInv'
  <2>1. cur = t /\ pending \subseteq RowsOf(t)
    BY <1>1, <1>7, BodyWriteEffect DEF BodyOK, ForcedOK, LeaseInv, LeaseIsolation, RowsWritten
  <2>2. <<t, n[t] + 1>> \in RowsOf(t)
    <3>1. n[t] + 1 \in 1..K
      BY <1>7, BodyWriteEffect, WriteQueueAssumption DEF IInv, TypeOK
    <3> QED  BY <3>1 DEF RowsOf
  <2>3. cur' = t /\ pending' \subseteq RowsOf(t) /\ cur' # Nobody
    BY <1>1, <1>7, <2>1, <2>2, BodyWriteEffect
  <2>4. \A u \in Txs : ForcedOK(u)'
    BY <1>1, <1>7, BodyWriteEffect, FrameForced
  <2> QED  BY <2>3, <2>4 DEF LeaseInv, LeaseIsolation, RowsWritten
<1>8. ASSUME Connect \/ StopInsteadOfConnect \/ TakeStop PROVE LeaseInv'
  <2>1. cur' = cur /\ pending' \subseteq pending
    BY <1>8, IdleEffect
  <2>2. \A u \in Txs : ForcedOK(u)'
    BY <1>1, <1>8, IdleEffect, FrameForced
  <2> QED  BY <2>1, <2>2 DEF LeaseInv, LeaseIsolation
<1>9. ASSUME Close \/ ClosePut PROVE LeaseInv'
  <2>1. \A u \in Txs : ForcedOK(u)'
    BY <1>1, <1>9, CloseEffect, FrameForced
  <2> QED  BY <1>2, <1>9, <2>1, CloseEffect
<1>10. ASSUME Crash, pending' = {} PROVE LeaseInv'
  <2>1. ASSUME NEW u \in Txs PROVE ForcedOK(u)'
    <3>1. CASE ~InQueue(u)
      <4>1. pc'[u] = pc[u] /\ tx'[u] = tx[u] /\ cur' # u /\ ~InQueue(u)'
        BY <1>1, <1>10, <3>1, CrashEffect DEF DrainedTx
      <4> QED  BY <1>1, <4>1, FrameForced
    <3>2. CASE InQueue(u)
      <4>1. pc[u] # "body" /\ ~tx[u].forced
        BY <1>1, <3>2 DEF WaitingOK, ForcedOK
      <4>2. pc'[u] # "body" /\ cur' # u /\ (InQueue(u)' => tx'[u] = tx[u])
        BY <1>1, <1>10, <4>1, CrashEffect
      <4> QED  BY <4>1, <4>2 DEF ForcedOK
    <3> QED  BY <3>1, <3>2
  <2>2. cur' = Nobody
    BY <1>10, CrashEffect
  <2> QED  BY <1>10, <2>1, <2>2 DEF LeaseInv, LeaseIsolation
<1>11. ASSUME ConnectFails PROVE LeaseInv'
  <2>1. cur = Nobody /\ pending' = pending /\ Crash
    BY <1>11 DEF ConnectFails, sqlVars, IInv, ServiceInv, TypeOK, Clients
  <2> QED  BY <1>10, <2>1 DEF LeaseInv
<1>12. ASSUME NEW w \in Writers, TakeWrite(w) PROVE LeaseInv'
  <2>1. cur = Nobody /\ pending = {}
    BY <1>12, TakeWriteEffect DEF IInv, TypeOK, LeaseInv
  <2>2. cur' = w /\ pending' \subseteq {<<w, 1>>} /\ w \notin Txs
    BY <1>12, <2>1, TakeWriteEffect
  <2>3. ASSUME NEW u \in Txs PROVE ForcedOK(u)'
    BY <1>1, <1>12, TakeWriteEffect, FrameForced
  <2> QED  BY <1>1, <2>2, <2>3 DEF LeaseInv, LeaseIsolation, RowsWritten
<1>13. ASSUME NEW w \in Writers, CommitWrite(w) \/ FailWrite(w) PROVE LeaseInv'
  <2>1. pending' = {}
    BY <1>13, WriteEndsEffect
  <2>2. CASE Crash
    BY <1>10, <2>1, <2>2
  <2>3. CASE ~Crash
    <3>1. ASSUME NEW u \in Txs PROVE ForcedOK(u)'
      BY <1>1, <1>13, <2>3, WriteEndsEffect, FrameForced
    <3> QED  BY <2>1, <3>1 DEF LeaseInv, LeaseIsolation
  <2> QED  BY <2>2, <2>3
<1>14. ASSUME NEW t \in Txs, TakeTx(t) \/ RefuseTx(t) PROVE LeaseInv'
  <2>1. ASSUME NEW u \in Txs, u # t PROVE ForcedOK(u)'
    BY <1>1, <1>14, <2>1, TakeTxEffect, FrameForced
  <2>2. ForcedOK(t)'
    <3>1. pc'[t] # "body" /\ ~InQueue(t)' /\ ~tx[t].forced
      BY <1>1, <1>14, TakeTxEffect DEF WaitingOK, ForcedOK
    <3>2. cur' = t => tx'[t] = [tx[t] EXCEPT !.start = TRUE]
      BY <1>1, <1>14, TakeTxEffect
    <3>3. cur' = t => tx'[t].forced = tx[t].forced
      BY <1>1, <3>2 DEF TxState
    <3> QED  BY <3>1, <3>3 DEF ForcedOK
  <2>3. pending' \subseteq pending /\ cur = Nobody
    BY <1>14, TakeTxEffect DEF IInv, TypeOK
  <2> QED  BY <2>1, <2>2, <2>3 DEF LeaseInv, LeaseIsolation
<1>15. ASSUME NEW t \in Txs, Release(t) \/ Watchdog(t) PROVE LeaseInv'
  <2>1. ASSUME NEW u \in Txs PROVE ForcedOK(u)'
    BY <1>1, <1>15, LeaseEndsEffect, FrameForced
  <2> QED  BY <1>2, <1>15, <2>1, LeaseEndsEffect
<1>16. ASSUME NEW t \in Txs, CommitTx(t) \/ CommitTxFails(t) \/ RollbackTx(t)
       PROVE  LeaseInv'
  <2>1. ASSUME NEW u \in Txs, u # t PROVE ForcedOK(u)'
    BY <1>1, <1>16, <2>1, TxEndsEffect, FrameForced
  <2>2. ForcedOK(t)'
    BY <1>1, <1>16, TxEndsEffect DEF ForcedOK, WaitingOK, BodyOK
  <2>3. pending' = {}
    BY <1>16, TxEndsEffect
  <2> QED  BY <2>1, <2>2, <2>3 DEF LeaseInv, LeaseIsolation
<1> QED
  BY <1>3, <1>4, <1>5, <1>6, <1>7, <1>8, <1>9, <1>11, <1>12, <1>13, <1>14, <1>15, <1>16
     DEF Next, WriterStep, ClientStep

\* As long as no body outlasts the 30 s watchdog and none leaves a task behind, what is
\* open on the writer's connection belongs to the item it serves, whatever is
\* cancelled, refused, rolled back or crashes.
THEOREM LeasesAreIsolated ==
    ASSUME ~BodyHangs, Kids = {}
    PROVE  Spec => []LeaseIsolation
<1>1. IInv /\ LeaseInv /\ [Next]_vars => IInv' /\ LeaseInv'
  BY InvStep, LeaseStep
<1>2. LeaseInv => LeaseIsolation
  BY DEF LeaseInv
<1> QED  BY <1>1, <1>2, InvInit, LeaseInit, PTL DEF Spec

-----------------------------------------------------------------------------
(* ImplementsAtomicStore *)

\* A transaction that its body asked to commit is open as a whole while it is served,
\* and rows of a transaction are in the file only if its caller is told so, or gave up.
CommitOK(t) ==
    /\ tx[t].action = "commit" =>
          /\ ~InQueue(t) /\ pc[t] \notin {"body", "wait_start", "finish_raised"}
          /\ cur = t => pc[t] \in {"finish", "cancelled"} /\ RowsOf(t) \subseteq pending
    /\ wpc = "committing" /\ cur = t => tx[t].action = "commit"
    /\ RowsOf(t) \cap committed # {} =>
          /\ pc[t] \in {"finish", "ok", "cancelled"} /\ cur # t /\ ~InQueue(t)
          /\ pc[t] = "finish" => ~tx[t].forced

\* So is the row of a single write.
StoredOK(w) == <<w, 1>> \in committed => pc[w] \in {"ok", "cancelled"}

StoreInv ==
    /\ \A t \in Txs : CommitOK(t)
    /\ \A w \in Writers : StoredOK(w)

\* A step that neither answers transaction t nor begins to serve it.
LEMMA FrameCommit ==
    ASSUME NEW t \in Txs, CommitOK(t), pc'[t] = pc[t], tx'[t] = tx[t],
           InQueue(t)' => InQueue(t), RowsOf(t) \cap committed' \subseteq committed,
           cur' = t => cur = t /\ wpc' = wpc /\ pending \subseteq pending'
    PROVE  CommitOK(t)'
BY DEF CommitOK

LEMMA StoreInit == Init => StoreInv
BY WriteQueueAssumption DEF Init, StoreInv, CommitOK, StoredOK, NewTx, Clients, RowsOf

\* The rows of two clients are never the same.
LEMMA RowsApart ==
    ASSUME NEW t \in Txs
    PROVE  /\ \A w \in Writers : <<w, 1>> \notin RowsOf(t)
           /\ \A u \in Txs \ {t} : RowsOf(u) \cap RowsOf(t) = {}
<1>1. \A w \in Writers : w # t
  BY WriteQueueAssumption
<1> QED  BY <1>1 DEF RowsOf

\* What is committed with one item: nothing, or all the rows of that item's client.
LEMMA CommitsWhole ==
    ASSUME IInv, WritersInv, LeaseInv, StoreInv, Next, Kids = {}
    PROVE  \/ committed' = committed
           \/ \E c \in Clients : /\ cur = c /\ pc[c] \in {"await", "finish", "cancelled"}
                                 /\ committed' = committed \cup RowsWritten(c)
<1>1. ASSUME NEW w \in Writers, CommitWrite(w) \/ FailWrite(w), committed' # committed
      PROVE  /\ cur = w /\ pc[w] \in {"await", "cancelled"}
             /\ committed' = committed \cup RowsWritten(w)
  <2>1. w \notin Txs /\ w # Nobody /\ w \in Clients
    BY WriteQueueAssumption DEF Clients
  <2>2. pending = {<<w, 1>>} /\ committed' = committed \cup pending /\ cur = w
    BY <1>1, <2>1, WriteEndsEffect DEF LeaseInv, LeaseIsolation, RowsWritten
  <2> QED  BY <2>1, <2>2 DEF WritersInv, WriterOK, RowsWritten
<1>2. ASSUME NEW t \in Txs, CommitTx(t) \/ CommitTxFails(t) \/ RollbackTx(t),
             committed' # committed
      PROVE  /\ cur = t /\ pc[t] \in {"finish", "cancelled"}
             /\ committed' = committed \cup RowsWritten(t)
  <2>1. wpc = "committing" /\ cur = t /\ committed' = committed \cup pending
    BY <1>2, TxEndsEffect
  <2>2. t # Nobody /\ tx[t].action = "commit"
    BY <2>1, WriteQueueAssumption DEF StoreInv, CommitOK, Clients
  <2>3. pending = RowsOf(t)
    BY <2>1, <2>2 DEF StoreInv, CommitOK, LeaseInv, LeaseIsolation, RowsWritten
  <2> QED  BY <2>1, <2>2, <2>3 DEF StoreInv, CommitOK, RowsWritten
<1>3. ASSUME NEW c \in Clients, Submit(c) \/ PutWhenRoom(c) \/ Shed(c) \/ CancelWrite(c)
      PROVE  committed' = committed
  BY <1>3, SubmitEffect, GiveUpEffect
<1>4. ASSUME NEW t \in Txs,
             \/ CancelLease(t) \/ StartBody(t) \/ BodyReturn(t)
             \/ BodyRaise(t) \/ CloseTx(t) \/ CancelFinish(t) \/ BodyWrite(t)
      PROVE  committed' = committed
  BY <1>4, TxStepEffect, BodyWriteEffect
<1>5. ASSUME NEW t \in Txs, TakeTx(t) \/ RefuseTx(t) \/ Release(t) \/ Watchdog(t)
      PROVE  committed' = committed
  BY <1>5, TakeTxEffect, LeaseEndsEffect
<1>6. ASSUME Connect \/ ConnectFails \/ StopInsteadOfConnect \/ TakeStop \/ Close \/ ClosePut
      PROVE  committed' = committed
  BY <1>6, IdleEffect, CloseEffect DEF ConnectFails, sqlVars
<1>7. ASSUME NEW w \in Writers, TakeWrite(w) PROVE committed' = committed
  BY <1>7, TakeWriteEffect
<1> QED
  BY <1>1, <1>2, <1>3, <1>4, <1>5, <1>6, <1>7 DEF Next, WriterStep, ClientStep, Clients

\* A caller that has been answered is not answered again.
LEMMA AnswersAreFinal ==
    ASSUME IInv, WritersInv, Next, NEW c \in Clients, pc[c] \in Answered
    PROVE  pc'[c] = pc[c]
<1>1. ASSUME NEW d \in Clients, Submit(d) \/ PutWhenRoom(d) \/ Shed(d) \/ CancelWrite(d)
      PROVE  pc'[c] = pc[c]
  BY <1>1, SubmitEffect, GiveUpEffect DEF Answered
<1>2. ASSUME NEW t \in Txs,
             \/ CancelLease(t) \/ StartBody(t) \/ BodyReturn(t)
             \/ BodyRaise(t) \/ CloseTx(t) \/ CancelFinish(t)
      PROVE  pc'[c] = pc[c]
  <2>1. pc[t] \in {"wait_start", "body", "finish", "finish_raised"}
    BY <1>2 DEF CancelLease, StartBody, BodyReturn, BodyRaise, CloseTx, CancelFinish
  <2> QED  BY <1>2, <2>1, TxStepEffect DEF Clients, Answered
<1>3. ASSUME NEW t \in Txs,
             \/ BodyWrite(t) \/ TakeTx(t) \/ RefuseTx(t) \/ Release(t) \/ Watchdog(t)
             \/ CommitTx(t) \/ CommitTxFails(t) \/ RollbackTx(t)
      PROVE  pc'[c] = pc[c]
  BY <1>3, BodyWriteEffect, TakeTxEffect, LeaseEndsEffect, TxEndsEffect
<1>4. ASSUME NEW k \in Kids, KidWrite(k) \/ \E t \in Txs : SpawnKid(k, t)
      PROVE  pc'[c] = pc[c]
  BY <1>4, KidEffect
<1>5. ASSUME Crash PROVE pc'[c] = pc[c]
  BY <1>5, CrashEffect DEF Answered
<1>6. ASSUME NEW w \in Writers, TakeWrite(w) \/ CommitWrite(w) \/ FailWrite(w)
      PROVE  pc'[c] = pc[c]
  <2>1. CASE c = w
    BY <1>5, <1>6, <2>1, TakeWriteEffect, WriteEndsEffect DEF WritersInv, WriterOK, Answered
  <2>2. CASE c # w
    BY <1>5, <1>6, <2>2, TakeWriteEffect, WriteEndsEffect
  <2> QED  BY <2>1, <2>2
<1>7. ASSUME Connect \/ StopInsteadOfConnect \/ TakeStop \/ Close \/ ClosePut
      PROVE  pc'[c] = pc[c]
  BY <1>7, IdleEffect, CloseEffect
<1> QED
  BY <1>1, <1>2, <1>3, <1>4, <1>5, <1>6, <1>7 DEF Next, WriterStep, ClientStep, ConnectFails

\* A step other than a commit of client c's own item leaves c's rows as they are.
LEMMA OthersUntouched ==
    ASSUME IInv, WritersInv, LeaseInv, StoreInv, Next, Kids = {}
    PROVE  /\ \A t \in Txs : cur # t => RowsOf(t) \cap committed' \subseteq committed
           /\ \A w \in Writers : cur # w /\ <<w, 1>> \in committed' => <<w, 1>> \in committed
<1>1. CASE committed' = committed
  BY <1>1
<1>2. CASE \E c \in Clients : cur = c /\ committed' = committed \cup RowsWritten(c)
  <2>1. PICK c \in Clients : cur = c /\ committed' = committed \cup RowsWritten(c)
    BY <1>2
  <2>2. ASSUME NEW t \in Txs, cur # t PROVE RowsOf(t) \cap RowsWritten(c) = {}
    BY <2>1, <2>2, RowsApart DEF RowsWritten, Clients
  <2>3. ASSUME NEW w \in Writers, cur # w PROVE <<w, 1>> \notin RowsWritten(c)
    BY <2>1, <2>3, RowsApart DEF RowsWritten
  <2> QED  BY <2>1, <2>2, <2>3
<1> QED  BY <1>1, <1>2, CommitsWhole

LEMMA StoredStep ==
    ASSUME IInv, WritersInv, LeaseInv, StoreInv, Next, Kids = {}, NEW w \in Writers
    PROVE  StoredOK(w)'
<1>1. w \in Clients /\ StoredOK(w) /\ WriterOK(w) /\ w \notin Txs
  BY WriteQueueAssumption DEF Clients, StoreInv, WritersInv
<1>2. CASE pc[w] \in {"ok", "cancelled"}
  BY <1>1, <1>2, AnswersAreFinal DEF StoredOK, Answered
<1>3. CASE pc[w] \notin {"ok", "cancelled"} /\ cur # w
  BY <1>1, <1>3, OthersUntouched DEF StoredOK
<1>4. CASE pc[w] \notin {"ok", "cancelled"} /\ cur = w
  <2>1. <<w, 1>> \notin committed /\ pc[w] = "await"
    BY <1>1, <1>4 DEF StoredOK, WriterOK
  <2>2. CASE committed' = committed
    BY <2>1, <2>2 DEF StoredOK
  <2>3. CASE CommitWrite(w) \/ FailWrite(w)
    BY <2>1, <2>3, WriteEndsEffect DEF StoredOK
  <2>4. CASE committed' # committed /\ ~(CommitWrite(w) \/ FailWrite(w))
    <3>1. ASSUME NEW v \in Writers, TakeWrite(v) \/ CommitWrite(v) \/ FailWrite(v) PROVE FALSE
      BY <1>4, <2>4, <3>1, TakeWriteEffect, WriteEndsEffect
    <3>2. ASSUME NEW t \in Txs,
                 \/ TakeTx(t) \/ RefuseTx(t) \/ Release(t) \/ Watchdog(t)
                 \/ CommitTx(t) \/ CommitTxFails(t) \/ RollbackTx(t)
          PROVE  FALSE
      BY <1>1, <1>4, <2>4, <3>2, TakeTxEffect, LeaseEndsEffect, TxEndsEffect
    <3>3. ASSUME NEW c \in Clients, Submit(c) \/ PutWhenRoom(c) \/ Shed(c) \/ CancelWrite(c)
          PROVE  FALSE
      BY <2>4, <3>3, SubmitEffect, GiveUpEffect
    <3>4. ASSUME NEW t \in Txs,
                 \/ CancelLease(t) \/ StartBody(t) \/ BodyReturn(t)
                 \/ BodyRaise(t) \/ CloseTx(t) \/ CancelFinish(t) \/ BodyWrite(t)
          PROVE  FALSE
      BY <2>4, <3>4, TxStepEffect, BodyWriteEffect
    <3>5. ASSUME Connect \/ ConnectFails \/ StopInsteadOfConnect \/ TakeStop \/ Close \/ ClosePut
          PROVE  FALSE
      BY <2>4, <3>5, IdleEffect, CloseEffect DEF ConnectFails, sqlVars
    <3> QED  BY <3>1, <3>2, <3>3, <3>4, <3>5 DEF Next, WriterStep, ClientStep
  <2> QED  BY <2>2, <2>3, <2>4
<1> QED  BY <1>2, <1>3, <1>4

LEMMA StoreStep ==
    ASSUME IInv, WritersInv, LeaseInv, StoreInv, [Next]_vars,
           ~BodyHangs, ~CommitHangs, Kids = {}
    PROVE  StoreInv'
<1>1. /\ Nobody \notin Txs /\ Txs \cap Writers = {} /\ Clients = Writers \cup Txs
      /\ \A u \in Txs : /\ CommitOK(u) /\ ForcedOK(u) /\ WaitingOK(u) /\ BodyOK(u)
                        /\ tx[u] \in TxState
  BY WriteQueueAssumption DEF LeaseInv, StoreInv, Clients, IInv, TxInv, TypeOK
<1>2. CASE UNCHANGED vars
  <2>1. \A u \in Txs : CommitOK(u)'
    BY <1>1, <1>2, QueueSame, FrameCommit DEF vars, clientVars, sqlVars, IInv
  <2> QED  BY <1>2, <2>1 DEF StoreInv, StoredOK, vars, clientVars, sqlVars
<1>3. ASSUME Next PROVE StoreInv'
  <2>0. /\ \A u \in Txs : cur # u => RowsOf(u) \cap committed' \subseteq committed
        /\ \A w \in Writers : StoredOK(w)'
    BY <1>3, OthersUntouched, StoredStep
  <2>1. ASSUME NEW c \in Clients, Submit(c) \/ PutWhenRoom(c) PROVE StoreInv'
    <3>1. ASSUME NEW u \in Txs, u # c PROVE CommitOK(u)'
      BY <1>1, <2>1, <3>1, SubmitEffect, FrameCommit
    <3>2. ASSUME c \in Txs PROVE CommitOK(c)'
      <4>1. tx'[c] = NewTx /\ cur' # c /\ RowsOf(c) \cap committed' = {}
        BY <1>1, <2>1, <3>2, SubmitEffect DEF WaitingOK, CommitOK
      <4> QED  BY <4>1 DEF CommitOK, NewTx
    <3> QED  BY <2>0, <3>1, <3>2 DEF StoreInv
  <2>2. ASSUME NEW c \in Clients, Shed(c) \/ CancelWrite(c) PROVE StoreInv'
    <3>1. ASSUME NEW u \in Txs, u # c PROVE CommitOK(u)'
      BY <1>1, <2>2, <3>1, GiveUpEffect, FrameCommit
    <3>2. ASSUME c \in Txs PROVE CommitOK(c)'
      <4>1. tx'[c] = NewTx /\ cur' # c /\ RowsOf(c) \cap committed' = {}
        BY <1>1, <2>2, <3>2, GiveUpEffect DEF WaitingOK, CommitOK
      <4> QED  BY <4>1 DEF CommitOK, NewTx
    <3> QED  BY <2>0, <3>1, <3>2 DEF StoreInv
  <2>3. ASSUME NEW t \in Txs,
               CancelLease(t) \/ StartBody(t) \/ BodyReturn(t) \/ BodyRaise(t)
                 \/ CloseTx(t) \/ CancelFinish(t)
        PROVE  StoreInv'
    <3>0. t \in DOMAIN pc /\ t \in DOMAIN tx
      BY DEF IInv, TypeOK, Clients
    <3>1. ASSUME NEW u \in Txs, u # t PROVE CommitOK(u)'
      BY <1>1, <2>3, <3>1, TxStepEffect, FrameCommit
    <3>2. /\ UNCHANGED <<wpc, cur, pending, committed>>
          /\ InQueue(t)' <=> InQueue(t)
      BY <2>3, TxStepEffect
    <3>3. ASSUME CancelLease(t) PROVE CommitOK(t)'
      <4>1. pc[t] = "wait_start" /\ pc'[t] = "cancelled" /\ tx'[t].action = "rollback"
        BY <1>1, <3>0, <3>3 DEF CancelLease, TxState
      <4>2. cur = t => wpc = "lease"
        BY <1>1, <4>1 DEF WaitingOK, IInv, QueuedByPut
      <4>3. RowsOf(t) \cap committed = {}
        BY <1>1, <4>1 DEF CommitOK
      <4> QED  BY <3>2, <4>1, <4>2, <4>3 DEF CommitOK
    <3>4. ASSUME StartBody(t) PROVE CommitOK(t)'
      <4>1. pc[t] = "wait_start" /\ tx' = tx
        BY <3>4 DEF StartBody
      <4>2. RowsOf(t) \cap committed = {} /\ tx[t].action # "commit"
        BY <1>1, <4>1 DEF CommitOK
      <4> QED  BY <1>1, <3>2, <4>1, <4>2 DEF CommitOK
    <3>5. ASSUME BodyReturn(t) PROVE CommitOK(t)'
      <4>1. pc[t] = "body" /\ pc'[t] = "finish" /\ n[t] = K
        BY <3>0, <3>5 DEF BodyReturn
      <4>2. /\ ~tx[t].forced /\ wpc = "lease" /\ RowsOf(t) \subseteq pending
            /\ ~InQueue(t)
        BY <1>1, <4>1 DEF ForcedOK, BodyOK, RowsOf, WaitingOK
      <4>3. RowsOf(t) \cap committed = {}
        BY <1>1, <4>1 DEF CommitOK
      <4> QED  BY <3>2, <4>1, <4>2, <4>3 DEF CommitOK
    <3>6. ASSUME BodyRaise(t) PROVE CommitOK(t)'
      <4>1. pc[t] = "body" /\ tx'[t].action = "rollback"
        BY <1>1, <3>0, <3>6 DEF BodyRaise, TxState
      <4>2. wpc = "lease" /\ RowsOf(t) \cap committed = {}
        BY <1>1, <4>1 DEF ForcedOK, BodyOK, CommitOK
      <4> QED  BY <3>2, <4>1, <4>2 DEF CommitOK
    <3>7. ASSUME CloseTx(t) PROVE CommitOK(t)'
      <4>1. /\ tx' = tx /\ tx[t].finish /\ pc[t] \in {"finish", "finish_raised"}
            /\ pc'[t] = Outcome(t)
        BY <3>0, <3>7 DEF CloseTx
      <4>2. cur = t => tx[t].action # "commit"
        BY <1>1, <4>1 DEF BodyOK, CommitOK, ForcedOK
      <4>3. RowsOf(t) \cap committed # {} => pc'[t] = "ok" /\ ~InQueue(t) /\ cur # t
        BY <1>1, <4>1 DEF CommitOK, Outcome
      <4>4. pc'[t] \in {"raised", "err", "ok"}
        BY <4>1 DEF Outcome
      <4> QED  BY <1>1, <3>2, <4>1, <4>2, <4>3, <4>4 DEF CommitOK
    <3>8. ASSUME CancelFinish(t) PROVE CommitOK(t)'
      <4>1. /\ tx' = tx /\ pc[t] \in {"finish", "finish_raised"} /\ pc'[t] = "cancelled"
        BY <3>0, <3>8 DEF CancelFinish
      <4> QED  BY <1>1, <3>2, <4>1 DEF CommitOK
    <3> QED  BY <2>0, <2>3, <3>1, <3>3, <3>4, <3>5, <3>6, <3>7, <3>8 DEF StoreInv
  <2>4. ASSUME NEW t \in Txs, BodyWrite(t) PROVE StoreInv'
    BY <1>1, <2>0, <2>4, BodyWriteEffect, FrameCommit DEF StoreInv
  <2>5. ASSUME Connect \/ StopInsteadOfConnect \/ TakeStop PROVE StoreInv'
    BY <1>1, <2>0, <2>5, IdleEffect, FrameCommit DEF StoreInv
  <2>6. ASSUME Close \/ ClosePut PROVE StoreInv'
    BY <1>1, <2>0, <2>6, CloseEffect, FrameCommit DEF StoreInv
  <2>7. ASSUME Crash, cur \notin Txs PROVE StoreInv'
    <3>1. ASSUME NEW u \in Txs PROVE CommitOK(u)'
      <4>1. CASE ~InQueue(u)
        <5>1. pc'[u] = pc[u] /\ tx'[u] = tx[u] /\ cur' # u /\ ~InQueue(u)'
          BY <1>1, <2>7, <4>1, CrashEffect DEF DrainedTx
        <5> QED  BY <1>1, <2>0, <2>7, <5>1, FrameCommit
      <4>2. CASE InQueue(u)
        <5>1. pc'[u] = pc[u] /\ cur' # u /\ tx'[u].action = "rollback"
          BY <1>1, <2>7, <4>2, CrashEffect DEF DrainedTx, CommitOK, TxState
        <5>2. RowsOf(u) \cap committed' = {}
          BY <1>1, <2>0, <2>7, <4>2 DEF CommitOK
        <5> QED  BY <5>1, <5>2 DEF CommitOK
      <4> QED  BY <4>1, <4>2
    <3> QED  BY <2>0, <3>1 DEF StoreInv
  <2>8. ASSUME ConnectFails PROVE StoreInv'
    BY <2>7, <2>8 DEF ConnectFails, IInv, ServiceInv
  <2>9. ASSUME NEW w \in Writers, TakeWrite(w) PROVE StoreInv'
    BY <1>1, <2>0, <2>9, TakeWriteEffect, FrameCommit DEF StoreInv
  <2>10. ASSUME NEW w \in Writers, CommitWrite(w) \/ FailWrite(w) PROVE StoreInv'
    <3>1. CASE Crash
      BY <2>7, <2>10, <3>1, WriteEndsEffect
    <3>2. CASE ~Crash
      BY <1>1, <2>0, <2>10, <3>2, WriteEndsEffect, FrameCommit DEF StoreInv
    <3> QED  BY <3>1, <3>2
  <2>11. ASSUME NEW t \in Txs, TakeTx(t) \/ RefuseTx(t) PROVE StoreInv'
    <3>1. ASSUME NEW u \in Txs, u # t PROVE CommitOK(u)'
      BY <1>1, <2>0, <2>11, <3>1, TakeTxEffect, FrameCommit
    <3>2. CommitOK(t)'
      <4>1. tx[t].action # "commit" /\ RowsOf(t) \cap committed' = {}
        BY <1>1, <2>11, TakeTxEffect DEF CommitOK
      <4>2. tx'[t].action = tx[t].action
        <5>1. CASE tx'[t] = [tx[t] EXCEPT !.start = TRUE]
          BY <1>1, <5>1 DEF TxState
        <5>2. CASE tx'[t] = Failed(tx[t])
          BY <1>1, <5>2 DEF Failed, TxState
        <5> QED  BY <2>11, <5>1, <5>2, TakeTxEffect
      <4> QED  BY <2>11, <4>1, <4>2, TakeTxEffect DEF CommitOK
    <3> QED  BY <2>0, <3>1, <3>2 DEF StoreInv
  <2>12. ASSUME NEW t \in Txs, Release(t) \/ Watchdog(t) PROVE StoreInv'
    <3>1. ASSUME NEW u \in Txs, u # t PROVE CommitOK(u)'
      BY <1>1, <2>0, <2>12, <3>1, LeaseEndsEffect, FrameCommit
    <3>2. CommitOK(t)'
      BY <1>1, <2>12, LeaseEndsEffect DEF CommitOK
    <3> QED  BY <2>0, <3>1, <3>2 DEF StoreInv
  <2>13. ASSUME NEW t \in Txs, CommitTx(t) \/ CommitTxFails(t) \/ RollbackTx(t)
         PROVE  StoreInv'
    <3>1. ASSUME NEW u \in Txs, u # t PROVE CommitOK(u)'
      BY <1>1, <2>0, <2>13, <3>1, TxEndsEffect, FrameCommit
    <3>2. CommitOK(t)'
      <4>1. /\ cur = t /\ cur' # t /\ ~InQueue(t)' /\ ~tx[t].forced
            /\ pc'[t] = pc[t] /\ tx'[t].action = tx[t].action
        BY <1>1, <2>13, TxEndsEffect DEF WaitingOK, ForcedOK
      <4>2. CASE committed' = committed
        BY <1>1, <4>1, <4>2 DEF CommitOK
      <4>3. CASE wpc = "committing" /\ tx'[t].forced = tx[t].forced
        BY <1>1, <4>1, <4>3 DEF CommitOK
      <4> QED  BY <2>13, <4>2, <4>3, TxEndsEffect
    <3> QED  BY <2>0, <3>1, <3>2 DEF StoreInv
  <2> QED
    BY <1>3, <2>1, <2>2, <2>3, <2>4, <2>5, <2>6, <2>8, <2>9, <2>10, <2>11, <2>12, <2>13
       DEF Next, WriterStep, ClientStep
<1> QED  BY <1>2, <1>3

LEMMA StoreStarts == Init => Store!Init
BY DEF Init, Store!Init, Reply, Clients

\* The refinement mapping maps every step to a step of AtomicStore, or to no step.
LEMMA StoreRefined ==
    ASSUME IInv, WritersInv, LeaseInv, StoreInv, Next, Kids = {},
           AckedDurable', StoreInv'
    PROVE  Store!Next
<1>1. UNCHANGED committed \/ \E c \in Clients : Store!Commit(c)
  <2>1. ASSUME NEW c \in Clients, pc[c] \in {"await", "finish", "cancelled"},
               committed' = committed \cup RowsWritten(c)
        PROVE  Store!Commit(c)
    BY <2>1 DEF Store!Commit, Reply
  <2> QED  BY <2>1, CommitsWhole
<1>2. ASSUME NEW c \in Clients
      PROVE  \/ Reply(c)' = Reply(c)
             \/ /\ Reply(c) = "none"
                /\ Reply(c)' = "ok" => RowsWritten(c) \subseteq committed'
                /\ Reply(c)' = "failed" => RowsWritten(c) \cap committed' = {}
  <2>1. CASE pc[c] \in Answered
    BY <2>1, AnswersAreFinal DEF Reply
  <2>2. CASE pc[c] \notin Answered
    <3>1. Reply(c) = "none"
      BY <2>2 DEF Reply, Answered
    <3>2. Reply(c)' = "ok" => RowsWritten(c) \subseteq committed'
      BY DEF Reply, AckedDurable
    <3>3. Reply(c)' = "failed" => RowsWritten(c) \cap committed' = {}
      <4>1. Reply(c)' = "failed" => pc'[c] \in {"err", "raised", "shed"}
        BY DEF Reply
      <4> QED  BY <4>1 DEF StoreInv, CommitOK, StoredOK, RowsWritten, Clients
    <3> QED  BY <3>1, <3>2, <3>3
  <2> QED  BY <2>1, <2>2
<1>3. \A c \in Clients : Reply(c)' \in {"none", "ok", "failed", "unknown"}
  BY DEF Reply
<1>4. Store!Replies
  BY <1>2, <1>3 DEF Store!Replies
<1> QED  BY <1>1, <1>4 DEF Store!Next

\* The queue, the leases, the supervisor and the drain implement a store that takes
\* every client's rows as a whole and answers truthfully, for any clients, any queue
\* and any crashes, refusals, cancellations and close(), as long as no body outlasts
\* the watchdog or leaves a task behind and no commit outlasts its caller's wait.
THEOREM StoreIsAtomic ==
    ASSUME ~BodyHangs, ~CommitHangs, Kids = {}
    PROVE  Spec => ImplementsAtomicStore
<1> DEFINE Inv == IInv /\ WritersInv /\ LeaseInv /\ StoreInv
<1>1. Init => Inv
  BY InvInit, WritersInit, LeaseInit, StoreInit
<1>2. Inv /\ [Next]_vars => Inv'
  BY InvStep, WritersStep, LeaseStep, StoreStep
<1>3. Inv /\ Inv' /\ [Next]_vars => [Store!Next]_(Store!vars)
  <2>1. CASE UNCHANGED vars
    BY <2>1 DEF vars, clientVars, sqlVars, Store!vars, Reply
  <2>2. CASE Next
    BY <2>2, StoreRefined DEF IInv
  <2> QED  BY <2>1, <2>2
<1> QED
  BY <1>1, <1>2, <1>3, StoreStarts, PTL DEF Spec, ImplementsAtomicStore, Store!Spec

=============================================================================
