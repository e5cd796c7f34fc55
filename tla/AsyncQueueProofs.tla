-------------------------- MODULE AsyncQueueProofs --------------------------
(***************************************************************************)
(* Proofs about AsyncQueue, for any number of threads, ops, waits and      *)
(* semaphores.  IndInv is the inductive invariant: beside the statements   *)
(* proved, it says which party owns which timepoint, so that nobody gives  *)
(* a unit of wait_count back twice, and what is known of an op that has    *)
(* been handed on.                                                         *)
(***************************************************************************)
EXTENDS AsyncQueue, FiniteSetTheorems, SequenceTheorems, TLAPS

\* The op was accepted by enqueue, and all its waits are settled.
Born(o) == op_state[o] \in {"live", "freed"}
DoneOps == {o \in Ops : Born(o) /\ wait_count[o] = 0}

\* The thread that will call back for a timepoint owns it, alone, and has put
\* the error of a failed wait on the op before it returns the unit.
Owner ==
  /\ \A t \in Threads : \A w \in todo[t] :
       timepoint[w] \in {"firing", "failing", "rejecting"}
  /\ \A t \in Threads : cb[t] # Null =>
       /\ timepoint[cb[t]] \in {"failing", "rejecting"}
       /\ error_status[WaitOp[cb[t]]] # "ok"
  /\ \A t, u \in Threads : \A w \in todo[t] :
       (w \in todo[u] => t = u) /\ cb[u] # w
  /\ \A t, u \in Threads : cb[t] # Null /\ cb[t] = cb[u] => t = u

\* There is one destroyer, alone among the clients, and the cancels it has won
\* are those of the op it is at.
Destroyer ==
  /\ \A c, d \in Clients : pc[c] \in DestroyPCs /\ c # d => pc[d] = "idle"
  /\ \A w \in left \cup won : walk # <<>> /\ WaitOp[w] = Head(walk)
  /\ \A w \in won : timepoint[w] = "cancelling"
  /\ \A c \in Clients : pc[c] = "d_dec" =>
       walk # <<>> /\ won # {} /\ error_status[Head(walk)] # "ok"

\* A timepoint leaves "unarmed" only after its op was accepted.
ArmedIsBorn ==
  /\ \A w \in Waits : timepoint[w] # "unarmed" => Born(WaitOp[w])
  /\ \A c \in Clients : pc[c] \in {"link", "arm"} =>
       cop[c] \in Ops /\ Born(cop[c])

\* A wait that did not succeed leaves an error on its op.
ErrorKept ==
  /\ \A w \in Waits : timepoint[w] \in {"failed", "rejected", "cancelled"} =>
       error_status[WaitOp[w]] # "ok"
  /\ \A w \in Waits : timepoint[w] = "failing" => sem_status[WaitSem[w]] # "ok"
  /\ wpc = "fail" => wstatus # "ok"

\* A wait that fired was reached.
FiredIsReached ==
  /\ \A w \in Waits : timepoint[w] \in {"firing", "fired"} =>
       timeline[WaitSem[w]] >= WaitVal[w]
  /\ \A t \in Threads : sig[t] # Null => sig[t][2] <= timeline[sig[t][1]]

\* Whatever is on its way to the worker has all its waits settled.
HandedOnIsDone ==
  /\ ready_head \in Seq(DoneOps)
  /\ batch \in Seq(DoneOps)
  /\ to_push \in Seq(DoneOps)
  /\ \A t \in Threads : /\ push_op[t] # Null => push_op[t] \in DoneOps
                        /\ push[t] \in {"splice", "push"} => push_op[t] # Null

\* The op the worker is at, and what it knows of it.
AtWork ==
  /\ wpc \in {"run", "signal", "advance", "fail", "release"} => batch # <<>>
  /\ wpc \in {"signal", "fail"} => wsig \subseteq DOMAIN SignalList[wop]
  /\ wpc \in {"signal", "advance"} =>
       \A w \in WaitsOf(wop) : timepoint[w] = "fired"
  /\ \A o \in Ops : outcome[o] = "signaled" =>
       \A w \in WaitsOf(o) : timepoint[w] = "fired"

IndInv ==
  /\ TypeOK /\ Owner /\ Destroyer /\ ArmedIsBorn /\ WaitCountIsHeld
  /\ ErrorKept /\ FiredIsReached /\ HandedOnIsDone /\ AtWork

-----------------------------------------------------------------------------
(***************************************************************************)
(* Lemmas about the operators of the model.                                *)
(***************************************************************************)

\* Splicing an op out of a list (inflight_remove_locked) leaves a list.
LEMMA SpliceType ==
  ASSUME NEW S, NEW list \in Seq(S), NEW o
  PROVE  Splice(list, o) \in Seq(S)
<1>1. CASE \E i \in 1..Len(list) : list[i] = o
  <2>1. PICK i \in 1..Len(list) : i = CHOOSE j \in 1..Len(list) : list[j] = o
    BY <1>1
  <2>2. SubSeq(list, 1, i - 1) \in Seq(S)
    <3>1. i - 1 \in Int /\ \A j \in 1..(i - 1) : list[j] \in S
      OBVIOUS
    <3> QED  BY <3>1, SubSeqProperties
  <2>3. SubSeq(list, i + 1, Len(list)) \in Seq(S)
    <3>1. /\ i + 1 \in Int /\ Len(list) \in Int
          /\ \A j \in (i + 1)..Len(list) : list[j] \in S
      OBVIOUS
    <3> QED  BY <3>1, SubSeqProperties
  <2>4. RemoveAt(list, i) \in Seq(S)
    BY <2>2, <2>3, ConcatProperties DEF RemoveAt
  <2> QED  BY <1>1, <2>1, <2>4 DEF Splice
<1> QED  BY <1>1 DEF Splice

\* The worker's reversed stack (ReceivedOrder) is empty only if the stack was.
LEMMA ReceivedOrderType ==
  ASSUME NEW S, NEW stack \in Seq(S)
  PROVE  /\ ReceivedOrder(stack) \in Seq(S)
         /\ stack # <<>> => ReceivedOrder(stack) # <<>>
BY DEF ReceivedOrder, Reverse

\* The units of wait_count are counted: the waits of an op are finitely many.
LEMMA HeldFinite ==
  ASSUME NEW o
  PROVE  /\ IsFiniteSet(WaitsOf(o)) /\ Cardinality(WaitsOf(o)) \in Nat
         /\ IsFiniteSet(Held(o)) /\ Cardinality(Held(o)) \in Nat
<1>1. WaitsOf(o) \in SUBSET Waits /\ Held(o) \in SUBSET Waits
  BY DEF WaitsOf, Held
<1>2. IsFiniteSet(Waits)
  BY ConstantsAssumption
<1>3. IsFiniteSet(WaitsOf(o)) /\ IsFiniteSet(Held(o))
  BY <1>1, <1>2, FS_Subset
<1> QED  BY <1>3, FS_CardinalityType

-----------------------------------------------------------------------------
USE DEF lifeVars, listVars, noteVars, opVars, semVars, sharedVars, fireVars,
        pushVars, callVars, clientVars, workerVars, cancelVars, history

-----------------------------------------------------------------------------
(***************************************************************************)
(* Which actions write which variables.  The proofs of the invariants look *)
(* only at the writers of the variables an invariant is about.             *)
(***************************************************************************)
TimepointWriters ==
  \/ \E t \in Threads : Dispatch(t) \/ WaitDec(t)
  \/ \E c \in Clients : \/ EnqueueArm(c) \/ ClientFail(c)
                        \/ CancelTimepoint(c) \/ CancelDec(c)
  \/ WFail

TodoWriters ==
  \/ \E t \in Threads : Dispatch(t) \/ WaitError(t) \/ WaitDec(t)
  \/ \E c \in Clients : EnqueueArm(c) \/ ClientFail(c)
  \/ WFail

ErrorWriters ==
  \/ \E t \in Threads : WaitError(t)
  \/ \E c \in Clients : CancelOp(c)

CountWriters ==
  \/ \E t \in Threads : WaitDec(t)
  \/ \E c \in Clients : CancelDec(c) \/ \E o \in Ops : Enqueue(c, o)

OpStateWriters == WRelease \/ \E c \in Clients, o \in Ops : Enqueue(c, o)

StatusWriters == WFail \/ \E c \in Clients : ClientFail(c)

TimelineWriters == WSignal \/ \E c \in Clients : ClientSignal(c)

SigWriters == TimelineWriters \/ \E t \in Threads : Dispatch(t)

WalkWriters ==
  \E c \in Clients :
    CancelLock(c) \/ CancelTimepoint(c) \/ CancelOp(c) \/ CancelDec(c)

ReadyWriters ==
  \/ \E t \in Threads : PushReady(t)
  \/ \E c \in Clients : CancelPush(c) \/ CancelDec(c)
  \/ WExchange \/ WRelease

PushWriters ==
  \/ \E t \in Threads :
       WaitDec(t) \/ PushSplice(t) \/ PushReady(t) \/ PushPost(t)
  \/ \E c \in Clients : \/ CancelPush(c) \/ DestroyShutdown(c)
                        \/ \E o \in Ops : Enqueue(c, o)

ClientWriters ==
  \E c \in Clients :
    \/ EnqueueLink(c) \/ EnqueueReturn(c) \/ CancelLock(c) \/ CancelOp(c)
    \/ CancelDec(c) \/ CancelUnlock(c) \/ CancelPush(c) \/ AwaitDrain(c)
    \/ AwaitCommit(c) \/ DestroyShutdown(c) \/ DestroyFree(c) \/ Destroy(c)
    \/ \E o \in Ops : Enqueue(c, o)

QueueWriters ==
  \/ Create
  \/ \E t \in Threads : PushSplice(t) \/ PushPost(t)
  \/ \E c \in Clients :
       \/ EnqueueLink(c) \/ CancelDec(c) \/ AwaitDrain(c) \/ DestroyShutdown(c)
       \/ DestroyFree(c) \/ AssignTopology(c)
       \/ \E o \in Ops : Enqueue(c, o)
  \/ WPrepare \/ WAdvance \/ WUncount \/ WDrained

HistoryWriters ==
  WSignaled \/ WFailed \/ \E c \in Clients, o \in Ops : Enqueue(c, o)

\* A variable that its writers do not write is left alone.
LEMMA Writers ==
  ASSUME [Next]_vars
  PROVE  /\ TimepointWriters \/ UNCHANGED timepoint
         /\ TodoWriters \/ UNCHANGED <<todo, cb>>
         /\ ErrorWriters \/ UNCHANGED error_status
         /\ CountWriters \/ UNCHANGED wait_count
         /\ OpStateWriters \/ UNCHANGED op_state
         /\ StatusWriters \/ UNCHANGED sem_status
         /\ TimelineWriters \/ UNCHANGED timeline
         /\ SigWriters \/ UNCHANGED sig
         /\ WalkWriters \/ UNCHANGED <<walk, left, won>>
         /\ ReadyWriters \/ UNCHANGED <<ready_head, batch, to_push>>
         /\ PushWriters \/ UNCHANGED <<push, push_op>>
         /\ ClientWriters \/ UNCHANGED <<pc, cop>>
         /\ WorkerStep \/ UNCHANGED workerVars
         /\ QueueWriters \/ UNCHANGED <<lifeVars, inflight, inflight_count,
                                       noteVars>>
         /\ HistoryWriters \/ UNCHANGED history
<1> USE DEF TimepointWriters, TodoWriters, ErrorWriters, CountWriters,
            OpStateWriters, StatusWriters, TimelineWriters, SigWriters,
            WalkWriters, ReadyWriters, PushWriters, ClientWriters,
            QueueWriters, HistoryWriters
<1>1. CASE UNCHANGED vars
  BY <1>1 DEF vars
<1>2. CASE Create
  BY <1>2 DEF Create
<1>3. CASE \E t \in Threads : CallStep(t)
  <2> PICK t \in Threads : CallStep(t)
    BY <1>3
  <2>1. CASE Dispatch(t)  BY <2>1 DEF Dispatch
  <2>2. CASE WaitError(t)  BY <2>2 DEF WaitError
  <2>3. CASE WaitDec(t)  BY <2>3 DEF WaitDec
  <2>4. CASE PushSplice(t)  BY <2>4 DEF PushSplice
  <2>5. CASE PushReady(t)  BY <2>5 DEF PushReady
  <2>6. CASE PushPost(t)  BY <2>6 DEF PushPost
  <2> QED  BY <2>1, <2>2, <2>3, <2>4, <2>5, <2>6 DEF CallStep
<1>4. CASE \E c \in Clients : ClientStep(c) \/ ClientCall(c)
  <2> PICK c \in Clients : ClientStep(c) \/ ClientCall(c)
    BY <1>4
  <2>1. CASE EnqueueLink(c)  BY <2>1 DEF EnqueueLink
  <2>2. CASE EnqueueArm(c)  BY <2>2 DEF EnqueueArm
  <2>3. CASE EnqueueReturn(c)  BY <2>3 DEF EnqueueReturn
  <2>4. CASE CancelLock(c)  BY <2>4 DEF CancelLock
  <2>5. CASE CancelTimepoint(c)  BY <2>5 DEF CancelTimepoint
  <2>6. CASE CancelOp(c)  BY <2>6 DEF CancelOp
  <2>7. CASE CancelDec(c)  BY <2>7 DEF CancelDec
  <2>8. CASE CancelUnlock(c)  BY <2>8 DEF CancelUnlock
  <2>9. CASE CancelPush(c)  BY <2>9 DEF CancelPush
  <2>10. CASE AwaitDrain(c)  BY <2>10 DEF AwaitDrain
  <2>11. CASE AwaitCommit(c)  BY <2>11 DEF AwaitCommit
  <2>12. CASE DestroyShutdown(c)  BY <2>12 DEF DestroyShutdown
  <2>13. CASE DestroyFree(c)  BY <2>13 DEF DestroyFree
  <2>14. CASE ClientSignal(c)  BY <2>14 DEF ClientSignal, Advance
  <2>15. CASE ClientFail(c)  BY <2>15 DEF ClientFail, FailSem
  <2>16. CASE AssignTopology(c)  BY <2>16 DEF AssignTopology
  <2>17. CASE Destroy(c)  BY <2>17 DEF Destroy
  <2>18. CASE \E o \in Ops : Enqueue(c, o)  BY <2>18 DEF Enqueue
  <2> QED  BY <2>1, <2>2, <2>3, <2>4, <2>5, <2>6, <2>7, <2>8, <2>9, <2>10, <2>11, <2>12, <2>13, <2>14, <2>15, <2>16, <2>17, <2>18 DEF ClientStep, ClientCall
<1>5. CASE WorkerStep
  <2>1. CASE WLoad  BY <1>5, <2>1 DEF WLoad
  <2>2. CASE WExchange  BY <1>5, <2>2 DEF WExchange
  <2>3. CASE WCount  BY <1>5, <2>3 DEF WCount
  <2>4. CASE WPrepare  BY <1>5, <2>4 DEF WPrepare
  <2>5. CASE WRecheck  BY <1>5, <2>5 DEF WRecheck
  <2>6. CASE WCommit  BY <1>5, <2>6 DEF WCommit
  <2>7. CASE WRun  BY <1>5, <2>7 DEF WRun
  <2>8. CASE WSignal  BY <1>5, <2>8 DEF WSignal, Advance
  <2>9. CASE WSignaled  BY <1>5, <2>9 DEF WSignaled
  <2>10. CASE WAdvance  BY <1>5, <2>10 DEF WAdvance
  <2>11. CASE WFail  BY <1>5, <2>11 DEF WFail, FailSem
  <2>12. CASE WFailed  BY <1>5, <2>12 DEF WFailed
  <2>13. CASE WRelease  BY <1>5, <2>13 DEF WRelease
  <2>14. CASE WUncount  BY <1>5, <2>14 DEF WUncount
  <2>15. CASE WDrained  BY <1>5, <2>15 DEF WDrained
  <2> QED  BY <1>5, <2>1, <2>2, <2>3, <2>4, <2>5, <2>6, <2>7, <2>8, <2>9, <2>10, <2>11, <2>12, <2>13, <2>14, <2>15 DEF WorkerStep
<1>6. CASE Finished
  BY <1>6 DEF Finished, vars
<1> QED  BY <1>1, <1>2, <1>3, <1>4, <1>5, <1>6 DEF Next

-----------------------------------------------------------------------------
(***************************************************************************)
(* Every part of IndInv is kept by every step.                             *)
(***************************************************************************)

\* A semaphore that calls back for armed timepoints hands each to one thread.
LEMMA FireOwner ==
  ASSUME TypeOK, Owner,
         NEW t \in Threads, NEW hit \in SUBSET Waits, NEW st \in {"firing", "failing"},
         \A w \in hit : timepoint[w] = "armed",
         Fire(t, hit, st), UNCHANGED <<cb, error_status>>
  PROVE  Owner'
<1> USE DEF TypeOK, CallTypeOK, OpTypeOK, Owner
<1>1. \A u \in Threads : todo'[u] = IF u = t THEN hit ELSE todo[u]
  BY DEF Fire
<1>2. \A w \in Waits : timepoint'[w] = IF w \in hit THEN st ELSE timepoint[w]
  BY DEF Fire
<1>3. \A u \in Threads : /\ todo[u] \cap hit = {}
                         /\ cb[u] # Null => cb[u] \in Waits \ hit
  OBVIOUS
<1>4. \A u \in Threads : \A w \in todo'[u] :
        timepoint'[w] \in {"firing", "failing", "rejecting"}
  BY <1>1, <1>2, <1>3
<1>5. \A u \in Threads : cb'[u] # Null =>
        /\ timepoint'[cb'[u]] \in {"failing", "rejecting"}
        /\ error_status'[WaitOp[cb'[u]]] # "ok"
  BY <1>2, <1>3
<1>6. \A u, v \in Threads : \A w \in todo'[u] :
        (w \in todo'[v] => u = v) /\ cb'[v] # w
  BY <1>1, <1>3, ConstantsAssumption
<1> QED  BY <1>4, <1>5, <1>6

\* The thread that returns a unit owned its timepoint, and nobody else did.
LEMMA WaitDecOwned ==
  ASSUME TypeOK, Owner, NEW t \in Threads, WaitDec(t)
  PROVE  \E w \in Waits :
           /\ timepoint[w] \in {"firing", "failing", "rejecting"}
           /\ timepoint[w] # "firing" => error_status[WaitOp[w]] # "ok"
           /\ ReturnUnit(t, w)
           /\ \A u \in Threads : /\ todo'[u] = todo[u] \ {w}
                                /\ cb'[u] = IF cb[u] = w THEN Null ELSE cb[u]
<1> USE ConstantsAssumption DEF TypeOK, CallTypeOK, OpTypeOK, Owner
<1>1. CASE cb[t] # Null
  <2>1. /\ ReturnUnit(t, cb[t]) /\ todo' = todo
        /\ cb' = [cb EXCEPT ![t] = Null]
    BY <1>1 DEF WaitDec
  <2>2. cb[t] \in Waits
    BY <1>1
  <2>3. \A u \in Threads : todo'[u] = todo[u] \ {cb[t]}
    BY <1>1, <2>1
  <2>4. \A u \in Threads : cb'[u] = IF cb[u] = cb[t] THEN Null ELSE cb[u]
    BY <1>1, <2>1
  <2> QED  BY <1>1, <2>1, <2>2, <2>3, <2>4
<1>2. CASE cb[t] = Null
  <2>1. PICK w \in todo[t] : /\ timepoint[w] = "firing" /\ ReturnUnit(t, w)
                            /\ todo' = [todo EXCEPT ![t] = @ \ {w}] /\ cb' = cb
    BY <1>2 DEF WaitDec
  <2> QED  BY <1>2, <2>1
<1> QED  BY <1>1, <1>2

\* wait_resolved and cancel_inflight never call back for the same timepoint.
LEMMA OwnerStep ==
  ASSUME IndInv, [Next]_vars
  PROVE  Owner'
<1>0. TypeOK /\ Owner /\ Destroyer /\ ArmedIsBorn
  BY DEF IndInv
<1>1. ASSUME NEW t \in Threads, Dispatch(t) PROVE Owner'
  BY <1>0, <1>1, FireOwner DEF Dispatch, Armed
<1>2. ASSUME NEW t \in Threads, WaitError(t) PROVE Owner'
  BY <1>0, <1>2, ConstantsAssumption DEF WaitError, FirstError, ErrorKept, IndInv, Owner, TypeOK, CallTypeOK, OpTypeOK
<1>3. ASSUME NEW t \in Threads, WaitDec(t) PROVE Owner'
  <2> PICK w \in Waits :
        /\ ReturnUnit(t, w)
        /\ \A u \in Threads : /\ todo'[u] = todo[u] \ {w}
                             /\ cb'[u] = IF cb[u] = w THEN Null ELSE cb[u]
    BY <1>0, <1>3, WaitDecOwned
  <2>1. \A v \in Waits : v # w => timepoint'[v] = timepoint[v]
    BY <1>0 DEF ReturnUnit, TypeOK, OpTypeOK
  <2>2. UNCHANGED error_status
    BY <1>3 DEF WaitDec
  <2>3. \A u \in Threads : /\ todo[u] \subseteq Waits
                           /\ cb[u] # Null => cb[u] \in Waits
    BY <1>0 DEF TypeOK, CallTypeOK
  <2>4. \A u \in Threads : cb'[u] # Null => cb'[u] = cb[u] /\ cb[u] # w
    OBVIOUS
  <2> USE DEF Owner
  <2>5. \A u \in Threads : \A v \in todo'[u] :
          timepoint'[v] \in {"firing", "failing", "rejecting"}
    BY <1>0, <2>1, <2>3
  <2>6. \A u \in Threads : cb'[u] # Null =>
          /\ timepoint'[cb'[u]] \in {"failing", "rejecting"}
          /\ error_status'[WaitOp[cb'[u]]] # "ok"
    BY <1>0, <2>1, <2>2, <2>3, <2>4
  <2>7. /\ \A u, v \in Threads : \A x \in todo'[u] :
             (x \in todo'[v] => u = v) /\ cb'[v] # x
        /\ \A u, v \in Threads : cb'[u] # Null /\ cb'[u] = cb'[v] => u = v
    BY <1>0, <2>3, <2>4, ConstantsAssumption
  <2> QED  BY <2>5, <2>6, <2>7
<1>4. ASSUME NEW c \in Clients, EnqueueArm(c) PROVE Owner'
  BY <1>0, <1>4, ConstantsAssumption DEF EnqueueArm, Owner, Threads, Unarmed, WaitsOf, TypeOK, CallTypeOK, OpTypeOK
<1>5. ASSUME NEW c \in Clients, ClientFail(c) PROVE Owner'
  BY <1>0, <1>5, FireOwner DEF ClientFail, Threads, FailSem, Armed
<1>6. CASE WFail
  BY <1>0, <1>6, FireOwner DEF WFail, Threads, FailSem, Armed
<1>7. ASSUME NEW c \in Clients, CancelTimepoint(c) PROVE Owner'
  BY <1>0, <1>7 DEF CancelTimepoint, Owner, Threads, TypeOK, CallTypeOK, OpTypeOK
<1>8. ASSUME NEW c \in Clients, CancelOp(c) PROVE Owner'
  BY <1>0, <1>8, ConstantsAssumption DEF CancelOp, Owner, Threads, FirstError, TypeOK, CallTypeOK, OpTypeOK
<1>9. ASSUME NEW c \in Clients, CancelDec(c) PROVE Owner'
  BY <1>0, <1>9 DEF CancelDec, Owner, Threads, Destroyer, TypeOK, CallTypeOK, OpTypeOK
<1>10. CASE UNCHANGED <<todo, cb, timepoint, error_status>>
  BY <1>0, <1>10 DEF Owner
<1> QED
  BY Writers, <1>1, <1>2, <1>3, <1>4, <1>5, <1>6, <1>7, <1>8, <1>9, <1>10
  DEF TimepointWriters, TodoWriters, ErrorWriters

\* An error, once captured, stays.
LEMMA ErrorSticks ==
  ASSUME IndInv, [Next]_vars, NEW o \in Ops, error_status[o] # "ok"
  PROVE  error_status'[o] # "ok"
<1>0. TypeOK
  BY DEF IndInv
<1>1. ASSUME NEW t \in Threads, WaitError(t) PROVE error_status'[o] # "ok"
  BY <1>0, <1>1 DEF WaitError, FirstError, TypeOK, OpTypeOK
<1>2. ASSUME NEW c \in Clients, CancelOp(c) PROVE error_status'[o] # "ok"
  BY <1>0, <1>2 DEF CancelOp, FirstError, TypeOK, OpTypeOK
<1> QED  BY Writers, <1>1, <1>2 DEF ErrorWriters

\* Only the destroyer writes to a timepoint it has cancelled, and only to
\* settle it.
LEMMA CancellingStays ==
  ASSUME IndInv, [Next]_vars, NEW w \in Waits, timepoint[w] = "cancelling"
  PROVE  \/ timepoint'[w] = "cancelling"
         \/ \E c \in Clients : CancelDec(c)
<1>0. TypeOK /\ Owner
  BY DEF IndInv
<1> USE DEF TypeOK, OpTypeOK, CallTypeOK
<1>1. ASSUME NEW t \in Threads, Dispatch(t) PROVE timepoint'[w] = "cancelling"
  BY <1>0, <1>1 DEF Dispatch, Fire, Armed
<1>2. ASSUME NEW t \in Threads, WaitDec(t) PROVE timepoint'[w] = "cancelling"
  BY <1>0, <1>2, WaitDecOwned DEF ReturnUnit
<1>3. ASSUME NEW c \in Clients, EnqueueArm(c) PROVE timepoint'[w] = "cancelling"
  BY <1>0, <1>3 DEF EnqueueArm, Unarmed
<1>4. ASSUME NEW c \in Clients, ClientFail(c) PROVE timepoint'[w] = "cancelling"
  BY <1>0, <1>4 DEF ClientFail, FailSem, Fire, Armed
<1>5. ASSUME NEW c \in Clients, CancelTimepoint(c) PROVE timepoint'[w] = "cancelling"
  BY <1>0, <1>5 DEF CancelTimepoint
<1>6. CASE WFail
  BY <1>0, <1>6 DEF WFail, FailSem, Fire, Armed
<1> QED  BY Writers, <1>1, <1>2, <1>3, <1>4, <1>5, <1>6 DEF TimepointWriters

\* destroy runs alone among the calls of the clients.
LEMMA DestroysAlone ==
  ASSUME IndInv, [Next]_vars
  PROVE  \A c, d \in Clients : pc'[c] \in DestroyPCs /\ c # d => pc'[d] = "idle"
<1>0. /\ TypeOK
      /\ \A c, d \in Clients : pc[c] \in DestroyPCs /\ c # d => pc[d] = "idle"
  BY DEF IndInv, Destroyer
<1> USE DEF DestroyPCs, TypeOK, ClientTypeOK
<1>1. ASSUME NEW b \in Clients,
             \/ EnqueueLink(b) \/ EnqueueReturn(b) \/ \E o \in Ops : Enqueue(b, o)
      PROVE  \A c, d \in Clients : pc'[c] \in DestroyPCs /\ c # d => pc'[d] = "idle"
  BY <1>0, <1>1 DEF EnqueueLink, EnqueueReturn, Enqueue, Destroying
<1>2. ASSUME NEW b \in Clients,
             \/ CancelLock(b) \/ CancelOp(b) \/ CancelDec(b) \/ CancelUnlock(b)
             \/ CancelPush(b)
      PROVE  \A c, d \in Clients : pc'[c] \in DestroyPCs /\ c # d => pc'[d] = "idle"
  BY <1>0, <1>2 DEF CancelLock, CancelOp, CancelDec, CancelUnlock, CancelPush
<1>3. ASSUME NEW b \in Clients,
             \/ AwaitDrain(b) \/ AwaitCommit(b) \/ DestroyShutdown(b)
             \/ DestroyFree(b) \/ Destroy(b)
      PROVE  \A c, d \in Clients : pc'[c] \in DestroyPCs /\ c # d => pc'[d] = "idle"
  BY <1>0, <1>3
  DEF AwaitDrain, AwaitCommit, DestroyShutdown, DestroyFree, Destroy
<1> QED  BY Writers, <1>0, <1>1, <1>2, <1>3 DEF ClientWriters

\* The locals of cancel_inflight stay those of the op it is at.
LEMMA DestroyerStep ==
  ASSUME IndInv, [Next]_vars
  PROVE  Destroyer'
<1> DEFINE Local == /\ \A w \in left \cup won : walk # <<>> /\ WaitOp[w] = Head(walk)
                    /\ \A w \in won : timepoint[w] = "cancelling"
           AtDec == \A c \in Clients : pc[c] = "d_dec" =>
                      walk # <<>> /\ won # {} /\ error_status[Head(walk)] # "ok"
<1>0. TypeOK /\ Destroyer /\ Local /\ AtDec
  BY DEF IndInv, Destroyer
<1> USE DEF TypeOK, ClientTypeOK, CancelTypeOK, OpTypeOK
<1>1. ASSUME NEW c \in Clients, CancelLock(c) PROVE Local' /\ AtDec'
  BY <1>0, <1>1 DEF CancelLock, WalkTo, WaitsOf, MutexFree
<1>2. ASSUME NEW c \in Clients, CancelTimepoint(c) PROVE Local' /\ AtDec'
  BY <1>0, <1>2 DEF CancelTimepoint, Destroyer, DestroyPCs
<1>3. ASSUME NEW c \in Clients, CancelOp(c) PROVE Local' /\ AtDec'
  <2>1. CASE won = {}
    <3>1. WalkTo(Tail(walk)) /\ UNCHANGED <<error_status, pc, timepoint>>
      BY <1>3, <2>1 DEF CancelOp
    <3>2. \A d \in Clients : pc'[d] # "d_dec"
      BY <1>0, <1>3, <2>1, <3>1 DEF CancelOp
    <3> QED  BY <3>1, <3>2 DEF WalkTo, WaitsOf
  <2>2. CASE won # {}
    <3>1. /\ FirstError(Head(walk), "cancelled") /\ walk # <<>>
          /\ UNCHANGED <<walk, left, won, timepoint>>
      BY <1>3, <2>2 DEF CancelOp
    <3>2. error_status'[Head(walk)] # "ok"
      BY <1>0, <3>1, HeadTailProperties DEF FirstError
    <3> QED  BY <1>0, <2>2, <3>1, <3>2
  <2> QED  BY <2>1, <2>2
<1>4. ASSUME NEW c \in Clients, CancelDec(c) PROVE Local' /\ AtDec'
  BY <1>0, <1>4 DEF CancelDec, WalkTo, WaitsOf, Destroyer, DestroyPCs
<1>5. ASSUME ~ WalkWriters PROVE Local'
  BY <1>0, <1>5, Writers, CancellingStays DEF WalkWriters
<1>6. ASSUME ~ WalkWriters PROVE AtDec'
  <2>1. UNCHANGED <<walk, left, won>>
    BY <1>6, Writers
  <2>2. ASSUME NEW c \in Clients, pc'[c] = "d_dec" PROVE pc[c] = "d_dec"
    <3>1. ASSUME NEW b \in Clients,
                 \/ EnqueueLink(b) \/ EnqueueReturn(b)
                 \/ \E o \in Ops : Enqueue(b, o)
          PROVE  pc[c] = "d_dec"
      BY <1>0, <2>2, <3>1 DEF EnqueueLink, EnqueueReturn, Enqueue
    <3>2. ASSUME NEW b \in Clients,
                 \/ CancelUnlock(b) \/ CancelPush(b) \/ AwaitDrain(b)
                 \/ AwaitCommit(b)
          PROVE  pc[c] = "d_dec"
      BY <1>0, <2>2, <3>2 DEF CancelUnlock, CancelPush, AwaitDrain, AwaitCommit
    <3>3. ASSUME NEW b \in Clients,
                 DestroyShutdown(b) \/ DestroyFree(b) \/ Destroy(b)
          PROVE  pc[c] = "d_dec"
      BY <1>0, <2>2, <3>3 DEF DestroyShutdown, DestroyFree, Destroy
    <3> QED
      BY <1>6, <2>2, <3>1, <3>2, <3>3, Writers DEF ClientWriters, WalkWriters
  <2> QED  BY <1>0, <2>1, <2>2, ErrorSticks
<1>7. Local' /\ AtDec'
  BY <1>1, <1>2, <1>3, <1>4, <1>5, <1>6 DEF WalkWriters
<1> QED  BY <1>7, DestroysAlone DEF Destroyer

\* An op enqueue accepted is never un-accepted.
LEMMA BornSticks ==
  ASSUME IndInv, [Next]_vars, NEW o \in Ops, Born(o)
  PROVE  Born(o)'
<1>0. TypeOK
  BY DEF IndInv
<1>1. CASE WRelease
  BY <1>0, <1>1 DEF WRelease, Born, TypeOK, OpTypeOK
<1>2. ASSUME NEW c \in Clients, NEW p \in Ops, Enqueue(c, p) PROVE Born(o)'
  BY <1>0, <1>2 DEF Enqueue, Born, TypeOK, OpTypeOK
<1> QED  BY Writers, <1>1, <1>2 DEF OpStateWriters, Born

\* Conversely only enqueue accepts an op.
LEMMA BornByEnqueue ==
  ASSUME IndInv, [Next]_vars, NEW o \in Ops, Born(o)'
  PROVE  Born(o) \/ \E c \in Clients : Enqueue(c, o)
<1>0. TypeOK /\ HandedOnIsDone /\ AtWork
  BY DEF IndInv
<1>1. CASE WRelease
  <2>1. wop \in DoneOps
    BY <1>0, <1>1, HeadTailProperties DEF WRelease, AtWork, HandedOnIsDone, wop
  <2> QED  BY <1>0, <1>1, <2>1 DEF WRelease, Born, DoneOps, TypeOK, OpTypeOK
<1>2. ASSUME NEW c \in Clients, NEW p \in Ops, Enqueue(c, p), ~ Enqueue(c, o)
      PROVE  Born(o)
  BY <1>0, <1>2 DEF Enqueue, Born, TypeOK, OpTypeOK
<1> QED  BY Writers, <1>1, <1>2 DEF OpStateWriters, Born

\* A timepoint leaves "unarmed" in the loop of enqueue.
LEMMA ArmedByEnqueue ==
  ASSUME IndInv, [Next]_vars, NEW w \in Waits, timepoint[w] = "unarmed"
  PROVE  \/ timepoint'[w] = "unarmed"
         \/ \E c \in Clients : pc[c] = "arm" /\ WaitOp[w] = cop[c]
<1>0. TypeOK /\ Owner /\ Destroyer
  BY DEF IndInv
<1> USE DEF TypeOK, OpTypeOK, CallTypeOK
<1>1. ASSUME NEW t \in Threads, Dispatch(t) PROVE timepoint'[w] = "unarmed"
  BY <1>0, <1>1 DEF Dispatch, Fire, Armed
<1>2. ASSUME NEW t \in Threads, WaitDec(t) PROVE timepoint'[w] = "unarmed"
  BY <1>0, <1>2, WaitDecOwned DEF ReturnUnit
<1>3. ASSUME NEW c \in Clients, EnqueueArm(c)
      PROVE  \/ timepoint'[w] = "unarmed"
             \/ pc[c] = "arm" /\ WaitOp[w] = cop[c]
  BY <1>0, <1>3 DEF EnqueueArm, Unarmed, WaitsOf
<1>4. ASSUME NEW c \in Clients, ClientFail(c) PROVE timepoint'[w] = "unarmed"
  BY <1>0, <1>4 DEF ClientFail, FailSem, Fire, Armed
<1>5. ASSUME NEW c \in Clients, CancelTimepoint(c) PROVE timepoint'[w] = "unarmed"
  BY <1>0, <1>5 DEF CancelTimepoint
<1>6. ASSUME NEW c \in Clients, CancelDec(c) PROVE timepoint'[w] = "unarmed"
  BY <1>0, <1>6 DEF CancelDec, Destroyer
<1>7. CASE WFail
  BY <1>0, <1>7 DEF WFail, FailSem, Fire, Armed
<1> QED
  BY Writers, <1>1, <1>2, <1>3, <1>4, <1>5, <1>6, <1>7 DEF TimepointWriters

\* enqueue arms the timepoints of an op it has accepted and linked.
LEMMA ArmedIsBornStep ==
  ASSUME IndInv, [Next]_vars
  PROVE  ArmedIsBorn'
<1>0. TypeOK /\ ArmedIsBorn
  BY DEF IndInv
<1>1. ASSUME NEW w \in Waits, timepoint'[w] # "unarmed" PROVE Born(WaitOp[w])'
  <2>1. Born(WaitOp[w]) /\ WaitOp[w] \in Ops
    BY <1>0, <1>1, ArmedByEnqueue, ConstantsAssumption DEF ArmedIsBorn
  <2> QED  BY <2>1, BornSticks
<1>2. ASSUME NEW c \in Clients, pc'[c] \in {"link", "arm"}
      PROVE  cop'[c] \in Ops /\ op_state'[cop'[c]] \in {"live", "freed"}
  <2> USE DEF TypeOK, ClientTypeOK
  <2>1. \/ pc[c] \in {"link", "arm"} /\ cop'[c] = cop[c]
        \/ \E o \in Ops : Enqueue(c, o) /\ cop'[c] = o /\ op_state'[o] = "live"
    <3>1. ASSUME NEW b \in Clients, EnqueueLink(b) \/ EnqueueReturn(b)
          PROVE  pc[c] \in {"link", "arm"} /\ cop'[c] = cop[c]
      BY <1>0, <1>2, <3>1 DEF EnqueueLink, EnqueueReturn
    <3>2. ASSUME NEW b \in Clients, NEW o \in Ops, Enqueue(b, o)
          PROVE  \/ pc[c] \in {"link", "arm"} /\ cop'[c] = cop[c]
                 \/ Enqueue(c, o) /\ cop'[c] = o /\ op_state'[o] = "live"
      BY <1>0, <1>2, <3>2 DEF Enqueue, OpTypeOK
    <3>3. ASSUME NEW b \in Clients,
                 \/ CancelLock(b) \/ CancelOp(b) \/ CancelDec(b)
                 \/ CancelUnlock(b) \/ CancelPush(b)
          PROVE  pc[c] \in {"link", "arm"} /\ cop'[c] = cop[c]
      BY <1>0, <1>2, <3>3
      DEF CancelLock, CancelOp, CancelDec, CancelUnlock, CancelPush
    <3>4. ASSUME NEW b \in Clients,
                 \/ AwaitDrain(b) \/ AwaitCommit(b) \/ DestroyShutdown(b)
                 \/ DestroyFree(b) \/ Destroy(b)
          PROVE  pc[c] \in {"link", "arm"} /\ cop'[c] = cop[c]
      BY <1>0, <1>2, <3>4
      DEF AwaitDrain, AwaitCommit, DestroyShutdown, DestroyFree, Destroy
    <3> QED
      BY Writers, <1>2, <3>1, <3>2, <3>3, <3>4 DEF ClientWriters
  <2> QED  BY <1>0, <2>1, BornSticks DEF ArmedIsBorn, Born
<1> QED  BY <1>1, <1>2 DEF ArmedIsBorn, Born

\* Only a fetch_sub on wait_count settles a timepoint.
LEMMA HeldStays ==
  ASSUME IndInv, [Next]_vars,
         ~ \E t \in Threads : WaitDec(t), ~ \E c \in Clients : CancelDec(c),
         NEW w \in Waits
  PROVE  /\ timepoint'[w] \in HeldStates <=> timepoint[w] \in HeldStates
         /\ timepoint[w] \in SettledStates => timepoint'[w] = timepoint[w]
<1>0. TypeOK
  BY DEF IndInv
<1> USE DEF TypeOK, OpTypeOK, HeldStates, SettledStates
<1> DEFINE Stays == /\ timepoint'[w] \in HeldStates <=> timepoint[w] \in HeldStates
                    /\ timepoint[w] \in SettledStates => timepoint'[w] = timepoint[w]
<1>1. ASSUME NEW t \in Threads, Dispatch(t) PROVE Stays
  BY <1>0, <1>1 DEF Dispatch, Fire, Armed
<1>2. ASSUME NEW c \in Clients, EnqueueArm(c) PROVE Stays
  BY <1>0, <1>2 DEF EnqueueArm, Unarmed
<1>3. ASSUME NEW c \in Clients, ClientFail(c) PROVE Stays
  BY <1>0, <1>3 DEF ClientFail, FailSem, Fire, Armed
<1>4. ASSUME NEW c \in Clients, CancelTimepoint(c) PROVE Stays
  BY <1>0, <1>4 DEF CancelTimepoint
<1>5. CASE WFail
  BY <1>0, <1>5 DEF WFail, FailSem, Fire, Armed
<1> QED  BY Writers, <1>1, <1>2, <1>3, <1>4, <1>5 DEF TimepointWriters

\* A fetch_sub by the owner of w settles w, and no other timepoint.
LEMMA WaitDecEffect ==
  ASSUME TypeOK, Owner, ArmedIsBorn, WaitCountIsHeld, NEW t \in Threads, WaitDec(t)
  PROVE  \E w \in Waits :
           /\ timepoint[w] \in {"firing", "failing", "rejecting"}
           /\ timepoint[w] # "firing" => error_status[WaitOp[w]] # "ok"
           /\ timepoint' = [timepoint EXCEPT ![w] = Settled(timepoint[w])]
           /\ Born(WaitOp[w]) /\ w \in Held(WaitOp[w])
           /\ wait_count[WaitOp[w]] >= 1
           /\ wait_count' = [wait_count EXCEPT ![WaitOp[w]] = @ - 1]
           /\ IF wait_count[WaitOp[w]] = 1
              THEN /\ push' = [push EXCEPT ![t] = "splice"]
                   /\ push_op' = [push_op EXCEPT ![t] = WaitOp[w]]
              ELSE /\ push' = [push EXCEPT ![t] = "none"]
                   /\ push_op' = [push_op EXCEPT ![t] = Null]
<1>1. PICK w \in Waits :
        /\ timepoint[w] \in {"firing", "failing", "rejecting"}
        /\ timepoint[w] # "firing" => error_status[WaitOp[w]] # "ok"
        /\ ReturnUnit(t, w)
  BY WaitDecOwned
<1>2. WaitOp[w] \in Ops
  BY ConstantsAssumption
<1>3. Born(WaitOp[w])
  BY <1>1 DEF ArmedIsBorn
<1>4. w \in Held(WaitOp[w])
  BY <1>1 DEF Held, WaitsOf, HeldStates
<1>5. wait_count[WaitOp[w]] >= 1
  <2>1. wait_count[WaitOp[w]] = Cardinality(Held(WaitOp[w]))
    BY <1>2, <1>3 DEF WaitCountIsHeld, Born
  <2>2. Cardinality(Held(WaitOp[w])) # 0
    BY <1>4, HeldFinite, FS_EmptySet
  <2> QED  BY <2>1, <2>2, HeldFinite
<1>6. timepoint' = [timepoint EXCEPT ![w] = Settled(timepoint[w])]
  BY <1>1 DEF ReturnUnit, TypeOK, OpTypeOK
<1> QED  BY <1>1, <1>3, <1>4, <1>5, <1>6 DEF ReturnUnit, Unit

\* The cancels won are held units of the op the destroyer is at.
LEMMA WonIsHeld ==
  ASSUME TypeOK, Destroyer, ArmedIsBorn, WaitCountIsHeld,
         NEW c \in Clients, CancelDec(c)
  PROVE  /\ walk # <<>> /\ Head(walk) \in Ops /\ Born(Head(walk))
         /\ won # {} /\ won \subseteq Held(Head(walk))
         /\ Cardinality(won) \in Nat \ {0}
         /\ wait_count[Head(walk)] >= Cardinality(won)
         /\ Cardinality(Held(Head(walk)) \ won) =
              wait_count[Head(walk)] - Cardinality(won)
<1>1. walk # <<>> /\ won # {}
  BY DEF CancelDec, Destroyer
<1>2. Head(walk) \in Ops
  BY <1>1, HeadTailProperties DEF TypeOK, CancelTypeOK
<1>3. won \subseteq Held(Head(walk))
  BY DEF Destroyer, Held, WaitsOf, HeldStates, TypeOK, CancelTypeOK
<1>4. Born(Head(walk))
  BY <1>1, <1>3 DEF Destroyer, ArmedIsBorn, Held, WaitsOf
<1>5. wait_count[Head(walk)] = Cardinality(Held(Head(walk)))
  BY <1>2, <1>4 DEF WaitCountIsHeld, Born
<1>6. /\ IsFiniteSet(won) /\ Cardinality(won) \in Nat
      /\ Cardinality(won) <= Cardinality(Held(Head(walk)))
  BY <1>3, HeldFinite, FS_Subset, FS_CardinalityType
<1>7. Cardinality(won) # 0
  BY <1>1, <1>6, FS_EmptySet
<1>8. Held(Head(walk)) \cap won = won
  BY <1>3
<1>9. Cardinality(Held(Head(walk)) \ won) = Cardinality(Held(Head(walk))) - Cardinality(won)
  BY <1>8, HeldFinite, FS_Difference
<1> QED  BY <1>1, <1>2, <1>3, <1>4, <1>5, <1>6, <1>7, <1>9, HeldFinite

\* Whoever settles a timepoint, wait_count stays the number of held ones.
LEMMA CountStep ==
  ASSUME IndInv, [Next]_vars
  PROVE  WaitCountIsHeld'
<1>0. TypeOK /\ Owner /\ Destroyer /\ ArmedIsBorn /\ WaitCountIsHeld
  BY DEF IndInv
<1> SUFFICES ASSUME NEW o \in Ops, Born(o)'
             PROVE  wait_count'[o] = Cardinality(Held(o)')
  BY DEF WaitCountIsHeld, Born
<1>1. ASSUME NEW t \in Threads, WaitDec(t)
      PROVE  wait_count'[o] = Cardinality(Held(o)')
  <2>1. PICK w \in Waits :
          /\ timepoint[w] \in {"firing", "failing", "rejecting"}
          /\ timepoint' = [timepoint EXCEPT ![w] = Settled(timepoint[w])]
          /\ Born(WaitOp[w]) /\ w \in Held(WaitOp[w])
          /\ wait_count[WaitOp[w]] >= 1
          /\ wait_count' = [wait_count EXCEPT ![WaitOp[w]] = @ - 1]
    BY <1>0, <1>1, WaitDecEffect
  <2>2. Settled(timepoint[w]) \notin HeldStates
    BY <2>1 DEF Settled, HeldStates
  <2>3. Born(o)
    BY <1>1 DEF WaitDec, Born
  <2>4. wait_count[o] = Cardinality(Held(o))
    BY <1>0, <2>3 DEF WaitCountIsHeld, Born
  <2>5. Held(o)' = IF o = WaitOp[w] THEN Held(o) \ {w} ELSE Held(o)
    BY <1>0, <2>1, <2>2 DEF Held, WaitsOf, TypeOK, OpTypeOK
  <2>6. CASE o = WaitOp[w]
    <3>1. Cardinality(Held(o) \ {w}) = Cardinality(Held(o)) - 1
      BY <2>1, <2>6, HeldFinite, FS_RemoveElement
    <3> QED  BY <1>0, <2>1, <2>4, <2>5, <2>6, <3>1 DEF TypeOK, OpTypeOK
  <2>7. CASE o # WaitOp[w]
    BY <1>0, <2>1, <2>4, <2>5, <2>7 DEF TypeOK, OpTypeOK
  <2> QED  BY <2>6, <2>7
<1>2. ASSUME NEW c \in Clients, CancelDec(c)
      PROVE  wait_count'[o] = Cardinality(Held(o)')
  <2>1. \A w \in Waits : timepoint'[w] = IF w \in won THEN "cancelled" ELSE timepoint[w]
    BY <1>0, <1>2 DEF CancelDec, Destroyer, Settled
  <2>2. Born(o)
    BY <1>2 DEF CancelDec, Born
  <2>3. wait_count[o] = Cardinality(Held(o))
    BY <1>0, <2>2 DEF WaitCountIsHeld, Born
  <2>4. Held(o)' = Held(o) \ won
    BY <2>1 DEF Held, WaitsOf, HeldStates
  <2>5. wait_count' = [wait_count EXCEPT ![Head(walk)] = @ - Cardinality(won)]
    BY <1>2 DEF CancelDec, Cancelled
  <2>6. CASE o = Head(walk)
    BY <1>0, <1>2, <2>3, <2>4, <2>5, <2>6, WonIsHeld DEF TypeOK, OpTypeOK
  <2>7. CASE o # Head(walk)
    <3>1. Held(o) \ won = Held(o)
      BY <1>0, <2>7 DEF Destroyer, Held, WaitsOf
    <3> QED  BY <1>0, <2>3, <2>4, <2>5, <2>7, <3>1 DEF TypeOK, OpTypeOK
  <2> QED  BY <2>6, <2>7
<1>3. ASSUME ~ \E t \in Threads : WaitDec(t), ~ \E c \in Clients : CancelDec(c)
      PROVE  wait_count'[o] = Cardinality(Held(o)')
  <2>1. Held(o)' = Held(o)
    BY <1>3, HeldStays DEF Held, WaitsOf
  <2>2. ASSUME NEW c \in Clients, NEW p \in Ops, Enqueue(c, p), Born(o), ~ Born(p)
        PROVE  wait_count'[o] = wait_count[o]
    BY <1>0, <2>2 DEF Enqueue, TypeOK, OpTypeOK
  <2>3. ASSUME NEW c \in Clients, NEW p \in Ops, Enqueue(c, p) PROVE ~ Born(p)
    BY <2>3 DEF Enqueue, Born
  <2>4. CASE Born(o)
    <3>1. wait_count'[o] = wait_count[o]
      BY <1>3, <2>2, <2>3, <2>4, Writers DEF CountWriters
    <3> QED  BY <1>0, <2>1, <2>4, <3>1 DEF WaitCountIsHeld, Born
  <2>5. CASE ~ Born(o)
    <3>1. PICK c \in Clients : Enqueue(c, o)
      BY <2>5, BornByEnqueue
    <3>2. wait_count'[o] = Cardinality(WaitsOf(o))
      BY <1>0, <3>1 DEF Enqueue, Born, TypeOK, OpTypeOK
    <3>3. Held(o) = WaitsOf(o)
      BY <1>0, <2>5 DEF ArmedIsBorn, Held, WaitsOf, HeldStates
    <3> QED  BY <2>1, <3>2, <3>3
  <2> QED  BY <2>4, <2>5
<1> QED  BY <1>1, <1>2, <1>3

\* A timepoint settles as failed, refused or cancelled after its error is put on
\* the op, and fires with an error only if its semaphore has one.
LEMMA ErrorKeptStep ==
  ASSUME IndInv, [Next]_vars
  PROVE  ErrorKept'
<1>0. TypeOK /\ Owner /\ Destroyer /\ ArmedIsBorn /\ WaitCountIsHeld /\ ErrorKept
  BY DEF IndInv
<1> USE DEF TypeOK, OpTypeOK
<1>1. ASSUME NEW w \in Waits, timepoint'[w] \in {"failed", "rejected", "cancelled"}
      PROVE  error_status'[WaitOp[w]] # "ok"
  <2>1. ASSUME NEW t \in Threads, WaitDec(t) PROVE error_status[WaitOp[w]] # "ok"
    BY <1>0, <1>1, <2>1, WaitDecEffect DEF ErrorKept, Settled
  <2>2. ASSUME NEW c \in Clients, CancelDec(c) PROVE error_status[WaitOp[w]] # "ok"
    BY <1>0, <1>1, <2>2 DEF CancelDec, Destroyer, ErrorKept
  <2>3. ASSUME ~ \E t \in Threads : WaitDec(t), ~ \E c \in Clients : CancelDec(c)
        PROVE  error_status[WaitOp[w]] # "ok"
    BY <1>0, <1>1, <2>3, HeldStays DEF ErrorKept, HeldStates, SettledStates
  <2> QED  BY <2>1, <2>2, <2>3, ErrorSticks, ConstantsAssumption
<1>2. ASSUME NEW s \in Sems, sem_status[s] # "ok" PROVE sem_status'[s] # "ok"
  BY <1>0, <1>2, Writers DEF StatusWriters, WFail, ClientFail, FailSem
<1>3. ASSUME NEW w \in Waits, timepoint'[w] = "failing"
      PROVE  sem_status'[WaitSem[w]] # "ok"
  <2>0. WaitSem[w] \in Sems
    BY ConstantsAssumption
  <2>1. CASE timepoint[w] = "failing"
    BY <1>0, <1>2, <2>0, <2>1 DEF ErrorKept
  <2>2. CASE timepoint[w] # "failing"
    <3>1. ASSUME NEW t \in Threads, Dispatch(t) PROVE FALSE
      BY <1>0, <1>3, <2>2, <3>1 DEF Dispatch, Fire
    <3>2. ASSUME NEW t \in Threads, WaitDec(t) PROVE FALSE
      BY <1>0, <1>3, <2>2, <3>2, WaitDecEffect DEF Settled
    <3>3. ASSUME NEW c \in Clients, EnqueueArm(c) PROVE sem_status'[WaitSem[w]] # "ok"
      BY <1>0, <1>3, <2>2, <3>3 DEF EnqueueArm, Unarmed
    <3>4. ASSUME NEW c \in Clients, ClientFail(c) PROVE sem_status'[WaitSem[w]] # "ok"
      BY <1>0, <1>3, <2>0, <2>2, <3>4 DEF ClientFail, FailSem, Fire, Armed
    <3>5. ASSUME NEW c \in Clients, CancelTimepoint(c) PROVE FALSE
      BY <1>0, <1>3, <2>2, <3>5 DEF CancelTimepoint
    <3>6. ASSUME NEW c \in Clients, CancelDec(c) PROVE FALSE
      BY <1>0, <1>3, <2>2, <3>6 DEF CancelDec, Destroyer, Settled
    <3>7. CASE WFail
      BY <1>0, <1>3, <2>0, <2>2, <3>7 DEF WFail, FailSem, Fire, Armed, ErrorKept
    <3> QED
      BY Writers, <1>3, <2>2, <3>1, <3>2, <3>3, <3>4, <3>5, <3>6, <3>7
      DEF TimepointWriters
  <2> QED  BY <2>1, <2>2
<1>4. ASSUME wpc' = "fail" PROVE wstatus' # "ok"
  <2>1. CASE WLoad \/ WExchange \/ WCount \/ WPrepare \/ WRecheck \/ WCommit
    BY <1>0, <1>4, <2>1 DEF WLoad, WExchange, WCount, WPrepare, WRecheck, WCommit
  <2>2. CASE WRun
    BY <1>4, <2>2 DEF WRun
  <2>3. CASE WSignal
    BY <1>4, <2>3 DEF WSignal
  <2>4. CASE WSignaled \/ WAdvance \/ WFailed \/ WRelease
    BY <1>4, <2>4 DEF WSignaled, WAdvance, WFailed, WRelease
  <2>5. CASE WFail
    BY <1>0, <2>5 DEF WFail, ErrorKept
  <2>6. CASE WUncount \/ WDrained
    BY <1>4, <2>6 DEF WUncount, WDrained, NextOp
  <2> QED
    BY <1>0, <1>4, <2>1, <2>2, <2>3, <2>4, <2>5, <2>6, Writers
    DEF WorkerStep, ErrorKept
<1> QED  BY <1>1, <1>3, <1>4 DEF ErrorKept

\* A timepoint fires without an error only when its value was reached.
LEMMA ReachedStep ==
  ASSUME IndInv, [Next]_vars
  PROVE  FiredIsReached'
<1>0. TypeOK /\ Owner /\ Destroyer /\ ArmedIsBorn /\ WaitCountIsHeld /\ FiredIsReached
      /\ AtWork /\ HandedOnIsDone
  BY DEF IndInv
<1> USE DEF TypeOK, OpTypeOK
<1>1. ASSUME NEW s \in Sems PROVE timeline[s] <= timeline'[s] /\ timeline'[s] \in Nat
  <2>1. ASSUME NEW c \in Clients, ClientSignal(c)
        PROVE  timeline[s] <= timeline'[s] /\ timeline'[s] \in Nat
    BY <1>0, <2>1, ConstantsAssumption DEF ClientSignal, CanAdvance, Advance
  <2>2. CASE WSignal
    <3>1. wop \in Ops /\ wsig \subseteq DOMAIN SignalList[wop]
      BY <1>0, <2>2, HeadTailProperties DEF WSignal, AtWork, WorkerTypeOK, wop
    <3>2. \A r \in wsig : SignalList[wop][r] \in Nat
      BY <3>1, ConstantsAssumption
    <3> QED  BY <1>0, <2>2, <3>2 DEF WSignal, CanAdvance, Advance
  <2> QED  BY <1>0, <2>1, <2>2, Writers DEF TimelineWriters
<1>2. ASSUME NEW t \in Threads, sig'[t] # Null PROVE sig'[t][2] <= timeline'[sig'[t][1]]
  <2> USE DEF CallTypeOK
  <2>1. CASE UNCHANGED sig
    <3>1. sig[t] \in Sems \X Nat
      BY <1>0, <1>2, <2>1
    <3> QED  BY <1>0, <1>1, <1>2, <2>1, <3>1 DEF FiredIsReached
  <2>2. ASSUME NEW u \in Threads, Dispatch(u) PROVE sig'[t][2] <= timeline'[sig'[t][1]]
    <3>1. sig[t] \in Sems \X Nat /\ sig'[t] = sig[t]
      BY <1>0, <1>2, <2>2 DEF Dispatch
    <3> QED  BY <1>0, <1>1, <1>2, <3>1 DEF FiredIsReached
  <2>3. ASSUME NEW u \in Threads, NEW s \in Sems, NEW v, Advance(u, s, v), v = timeline'[s]
        PROVE  sig'[t][2] <= timeline'[sig'[t][1]]
    <3>1. CASE u = t
      BY <1>0, <1>1, <2>3, <3>1 DEF Advance
    <3>2. CASE u # t
      <4>1. sig[t] \in Sems \X Nat /\ sig'[t] = sig[t]
        BY <1>0, <1>2, <2>3, <3>2 DEF Advance
      <4> QED  BY <1>0, <1>1, <1>2, <4>1 DEF FiredIsReached
    <3> QED  BY <3>1, <3>2
  <2>4. ASSUME NEW c \in Clients, ClientSignal(c) PROVE sig'[t][2] <= timeline'[sig'[t][1]]
    <3>1. PICK s \in HostSems, v \in 1..MaxValue : Advance(c, s, v)
      BY <2>4 DEF ClientSignal
    <3>2. s \in Sems
      BY ConstantsAssumption
    <3>3. v = timeline'[s]
      BY <1>0, <3>1, <3>2 DEF Advance
    <3> QED  BY <2>3, <3>1, <3>2, <3>3 DEF Threads
  <2>5. CASE WSignal
    <3>1. UNCHANGED sig \/ \E s \in Sems : \E v : Advance(Worker, s, v) /\ v = timeline'[s]
      BY <1>0, <2>5 DEF WSignal, Advance, WorkerTypeOK
    <3> QED  BY <2>1, <2>3, <3>1 DEF Threads
  <2> QED  BY <2>1, <2>2, <2>4, <2>5, Writers DEF SigWriters, TimelineWriters
<1>3. ASSUME NEW w \in Waits, timepoint'[w] \in {"firing", "fired"}
      PROVE  timeline[WaitSem[w]] >= WaitVal[w]
  <2>1. CASE timepoint[w] \in {"firing", "fired"}
    BY <1>0, <2>1 DEF FiredIsReached
  <2>2. CASE timepoint[w] \notin {"firing", "fired"}
    <3>1. ASSUME NEW t \in Threads, Dispatch(t) PROVE timeline[WaitSem[w]] >= WaitVal[w]
      <4>1. /\ WaitSem[w] = sig[t][1] /\ WaitVal[w] <= sig[t][2] /\ sig[t] # Null
        BY <1>0, <1>3, <2>2, <3>1 DEF Dispatch, Fire, Armed
      <4>2. sig[t][2] \in Nat /\ WaitVal[w] \in Nat /\ timeline[WaitSem[w]] \in Nat
        BY <1>0, <4>1, ConstantsAssumption DEF CallTypeOK
      <4> QED  BY <1>0, <4>1, <4>2 DEF FiredIsReached
    <3>2. ASSUME NEW t \in Threads, WaitDec(t) PROVE FALSE
      BY <1>0, <1>3, <2>2, <3>2, WaitDecEffect DEF Settled
    <3>3. ASSUME NEW c \in Clients, EnqueueArm(c) PROVE timeline[WaitSem[w]] >= WaitVal[w]
      BY <1>0, <1>3, <2>2, <3>3 DEF EnqueueArm, Unarmed
    <3>4. ASSUME NEW c \in Clients, ClientFail(c) PROVE FALSE
      BY <1>0, <1>3, <2>2, <3>4 DEF ClientFail, FailSem, Fire
    <3>5. ASSUME NEW c \in Clients, CancelTimepoint(c) PROVE FALSE
      BY <1>0, <1>3, <2>2, <3>5 DEF CancelTimepoint
    <3>6. ASSUME NEW c \in Clients, CancelDec(c) PROVE FALSE
      BY <1>0, <1>3, <2>2, <3>6 DEF CancelDec, Destroyer, Settled
    <3>7. ASSUME WFail PROVE FALSE
      BY <1>0, <1>3, <2>2, <3>7 DEF WFail, FailSem, Fire
    <3> QED
      BY Writers, <1>3, <2>2, <3>1, <3>2, <3>3, <3>4, <3>5, <3>6, <3>7
      DEF TimepointWriters
  <2> QED  BY <2>1, <2>2
<1>4. ASSUME NEW w \in Waits, timepoint'[w] \in {"firing", "fired"}
      PROVE  timeline'[WaitSem[w]] >= WaitVal[w]
  <2>1. WaitSem[w] \in Sems /\ WaitVal[w] \in Nat
    BY ConstantsAssumption
  <2> QED  BY <1>0, <1>1, <1>3, <1>4, <2>1
<1> QED  BY <1>2, <1>4 DEF FiredIsReached

\* An op that has no wait left has none later.
LEMMA DoneSticks ==
  ASSUME IndInv, [Next]_vars
  PROVE  DoneOps \subseteq DoneOps'
<1>0. TypeOK /\ Owner /\ Destroyer /\ ArmedIsBorn /\ WaitCountIsHeld
  BY DEF IndInv
<1> SUFFICES ASSUME NEW o \in DoneOps PROVE wait_count'[o] = 0
  BY BornSticks DEF DoneOps, Born
<1> USE DEF DoneOps, TypeOK, OpTypeOK
<1>1. ASSUME NEW t \in Threads, WaitDec(t) PROVE wait_count'[o] = 0
  BY <1>0, <1>1, WaitDecEffect
<1>2. ASSUME NEW c \in Clients, CancelDec(c) PROVE wait_count'[o] = 0
  <2>1. Head(walk) # o
    BY <1>0, <1>2, WonIsHeld
  <2> QED  BY <1>0, <1>2, <2>1 DEF CancelDec
<1>3. ASSUME NEW c \in Clients, NEW p \in Ops, Enqueue(c, p) PROVE wait_count'[o] = 0
  BY <1>0, <1>3 DEF Enqueue, Born
<1> QED  BY Writers, <1>1, <1>2, <1>3 DEF CountWriters

\* push_ready, cancel_inflight and the worker hand on only ops whose waits are
\* all settled.
LEMMA HandedOnStep ==
  ASSUME IndInv, [Next]_vars
  PROVE  HandedOnIsDone'
<1>0. TypeOK /\ Owner /\ Destroyer /\ ArmedIsBorn /\ WaitCountIsHeld
      /\ HandedOnIsDone /\ AtWork
  BY DEF IndInv
<1>1. /\ ready_head \in Seq(DoneOps') /\ batch \in Seq(DoneOps')
      /\ to_push \in Seq(DoneOps')
  BY <1>0, DoneSticks, SeqMonotonic DEF HandedOnIsDone
<1>2. \A t \in Threads : push_op[t] # Null => push_op[t] \in DoneOps'
  BY <1>0, DoneSticks DEF HandedOnIsDone
<1>3. /\ ready_head' \in Seq(DoneOps') /\ batch' \in Seq(DoneOps')
      /\ to_push' \in Seq(DoneOps')
  <2>1. ASSUME NEW t \in Threads, PushReady(t)
        PROVE  ready_head' \in Seq(DoneOps') /\ UNCHANGED <<batch, to_push>>
    <3>1. <<push_op[t]>> \in Seq(DoneOps')
      BY <1>0, <1>2, <2>1 DEF PushReady, HandedOnIsDone
    <3>2. ready_head' = <<push_op[t]>> \o ready_head
      BY <2>1 DEF PushReady, PushChain
    <3> QED  BY <1>1, <2>1, <3>1, <3>2, ConcatProperties DEF PushReady
  <2>2. ASSUME NEW c \in Clients, CancelPush(c)
        PROVE  ready_head' \in Seq(DoneOps') /\ batch' = batch /\ to_push' = <<>>
    BY <1>1, <2>2, ConcatProperties DEF CancelPush, PushChain
  <2>3. ASSUME NEW c \in Clients, CancelDec(c)
        PROVE  to_push' \in Seq(DoneOps') /\ UNCHANGED <<ready_head, batch>>
    <3>1. CASE wait_count[Head(walk)] = Cancelled
      <4>0. /\ Head(walk) \in Ops /\ Born(Head(walk))
            /\ Cardinality(won) \in Nat
        BY <1>0, <2>3, WonIsHeld
      <4>1. wait_count'[Head(walk)] = 0
        BY <1>0, <2>3, <3>1, <4>0 DEF CancelDec, Cancelled, TypeOK, OpTypeOK
      <4>2. op_state' = op_state
        BY <2>3 DEF CancelDec
      <4>3. <<Head(walk)>> \in Seq(DoneOps')
        BY <4>0, <4>1, <4>2 DEF DoneOps, Born
      <4>4. to_push' = <<Head(walk)>> \o to_push
        BY <2>3, <3>1 DEF CancelDec
      <4> QED  BY <1>1, <2>3, <4>3, <4>4, ConcatProperties DEF CancelDec
    <3>2. CASE wait_count[Head(walk)] # Cancelled
      BY <1>1, <2>3, <3>2 DEF CancelDec
    <3> QED  BY <3>1, <3>2
  <2>4. CASE WExchange
    BY <1>1, <2>4, ReceivedOrderType DEF WExchange
  <2>5. CASE WRelease
    BY <1>0, <1>1, <2>5, HeadTailProperties DEF WRelease, AtWork
  <2>6. CASE UNCHANGED <<ready_head, batch, to_push>>
    BY <1>1, <2>6
  <2> QED
    BY <1>1, <2>1, <2>2, <2>3, <2>4, <2>5, <2>6, EmptySeq, Writers DEF ReadyWriters
<1>4. ASSUME NEW t \in Threads
      PROVE  /\ push_op'[t] # Null => push_op'[t] \in DoneOps'
             /\ push'[t] \in {"splice", "push"} => push_op'[t] # Null
  <2> USE DEF TypeOK, CallTypeOK, HandedOnIsDone
  <2>1. ASSUME NEW u \in Threads, WaitDec(u)
        PROVE  /\ push_op'[t] # Null => push_op'[t] \in DoneOps'
               /\ push'[t] \in {"splice", "push"} => push_op'[t] # Null
    <3>1. PICK w \in Waits :
            /\ Born(WaitOp[w])
            /\ wait_count' = [wait_count EXCEPT ![WaitOp[w]] = @ - 1]
            /\ IF wait_count[WaitOp[w]] = 1
               THEN /\ push' = [push EXCEPT ![u] = "splice"]
                    /\ push_op' = [push_op EXCEPT ![u] = WaitOp[w]]
               ELSE /\ push' = [push EXCEPT ![u] = "none"]
                    /\ push_op' = [push_op EXCEPT ![u] = Null]
      BY <1>0, <2>1, WaitDecEffect
    <3>2. WaitOp[w] \in Ops /\ WaitOp[w] # Null
      BY ConstantsAssumption
    <3>3. wait_count[WaitOp[w]] = 1 => WaitOp[w] \in DoneOps'
      BY <1>0, <2>1, <3>1, <3>2 DEF WaitDec, DoneOps, Born, OpTypeOK
    <3> QED  BY <1>0, <1>2, <3>1, <3>2, <3>3
  <2>2. ASSUME NEW u \in Threads, PushSplice(u) \/ PushReady(u) \/ PushPost(u)
        PROVE  /\ push_op'[t] # Null => push_op'[t] \in DoneOps'
               /\ push'[t] \in {"splice", "push"} => push_op'[t] # Null
    BY <1>0, <1>2, <2>2 DEF PushSplice, PushReady, PushPost
  <2>3. ASSUME NEW c \in Clients, CancelPush(c) \/ DestroyShutdown(c)
        PROVE  /\ push_op'[t] # Null => push_op'[t] \in DoneOps'
               /\ push'[t] \in {"splice", "push"} => push_op'[t] # Null
    BY <1>0, <1>2, <2>3 DEF CancelPush, DestroyShutdown
  <2>4. ASSUME NEW c \in Clients, NEW o \in Ops, Enqueue(c, o)
        PROVE  /\ push_op'[t] # Null => push_op'[t] \in DoneOps'
               /\ push'[t] \in {"splice", "push"} => push_op'[t] # Null
    <3>1. CASE UNCHANGED pushVars
      BY <1>0, <1>2, <3>1
    <3>2. CASE ~ UNCHANGED pushVars
      <4>1. /\ push' = [push EXCEPT ![c] = "splice"]
            /\ push_op' = [push_op EXCEPT ![c] = o]
            /\ WaitsOf(o) = {} /\ op_state' = [op_state EXCEPT ![o] = "live"]
            /\ wait_count' = [wait_count EXCEPT ![o] = Cardinality(WaitsOf(o))]
        BY <2>4, <3>2 DEF Enqueue
      <4>2. o \in DoneOps' /\ o # Null
        BY <1>0, <4>1, FS_EmptySet, ConstantsAssumption DEF DoneOps, Born, OpTypeOK
      <4> QED  BY <1>0, <1>2, <4>1, <4>2
    <3> QED  BY <3>1, <3>2
  <2> QED  BY <1>0, <1>2, <2>1, <2>2, <2>3, <2>4, Writers DEF PushWriters
<1> QED  BY <1>3, <1>4 DEF HandedOnIsDone

\* A timepoint that has fired stays fired.
LEMMA FiredSticks ==
  ASSUME IndInv, [Next]_vars, NEW w \in Waits, timepoint[w] = "fired"
  PROVE  timepoint'[w] = "fired"
<1>0. TypeOK /\ Owner /\ Destroyer /\ ArmedIsBorn /\ WaitCountIsHeld
  BY DEF IndInv
<1>1. ASSUME NEW t \in Threads, WaitDec(t) PROVE timepoint'[w] = "fired"
  BY <1>0, <1>1, WaitDecEffect DEF TypeOK, OpTypeOK
<1>2. ASSUME NEW c \in Clients, CancelDec(c) PROVE timepoint'[w] = "fired"
  BY <1>0, <1>2 DEF CancelDec, Destroyer
<1> QED  BY <1>1, <1>2, HeldStays DEF SettledStates

\* The worker looks at the error of an op when all its waits are settled: there
\* is none exactly when all have fired.
LEMMA NoErrorAllFired ==
  ASSUME IndInv, NEW o \in DoneOps, error_status[o] = "ok"
  PROVE  \A w \in WaitsOf(o) : timepoint[w] = "fired"
<1>0. TypeOK /\ WaitCountIsHeld /\ ErrorKept
  BY DEF IndInv
<1>1. Cardinality(Held(o)) = 0
  BY <1>0 DEF DoneOps, Born, WaitCountIsHeld
<1>2. Held(o) = {}
  BY <1>1, HeldFinite, FS_EmptySet
<1> QED
  BY <1>0, <1>2
  DEF Held, WaitsOf, ErrorKept, SettledStates, TypeOK, OpTypeOK

\* The worker's place in its loop fits the op it is at.
LEMMA AtWorkStep ==
  ASSUME IndInv, [Next]_vars
  PROVE  AtWork'
<1>0. TypeOK /\ HandedOnIsDone /\ AtWork
  BY DEF IndInv
<1> DEFINE AllFired(o) == \A w \in WaitsOf(o) : timepoint[w] = "fired"
           Place == wpc \in {"run", "signal", "advance", "fail", "release"} => batch # <<>>
           List == wpc \in {"signal", "fail"} => wsig \subseteq DOMAIN SignalList[wop]
           Ran == wpc \in {"signal", "advance"} => AllFired(wop)
<1>1. ASSUME NEW o, AllFired(o) PROVE AllFired(o)'
  BY <1>1, FiredSticks DEF WaitsOf
<1>2. Place' /\ List' /\ Ran'
  <2>0. Place /\ List /\ Ran
    BY <1>0 DEF AtWork
  <2>1. CASE UNCHANGED workerVars
    <3>1. wop' = wop
      BY <2>1 DEF wop
    <3> QED  BY <1>1, <2>0, <2>1, <3>1
  <2>2. CASE WLoad \/ WCount \/ WPrepare \/ WRecheck \/ WCommit
    BY <2>2 DEF WLoad, WCount, WPrepare, WRecheck, WCommit
  <2>3. CASE WExchange
    BY <1>0, <2>3, ReceivedOrderType DEF WExchange, HandedOnIsDone
  <2>4. CASE WRun
    <3>1. batch # <<>> /\ wop \in DoneOps
      BY <1>0, <2>0, <2>4, HeadTailProperties DEF WRun, HandedOnIsDone, wop
    <3>2. batch' = batch /\ wop' = wop /\ wsig' = DOMAIN SignalList[wop]
      BY <2>4 DEF WRun, wop
    <3>3. wpc' \in {"signal", "advance"} => error_status[wop] = "ok"
      BY <2>4 DEF WRun, WaitStatus
    <3>4. wpc' \in {"signal", "advance"} => AllFired(wop)
      BY <3>1, <3>3, NoErrorAllFired
    <3> QED  BY <1>1, <3>1, <3>2, <3>4
  <2>5. CASE WSignal
    <3>1. batch' = batch /\ wop' = wop /\ wsig' \subseteq DOMAIN SignalList[wop]
      BY <2>0, <2>5 DEF WSignal, wop
    <3>2. wpc = "signal" /\ wpc' \in {"signal", "fail"}
      BY <2>5 DEF WSignal
    <3> QED  BY <1>1, <2>0, <3>1, <3>2
  <2>6. CASE WSignaled
    <3>1. batch' = batch /\ wop' = wop /\ wpc = "signal" /\ wpc' \in {"advance", "release"}
      BY <2>6 DEF WSignaled, wop
    <3> QED  BY <1>1, <2>0, <3>1
  <2>7. CASE WAdvance \/ WFailed
    <3>1. batch' = batch /\ wpc \in {"advance", "fail"} /\ wpc' = "release"
      BY <2>7 DEF WAdvance, WFailed
    <3> QED  BY <2>0, <3>1
  <2>8. CASE WFail
    <3>1. batch' = batch /\ wop' = wop /\ wpc = "fail" /\ wpc' = "fail" /\ wsig' \subseteq wsig
      BY <2>8 DEF WFail, wop
    <3> QED  BY <2>0, <3>1
  <2>9. CASE WRelease
    BY <2>9 DEF WRelease
  <2>10. CASE WUncount \/ WDrained
    <3>1. batch' = batch /\ wpc' \in {"drained", NextOp}
      BY <2>10 DEF WUncount, WDrained
    <3> QED  BY <3>1 DEF NextOp
  <2> QED
    BY <2>1, <2>2, <2>3, <2>4, <2>5, <2>6, <2>7, <2>8, <2>9, <2>10, Writers
    DEF WorkerStep
<1>3. ASSUME NEW o \in Ops, outcome'[o] = "signaled" PROVE AllFired(o)'
  <2>1. CASE outcome[o] = "signaled"
    BY <1>0, <1>1, <2>1 DEF AtWork
  <2>2. CASE outcome[o] # "signaled"
    <3>1. CASE WSignaled
      <4>1. o = wop
        BY <1>0, <1>3, <2>2, <3>1 DEF WSignaled, Ends, TypeOK, HistoryTypeOK
      <4> QED  BY <1>0, <1>1, <3>1, <4>1 DEF AtWork, WSignaled
    <3>2. ASSUME WFailed PROVE FALSE
      BY <1>0, <1>3, <2>2, <3>2 DEF WFailed, Ends, TypeOK, HistoryTypeOK
    <3>3. ASSUME NEW c \in Clients, NEW p \in Ops, Enqueue(c, p) PROVE FALSE
      BY <1>3, <2>2, <3>3 DEF Enqueue
    <3> QED  BY <1>3, <2>2, <3>1, <3>2, <3>3, Writers DEF HistoryWriters
  <2> QED  BY <2>1, <2>2
<1> QED  BY <1>2, <1>3 DEF AtWork

\* The queue's own fields keep their types.
LEMMA QueueTypeStep ==
  ASSUME IndInv, [Next]_vars
  PROVE  QueueTypeOK'
<1>0. QueueTypeOK
  BY DEF IndInv, TypeOK
<1>1. ready_head' \in Seq(Ops)
  BY HandedOnStep DEF HandedOnIsDone, DoneOps
<1>2. inflight' \in Seq(Ops)
  <2>1. ASSUME NEW t \in Threads, PushSplice(t) PROVE inflight' \in Seq(Ops)
    BY <1>0, <2>1, SpliceType DEF PushSplice, QueueTypeOK
  <2>2. ASSUME NEW c \in Clients, EnqueueLink(c) PROVE inflight' \in Seq(Ops)
    <3>1. <<cop[c]>> \in Seq(Ops) /\ inflight' = <<cop[c]>> \o inflight
      BY <2>2 DEF EnqueueLink, Link, IndInv, ArmedIsBorn
    <3> QED  BY <1>0, <3>1, ConcatProperties DEF QueueTypeOK
  <2>3. ASSUME NEW c \in Clients, CancelDec(c) PROVE inflight' \in Seq(Ops)
    BY <1>0, <2>3, SpliceType DEF CancelDec, QueueTypeOK
  <2>4. ASSUME NEW c \in Clients, NEW o \in Ops, Enqueue(c, o) PROVE inflight' \in Seq(Ops)
    BY <1>0, <2>4 DEF Enqueue, QueueTypeOK
  <2>5. CASE \/ Create \/ \E t \in Threads : PushPost(t)
             \/ \E c \in Clients : \/ AwaitDrain(c) \/ DestroyShutdown(c)
                                   \/ DestroyFree(c) \/ AssignTopology(c)
    BY <1>0, <2>5
    DEF Create, PushPost, AwaitDrain, DestroyShutdown, DestroyFree,
        AssignTopology, QueueTypeOK
  <2>6. CASE WPrepare \/ WAdvance \/ WUncount \/ WDrained
    BY <1>0, <2>6 DEF WPrepare, WAdvance, WUncount, WDrained, QueueTypeOK
  <2> QED
    BY <1>0, <2>1, <2>2, <2>3, <2>4, <2>5, <2>6, Writers
    DEF QueueWriters, QueueTypeOK
<1> DEFINE Flags == /\ life \in {"none", "live", "failed", "freed"}
                    /\ shutdown_requested \in BOOLEAN
                    /\ frontier_tracker \in BOOLEAN /\ epoch \in Nat
                    /\ inflight_count \in Int
                    /\ worker_posted \in BOOLEAN /\ drain_posted \in BOOLEAN
<1>3. Flags'
  <2>0. Flags
    BY <1>0 DEF QueueTypeOK
  <2>1. CASE Create
    BY <2>0, <2>1 DEF Create
  <2>2. ASSUME NEW t \in Threads, PushSplice(t) \/ PushPost(t) PROVE Flags'
    BY <2>0, <2>2 DEF PushSplice, PushPost, Post
  <2>3. ASSUME NEW c \in Clients, EnqueueLink(c) \/ CancelDec(c) \/ AwaitDrain(c)
        PROVE  Flags'
    BY <2>0, <2>3 DEF EnqueueLink, CancelDec, AwaitDrain
  <2>4. ASSUME NEW c \in Clients,
               DestroyShutdown(c) \/ DestroyFree(c) \/ AssignTopology(c)
        PROVE  Flags'
    BY <2>0, <2>4 DEF DestroyShutdown, DestroyFree, AssignTopology
  <2>5. ASSUME NEW c \in Clients, NEW o \in Ops, Enqueue(c, o) PROVE Flags'
    BY <2>0, <2>5 DEF Enqueue
  <2>6. CASE WPrepare
    BY <2>0, <2>6 DEF WPrepare
  <2>7. CASE WAdvance
    BY <2>0, <2>7 DEF WAdvance
  <2>8. CASE WUncount
    BY <2>0, <2>8 DEF WUncount
  <2>9. CASE WDrained
    BY <2>0, <2>9 DEF WDrained
  <2> QED
    BY <2>0, <2>1, <2>2, <2>3, <2>4, <2>5, <2>6, <2>7, <2>8, <2>9, Writers
    DEF QueueWriters
<1> QED  BY <1>1, <1>2, <1>3 DEF QueueTypeOK

\* The fields of ops and semaphores keep their types: wait_count stays a
\* natural number because a unit is returned only by who holds it.
LEMMA OpTypeStep ==
  ASSUME IndInv, [Next]_vars
  PROVE  OpTypeOK'
<1>0. TypeOK /\ Owner /\ Destroyer /\ ArmedIsBorn /\ WaitCountIsHeld
      /\ ErrorKept /\ HandedOnIsDone /\ AtWork
  BY DEF IndInv
<1> USE DEF TypeOK, OpTypeOK
<1>1. op_state' \in [Ops -> {"new", "live", "freed", "refused"}]
  BY <1>0, Writers DEF OpStateWriters, WRelease, Enqueue
<1>2. wait_count' \in [Ops -> Nat]
  <2>1. ASSUME NEW t \in Threads, WaitDec(t) PROVE wait_count' \in [Ops -> Nat]
    BY <1>0, <2>1, WaitDecEffect
  <2>2. ASSUME NEW c \in Clients, CancelDec(c) PROVE wait_count' \in [Ops -> Nat]
    <3>1. wait_count[Head(walk)] - Cardinality(won) \in Nat
      BY <1>0, <2>2, WonIsHeld
    <3> QED  BY <1>0, <2>2, <3>1 DEF CancelDec, Cancelled
  <2>3. ASSUME NEW c \in Clients, NEW o \in Ops, Enqueue(c, o)
        PROVE  wait_count' \in [Ops -> Nat]
    <3>1. Cardinality(WaitsOf(o)) \in Nat
      BY HeldFinite
    <3> QED  BY <1>0, <2>3, <3>1 DEF Enqueue
  <2> QED  BY <1>0, <2>1, <2>2, <2>3, Writers DEF CountWriters
<1>3. error_status' \in [Ops -> Status]
  <2>1. ASSUME NEW t \in Threads, WaitError(t) PROVE error_status' \in [Ops -> Status]
    <3>1. \E o \in Ops, st \in Status : FirstError(o, st)
      BY <1>0, <2>1, ConstantsAssumption DEF WaitError, Status, CallTypeOK
    <3> QED  BY <1>0, <3>1 DEF FirstError
  <2>2. ASSUME NEW c \in Clients, CancelOp(c) PROVE error_status' \in [Ops -> Status]
    BY <1>0, <2>2 DEF CancelOp, FirstError, Status
  <2> QED  BY <1>0, <2>1, <2>2, Writers DEF ErrorWriters
<1>4. timepoint' \in [Waits -> HeldStates \cup SettledStates]
  <2> USE DEF HeldStates, SettledStates
  <2>1. ASSUME NEW t \in Threads, Dispatch(t)
        PROVE  timepoint' \in [Waits -> HeldStates \cup SettledStates]
    BY <1>0, <2>1 DEF Dispatch, Fire
  <2>2. ASSUME NEW t \in Threads, WaitDec(t)
        PROVE  timepoint' \in [Waits -> HeldStates \cup SettledStates]
    BY <1>0, <2>2, WaitDecEffect DEF Settled
  <2>3. ASSUME NEW c \in Clients, EnqueueArm(c)
        PROVE  timepoint' \in [Waits -> HeldStates \cup SettledStates]
    BY <1>0, <2>3 DEF EnqueueArm
  <2>4. ASSUME NEW c \in Clients, ClientFail(c)
        PROVE  timepoint' \in [Waits -> HeldStates \cup SettledStates]
    BY <1>0, <2>4 DEF ClientFail, FailSem, Fire
  <2>5. ASSUME NEW c \in Clients, CancelTimepoint(c)
        PROVE  timepoint' \in [Waits -> HeldStates \cup SettledStates]
    BY <1>0, <2>5 DEF CancelTimepoint
  <2>6. ASSUME NEW c \in Clients, CancelDec(c)
        PROVE  timepoint' \in [Waits -> HeldStates \cup SettledStates]
    BY <1>0, <2>6 DEF CancelDec, Destroyer, Settled
  <2>7. CASE WFail
    BY <1>0, <2>7 DEF WFail, FailSem, Fire
  <2> QED
    BY <1>0, <2>1, <2>2, <2>3, <2>4, <2>5, <2>6, <2>7, Writers
    DEF TimepointWriters
<1>5. timeline' \in [Sems -> Nat]
  <2>1. ASSUME NEW c \in Clients, ClientSignal(c) PROVE timeline' \in [Sems -> Nat]
    BY <1>0, <2>1, ConstantsAssumption DEF ClientSignal, Advance
  <2>2. CASE WSignal
    <3>1. wop \in Ops /\ wsig \subseteq DOMAIN SignalList[wop]
      BY <1>0, <2>2, HeadTailProperties DEF WSignal, AtWork, WorkerTypeOK, wop
    <3>2. \A s \in wsig : SignalList[wop][s] \in Nat
      BY <3>1, ConstantsAssumption
    <3> QED  BY <1>0, <2>2, <3>2 DEF WSignal, Advance
  <2> QED  BY <1>0, <2>1, <2>2, Writers DEF TimelineWriters
<1>6. sem_status' \in [Sems -> Status]
  <2>1. ASSUME NEW c \in Clients, ClientFail(c) PROVE sem_status' \in [Sems -> Status]
    BY <1>0, <2>1 DEF ClientFail, FailSem, Status
  <2>2. CASE WFail
    BY <1>0, <2>2 DEF WFail, FailSem, WorkerTypeOK
  <2> QED  BY <1>0, <2>1, <2>2, Writers DEF StatusWriters
<1> QED  BY <1>1, <1>2, <1>3, <1>4, <1>5, <1>6

\* What a thread's calls hold keeps its types.
LEMMA CallTypeStep ==
  ASSUME IndInv, [Next]_vars
  PROVE  CallTypeOK'
<1>0. TypeOK /\ Owner /\ ArmedIsBorn /\ WaitCountIsHeld /\ HandedOnIsDone /\ AtWork
  BY DEF IndInv
<1> USE DEF TypeOK, CallTypeOK, Threads
<1>1. sig' \in [Threads -> (Sems \X Nat) \cup {Null}]
  <2>1. ASSUME NEW t \in Threads, Dispatch(t)
        PROVE  sig' \in [Threads -> (Sems \X Nat) \cup {Null}]
    BY <1>0, <2>1 DEF Dispatch
  <2>2. ASSUME NEW c \in Clients, ClientSignal(c)
        PROVE  sig' \in [Threads -> (Sems \X Nat) \cup {Null}]
    BY <1>0, <2>2, ConstantsAssumption DEF ClientSignal, Advance
  <2>3. CASE WSignal
    <3>1. wop \in Ops /\ wsig \subseteq DOMAIN SignalList[wop]
      BY <1>0, <2>3, HeadTailProperties DEF WSignal, AtWork, WorkerTypeOK, wop
    <3>2. \A s \in wsig : <<s, SignalList[wop][s]>> \in Sems \X Nat
      BY <3>1, ConstantsAssumption
    <3> QED  BY <1>0, <2>3, <3>2 DEF WSignal, Advance
  <2> QED  BY <1>0, <2>1, <2>2, <2>3, Writers DEF SigWriters, TimelineWriters
<1>2. todo' \in [Threads -> SUBSET Waits]
  <2>1. ASSUME NEW t \in Threads, Dispatch(t) PROVE todo' \in [Threads -> SUBSET Waits]
    BY <1>0, <2>1 DEF Dispatch, Fire, Armed
  <2>2. ASSUME NEW t \in Threads, WaitError(t) \/ WaitDec(t)
        PROVE  todo' \in [Threads -> SUBSET Waits]
    BY <1>0, <2>2 DEF WaitError, WaitDec
  <2>3. ASSUME NEW c \in Clients, EnqueueArm(c) PROVE todo' \in [Threads -> SUBSET Waits]
    <3>1. \E w \in Waits : todo' \in {todo, [todo EXCEPT ![c] = {w}]}
      BY <2>3 DEF EnqueueArm, Unarmed, WaitsOf
    <3> QED  BY <1>0, <3>1
  <2>4. ASSUME NEW c \in Clients, ClientFail(c) PROVE todo' \in [Threads -> SUBSET Waits]
    BY <1>0, <2>4 DEF ClientFail, FailSem, Fire, Armed
  <2>5. CASE WFail
    BY <1>0, <2>5 DEF WFail, FailSem, Fire, Armed
  <2> QED  BY <1>0, <2>1, <2>2, <2>3, <2>4, <2>5, Writers DEF TodoWriters
<1>3. cb' \in [Threads -> Waits \cup {Null}]
  <2>1. ASSUME NEW t \in Threads, Dispatch(t) PROVE cb' \in [Threads -> Waits \cup {Null}]
    BY <1>0, <2>1 DEF Dispatch
  <2>2. ASSUME NEW t \in Threads, WaitError(t) PROVE cb' \in [Threads -> Waits \cup {Null}]
    <3>1. \E w \in Waits : cb' = [cb EXCEPT ![t] = w]
      BY <1>0, <2>2 DEF WaitError
    <3> QED  BY <1>0, <3>1
  <2>3. ASSUME NEW t \in Threads, WaitDec(t) PROVE cb' \in [Threads -> Waits \cup {Null}]
    BY <1>0, <2>3 DEF WaitDec
  <2>4. ASSUME NEW c \in Clients, EnqueueArm(c) \/ ClientFail(c)
        PROVE  cb' \in [Threads -> Waits \cup {Null}]
    BY <1>0, <2>4 DEF EnqueueArm, ClientFail
  <2>5. CASE WFail
    BY <1>0, <2>5 DEF WFail
  <2> QED  BY <1>0, <2>1, <2>2, <2>3, <2>4, <2>5, Writers DEF TodoWriters
<1>4. /\ push' \in [Threads -> {"none", "splice", "push", "post"}]
      /\ push_op' \in [Threads -> Ops \cup {Null}]
  <2>1. ASSUME NEW t \in Threads, WaitDec(t)
        PROVE  /\ push' \in [Threads -> {"none", "splice", "push", "post"}]
               /\ push_op' \in [Threads -> Ops \cup {Null}]
    <3>1. \E w \in Waits : ReturnUnit(t, w)
      BY <1>0, <2>1, WaitDecOwned
    <3>2. \E o \in Ops \cup {Null}, st \in {"splice", "none"} :
            push' = [push EXCEPT ![t] = st] /\ push_op' = [push_op EXCEPT ![t] = o]
      BY <3>1, ConstantsAssumption DEF ReturnUnit
    <3> QED  BY <1>0, <3>2
  <2>2. ASSUME NEW t \in Threads, PushSplice(t) \/ PushReady(t) \/ PushPost(t)
        PROVE  /\ push' \in [Threads -> {"none", "splice", "push", "post"}]
               /\ push_op' \in [Threads -> Ops \cup {Null}]
    BY <1>0, <2>2 DEF PushSplice, PushReady, PushPost
  <2>3. ASSUME NEW c \in Clients, CancelPush(c) \/ DestroyShutdown(c)
        PROVE  /\ push' \in [Threads -> {"none", "splice", "push", "post"}]
               /\ push_op' \in [Threads -> Ops \cup {Null}]
    BY <1>0, <2>3 DEF CancelPush, DestroyShutdown
  <2>4. ASSUME NEW c \in Clients, NEW o \in Ops, Enqueue(c, o)
        PROVE  /\ push' \in [Threads -> {"none", "splice", "push", "post"}]
               /\ push_op' \in [Threads -> Ops \cup {Null}]
    BY <1>0, <2>4 DEF Enqueue
  <2> QED  BY <1>0, <2>1, <2>2, <2>3, <2>4, Writers DEF PushWriters
<1> QED  BY <1>1, <1>2, <1>3, <1>4

\* The places and locals of the clients keep their types.
LEMMA ClientTypeStep ==
  ASSUME IndInv, [Next]_vars
  PROVE  ClientTypeOK'
<1>0. ClientTypeOK
  BY DEF IndInv, TypeOK
<1> USE DEF ClientTypeOK, EnqueuePCs, DestroyPCs
<1>1. ASSUME NEW c \in Clients, NEW o \in Ops, Enqueue(c, o) PROVE ClientTypeOK'
  BY <1>0, <1>1 DEF Enqueue
<1>2. ASSUME NEW c \in Clients, EnqueueLink(c) \/ EnqueueReturn(c) PROVE ClientTypeOK'
  BY <1>0, <1>2 DEF EnqueueLink, EnqueueReturn
<1>3. ASSUME NEW c \in Clients, CancelLock(c) \/ CancelOp(c) \/ CancelDec(c)
      PROVE  ClientTypeOK'
  BY <1>0, <1>3 DEF CancelLock, CancelOp, CancelDec
<1>4. ASSUME NEW c \in Clients, CancelUnlock(c) \/ CancelPush(c) \/ AwaitDrain(c)
      PROVE  ClientTypeOK'
  BY <1>0, <1>4 DEF CancelUnlock, CancelPush, AwaitDrain
<1>5. ASSUME NEW c \in Clients,
             AwaitCommit(c) \/ DestroyShutdown(c) \/ DestroyFree(c) \/ Destroy(c)
      PROVE  ClientTypeOK'
  BY <1>0, <1>5 DEF AwaitCommit, DestroyShutdown, DestroyFree, Destroy
<1> QED  BY <1>0, <1>1, <1>2, <1>3, <1>4, <1>5, Writers DEF ClientWriters

\* The worker's place and locals keep their types.
LEMMA WorkerTypeStep ==
  ASSUME IndInv, [Next]_vars
  PROVE  WorkerTypeOK'
<1>0. TypeOK /\ HandedOnIsDone /\ AtWork
  BY DEF IndInv
<1>1. batch' \in Seq(Ops)
  BY HandedOnStep DEF HandedOnIsDone, DoneOps
<1> DEFINE Rest == /\ wpc \in WorkerPCs /\ wshutdown \in BOOLEAN
                   /\ wstatus \in Status /\ wsig \subseteq Sems
<1>2. Rest'
  <2>0. Rest /\ shutdown_requested \in BOOLEAN
    BY <1>0 DEF TypeOK, WorkerTypeOK, QueueTypeOK
  <2>1. CASE WLoad \/ WExchange \/ WCount \/ WPrepare
    BY <2>0, <2>1 DEF WLoad, WExchange, WCount, WPrepare, WorkerPCs
  <2>2. CASE WRecheck \/ WCommit \/ WAdvance \/ WFailed \/ WRelease
    BY <2>0, <2>2 DEF WRecheck, WCommit, WAdvance, WFailed, WRelease, WorkerPCs
  <2>3. CASE WRun
    <3>1. wop \in Ops
      BY <1>0, <2>3, HeadTailProperties DEF WRun, AtWork, TypeOK, WorkerTypeOK, wop
    <3>2. DOMAIN SignalList[wop] \subseteq Sems /\ error_status[wop] \in Status
      BY <1>0, <3>1, ConstantsAssumption DEF TypeOK, OpTypeOK
    <3> QED  BY <2>0, <2>3, <3>2 DEF WRun, WaitStatus, WorkerPCs, Status
  <2>4. CASE WSignal
    <3>1. wop \in Ops
      BY <1>0, <2>4, HeadTailProperties DEF WSignal, AtWork, TypeOK, WorkerTypeOK, wop
    <3>2. DOMAIN SignalList[wop] \subseteq Sems
      BY <3>1, ConstantsAssumption
    <3> QED  BY <2>0, <2>4, <3>2 DEF WSignal, WorkerPCs, Status
  <2>5. CASE WSignaled \/ WFail
    BY <2>0, <2>5 DEF WSignaled, WFail, WorkerPCs
  <2>6. CASE WUncount \/ WDrained
    BY <2>0, <2>6 DEF WUncount, WDrained, NextOp, WorkerPCs
  <2> QED
    BY <2>0, <2>1, <2>2, <2>3, <2>4, <2>5, <2>6, Writers DEF WorkerStep
<1> QED  BY <1>1, <1>2 DEF WorkerTypeOK

\* The locals of cancel_inflight and the history keep their types.
LEMMA CancelTypeStep ==
  ASSUME IndInv, [Next]_vars
  PROVE  CancelTypeOK' /\ HistoryTypeOK'
<1>0. TypeOK /\ Destroyer
  BY DEF IndInv
<1>1. to_push' \in Seq(Ops)
  BY HandedOnStep DEF HandedOnIsDone, DoneOps
<1>2. walk' \in Seq(Ops) /\ left' \subseteq Waits /\ won' \subseteq Waits
  <2> USE DEF TypeOK, CancelTypeOK
  <2>0. ASSUME NEW ops \in Seq(Ops), WalkTo(ops)
        PROVE  walk' \in Seq(Ops) /\ left' \subseteq Waits /\ won' \subseteq Waits
    BY <2>0 DEF WalkTo, WaitsOf
  <2>1. ASSUME NEW c \in Clients, CancelLock(c)
        PROVE  walk' \in Seq(Ops) /\ left' \subseteq Waits /\ won' \subseteq Waits
    BY <1>0, <2>0, <2>1 DEF CancelLock, QueueTypeOK
  <2>2. ASSUME NEW c \in Clients, CancelTimepoint(c)
        PROVE  walk' \in Seq(Ops) /\ left' \subseteq Waits /\ won' \subseteq Waits
    BY <1>0, <2>2 DEF CancelTimepoint
  <2>3. ASSUME NEW c \in Clients, CancelOp(c) \/ CancelDec(c)
        PROVE  walk' \in Seq(Ops) /\ left' \subseteq Waits /\ won' \subseteq Waits
    <3>1. walk # <<>>
      BY <1>0, <2>3 DEF CancelOp, CancelDec, Destroyer
    <3>2. Tail(walk) \in Seq(Ops)
      BY <1>0, <3>1, HeadTailProperties
    <3>3. WalkTo(Tail(walk)) \/ UNCHANGED <<walk, left, won>>
      BY <2>3 DEF CancelOp, CancelDec
    <3> QED  BY <1>0, <2>0, <3>2, <3>3
  <2> QED  BY <1>0, <2>1, <2>2, <2>3, Writers DEF WalkWriters
<1>3. HistoryTypeOK'
  <2> USE DEF TypeOK, HistoryTypeOK
  <2>1. CASE WSignaled \/ WFailed
    BY <1>0, <2>1 DEF WSignaled, WFailed, Ends
  <2>2. ASSUME NEW c \in Clients, NEW o \in Ops, Enqueue(c, o) PROVE HistoryTypeOK'
    <3>1. submitted' \in {submitted, Append(submitted, <<c, o>>)} /\ outcome' = outcome
      BY <2>2 DEF Enqueue
    <3>2. <<c, o>> \in Clients \X Ops
      OBVIOUS
    <3>3. Append(submitted, <<c, o>>) \in Seq(Clients \X Ops)
      BY <1>0, <3>2, AppendProperties
    <3> QED  BY <1>0, <3>1, <3>3
  <2> QED  BY <1>0, <2>1, <2>2, Writers DEF HistoryWriters
<1> QED  BY <1>1, <1>2, <1>3 DEF CancelTypeOK

-----------------------------------------------------------------------------
(***************************************************************************)
(* The theorems.                                                           *)
(***************************************************************************)

\* The inductive invariant holds in every reachable state.
THEOREM Inductive == Spec => []IndInv
<1>1. Init => IndInv
  <2> SUFFICES ASSUME Init PROVE IndInv
    OBVIOUS
  <2> USE DEF Init
  <2>1. TypeOK
    <3>1. QueueTypeOK
      <4>1. /\ shutdown_requested \in BOOLEAN /\ frontier_tracker \in BOOLEAN
            /\ worker_posted \in BOOLEAN /\ drain_posted \in BOOLEAN
        BY Zenon
      <4>2. /\ life \in {"none", "live", "failed", "freed"} /\ epoch \in Nat
            /\ inflight_count \in Int
        OBVIOUS
      <4>3. ready_head \in Seq(Ops) /\ inflight \in Seq(Ops)
        BY EmptySeq
      <4> QED  BY <4>1, <4>2, <4>3 DEF QueueTypeOK
    <3>2. OpTypeOK
      BY DEF OpTypeOK, HeldStates, Status
    <3>3. CallTypeOK /\ ClientTypeOK
      BY DEF CallTypeOK, ClientTypeOK
    <3>4. WorkerTypeOK /\ HistoryTypeOK
      BY EmptySeq DEF WorkerTypeOK, HistoryTypeOK, WorkerPCs, Status
    <3>5. CancelTypeOK
      BY EmptySeq DEF CancelTypeOK
    <3> QED  BY <3>1, <3>2, <3>3, <3>4, <3>5 DEF TypeOK
  <2>2. Owner /\ Destroyer /\ ArmedIsBorn
    BY DEF Owner, Destroyer, ArmedIsBorn, DestroyPCs
  <2>3. WaitCountIsHeld /\ ErrorKept /\ FiredIsReached
    BY DEF WaitCountIsHeld, ErrorKept, FiredIsReached
  <2>4. HandedOnIsDone /\ AtWork
    BY EmptySeq DEF HandedOnIsDone, AtWork
  <2> QED  BY <2>1, <2>2, <2>3, <2>4 DEF IndInv
<1>2. IndInv /\ [Next]_vars => IndInv'
  <2> SUFFICES ASSUME IndInv, [Next]_vars PROVE IndInv'
    OBVIOUS
  <2>1. TypeOK'
    BY QueueTypeStep, OpTypeStep, CallTypeStep, ClientTypeStep, WorkerTypeStep,
       CancelTypeStep
    DEF TypeOK
  <2> QED
    BY <2>1, OwnerStep, DestroyerStep, ArmedIsBornStep, CountStep,
       ErrorKeptStep, ReachedStep, HandedOnStep, AtWorkStep
    DEF IndInv
<1> QED  BY <1>1, <1>2, PTL DEF Spec

\* Every variable keeps its type; no settlement takes wait_count below zero.
THEOREM TypeCorrect == Spec => []TypeOK
<1>1. IndInv => TypeOK
  BY DEF IndInv
<1> QED  BY <1>1, Inductive, PTL

\* However callbacks, refused registrations and cancel_inflight interleave,
\* wait_count is the number of timepoints that nobody has settled.
THEOREM CountCorrect == Spec => []WaitCountIsHeld
<1>1. IndInv => WaitCountIsHeld
  BY DEF IndInv
<1> QED  BY <1>1, Inductive, PTL

\* The worker runs an op body and signals its list only when every wait of the
\* op was reached.
THEOREM RunsAfterWaits == Spec => []RunsOnlyAfterWaits
<1>1. IndInv => RunsOnlyAfterWaits
  <2> SUFFICES ASSUME IndInv, NEW o \in Ops,
                      \/ outcome[o] = "signaled"
                      \/ wpc \in {"signal", "advance"} /\ wop = o,
                      NEW w \in WaitsOf(o)
               PROVE  timepoint[w] = "fired" /\ timeline[WaitSem[w]] >= WaitVal[w]
    BY DEF RunsOnlyAfterWaits
  <2>1. timepoint[w] = "fired"
    BY DEF IndInv, AtWork
  <2> QED  BY <2>1 DEF IndInv, FiredIsReached, WaitsOf
<1> QED  BY <1>1, Inductive, PTL
=============================================================================
