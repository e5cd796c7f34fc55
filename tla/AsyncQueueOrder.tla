-------------------------- MODULE AsyncQueueOrder --------------------------
(***************************************************************************)
(* Proofs about the order of the ops that one client enqueues without      *)
(* waits: through its own push_ready calls, the stack, which turns them    *)
(* round, and the worker's batch, which turns them back.                   *)
(***************************************************************************)
EXTENDS AsyncQueueDrain

Client(i) == submitted[i][1]
SubmittedOp(i) == submitted[i][2]

\* Entry i is of an op without waits.
WaitFree(i) == WaitsOf(SubmittedOp(i)) = {}

\* An op without waits is pushed by the client that enqueued it, and is never on
\* the chain of cancel_inflight.
PushedByItsClient ==
  /\ \A i \in DOMAIN submitted : Born(SubmittedOp(i))
  /\ \A i \in DOMAIN submitted, t \in Threads :
       WaitFree(i) /\ push_op[t] = SubmittedOp(i) => t = Client(i)
  /\ \A o \in ToSet(to_push) : WaitsOf(o) # {}

\* What is left to run of o stays ahead of p: p has not ended before o, comes
\* after it in the batch, and lies above it on the stack.
Ahead(o, p) ==
  /\ o # p
  /\ outcome[p] # "none" => outcome[o] # "none"
  /\ \A n \in DOMAIN batch : batch[n] = p =>
       outcome[o] # "none" \/ \E m \in 1..(n - 1) : batch[m] = o
  /\ \A n \in DOMAIN ready_head : ready_head[n] = p =>
       /\ o \notin PushOps
       /\ \A m \in DOMAIN ready_head : ready_head[m] = o => n < m

\* The entries the order is about: two of one client, without waits.
Paired(i, j) ==
  /\ i < j /\ Client(i) = Client(j)
  /\ WaitFree(i) /\ WaitFree(j)

InOrder ==
  \A i, j \in DOMAIN submitted :
    Paired(i, j) => Ahead(SubmittedOp(i), SubmittedOp(j))

OrderInv == PushedByItsClient /\ InOrder

-----------------------------------------------------------------------------
USE DEF lifeVars, listVars, noteVars, opVars, semVars, sharedVars, fireVars,
        pushVars, callVars, clientVars, workerVars, cancelVars, history

\* Where an op is in a list that was pushed in front of another.
LEMMA InConcat ==
  ASSUME NEW a \in Seq(Ops), NEW b \in Seq(Ops), NEW n \in DOMAIN (a \o b),
         NEW x, (a \o b)[n] = x, x \notin ToSet(a)
  PROVE  Len(a) \in Nat /\ n \in Nat /\ n - Len(a) \in DOMAIN b /\ b[n - Len(a)] = x
<1>1. /\ DOMAIN (a \o b) = 1..(Len(a) + Len(b)) /\ DOMAIN a = 1..Len(a)
      /\ DOMAIN b = 1..Len(b) /\ Len(a) \in Nat /\ Len(b) \in Nat
      /\ \A i \in 1..(Len(a) + Len(b)) :
           (a \o b)[i] = IF i <= Len(a) THEN a[i] ELSE b[i - Len(a)]
  BY ConcatProperties
<1>2. n \in Nat /\ ~ (n <= Len(a))
  BY <1>1 DEF ToSet
<1> QED  BY <1>1, <1>2

LEMMA InFront ==
  ASSUME NEW a \in Seq(Ops), NEW b \in Seq(Ops), NEW n \in DOMAIN (a \o b),
         NEW x, (a \o b)[n] = x, x \notin ToSet(b)
  PROVE  n \in 1..Len(a)
<1>1. /\ DOMAIN (a \o b) = 1..(Len(a) + Len(b))
      /\ DOMAIN b = 1..Len(b) /\ Len(a) \in Nat /\ Len(b) \in Nat
      /\ \A i \in 1..(Len(a) + Len(b)) :
           (a \o b)[i] = IF i <= Len(a) THEN a[i] ELSE b[i - Len(a)]
  BY ConcatProperties
<1>2. ~ (n <= Len(a)) => n - Len(a) \in DOMAIN b /\ b[n - Len(a)] = x
  BY <1>1
<1> QED  BY <1>1, <1>2 DEF ToSet

\* An op is on record from its enqueue on.
LEMMA SubmittedGrows ==
  ASSUME [Next]_vars
  PROVE  \/ UNCHANGED submitted
         \/ \E c \in Clients, o \in Ops :
              /\ Enqueue(c, o) /\ submitted' = Append(submitted, <<c, o>>)
              /\ op_state' = [op_state EXCEPT ![o] = "live"]
<1>1. CASE WSignaled \/ WFailed
  BY <1>1 DEF WSignaled, WFailed
<1>2. ASSUME NEW c \in Clients, NEW o \in Ops, Enqueue(c, o)
      PROVE  \/ UNCHANGED submitted
             \/ /\ submitted' = Append(submitted, <<c, o>>)
                /\ op_state' = [op_state EXCEPT ![o] = "live"]
  BY <1>2 DEF Enqueue
<1> QED  BY <1>1, <1>2, Writers DEF HistoryWriters

\* An outcome is for good, and is given to the op at work.
LEMMA OutcomeWritten ==
  ASSUME IndInv, HandoffInv, [Next]_vars, NEW o \in Ops
  PROVE  /\ outcome[o] # "none" => outcome'[o] # "none"
         /\ outcome'[o] # "none" => \/ outcome[o] # "none"
                                    \/ /\ wpc \in {"signal", "fail"} /\ o = wop
                                       /\ UNCHANGED <<batch, ready_head>>
<1>0. outcome \in [Ops -> {"none", "signaled", "failed", "twice"}]
  BY DEF IndInv, TypeOK, HistoryTypeOK
<1>1. CASE WSignaled \/ WFailed
  <2>1. /\ wpc \in {"signal", "fail"} /\ UNCHANGED <<batch, ready_head>>
        /\ \E how \in {"signaled", "failed"} : Ends(wop, how)
    BY <1>1 DEF WSignaled, WFailed
  <2> QED  BY <1>0, <2>1 DEF Ends
<1>2. CASE UNCHANGED outcome
  BY <1>2
<1>3. ASSUME NEW c \in Clients, NEW x \in Ops, Enqueue(c, x) PROVE UNCHANGED outcome
  BY <1>3 DEF Enqueue
<1> QED  BY <1>1, <1>2, <1>3, Writers DEF HistoryWriters

\* Only an op with waits is taken up for a push after it was enqueued.
LEMMA TakenUp ==
  ASSUME IndInv, [Next]_vars, NEW t \in Threads, push_op'[t] # Null,
         push_op'[t] # push_op[t]
  PROVE  \/ push_op'[t] \in Ops /\ WaitsOf(push_op'[t]) # {}
         \/ \E o \in Ops : Enqueue(t, o) /\ t \in Clients /\ push_op'[t] = o
<1>0. TypeOK /\ push_op \in [Threads -> Ops \cup {Null}]
  BY DEF IndInv, TypeOK, CallTypeOK
<1>1. ASSUME NEW u \in Threads, WaitDec(u)
      PROVE  push_op'[t] \in Ops /\ WaitsOf(push_op'[t]) # {}
  <2>1. PICK w \in Waits : ReturnUnit(u, w)
    BY <1>0, <1>1 DEF WaitDec, TypeOK, CallTypeOK
  <2>2. push_op'[t] = WaitOp[w]
    BY <1>0, <2>1 DEF ReturnUnit
  <2> QED  BY <2>2, ConstantsAssumption DEF WaitsOf
<1>2. ASSUME NEW u \in Threads, PushSplice(u) \/ PushReady(u) \/ PushPost(u) PROVE FALSE
  BY <1>0, <1>2 DEF PushSplice, PushReady, PushPost
<1>3. ASSUME NEW c \in Clients, CancelPush(c) \/ DestroyShutdown(c) PROVE FALSE
  BY <1>3 DEF CancelPush, DestroyShutdown
<1>4. ASSUME NEW c \in Clients, NEW o \in Ops, Enqueue(c, o)
      PROVE  Enqueue(t, o) /\ t \in Clients /\ push_op'[t] = o
  <2>1. push_op' = [push_op EXCEPT ![c] = o]
    BY <1>4 DEF Enqueue
  <2>2. t = c
    BY <1>0, <2>1
  <2> QED  BY <1>0, <1>4, <2>1, <2>2
<1> QED  BY <1>1, <1>2, <1>3, <1>4, Writers DEF PushWriters

\* An entry was there before, or is that of the enqueue taking place.
LEMMA EntryOf ==
  ASSUME IndInv, [Next]_vars, NEW i \in DOMAIN submitted'
  PROVE  \/ i \in DOMAIN submitted /\ submitted'[i] = submitted[i]
         \/ \E c \in Clients, o \in Ops :
              /\ Enqueue(c, o) /\ i = Len(submitted) + 1
              /\ submitted' = Append(submitted, <<c, o>>) /\ submitted'[i] = <<c, o>>
              /\ op_state[o] = "new" /\ op_state'[o] = "live"
<1>0. /\ submitted \in Seq(Clients \X Ops) /\ TypeOK
      /\ op_state \in [Ops -> {"new", "live", "freed", "refused"}]
  BY DEF IndInv, TypeOK, HistoryTypeOK, OpTypeOK
<1>1. CASE UNCHANGED submitted
  BY <1>1
<1>2. ASSUME NEW c \in Clients, NEW o \in Ops, Enqueue(c, o),
             submitted' = Append(submitted, <<c, o>>),
             op_state' = [op_state EXCEPT ![o] = "live"]
      PROVE  \/ i \in DOMAIN submitted /\ submitted'[i] = submitted[i]
             \/ /\ i = Len(submitted) + 1 /\ submitted'[i] = <<c, o>>
                /\ op_state[o] = "new" /\ op_state'[o] = "live"
  <2>1. op_state[o] = "new" /\ op_state'[o] = "live"
    BY <1>0, <1>2 DEF Enqueue
  <2>2. <<c, o>> \in Clients \X Ops
    OBVIOUS
  <2>3. /\ DOMAIN submitted = 1..Len(submitted) /\ Len(submitted) \in Nat
        /\ DOMAIN submitted' = 1..(Len(submitted) + 1)
        /\ \A k \in 1..Len(submitted) : submitted'[k] = submitted[k]
        /\ submitted'[Len(submitted) + 1] = <<c, o>>
    BY <1>0, <1>2, <2>2, AppendProperties
  <2> QED  BY <2>1, <2>3
<1> QED  BY <1>1, <1>2, SubmittedGrows

\* The entries are of accepted ops.
LEMMA EntryType ==
  ASSUME IndInv, PushedByItsClient, NEW i \in DOMAIN submitted
  PROVE  SubmittedOp(i) \in Ops /\ Client(i) \in Clients /\ Born(SubmittedOp(i))
BY DEF IndInv, TypeOK, HistoryTypeOK, PushedByItsClient, SubmittedOp, Client

\* An op without waits is pushed by its client, all along.
LEMMA PushedByItsClientStep ==
  ASSUME IndInv, HandoffInv, PushedByItsClient, [Next]_vars
  PROVE  PushedByItsClient'
<1>0. TypeOK /\ HandedOnIsDone /\ Destroyer
  BY DEF IndInv
<1>1. ASSUME NEW i \in DOMAIN submitted' PROVE op_state'[submitted'[i][2]] \in {"live", "freed"}
  <2>1. CASE i \in DOMAIN submitted /\ submitted'[i] = submitted[i]
    <3>1. PICK o \in Ops : o = SubmittedOp(i) /\ Born(o)
      BY <2>1, EntryType
    <3>2. Born(o)'
      BY <1>0, <3>1, BornSticks
    <3> QED  BY <2>1, <3>1, <3>2 DEF SubmittedOp, Born
  <2>2. ASSUME NEW c \in Clients, NEW o \in Ops, submitted'[i] = <<c, o>>,
               op_state'[o] = "live"
        PROVE  op_state'[submitted'[i][2]] \in {"live", "freed"}
    BY <2>2
  <2> QED  BY <2>1, <2>2, EntryOf
<1>2. ASSUME NEW i \in DOMAIN submitted', NEW t \in Threads,
             WaitsOf(submitted'[i][2]) = {}, push_op'[t] = submitted'[i][2]
      PROVE  t = submitted'[i][1]
  <2>1. CASE i \in DOMAIN submitted /\ submitted'[i] = submitted[i]
    <3>1. PICK o \in Ops : o = SubmittedOp(i) /\ Born(o)
      BY <2>1, EntryType
    <3>2. WaitsOf(o) = {} /\ push_op'[t] = o
      BY <1>2, <2>1, <3>1 DEF SubmittedOp
    <3>3. CASE push_op[t] = o
      BY <2>1, <3>1, <3>2, <3>3 DEF PushedByItsClient, WaitFree, SubmittedOp, Client
    <3>4. CASE push_op[t] # o
      <4>1. o # Null
        BY ConstantsAssumption
      <4>2. \E x \in Ops : Enqueue(t, x) /\ x = o
        BY <3>2, <3>4, <4>1, TakenUp
      <4> QED  BY <3>1, <4>2 DEF Enqueue, Born
    <3> QED  BY <3>3, <3>4
  <2>2. ASSUME NEW c \in Clients, NEW o \in Ops, Enqueue(c, o),
               submitted' = Append(submitted, <<c, o>>), submitted'[i] = <<c, o>>,
               i = Len(submitted) + 1, op_state[o] = "new", op_state'[o] = "live"
        PROVE  t = submitted'[i][1]
    <3>1. push_op'[t] = o /\ WaitsOf(o) = {} /\ o # Null
      BY <1>2, <2>2, ConstantsAssumption
    <3>2. push_op[t] # o
      BY <1>0, <2>2, <3>1 DEF HandedOnIsDone, DoneOps, Born
    <3>3. Enqueue(t, o) /\ t \in Clients
      BY <3>1, <3>2, TakenUp
    <3>4. op_state' # [op_state EXCEPT ![o] = "refused"]
      BY <1>0, <2>2 DEF TypeOK, OpTypeOK
    <3>5. submitted' = Append(submitted, <<t, o>>)
      BY <3>3, <3>4 DEF Enqueue
    <3>6. submitted'[i] = <<t, o>>
      <4>1. submitted \in Seq(Clients \X Ops) /\ <<t, o>> \in Clients \X Ops
        BY <1>0, <3>3 DEF TypeOK, HistoryTypeOK
      <4> QED  BY <2>2, <3>5, <4>1, AppendProperties
    <3> QED  BY <2>2, <3>6
  <2> QED  BY <2>1, <2>2, EntryOf
<1>3. ASSUME NEW o \in ToSet(to_push') PROVE WaitsOf(o) # {}
  <2>1. CASE UNCHANGED to_push
    BY <1>3, <2>1 DEF PushedByItsClient
  <2>2. ASSUME NEW c \in Clients, CancelPush(c) PROVE FALSE
    BY <1>3, <2>2 DEF CancelPush, ToSet
  <2>3. ASSUME NEW c \in Clients, CancelDec(c), to_push' = <<Head(walk)>> \o to_push
        PROVE  WaitsOf(o) # {}
    <3>1. pc[c] = "d_dec" /\ walk # <<>> /\ won # {} /\ won \subseteq Waits
      BY <1>0, <2>3 DEF CancelDec, Destroyer, TypeOK, CancelTypeOK
    <3>2. WaitsOf(Head(walk)) # {}
      BY <1>0, <3>1 DEF Destroyer, WaitsOf
    <3>3. Head(walk) \in Ops /\ to_push \in Seq(Ops)
      BY <1>0, <3>1, HeadTailProperties DEF TypeOK, CancelTypeOK
    <3>4. ToSet(to_push') = {Head(walk)} \cup ToSet(to_push)
      BY <2>3, <3>3, ConsList
    <3> QED  BY <1>3, <3>2, <3>4 DEF PushedByItsClient
  <2>4. CASE WExchange \/ WRelease \/ \E t \in Threads : PushReady(t)
    BY <2>1, <2>4 DEF WExchange, WRelease, PushReady
  <2>5. ASSUME NEW c \in Clients, CancelDec(c), to_push' # <<Head(walk)>> \o to_push
        PROVE  UNCHANGED to_push
    BY <2>5 DEF CancelDec
  <2> QED  BY <2>1, <2>2, <2>3, <2>4, <2>5, Writers DEF ReadyWriters
<1> QED
  BY <1>1, <1>2, <1>3 DEF PushedByItsClient, SubmittedOp, Client, WaitFree, Born

\* An op without waits that has not ended is being pushed, on the stack or in
\* the batch.
LEMMA FreeOpPlace ==
  ASSUME IndInv, HandoffInv, DrainInv, PushedByItsClient,
         NEW i \in DOMAIN submitted, WaitFree(i)
  PROVE  /\ SubmittedOp(i) \notin ToSet(to_push)
         /\ outcome[SubmittedOp(i)] = "none" =>
              SubmittedOp(i) \in PushOps \cup ToSet(ready_head) \cup ToSet(batch)
<1>1. PICK o \in Ops : o = SubmittedOp(i) /\ Born(o) /\ WaitsOf(o) = {}
  BY EntryType DEF WaitFree
<1>2. o \notin ToSet(to_push)
  BY <1>1 DEF PushedByItsClient
<1>3. wait_count[o] = 0
  <2>1. Held(o) = {}
    BY <1>1 DEF Held
  <2> QED  BY <1>1, <2>1, FS_EmptySet DEF IndInv, WaitCountIsHeld, Born
<1>4. ASSUME outcome[o] = "none" PROVE o \in PushOps \cup ToSet(ready_head) \cup ToSet(batch)
  <2>1. o \in DoneLive
    BY <1>1, <1>3, <1>4 DEF DrainInv, EndsOnce, DoneLive, Born
  <2> QED  BY <1>2, <2>1 DEF HandoffInv, InOneHand, OnWay
<1> QED  BY <1>1, <1>2, <1>4

\* The batch keeps the order: its op at work ends first, and the stack is turned
\* round when it is taken.
LEMMA BatchOrder ==
  ASSUME IndInv, HandoffInv, DrainInv, PushedByItsClient, [Next]_vars,
         NEW i \in DOMAIN submitted, NEW j \in DOMAIN submitted, Paired(i, j),
         NEW o \in Ops, o = SubmittedOp(i), NEW p \in Ops, p = SubmittedOp(j),
         Ahead(o, p), NEW n \in DOMAIN batch', batch'[n] = p,
         outcome'[o] = "none"
  PROVE  \E m \in 1..(n - 1) : batch'[m] = o
<1>0. /\ ready_head \in Seq(Ops) /\ batch \in Seq(Ops) /\ WaitFree(i)
      /\ HandoffInv /\ outcome[o] = "none"
  BY OutcomeWritten DEF IndInv, TypeOK, QueueTypeOK, WorkerTypeOK, Paired
<1>1. CASE UNCHANGED batch
  BY <1>0, <1>1 DEF Ahead
<1>2. CASE WExchange
  <2>1. batch = <<>> /\ batch' = ReceivedOrder(ready_head)
    BY <1>2 DEF WExchange, HandoffInv, BatchDone
  <2>2. /\ DOMAIN batch' = 1..Len(ready_head) /\ Len(ready_head) \in Nat
        /\ \A k \in 1..Len(ready_head) : batch'[k] = ready_head[(Len(ready_head) - k) + 1]
    BY <1>0, <2>1 DEF ReceivedOrder, Reverse
  <2> DEFINE q == (Len(ready_head) - n) + 1
  <2>3. q \in DOMAIN ready_head /\ ready_head[q] = p
    BY <1>0, <2>2
  <2>4. o \notin PushOps /\ ToSet(batch) = {}
    BY <2>1, <2>3 DEF Ahead, ToSet
  <2>5. PICK m \in DOMAIN ready_head : ready_head[m] = o
    BY <1>0, <2>4, FreeOpPlace DEF ToSet
  <2>6. q < m
    BY <2>3, <2>5 DEF Ahead
  <2>7. /\ (Len(ready_head) - m) + 1 \in 1..(n - 1)
        /\ (Len(ready_head) - m) + 1 \in 1..Len(ready_head)
        /\ (Len(ready_head) - ((Len(ready_head) - m) + 1)) + 1 = m
    BY <1>0, <2>2, <2>5, <2>6
  <2>8. batch'[(Len(ready_head) - m) + 1] = o
    BY <2>2, <2>5, <2>7
  <2> QED  BY <2>7, <2>8
<1>3. CASE WRelease
  <2>1. /\ wpc = "release" /\ batch' = Tail(batch) /\ batch # <<>>
    BY <1>3, WorkerOp DEF WRelease
  <2>2. wop # o
    BY <1>0, <2>1 DEF DrainInv, EndsOnce
  <2>3. /\ Len(batch) \in Nat \ {0} /\ DOMAIN batch = 1..Len(batch)
        /\ DOMAIN batch' = 1..(Len(batch) - 1) /\ batch[1] = wop
        /\ \A k \in 1..(Len(batch) - 1) : batch'[k] = batch[k + 1]
    BY <1>0, <2>1, HeadTailProperties, EmptySeq DEF wop
  <2>4. n + 1 \in DOMAIN batch /\ batch[n + 1] = p
    BY <2>3
  <2>5. PICK m \in 1..n : batch[m] = o
    BY <1>0, <2>3, <2>4 DEF Ahead
  <2>6. m - 1 \in 1..(n - 1) /\ batch'[m - 1] = o
    BY <2>2, <2>3, <2>5
  <2> QED  BY <2>6
<1>4. CASE \/ \E t \in Threads : PushReady(t)
           \/ \E c \in Clients : CancelPush(c) \/ CancelDec(c)
  BY <1>1, <1>4 DEF PushReady, CancelPush, CancelDec
<1> QED  BY <1>1, <1>2, <1>3, <1>4, Writers DEF ReadyWriters

\* The stack keeps the order, the older op below.
LEMMA StackOrder ==
  ASSUME IndInv, HandoffInv, PushedByItsClient, [Next]_vars,
         NEW i \in DOMAIN submitted, NEW j \in DOMAIN submitted, Paired(i, j),
         NEW o \in Ops, o = SubmittedOp(i), NEW p \in Ops, p = SubmittedOp(j),
         Ahead(o, p), NEW n \in DOMAIN ready_head', ready_head'[n] = p
  PROVE  /\ o \notin PushOps'
         /\ \A m \in DOMAIN ready_head' : ready_head'[m] = o => n < m
<1>0. /\ ready_head \in Seq(Ops) /\ to_push \in Seq(Ops) /\ TypeOK /\ InOneHand
      /\ push_op \in [Threads -> Ops \cup {Null}] /\ o # Null
      /\ WaitsOf(o) = {} /\ WaitsOf(p) = {} /\ Born(o) /\ Client(i) = Client(j) /\ o # p
  BY EntryType, ConstantsAssumption
  DEF IndInv, TypeOK, QueueTypeOK, CancelTypeOK, CallTypeOK, HandoffInv, Paired, WaitFree, Ahead
<1>1. ASSUME o \notin PushOps PROVE o \notin PushOps'
  <2>1. SUFFICES ASSUME NEW t \in Threads, push_op'[t] = o PROVE FALSE
    BY DEF PushOps
  <2>2. push_op[t] # o
    BY <1>0, <1>1 DEF PushOps
  <2>3. \E x \in Ops : Enqueue(t, x) /\ x = o
    BY <1>0, <2>1, <2>2, TakenUp
  <2> QED  BY <1>0, <2>3 DEF Enqueue, Born
<1>2. ASSUME o \notin PushOps, NEW a \in Seq(Ops), ready_head' = a \o ready_head,
             o \notin ToSet(a), p \notin ToSet(a)
      PROVE  \A m \in DOMAIN ready_head' : ready_head'[m] = o => n < m
  <2> SUFFICES ASSUME NEW m \in DOMAIN ready_head', ready_head'[m] = o PROVE n < m
    OBVIOUS
  <2>1. /\ Len(a) \in Nat /\ n \in Nat
        /\ n - Len(a) \in DOMAIN ready_head /\ ready_head[n - Len(a)] = p
    BY <1>0, <1>2, InConcat
  <2>2. m \in Nat /\ m - Len(a) \in DOMAIN ready_head /\ ready_head[m - Len(a)] = o
    BY <1>0, <1>2, InConcat
  <2>3. n - Len(a) < m - Len(a)
    BY <2>1, <2>2 DEF Ahead
  <2> QED  BY <2>1, <2>2, <2>3
<1>3. CASE UNCHANGED ready_head
  BY <1>1, <1>3 DEF Ahead
<1>4. ASSUME NEW c \in Clients, CancelPush(c)
      PROVE  /\ o \notin PushOps'
             /\ \A m \in DOMAIN ready_head' : ready_head'[m] = o => n < m
  <2>1. ready_head' = to_push \o ready_head
    BY <1>4 DEF CancelPush, PushChain
  <2>2. o \notin ToSet(to_push) /\ p \notin ToSet(to_push)
    BY <1>0 DEF PushedByItsClient
  <2>3. n - Len(to_push) \in DOMAIN ready_head /\ ready_head[n - Len(to_push)] = p
    BY <1>0, <2>1, <2>2, InConcat
  <2>4. o \notin PushOps
    BY <2>3 DEF Ahead
  <2> QED  BY <1>0, <1>1, <1>2, <2>1, <2>2, <2>4
<1>5. ASSUME NEW t \in Threads, PushReady(t)
      PROVE  /\ o \notin PushOps'
             /\ \A m \in DOMAIN ready_head' : ready_head'[m] = o => n < m
  <2>1. PICK x \in Ops : x = push_op[t]
    BY <1>0, <1>5 DEF PushReady, IndInv, HandedOnIsDone
  <2> DEFINE a == <<x>>
  <2>2. /\ a \in Seq(Ops) /\ ToSet(a) = {x} /\ ready_head' = a \o ready_head
        /\ Len(a) = 1 /\ a[1] = x
    BY <1>5, <2>1, OneOpList DEF PushReady, PushChain
  <2> HIDE DEF a
  <2>3. CASE x = p
    <3>1. t = Client(j)
      BY <1>0, <2>1, <2>3 DEF PushedByItsClient, WaitFree
    <3>2. o \notin PushOps
      <4>1. SUFFICES ASSUME NEW u \in Threads, push_op[u] = o PROVE FALSE
        BY DEF PushOps
      <4>2. u = Client(i)
        BY <1>0, <4>1 DEF PushedByItsClient, WaitFree
      <4> QED  BY <1>0, <2>1, <2>3, <3>1, <4>1, <4>2
    <3>3. p \notin ToSet(ready_head)
      BY <1>0, <2>1, <2>3, ConstantsAssumption DEF InOneHand, PushOps
    <3>4. n = 1
      <4>1. n \in 1..Len(a)
        BY <1>0, <2>2, <3>3, InFront
      <4> QED  BY <2>2, <4>1
    <3>5. ASSUME NEW m \in DOMAIN ready_head', ready_head'[m] = o PROVE n < m
      <4>1. o \notin ToSet(a)
        BY <1>0, <2>2, <2>3
      <4>2. m \in Nat /\ m - Len(a) \in DOMAIN ready_head
        BY <1>0, <2>2, <3>5, <4>1, InConcat
      <4> QED  BY <1>0, <2>2, <3>4, <4>2
    <3> QED  BY <1>1, <3>2, <3>5
  <2>4. CASE x # p
    <3>1. n - Len(a) \in DOMAIN ready_head /\ ready_head[n - Len(a)] = p
      <4>1. p \notin ToSet(a)
        BY <2>2, <2>4
      <4> QED  BY <1>0, <2>2, <4>1, InConcat
    <3>2. o \notin PushOps
      BY <3>1 DEF Ahead
    <3>3. x # o
      BY <1>0, <2>1, <3>2 DEF PushOps
    <3> QED  BY <1>1, <1>2, <2>2, <2>4, <3>2, <3>3
  <2> QED  BY <2>3, <2>4
<1>6. CASE WExchange
  BY <1>6 DEF WExchange
<1>7. CASE WRelease \/ \E c \in Clients : CancelDec(c)
  BY <1>3, <1>7 DEF WRelease, CancelDec
<1> QED  BY <1>3, <1>4, <1>5, <1>6, <1>7, Writers DEF ReadyWriters

\* A pair in order stays in order.
LEMMA AheadStep ==
  ASSUME IndInv, HandoffInv, DrainInv, PushedByItsClient, [Next]_vars,
         NEW i \in DOMAIN submitted, NEW j \in DOMAIN submitted, Paired(i, j),
         NEW o \in Ops, o = SubmittedOp(i), NEW p \in Ops, p = SubmittedOp(j),
         Ahead(o, p)
  PROVE  Ahead(o, p)'
<1>1. o # p
  BY DEF Ahead
<1>2. ASSUME outcome'[p] # "none" PROVE outcome'[o] # "none"
  <2>1. CASE outcome[p] # "none"
    BY <2>1, OutcomeWritten DEF Ahead
  <2>2. CASE wpc \in {"signal", "fail"} /\ p = wop
    <3>1. batch # <<>> /\ batch \in Seq(Ops)
      BY <2>2, WorkerOp DEF IndInv, TypeOK, WorkerTypeOK
    <3>2. 1 \in DOMAIN batch /\ batch[1] = p
      BY <2>2, <3>1, HeadTailProperties, EmptySeq DEF wop
    <3>3. outcome[o] # "none"
      BY <3>2 DEF Ahead
    <3> QED  BY <3>3, OutcomeWritten
  <2> QED  BY <1>2, <2>1, <2>2, OutcomeWritten
<1>3. ASSUME NEW n \in DOMAIN batch', batch'[n] = p, outcome'[o] = "none"
      PROVE  \E m \in 1..(n - 1) : batch'[m] = o
  BY <1>3, BatchOrder
<1>4. ASSUME NEW n \in DOMAIN ready_head', ready_head'[n] = p
      PROVE  /\ o \notin PushOps'
             /\ \A m \in DOMAIN ready_head' : ready_head'[m] = o => n < m
  BY <1>4, StackOrder
<1> QED  BY <1>1, <1>2, <1>3, <1>4 DEF Ahead

\* What a client enqueues goes behind what it has enqueued before.
LEMMA NewestIsLast ==
  ASSUME IndInv, HandoffInv, DrainInv, PushedByItsClient, [Next]_vars,
         NEW i \in DOMAIN submitted, WaitFree(i), NEW c \in Clients, NEW p \in Ops,
         Enqueue(c, p), NEW o \in Ops, o = SubmittedOp(i)
  PROVE  Ahead(o, p)'
<1>0. HandedOnIsDone /\ EndsOnce /\ Born(o)
  BY EntryType DEF IndInv, DrainInv
<1>1. op_state[p] = "new" /\ UNCHANGED <<outcome, batch, ready_head>>
  BY DEF Enqueue
<1>2. o # p
  BY <1>0, <1>1 DEF Born
<1>3. \A n \in DOMAIN batch : batch[n] # p
  BY <1>0, <1>1 DEF HandedOnIsDone, DoneOps, Born
<1>4. \A n \in DOMAIN ready_head : ready_head[n] # p
  BY <1>0, <1>1 DEF HandedOnIsDone, DoneOps, Born
<1>5. outcome[p] = "none"
  <2>1. ASSUME wpc \in {"advance", "release"} PROVE p # wop
    BY <1>1, <2>1, WorkerOp
  <2> QED  BY <1>0, <1>1, <2>1 DEF EndsOnce
<1> QED  BY <1>1, <1>2, <1>3, <1>4, <1>5 DEF Ahead

LEMMA InOrderStep ==
  ASSUME IndInv, HandoffInv, DrainInv, OrderInv, [Next]_vars
  PROVE  InOrder'
<1>0. PushedByItsClient /\ InOrder /\ submitted \in Seq(Clients \X Ops)
  BY DEF OrderInv, IndInv, TypeOK, HistoryTypeOK
<1> SUFFICES ASSUME NEW i \in DOMAIN submitted', NEW j \in DOMAIN submitted', Paired(i, j)'
             PROVE  Ahead(SubmittedOp(i), SubmittedOp(j))'
  BY DEF InOrder
<1>1. /\ i < j /\ submitted'[i][1] = submitted'[j][1]
      /\ WaitsOf(submitted'[i][2]) = {} /\ WaitsOf(submitted'[j][2]) = {}
  BY DEF Paired, Client, WaitFree, SubmittedOp, WaitsOf
<1>2. ASSUME NEW o, NEW p, o = submitted'[i][2], p = submitted'[j][2], Ahead(o, p)'
      PROVE  Ahead(SubmittedOp(i), SubmittedOp(j))'
  BY <1>2 DEF Ahead, SubmittedOp
<1>3. CASE j \in DOMAIN submitted /\ submitted'[j] = submitted[j]
  <2>1. i \in DOMAIN submitted /\ submitted'[i] = submitted[i]
    <3>1. i # Len(submitted) + 1
      BY <1>0, <1>1, <1>3
    <3> QED  BY <3>1, EntryOf
  <2>2. Paired(i, j)
    BY <1>1, <1>3, <2>1 DEF Paired, Client, WaitFree, SubmittedOp
  <2>3. PICK o \in Ops, p \in Ops : o = SubmittedOp(i) /\ p = SubmittedOp(j)
    BY <1>0, <1>3, <2>1, EntryType
  <2>4. Ahead(o, p)
    BY <1>0, <1>3, <2>1, <2>2, <2>3 DEF InOrder
  <2>5. Ahead(o, p)'
    BY <1>0, <1>3, <2>1, <2>2, <2>3, <2>4, AheadStep
  <2> QED  BY <1>2, <1>3, <2>1, <2>3, <2>5 DEF SubmittedOp
<1>4. ASSUME NEW c \in Clients, NEW p \in Ops, Enqueue(c, p), j = Len(submitted) + 1,
             submitted'[j] = <<c, p>>
      PROVE  Ahead(SubmittedOp(i), SubmittedOp(j))'
  <2>1. i \in DOMAIN submitted /\ submitted'[i] = submitted[i]
    <3>1. i # Len(submitted) + 1
      BY <1>0, <1>1, <1>4
    <3> QED  BY <3>1, EntryOf
  <2>2. PICK o \in Ops : o = SubmittedOp(i)
    BY <1>0, <2>1, EntryType
  <2>3. WaitFree(i)
    BY <1>1, <2>1 DEF WaitFree, SubmittedOp
  <2>4. Ahead(o, p)'
    BY <1>0, <1>4, <2>1, <2>2, <2>3, NewestIsLast
  <2> QED  BY <1>2, <1>4, <2>1, <2>2, <2>4 DEF SubmittedOp
<1> QED  BY <1>3, <1>4, EntryOf

-----------------------------------------------------------------------------
(***************************************************************************)
(* The theorems.                                                           *)
(***************************************************************************)

\* The invariant of the order holds in every reachable state.
THEOREM OrderInductive == Spec => []OrderInv
<1>1. Init => OrderInv
  BY DEF Init, OrderInv, PushedByItsClient, InOrder, ToSet
<1>2. IndInv /\ HandoffInv /\ DrainInv /\ OrderInv /\ [Next]_vars => OrderInv'
  BY PushedByItsClientStep, InOrderStep DEF OrderInv
<1> QED
  BY <1>1, <1>2, Inductive, HandoffInductive, DrainInductive, PTL DEF Spec

\* Ops without waits that one client enqueues end in the order it enqueued them,
\* whatever else is pushed, cancelled or taken by the worker in between.
THEOREM EndsInOrder == Spec => []SubmissionOrder
<1>1. OrderInv => SubmissionOrder
  <2> SUFFICES ASSUME OrderInv, NEW i \in DOMAIN submitted, NEW j \in DOMAIN submitted,
                      i < j, submitted[i][1] = submitted[j][1],
                      WaitsOf(submitted[i][2]) = {}, WaitsOf(submitted[j][2]) = {},
                      outcome[submitted[j][2]] # "none"
               PROVE  outcome[submitted[i][2]] # "none"
    BY DEF SubmissionOrder
  <2>1. Paired(i, j)
    BY DEF Paired, Client, WaitFree, SubmittedOp
  <2> QED  BY <2>1 DEF OrderInv, InOrder, Ahead, SubmittedOp
<1> QED  BY <1>1, OrderInductive, PTL

=============================================================================
