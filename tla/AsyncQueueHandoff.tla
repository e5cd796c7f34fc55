-------------------------- MODULE AsyncQueueHandoff --------------------------
(***************************************************************************)
(* Proofs about the way of an op through the queue: from enqueue over the  *)
(* inflight list, push_ready or cancel_inflight, the ready stack and the   *)
(* worker's batch to its release.  HandoffInv is inductive relative to     *)
(* IndInv of AsyncQueueProofs: it says that an op is on exactly one of     *)
(* these lists at a time, that what waits is linked, and what each party   *)
(* may conclude from its own place in the code.                            *)
(***************************************************************************)
EXTENDS AsyncQueueProofs

\* release_op is reached only with every wait settled.
FreedIsDone == \A o \in Ops : op_state[o] = "freed" => wait_count[o] = 0

\* A thread that is in push_ready, before its push, has an op, else it has none.
PushIdle == \A t \in Threads : push[t] \in {"none", "post"} => push_op[t] = Null

\* The destroyer is in no semaphore call and no callback, nor in push_ready,
\* but for its own post.
DestroyerIdle ==
  \A c \in Clients : pc[c] \in DestroyPCs =>
    /\ sig[c] = Null /\ todo[c] = {} /\ cb[c] = Null
    /\ \/ push[c] = "none"
       \/ push[c] = "post" /\ pc[c] \in {"d_await", "d_join"}

\* The worker takes a new batch only after the last one.
BatchDone ==
  wpc \in {"load", "exchange", "count", "prepare", "recheck_head",
           "recheck_shutdown", "commit", "exited"} => batch = <<>>

\* The places of an op between its last settled wait and its release.
PushOps == {push_op[t] : t \in Threads} \ {Null}
OnWay == PushOps \cup ToSet(ready_head) \cup ToSet(to_push) \cup ToSet(batch)

\* The live ops without a wait left are in one of these places, each in one,
\* and once.
DoneLive == {o \in Ops : op_state[o] = "live" /\ wait_count[o] = 0}

InOneHand ==
  /\ \A t, u \in Threads : push_op[t] = push_op[u] /\ push_op[t] # Null => t = u
  /\ IsInjective(ready_head) /\ IsInjective(to_push) /\ IsInjective(batch)
  /\ PushOps \cap (ToSet(ready_head) \cup ToSet(to_push) \cup ToSet(batch)) = {}
  /\ ToSet(ready_head) \cap (ToSet(to_push) \cup ToSet(batch)) = {}
  /\ ToSet(to_push) \cap ToSet(batch) = {}
  /\ OnWay = DoneLive

\* Clients that are in enqueue have an op each, and nobody has seen the op of
\* one that has not linked it.
Enqueuers ==
  /\ \A c, d \in Clients :
       /\ pc[c] \in {"link", "arm"} /\ pc[d] \in {"link", "arm"}
       /\ cop[c] = cop[d]
       => c = d
  /\ \A c \in Clients : pc[c] = "link" =>
       /\ WaitsOf(cop[c]) # {}
       /\ \A w \in WaitsOf(cop[c]) : timepoint[w] = "unarmed"
       /\ cop[c] \notin ToSet(inflight)

\* The ops between their link in enqueue and their splice: all that wait and
\* are linked, and those about to be spliced by push_ready.
InflightWaits ==
  /\ IsInjective(inflight)
  /\ \A o \in ToSet(inflight) :
       /\ op_state[o] = "live"
       /\ \/ wait_count[o] > 0
          \/ \E t \in Threads : push[t] = "splice" /\ push_op[t] = o
  /\ \A o \in Ops : op_state[o] = "live" /\ wait_count[o] > 0 =>
       \/ o \in ToSet(inflight)
       \/ \E c \in Clients : pc[c] = "link" /\ cop[c] = o

\* What cancel_inflight has still to walk is on the list it holds locked.
WalkIsInflight ==
  /\ MutexFree => walk = <<>>
  /\ IsInjective(walk)
  /\ ToSet(walk) \subseteq ToSet(inflight)

HandoffInv ==
  /\ FreedIsDone /\ PushIdle /\ DestroyerIdle /\ BatchDone /\ InOneHand
  /\ Enqueuers /\ InflightWaits /\ WalkIsInflight

-----------------------------------------------------------------------------
(***************************************************************************)
(* Lists without duplicates, under the operations of the model.            *)
(***************************************************************************)

\* Membership in a list, by position.
LEMMA InList ==
  ASSUME NEW S, NEW list \in Seq(S)
  PROVE  /\ ToSet(list) = {list[i] : i \in 1..Len(list)}
         /\ ToSet(list) \subseteq S
         /\ list = <<>> <=> ToSet(list) = {}
<1>1. DOMAIN list = 1..Len(list) /\ Len(list) \in Nat
  OBVIOUS
<1>2. ToSet(list) = {list[i] : i \in 1..Len(list)}
  BY <1>1 DEF ToSet
<1>3. \A i \in 1..Len(list) : list[i] \in S
  OBVIOUS
<1>4. list # <<>> => 1 \in 1..Len(list)
  BY EmptySeq
<1>5. list = <<>> => 1..Len(list) = {}
  OBVIOUS
<1> QED  BY <1>2, <1>3, <1>4, <1>5

\* A chain pushed in front of the ready stack, or an op linked in front of the
\* inflight list.
LEMMA ConcatList ==
  ASSUME NEW S, NEW a \in Seq(S), NEW b \in Seq(S)
  PROVE  /\ a \o b \in Seq(S)
         /\ ToSet(a \o b) = ToSet(a) \cup ToSet(b)
         /\ IsInjective(a) /\ IsInjective(b) /\ ToSet(a) \cap ToSet(b) = {}
              => IsInjective(a \o b)
<1>1. /\ a \o b \in Seq(S) /\ Len(a \o b) = Len(a) + Len(b)
      /\ \A i \in 1..(Len(a) + Len(b)) :
           (a \o b)[i] = IF i <= Len(a) THEN a[i] ELSE b[i - Len(a)]
  BY ConcatProperties
<1>2. ASSUME NEW x \in ToSet(a \o b) PROVE x \in ToSet(a) \cup ToSet(b)
  BY <1>1 DEF ToSet
<1>3. ASSUME NEW x \in ToSet(a) PROVE x \in ToSet(a \o b)
  BY <1>1 DEF ToSet
<1>4. ASSUME NEW x \in ToSet(b) PROVE x \in ToSet(a \o b)
  <2>1. PICK j \in 1..Len(b) : b[j] = x
    BY DEF ToSet
  <2>2. /\ Len(a) + j \in 1..(Len(a) + Len(b)) /\ (a \o b)[Len(a) + j] = x
    BY <1>1, <2>1
  <2> QED  BY <1>1, <2>2 DEF ToSet
<1>5. ASSUME IsInjective(a), IsInjective(b), ToSet(a) \cap ToSet(b) = {},
             NEW i \in 1..(Len(a) + Len(b)), NEW j \in 1..(Len(a) + Len(b)),
             (a \o b)[i] = (a \o b)[j]
      PROVE  i = j
  <2>1. CASE i <= Len(a) /\ j <= Len(a)
    BY <1>1, <1>5, <2>1 DEF IsInjective
  <2>2. CASE ~ (i <= Len(a)) /\ ~ (j <= Len(a))
    <3>1. b[i - Len(a)] = b[j - Len(a)] /\ i - Len(a) \in DOMAIN b /\ j - Len(a) \in DOMAIN b
      BY <1>1, <1>5, <2>2
    <3> QED  BY <1>5, <3>1 DEF IsInjective
  <2>3. CASE i <= Len(a) /\ ~ (j <= Len(a))
    <3>1. i \in DOMAIN a /\ j - Len(a) \in DOMAIN b /\ a[i] = b[j - Len(a)]
      BY <1>1, <1>5, <2>3
    <3> QED  BY <1>5, <3>1 DEF ToSet
  <2>4. CASE ~ (i <= Len(a)) /\ j <= Len(a)
    <3>1. j \in DOMAIN a /\ i - Len(a) \in DOMAIN b /\ a[j] = b[i - Len(a)]
      BY <1>1, <1>5, <2>4
    <3> QED  BY <1>5, <3>1 DEF ToSet
  <2> QED  BY <2>1, <2>2, <2>3, <2>4
<1>6. DOMAIN (a \o b) = 1..(Len(a) + Len(b))
  BY <1>1
<1> QED  BY <1>1, <1>2, <1>3, <1>4, <1>5, <1>6 DEF IsInjective

\* A list of one op.
LEMMA OneOpList ==
  ASSUME NEW S, NEW o \in S
  PROVE  <<o>> \in Seq(S) /\ ToSet(<<o>>) = {o} /\ IsInjective(<<o>>)
BY DEF ToSet, IsInjective

LEMMA ConsList ==
  ASSUME NEW S, NEW o \in S, NEW list \in Seq(S)
  PROVE  /\ <<o>> \o list \in Seq(S)
         /\ ToSet(<<o>> \o list) = {o} \cup ToSet(list)
         /\ IsInjective(list) /\ o \notin ToSet(list) => IsInjective(<<o>> \o list)
<1> DEFINE a == <<o>>
<1>1. a \in Seq(S) /\ ToSet(a) = {o} /\ IsInjective(a)
  BY OneOpList
<1> HIDE DEF a
<1>2. /\ a \o list \in Seq(S)
      /\ ToSet(a \o list) = ToSet(a) \cup ToSet(list)
      /\ IsInjective(a) /\ IsInjective(list) /\ ToSet(a) \cap ToSet(list) = {}
           => IsInjective(a \o list)
  BY <1>1, ConcatList
<1>3. /\ a \o list \in Seq(S)
      /\ ToSet(a \o list) = {o} \cup ToSet(list)
      /\ IsInjective(list) /\ o \notin ToSet(list) => IsInjective(a \o list)
  BY <1>1, <1>2
<1> QED  BY <1>3 DEF a

\* The rest of a list, after its first op was taken off.
LEMMA TailList ==
  ASSUME NEW S, NEW list \in Seq(S), list # <<>>, IsInjective(list)
  PROVE  /\ Head(list) \in ToSet(list)
         /\ ToSet(Tail(list)) = ToSet(list) \ {Head(list)}
         /\ IsInjective(Tail(list))
<1>1. /\ Tail(list) \in Seq(S) /\ Len(list) \in Nat \ {0}
      /\ Len(Tail(list)) = Len(list) - 1
      /\ \A i \in 1..Len(Tail(list)) : Tail(list)[i] = list[i + 1]
      /\ Head(list) = list[1]
  BY HeadTailProperties, EmptySeq
<1>2. /\ DOMAIN list = 1..Len(list)
      /\ DOMAIN Tail(list) = 1..(Len(list) - 1)
  BY <1>1
<1>3. IsInjective(Tail(list))
  BY <1>1, <1>2 DEF IsInjective
<1>4. ASSUME NEW i \in 1..Len(list), list[i] # list[1]
      PROVE  list[i] \in ToSet(Tail(list))
  <2>1. i - 1 \in 1..(Len(list) - 1) /\ Tail(list)[i - 1] = list[i]
    BY <1>1, <1>4
  <2> QED  BY <1>2, <2>1 DEF ToSet
<1>5. ASSUME NEW i \in 1..(Len(list) - 1)
      PROVE  Tail(list)[i] \in ToSet(list) /\ Tail(list)[i] # list[1]
  BY <1>1, <1>2 DEF ToSet, IsInjective
<1> QED  BY <1>1, <1>2, <1>3, <1>4, <1>5 DEF ToSet

\* inflight_remove_locked takes the op off a list, wherever it is, and leaves
\* the others.
LEMMA SpliceList ==
  ASSUME NEW S, NEW list \in Seq(S), IsInjective(list), NEW o
  PROVE  /\ ToSet(Splice(list, o)) = ToSet(list) \ {o}
         /\ IsInjective(Splice(list, o))
<1>1. CASE \E i \in 1..Len(list) : list[i] = o
  <2>1. PICK k \in 1..Len(list) :
          k = (CHOOSE j \in 1..Len(list) : list[j] = o) /\ list[k] = o
    BY <1>1
  <2> DEFINE a == SubSeq(list, 1, k - 1)
             b == SubSeq(list, k + 1, Len(list))
  <2>2. Splice(list, o) = a \o b
    BY <1>1, <2>1 DEF Splice, RemoveAt
  <2>3. /\ a \in Seq(S) /\ DOMAIN a = 1..(k - 1)
        /\ \A i \in 1..(k - 1) : a[i] = list[i]
    <3>1. k - 1 \in Int /\ \A j \in 1..(k - 1) : list[j] \in S
      OBVIOUS
    <3>2. /\ a \in Seq(S) /\ Len(a) = IF 1 <= k - 1 THEN k - 1 - 1 + 1 ELSE 0
          /\ \A i \in 1..(k - 1 - 1 + 1) : a[i] = list[1 + i - 1]
      BY <3>1, SubSeqProperties
    <3> QED  BY <3>2
  <2>4. /\ b \in Seq(S) /\ DOMAIN b = 1..(Len(list) - k)
        /\ \A i \in 1..(Len(list) - k) : b[i] = list[k + i]
    <3>1. /\ k + 1 \in Int /\ Len(list) \in Int
          /\ \A j \in (k + 1)..Len(list) : list[j] \in S
      OBVIOUS
    <3>2. /\ b \in Seq(S)
          /\ Len(b) = IF k + 1 <= Len(list) THEN Len(list) - (k + 1) + 1 ELSE 0
          /\ \A i \in 1..(Len(list) - (k + 1) + 1) : b[i] = list[k + 1 + i - 1]
      BY <3>1, SubSeqProperties
    <3> QED  BY <3>2
  <2> HIDE DEF a, b
  <2>5. \A i, j \in 1..Len(list) : list[i] = list[j] => i = j
    BY DEF IsInjective
  <2>6. IsInjective(a)
    BY <2>3, <2>5 DEF IsInjective
  <2>7. IsInjective(b)
    <3>1. ASSUME NEW i \in 1..(Len(list) - k), NEW j \in 1..(Len(list) - k), b[i] = b[j]
          PROVE  i = j
      <4>1. k + i \in 1..Len(list) /\ k + j \in 1..Len(list) /\ list[k + i] = list[k + j]
        BY <2>4, <3>1
      <4>2. k + i = k + j
        BY <2>5, <4>1
      <4> QED  BY <4>2
    <3> QED  BY <2>4, <3>1 DEF IsInjective
  <2>8. ToSet(a) = {list[i] : i \in 1..(k - 1)}
    BY <2>3 DEF ToSet
  <2>9. ToSet(b) = {list[i] : i \in (k + 1)..Len(list)}
    <3>1. ASSUME NEW i \in (k + 1)..Len(list) PROVE list[i] \in ToSet(b)
      <4>1. i - k \in 1..(Len(list) - k) /\ b[i - k] = list[i]
        BY <2>4
      <4> QED  BY <2>4, <4>1 DEF ToSet
    <3>2. ASSUME NEW i \in 1..(Len(list) - k)
          PROVE  b[i] \in {list[j] : j \in (k + 1)..Len(list)}
      BY <2>4
    <3> QED  BY <2>4, <3>1, <3>2 DEF ToSet
  <2>10. ToSet(a) \cap ToSet(b) = {}
    BY <2>5, <2>8, <2>9
  <2>11. ToSet(a) \cup ToSet(b) = ToSet(list) \ {o}
    <3>1. ToSet(list) = {list[i] : i \in 1..Len(list)}
      BY InList
    <3>2. ASSUME NEW i \in 1..Len(list), list[i] # o
          PROVE  list[i] \in ToSet(a) \cup ToSet(b)
      <4>1. i \in 1..(k - 1) \/ i \in (k + 1)..Len(list)
        BY <2>1, <3>2
      <4> QED  BY <2>8, <2>9, <4>1
    <3>3. ASSUME NEW i \in 1..Len(list), i # k PROVE list[i] # o
      BY <2>1, <2>5, <3>3
    <3> QED  BY <2>8, <2>9, <3>1, <3>2, <3>3
  <2> QED  BY <2>2, <2>3, <2>4, <2>6, <2>7, <2>10, <2>11, ConcatList
<1>2. CASE ~ \E i \in 1..Len(list) : list[i] = o
  <2>1. o \notin ToSet(list)
    BY <1>2, InList
  <2> QED  BY <1>2, <2>1 DEF Splice
<1> QED  BY <1>1, <1>2

\* The worker's reversal of the stack it took.
LEMMA ReversedList ==
  ASSUME NEW S, NEW list \in Seq(S), IsInjective(list)
  PROVE  /\ ToSet(ReceivedOrder(list)) = ToSet(list)
         /\ IsInjective(ReceivedOrder(list))
<1>1. /\ DOMAIN ReceivedOrder(list) = 1..Len(list)
      /\ \A i \in 1..Len(list) : ReceivedOrder(list)[i] = list[(Len(list) - i) + 1]
  BY DEF ReceivedOrder, Reverse
<1>2. IsInjective(ReceivedOrder(list))
  <2>1. ASSUME NEW i \in 1..Len(list), NEW j \in 1..Len(list),
               list[(Len(list) - i) + 1] = list[(Len(list) - j) + 1]
        PROVE  i = j
    <3>1. (Len(list) - i) + 1 \in DOMAIN list /\ (Len(list) - j) + 1 \in DOMAIN list
      OBVIOUS
    <3>2. (Len(list) - i) + 1 = (Len(list) - j) + 1
      BY <2>1, <3>1 DEF IsInjective
    <3> QED  BY <3>2
  <2> QED  BY <1>1, <2>1 DEF IsInjective
<1>3. ASSUME NEW i \in 1..Len(list) PROVE list[i] \in ToSet(ReceivedOrder(list))
  <2>1. /\ (Len(list) - i) + 1 \in 1..Len(list)
        /\ ReceivedOrder(list)[(Len(list) - i) + 1] = list[i]
    BY <1>1
  <2> QED  BY <1>1, <2>1 DEF ToSet
<1>4. ASSUME NEW i \in 1..Len(list) PROVE ReceivedOrder(list)[i] \in ToSet(list)
  BY <1>1 DEF ToSet
<1>5. ToSet(ReceivedOrder(list)) = {ReceivedOrder(list)[i] : i \in 1..Len(list)}
  BY <1>1 DEF ToSet
<1>6. ToSet(list) = {list[i] : i \in 1..Len(list)}
  BY InList
<1> QED  BY <1>2, <1>3, <1>4, <1>5, <1>6

\* An op is in a list without duplicates at one position, if at all.
LEMMA OnceInList ==
  ASSUME NEW S, NEW list \in Seq(S), IsInjective(list), NEW o
  PROVE  Cardinality({i \in DOMAIN list : list[i] = o}) =
           IF o \in ToSet(list) THEN 1 ELSE 0
<1> DEFINE P == {i \in DOMAIN list : list[i] = o}
<1>1. CASE o \in ToSet(list)
  <2>1. PICK k \in DOMAIN list : list[k] = o
    BY <1>1 DEF ToSet
  <2>2. P = {k}
    BY <2>1 DEF IsInjective
  <2> QED  BY <1>1, <2>2, FS_Singleton
<1>2. CASE o \notin ToSet(list)
  <2>1. P = {}
    BY <1>2 DEF ToSet
  <2> QED  BY <1>2, <2>1, FS_EmptySet
<1> QED  BY <1>1, <1>2

-----------------------------------------------------------------------------
(***************************************************************************)
(* Every part of HandoffInv is kept by every step.                         *)
(***************************************************************************)
USE DEF lifeVars, listVars, noteVars, opVars, semVars, sharedVars, fireVars,
        pushVars, callVars, clientVars, workerVars, cancelVars, history

\* An accepted op with a wait that nobody has settled is live.
LEMMA HeldIsLive ==
  ASSUME IndInv, FreedIsDone, NEW w \in Waits, timepoint[w] \in HeldStates,
         Born(WaitOp[w])
  PROVE  /\ WaitOp[w] \in Ops /\ op_state[WaitOp[w]] = "live"
         /\ wait_count[WaitOp[w]] > 0
<1> DEFINE o == WaitOp[w]
<1>1. o \in Ops
  BY ConstantsAssumption
<1>2. wait_count[o] = Cardinality(Held(o)) /\ wait_count[o] \in Nat
  BY <1>1 DEF IndInv, WaitCountIsHeld, Born, TypeOK, OpTypeOK
<1>3. w \in Held(o)
  BY DEF Held, WaitsOf
<1>4. Cardinality(Held(o)) # 0
  BY <1>3, HeldFinite, FS_EmptySet
<1> QED  BY <1>1, <1>2, <1>4 DEF FreedIsDone, Born

\* Only the worker's release frees an op, and the op was handed on.
LEMMA FreedIsDoneStep ==
  ASSUME IndInv, FreedIsDone, [Next]_vars
  PROVE  FreedIsDone'
<1>0. TypeOK /\ HandedOnIsDone /\ AtWork
  BY DEF IndInv
<1> SUFFICES ASSUME NEW o \in Ops, op_state'[o] = "freed" PROVE o \in DoneOps
  BY DoneSticks DEF FreedIsDone, DoneOps
<1>1. CASE op_state[o] = "freed"
  BY <1>1 DEF FreedIsDone, DoneOps, Born
<1>2. CASE op_state[o] # "freed"
  <2>1. CASE WRelease
    <3>1. wop \in DoneOps
      BY <1>0, <2>1, HeadTailProperties DEF WRelease, AtWork, HandedOnIsDone, wop
    <3> QED  BY <1>0, <1>2, <2>1, <3>1 DEF WRelease, TypeOK, OpTypeOK
  <2>2. ASSUME NEW c \in Clients, NEW p \in Ops, Enqueue(c, p) PROVE FALSE
    BY <1>0, <1>2, <2>2 DEF Enqueue, TypeOK, OpTypeOK
  <2> QED  BY <1>2, <2>1, <2>2, Writers DEF OpStateWriters
<1> QED  BY <1>1, <1>2

\* push_ready drops its op when it has pushed it.
LEMMA PushIdleStep ==
  ASSUME IndInv, PushIdle, DestroyerIdle, [Next]_vars
  PROVE  PushIdle'
<1>0. TypeOK /\ Owner /\ ArmedIsBorn /\ WaitCountIsHeld
  BY DEF IndInv
<1> SUFFICES ASSUME NEW t \in Threads, push'[t] \in {"none", "post"}
             PROVE  push_op'[t] = Null
  BY DEF PushIdle
<1> USE DEF TypeOK, CallTypeOK, Threads, PushIdle
<1>1. ASSUME NEW u \in Threads, WaitDec(u) PROVE push_op'[t] = Null
  BY <1>0, <1>1, WaitDecEffect
<1>2. ASSUME NEW u \in Threads, PushSplice(u) \/ PushReady(u) \/ PushPost(u)
      PROVE  push_op'[t] = Null
  BY <1>0, <1>2 DEF PushSplice, PushReady, PushPost
<1>3. ASSUME NEW c \in Clients, CancelPush(c) \/ DestroyShutdown(c)
      PROVE  push_op'[t] = Null
  BY <1>0, <1>3 DEF CancelPush, DestroyShutdown, DestroyerIdle, DestroyPCs
<1>4. ASSUME NEW c \in Clients, NEW o \in Ops, Enqueue(c, o) PROVE push_op'[t] = Null
  BY <1>0, <1>4 DEF Enqueue
<1> QED  BY <1>1, <1>2, <1>3, <1>4, Writers DEF PushWriters

\* A client that destroys the queue has returned from whatever it called.
LEMMA DestroyerIdleStep ==
  ASSUME IndInv, DestroyerIdle, [Next]_vars
  PROVE  DestroyerIdle'
<1>0. TypeOK
  BY DEF IndInv
<1> SUFFICES ASSUME NEW c \in Clients, pc'[c] \in DestroyPCs
             PROVE  /\ sig'[c] = Null /\ todo'[c] = {} /\ cb'[c] = Null
                    /\ \/ push'[c] = "none"
                       \/ push'[c] = "post" /\ pc'[c] \in {"d_await", "d_join"}
  BY DEF DestroyerIdle
<1> DEFINE Idle == /\ sig[c] = Null /\ todo[c] = {} /\ cb[c] = Null
                   /\ \/ push[c] = "none"
                      \/ push[c] = "post" /\ pc[c] \in {"d_await", "d_join"}
<1> USE DEF TypeOK, ClientTypeOK, CallTypeOK, Threads, DestroyPCs, DestroyerIdle
<1>1. CASE pc[c] \in DestroyPCs
  <2>0. Idle
    BY <1>1
  <2>1. ASSUME NEW t \in Threads, Dispatch(t) PROVE Idle'
    BY <1>0, <2>0, <2>1 DEF Dispatch, Fire
  <2>2. ASSUME NEW t \in Threads, WaitError(t) PROVE Idle'
    BY <1>0, <2>0, <2>2 DEF WaitError
  <2>3. ASSUME NEW t \in Threads, WaitDec(t) PROVE Idle'
    BY <1>0, <2>0, <2>3 DEF WaitDec, ReturnUnit
  <2>4. ASSUME NEW t \in Threads, PushSplice(t) \/ PushReady(t) \/ PushPost(t)
        PROVE Idle'
    BY <1>0, <2>0, <2>4 DEF PushSplice, PushReady, PushPost
  <2>5. ASSUME NEW b \in Clients,
               EnqueueArm(b) \/ EnqueueLink(b) \/ EnqueueReturn(b)
        PROVE Idle'
    BY <1>0, <1>1, <2>0, <2>5 DEF EnqueueArm, EnqueueLink, EnqueueReturn
  <2>6. ASSUME NEW b \in Clients, ClientFail(b) \/ ClientSignal(b) PROVE Idle'
    BY <1>0, <1>1, <2>0, <2>6 DEF ClientFail, FailSem, Fire, ClientSignal, Advance
  <2>7. ASSUME NEW b \in Clients, NEW o \in Ops, Enqueue(b, o) PROVE Idle'
    BY <1>0, <1>1, <2>0, <2>7 DEF Enqueue
  <2>8. CASE WSignal \/ WFail
    BY <1>0, <1>1, <2>0, <2>8, ConstantsAssumption
    DEF WSignal, WFail, Advance, FailSem, Fire
  <2>9. ASSUME NEW b \in Clients, CancelLock(b) \/ CancelOp(b) \/ CancelDec(b) \/ CancelUnlock(b)
        PROVE Idle'
    BY <1>0, <1>1, <2>0, <2>9 DEF CancelLock, CancelOp, CancelDec, CancelUnlock
  <2>10. ASSUME NEW b \in Clients, CancelPush(b) \/ AwaitDrain(b) \/ AwaitCommit(b)
         PROVE Idle'
    BY <1>0, <1>1, <2>0, <2>10 DEF CancelPush, AwaitDrain, AwaitCommit, Free
  <2>11. ASSUME NEW b \in Clients, DestroyShutdown(b) \/ DestroyFree(b) \/ Destroy(b)
         PROVE Idle'
    BY <1>0, <1>1, <2>0, <2>11 DEF DestroyShutdown, DestroyFree, Destroy, Free
  <2> QED
    BY <1>1, <2>0, <2>1, <2>2, <2>3, <2>4, <2>5, <2>6, <2>7, <2>8, <2>9, <2>10,
       <2>11, Writers
    DEF TodoWriters, SigWriters, TimelineWriters, PushWriters, ClientWriters
<1>2. CASE pc[c] \notin DestroyPCs
  <2>1. Destroy(c)
    <3>1. ASSUME NEW b \in Clients,
                 \/ EnqueueLink(b) \/ EnqueueReturn(b)
                 \/ \E o \in Ops : Enqueue(b, o)
          PROVE  FALSE
      BY <1>0, <1>2, <3>1 DEF EnqueueLink, EnqueueReturn, Enqueue
    <3>2. ASSUME NEW b \in Clients,
                 \/ CancelLock(b) \/ CancelOp(b) \/ CancelDec(b)
                 \/ CancelUnlock(b) \/ CancelPush(b)
          PROVE  FALSE
      BY <1>0, <1>2, <3>2
      DEF CancelLock, CancelOp, CancelDec, CancelUnlock, CancelPush
    <3>3. ASSUME NEW b \in Clients,
                 \/ AwaitDrain(b) \/ AwaitCommit(b) \/ DestroyShutdown(b)
                 \/ DestroyFree(b) \/ (Destroy(b) /\ b # c)
          PROVE  FALSE
      BY <1>0, <1>2, <3>3
      DEF AwaitDrain, AwaitCommit, DestroyShutdown, DestroyFree, Destroy
    <3> QED  BY <1>2, <3>1, <3>2, <3>3, Writers DEF ClientWriters
  <2> QED  BY <2>1 DEF Destroy, Free
<1> QED  BY <1>1, <1>2

\* The worker goes back to the stack with its batch done.
LEMMA BatchDoneStep ==
  ASSUME IndInv, BatchDone, [Next]_vars
  PROVE  BatchDone'
<1>0. TypeOK
  BY DEF IndInv
<1> USE DEF BatchDone
<1>1. CASE WLoad \/ WCount \/ WPrepare \/ WRecheck \/ WCommit
  BY <1>1 DEF WLoad, WCount, WPrepare, WRecheck, WCommit
<1>2. CASE WExchange
  BY <1>2 DEF WExchange, ReceivedOrder, Reverse
<1>3. CASE WRun \/ WSignal \/ WSignaled
  BY <1>3 DEF WRun, WSignal, WSignaled
<1>4. CASE WAdvance \/ WFail \/ WFailed \/ WRelease
  BY <1>4 DEF WAdvance, WFail, WFailed, WRelease
<1>5. CASE WUncount \/ WDrained
  BY <1>5 DEF WUncount, WDrained, NextOp
<1> QED  BY <1>1, <1>2, <1>3, <1>4, <1>5, Writers DEF WorkerStep

\* A thread that takes up an op, in enqueue or after the last fetch_sub on its
\* wait_count, and one that drops it.
LEMMA TakesUp ==
  ASSUME TypeOK, InOneHand, NEW t \in Threads, NEW o \in Ops, o \notin PushOps,
         push_op[t] = Null, push_op' = [push_op EXCEPT ![t] = o]
  PROVE  /\ PushOps' = PushOps \cup {o}
         /\ \A u, v \in Threads : push_op'[u] = push_op'[v] /\ push_op'[u] # Null => u = v
BY ConstantsAssumption DEF InOneHand, PushOps, TypeOK, CallTypeOK

LEMMA Drops ==
  ASSUME TypeOK, InOneHand, NEW t \in Threads,
         push_op' = [push_op EXCEPT ![t] = Null]
  PROVE  /\ PushOps' = PushOps \ {push_op[t]}
         /\ \A u, v \in Threads : push_op'[u] = push_op'[v] /\ push_op'[u] # Null => u = v
BY ConstantsAssumption DEF InOneHand, PushOps, TypeOK, CallTypeOK

\* An op is handed from one place to the next, never left and never copied.
LEMMA InOneHandStep ==
  ASSUME IndInv, FreedIsDone, PushIdle, BatchDone, InOneHand, [Next]_vars
  PROVE  InOneHand'
<1>0. TypeOK /\ Owner /\ Destroyer /\ ArmedIsBorn /\ WaitCountIsHeld
      /\ HandedOnIsDone /\ AtWork
  BY DEF IndInv
<1>1. ready_head \in Seq(Ops) /\ to_push \in Seq(Ops) /\ batch \in Seq(Ops)
  BY <1>0 DEF TypeOK, QueueTypeOK, CancelTypeOK, WorkerTypeOK
<1>2. ASSUME NEW t \in Threads, WaitDec(t) PROVE InOneHand'
  <2>1. PICK w \in Waits :
          /\ timepoint[w] \in {"firing", "failing", "rejecting"}
          /\ Born(WaitOp[w]) /\ wait_count[WaitOp[w]] >= 1
          /\ wait_count' = [wait_count EXCEPT ![WaitOp[w]] = @ - 1]
          /\ IF wait_count[WaitOp[w]] = 1
             THEN /\ push' = [push EXCEPT ![t] = "splice"]
                  /\ push_op' = [push_op EXCEPT ![t] = WaitOp[w]]
             ELSE /\ push' = [push EXCEPT ![t] = "none"]
                  /\ push_op' = [push_op EXCEPT ![t] = Null]
    BY <1>0, <1>2, WaitDecEffect
  <2>2. UNCHANGED <<ready_head, to_push, batch, op_state>> /\ push_op[t] = Null
    BY <1>2 DEF WaitDec, PushIdle
  <2>3. WaitOp[w] \in Ops /\ op_state[WaitOp[w]] = "live" /\ WaitOp[w] \notin OnWay
    BY <2>1, HeldIsLive DEF HeldStates, InOneHand, DoneLive
  <2>4. CASE wait_count[WaitOp[w]] = 1
    <3>1. /\ PushOps' = PushOps \cup {WaitOp[w]}
          /\ \A u, v \in Threads :
               push_op'[u] = push_op'[v] /\ push_op'[u] # Null => u = v
      BY <1>0, <2>1, <2>2, <2>3, <2>4, TakesUp DEF OnWay
    <3>2. DoneLive' = DoneLive \cup {WaitOp[w]}
      BY <1>0, <2>1, <2>2, <2>3, <2>4 DEF DoneLive, TypeOK, OpTypeOK
    <3> QED  BY <2>2, <2>3, <3>1, <3>2 DEF InOneHand, OnWay
  <2>5. CASE wait_count[WaitOp[w]] # 1
    <3>1. push_op' = push_op
      BY <1>0, <2>1, <2>2, <2>5 DEF TypeOK, CallTypeOK
    <3>2. DoneLive' = DoneLive
      BY <1>0, <2>1, <2>2, <2>3, <2>5 DEF DoneLive, TypeOK, OpTypeOK
    <3> QED  BY <2>2, <3>1, <3>2 DEF InOneHand, OnWay, PushOps
  <2> QED  BY <2>4, <2>5
<1>3. ASSUME NEW t \in Threads, PushReady(t) PROVE InOneHand'
  <2> DEFINE o == push_op[t]
  <2>1. /\ ready_head' = <<o>> \o ready_head
        /\ push_op' = [push_op EXCEPT ![t] = Null]
        /\ UNCHANGED <<to_push, batch, op_state, wait_count>>
    BY <1>3 DEF PushReady, PushChain
  <2>2. o \in Ops /\ o \in PushOps
    BY <1>0, <1>3 DEF PushReady, HandedOnIsDone, DoneOps, PushOps
  <2>3. /\ PushOps' = PushOps \ {o}
        /\ \A u, v \in Threads :
             push_op'[u] = push_op'[v] /\ push_op'[u] # Null => u = v
    BY <1>0, <2>1, Drops
  <2> HIDE DEF o
  <2>4. o \notin ToSet(ready_head) /\ IsInjective(ready_head)
    BY <2>2 DEF InOneHand
  <2>5. /\ ToSet(<<o>> \o ready_head) = {o} \cup ToSet(ready_head)
        /\ IsInjective(<<o>> \o ready_head)
    BY <1>1, <2>2, <2>4, ConsList
  <2>6. ToSet(ready_head') = {o} \cup ToSet(ready_head) /\ IsInjective(ready_head')
    BY <2>1, <2>5
  <2> QED  BY <2>1, <2>2, <2>3, <2>6 DEF InOneHand, OnWay, DoneLive
<1>4. ASSUME NEW c \in Clients, CancelPush(c) PROVE InOneHand'
  <2>1. /\ ready_head' = to_push \o ready_head /\ to_push' = <<>>
        /\ UNCHANGED <<push_op, batch, op_state, wait_count>>
    BY <1>4 DEF CancelPush, PushChain
  <2>2. ToSet(ready_head') = ToSet(to_push) \cup ToSet(ready_head) /\ IsInjective(ready_head')
    BY <1>1, <2>1, ConcatList DEF InOneHand
  <2>3. ToSet(to_push') = {} /\ IsInjective(to_push')
    BY <2>1 DEF ToSet, IsInjective
  <2> QED  BY <2>1, <2>2, <2>3 DEF InOneHand, OnWay, DoneLive, PushOps
<1>5. ASSUME NEW c \in Clients, CancelDec(c) PROVE InOneHand'
  <2> DEFINE o == Head(walk)
  <2>1. /\ o \in Ops /\ Born(o) /\ wait_count[o] >= Cardinality(won)
        /\ Cardinality(won) \in Nat \ {0}
    BY <1>0, <1>5, WonIsHeld
  <2>2. /\ wait_count' = [wait_count EXCEPT ![o] = @ - Cardinality(won)]
        /\ to_push' = IF wait_count[o] = Cardinality(won) THEN <<o>> \o to_push ELSE to_push
        /\ UNCHANGED <<push_op, ready_head, batch, op_state>>
    BY <1>5 DEF CancelDec, Cancelled
  <2> HIDE DEF o
  <2>3. wait_count[o] \in Nat \ {0} /\ op_state[o] = "live" /\ o \notin OnWay
    BY <1>0, <2>1 DEF TypeOK, OpTypeOK, FreedIsDone, Born, InOneHand, DoneLive
  <2>4. CASE wait_count[o] = Cardinality(won)
    <3>1. DoneLive' = DoneLive \cup {o}
      BY <1>0, <2>1, <2>2, <2>3, <2>4 DEF DoneLive, TypeOK, OpTypeOK
    <3>2. /\ ToSet(<<o>> \o to_push) = {o} \cup ToSet(to_push)
          /\ IsInjective(<<o>> \o to_push)
      BY <1>1, <2>1, <2>3, ConsList DEF InOneHand, OnWay
    <3>3. ToSet(to_push') = {o} \cup ToSet(to_push) /\ IsInjective(to_push')
      BY <2>2, <2>4, <3>2
    <3> QED  BY <2>2, <2>3, <3>1, <3>3 DEF InOneHand, OnWay, PushOps
  <2>5. CASE wait_count[o] # Cardinality(won)
    <3>1. DoneLive' = DoneLive
      BY <1>0, <2>1, <2>2, <2>3, <2>5 DEF DoneLive, TypeOK, OpTypeOK
    <3> QED  BY <2>2, <2>5, <3>1 DEF InOneHand, OnWay, PushOps
  <2> QED  BY <2>4, <2>5
<1>6. CASE WExchange
  <2>1. /\ ready_head' = <<>> /\ batch' = ReceivedOrder(ready_head) /\ batch = <<>>
        /\ UNCHANGED <<push_op, to_push, op_state, wait_count>>
    BY <1>6 DEF WExchange, BatchDone
  <2>2. /\ ToSet(batch') = ToSet(ready_head) /\ IsInjective(batch')
        /\ ToSet(batch) = {}
    BY <1>1, <2>1, ReversedList, InList DEF InOneHand
  <2>3. ToSet(ready_head') = {} /\ IsInjective(ready_head')
    BY <2>1 DEF ToSet, IsInjective
  <2> QED  BY <2>1, <2>2, <2>3 DEF InOneHand, OnWay, PushOps, DoneLive
<1>7. CASE WRelease
  <2>1. /\ batch # <<>> /\ batch' = Tail(batch)
        /\ op_state' = [op_state EXCEPT ![wop] = "freed"]
        /\ UNCHANGED <<push_op, ready_head, to_push, wait_count>>
    BY <1>0, <1>7 DEF WRelease, AtWork
  <2>2. /\ wop \in ToSet(batch) /\ ToSet(batch') = ToSet(batch) \ {wop}
        /\ IsInjective(batch')
    BY <1>1, <2>1, TailList DEF InOneHand, wop
  <2>3. DoneLive' = DoneLive \ {wop}
    BY <1>0, <2>1 DEF DoneLive, TypeOK, OpTypeOK
  <2> QED  BY <2>1, <2>2, <2>3 DEF InOneHand, OnWay, PushOps
<1>8. ASSUME NEW c \in Clients, NEW o \in Ops, Enqueue(c, o) PROVE InOneHand'
  <2>1. /\ UNCHANGED <<ready_head, to_push, batch>> /\ op_state[o] = "new"
        /\ push_op[c] = Null /\ c \in Threads
    BY <1>8 DEF Enqueue, PushIdle, Free, Threads
  <2>2. o \notin OnWay
    BY <2>1 DEF InOneHand, DoneLive
  <2>3. CASE op_state' = [op_state EXCEPT ![o] = "refused"]
    <3>1. UNCHANGED <<push_op, wait_count>>
      BY <1>0, <1>8, <2>3 DEF Enqueue, TypeOK, OpTypeOK
    <3>2. DoneLive' = DoneLive
      BY <1>0, <2>1, <2>3, <3>1 DEF DoneLive, TypeOK, OpTypeOK
    <3> QED  BY <2>1, <3>1, <3>2 DEF InOneHand, OnWay, PushOps
  <2>4. CASE op_state' # [op_state EXCEPT ![o] = "refused"]
    <3>1. /\ op_state' = [op_state EXCEPT ![o] = "live"]
          /\ wait_count' = [wait_count EXCEPT ![o] = Cardinality(WaitsOf(o))]
          /\ IF WaitsOf(o) = {}
             THEN push_op' = [push_op EXCEPT ![c] = o]
             ELSE push_op' = push_op
      BY <1>8, <2>4 DEF Enqueue
    <3>2. Cardinality(WaitsOf(o)) = 0 <=> WaitsOf(o) = {}
      BY HeldFinite, FS_EmptySet
    <3>3. CASE WaitsOf(o) = {}
      <4>1. /\ PushOps' = PushOps \cup {o}
            /\ \A u, v \in Threads :
                 push_op'[u] = push_op'[v] /\ push_op'[u] # Null => u = v
        BY <1>0, <2>1, <2>2, <3>1, <3>3, TakesUp DEF OnWay
      <4>2. DoneLive' = DoneLive \cup {o}
        BY <1>0, <2>1, <3>1, <3>2, <3>3 DEF DoneLive, TypeOK, OpTypeOK
      <4> QED  BY <2>1, <2>2, <4>1, <4>2 DEF InOneHand, OnWay
    <3>4. CASE WaitsOf(o) # {}
      <4>1. DoneLive' = DoneLive
        BY <1>0, <2>1, <3>1, <3>2, <3>4 DEF DoneLive, TypeOK, OpTypeOK
      <4> QED  BY <2>1, <3>1, <3>4, <4>1 DEF InOneHand, OnWay, PushOps
    <3> QED  BY <3>3, <3>4
  <2> QED  BY <2>3, <2>4
<1>9. CASE UNCHANGED <<push_op, ready_head, to_push, batch, op_state, wait_count>>
  BY <1>9 DEF InOneHand, OnWay, PushOps, DoneLive
<1>10. ASSUME \/ \E t \in Threads : PushSplice(t) \/ PushPost(t)
              \/ \E c \in Clients : DestroyShutdown(c)
       PROVE  UNCHANGED <<push_op, ready_head, to_push, batch, op_state, wait_count>>
  BY <1>10 DEF PushSplice, PushPost, DestroyShutdown
<1> QED
  BY <1>2, <1>3, <1>4, <1>5, <1>6, <1>7, <1>8, <1>9, <1>10, Writers
  DEF PushWriters, ReadyWriters, CountWriters, OpStateWriters

\* How a client gets to its place in enqueue.
LEMMA EnqueuePlace ==
  ASSUME IndInv, [Next]_vars, NEW c \in Clients, pc'[c] \in {"link", "arm"}
  PROVE  \/ /\ pc[c] \in {"link", "arm"} /\ cop'[c] = cop[c]
            /\ pc'[c] = "link" => pc[c] = "link"
         \/ \E o \in Ops : /\ Enqueue(c, o) /\ cop'[c] = o /\ pc'[c] = "link"
                           /\ op_state[o] = "new" /\ WaitsOf(o) # {}
<1>0. TypeOK
  BY DEF IndInv
<1> DEFINE Stays == /\ pc[c] \in {"link", "arm"} /\ cop'[c] = cop[c]
                    /\ pc'[c] = "link" => pc[c] = "link"
<1> USE DEF TypeOK, ClientTypeOK
<1>1. ASSUME NEW b \in Clients, EnqueueLink(b) \/ EnqueueReturn(b) PROVE Stays
  BY <1>0, <1>1 DEF EnqueueLink, EnqueueReturn
<1>2. ASSUME NEW b \in Clients, NEW o \in Ops, Enqueue(b, o)
      PROVE  \/ Stays
             \/ /\ Enqueue(c, o) /\ cop'[c] = o /\ pc'[c] = "link"
                /\ op_state[o] = "new" /\ WaitsOf(o) # {}
  BY <1>0, <1>2 DEF Enqueue
<1>3. ASSUME NEW b \in Clients,
             \/ CancelLock(b) \/ CancelOp(b) \/ CancelDec(b)
             \/ CancelUnlock(b) \/ CancelPush(b)
      PROVE  Stays
  BY <1>0, <1>3
  DEF CancelLock, CancelOp, CancelDec, CancelUnlock, CancelPush
<1>4. ASSUME NEW b \in Clients,
             \/ AwaitDrain(b) \/ AwaitCommit(b) \/ DestroyShutdown(b)
             \/ DestroyFree(b) \/ Destroy(b)
      PROVE  Stays
  BY <1>0, <1>4
  DEF AwaitDrain, AwaitCommit, DestroyShutdown, DestroyFree, Destroy
<1> QED  BY <1>1, <1>2, <1>3, <1>4, Writers DEF ClientWriters

\* A client leaves its place before the link only by linking its op.
LEMMA LinkStays ==
  ASSUME IndInv, [Next]_vars, NEW c \in Clients, pc[c] = "link"
  PROVE  (pc'[c] = "link" /\ cop'[c] = cop[c]) \/ EnqueueLink(c)
<1>0. TypeOK
  BY DEF IndInv
<1> DEFINE Stays == pc'[c] = "link" /\ cop'[c] = cop[c]
<1> USE DEF TypeOK, ClientTypeOK
<1>1. ASSUME NEW b \in Clients, EnqueueLink(b) \/ EnqueueReturn(b)
      PROVE  Stays \/ EnqueueLink(c)
  BY <1>0, <1>1 DEF EnqueueLink, EnqueueReturn
<1>2. ASSUME NEW b \in Clients, NEW o \in Ops, Enqueue(b, o) PROVE Stays
  BY <1>0, <1>2 DEF Enqueue
<1>3. ASSUME NEW b \in Clients,
             \/ CancelLock(b) \/ CancelOp(b) \/ CancelDec(b)
             \/ CancelUnlock(b) \/ CancelPush(b)
      PROVE  Stays
  BY <1>0, <1>3
  DEF CancelLock, CancelOp, CancelDec, CancelUnlock, CancelPush
<1>4. ASSUME NEW b \in Clients,
             \/ AwaitDrain(b) \/ AwaitCommit(b) \/ DestroyShutdown(b)
             \/ DestroyFree(b) \/ Destroy(b)
      PROVE  Stays
  BY <1>0, <1>4
  DEF AwaitDrain, AwaitCommit, DestroyShutdown, DestroyFree, Destroy
<1> QED  BY <1>1, <1>2, <1>3, <1>4, Writers DEF ClientWriters

\* The three critical sections that change the inflight list.
LEMMA InflightWriters ==
  ASSUME IndInv, [Next]_vars
  PROVE  \/ UNCHANGED inflight
         \/ \E t \in Threads : PushSplice(t)
         \/ \E c \in Clients : EnqueueLink(c) \/ CancelDec(c)
<1>1. ASSUME NEW c \in Clients, NEW o \in Ops, Enqueue(c, o) PROVE UNCHANGED inflight
  BY <1>1 DEF Enqueue
<1>2. CASE \/ Create \/ \E t \in Threads : PushPost(t)
           \/ \E c \in Clients : \/ AwaitDrain(c) \/ DestroyShutdown(c)
                                 \/ DestroyFree(c) \/ AssignTopology(c)
  BY <1>2
  DEF Create, PushPost, AwaitDrain, DestroyShutdown, DestroyFree, AssignTopology
<1>3. CASE WPrepare \/ WAdvance \/ WUncount \/ WDrained
  BY <1>3 DEF WPrepare, WAdvance, WUncount, WDrained
<1> QED  BY <1>1, <1>2, <1>3, Writers DEF QueueWriters

\* What each of the three makes of the list.
LEMMA InflightList ==
  ASSUME IndInv, IsInjective(inflight), Enqueuers, [Next]_vars
  PROVE  /\ IsInjective(inflight')
         /\ \A t \in Threads : PushSplice(t) =>
              ToSet(inflight') = ToSet(inflight) \ {push_op[t]}
         /\ \A c \in Clients : EnqueueLink(c) =>
              cop[c] \in Ops /\ ToSet(inflight') = {cop[c]} \cup ToSet(inflight)
         /\ \A c \in Clients : CancelDec(c) =>
              ToSet(inflight') = IF wait_count[Head(walk)] = Cardinality(won)
                                 THEN ToSet(inflight) \ {Head(walk)}
                                 ELSE ToSet(inflight)
<1>0. inflight \in Seq(Ops)
  BY DEF IndInv, TypeOK, QueueTypeOK
<1>1. ASSUME NEW t \in Threads, PushSplice(t)
      PROVE  /\ IsInjective(inflight')
             /\ ToSet(inflight') = ToSet(inflight) \ {push_op[t]}
  BY <1>0, <1>1, SpliceList DEF PushSplice
<1>2. ASSUME NEW c \in Clients, EnqueueLink(c)
      PROVE  /\ IsInjective(inflight') /\ cop[c] \in Ops
             /\ ToSet(inflight') = {cop[c]} \cup ToSet(inflight)
  <2>1. cop[c] \in Ops /\ cop[c] \notin ToSet(inflight)
    BY <1>2 DEF EnqueueLink, Enqueuers, IndInv, ArmedIsBorn
  <2>2. /\ ToSet(<<cop[c]>> \o inflight) = {cop[c]} \cup ToSet(inflight)
        /\ IsInjective(<<cop[c]>> \o inflight)
    BY <1>0, <2>1, ConsList
  <2>3. inflight' = <<cop[c]>> \o inflight
    BY <1>2 DEF EnqueueLink, Link
  <2> QED  BY <2>1, <2>2, <2>3
<1>3. ASSUME NEW c \in Clients, CancelDec(c)
      PROVE  /\ IsInjective(inflight')
             /\ ToSet(inflight') = IF wait_count[Head(walk)] = Cardinality(won)
                                   THEN ToSet(inflight) \ {Head(walk)}
                                   ELSE ToSet(inflight)
  BY <1>0, <1>3, SpliceList DEF CancelDec, Cancelled
<1> QED  BY <1>1, <1>2, <1>3, InflightWriters

\* Two enqueues have two ops; one that is not linked is not armed either.
LEMMA EnqueuersStep ==
  ASSUME IndInv, Enqueuers, InflightWaits, [Next]_vars
  PROVE  Enqueuers'
<1>0. TypeOK /\ ArmedIsBorn
  BY DEF IndInv
<1>1. ASSUME NEW c \in Clients, NEW d \in Clients,
             pc'[c] \in {"link", "arm"}, pc'[d] \in {"link", "arm"},
             cop'[c] = cop'[d]
      PROVE  c = d
  <2>1. ASSUME NEW b \in Clients, pc[b] \in {"link", "arm"}
        PROVE  op_state[cop[b]] # "new"
    BY <1>0, <2>1 DEF ArmedIsBorn, Born
  <2>2. ASSUME NEW o \in Ops, Enqueue(c, o), NEW p \in Ops, Enqueue(d, p), cop'[c] = o
        PROVE  c = d
    BY <1>0, <1>1, <2>2 DEF Enqueue, TypeOK, ClientTypeOK
  <2>3. ASSUME NEW b \in Clients, pc'[b] \in {"link", "arm"}
        PROVE  \/ pc[b] \in {"link", "arm"} /\ cop'[b] = cop[b]
               \/ \E o \in Ops : Enqueue(b, o) /\ cop'[b] = o /\ op_state[o] = "new"
    BY <2>3, EnqueuePlace
  <2>4. CASE pc[c] \in {"link", "arm"} /\ cop'[c] = cop[c]
    BY <1>1, <2>1, <2>3, <2>4 DEF Enqueuers
  <2>5. ASSUME NEW o \in Ops, Enqueue(c, o), cop'[c] = o, op_state[o] = "new"
        PROVE  c = d
    BY <1>1, <2>1, <2>2, <2>3, <2>5
  <2> QED  BY <1>1, <2>3, <2>4, <2>5
<1>2. ASSUME NEW c \in Clients, pc'[c] = "link"
      PROVE  /\ WaitsOf(cop'[c]) # {}
             /\ \A w \in WaitsOf(cop'[c]) : timepoint'[w] = "unarmed"
             /\ cop'[c] \notin ToSet(inflight')
  <2>1. CASE pc[c] = "link" /\ cop'[c] = cop[c]
    <3>1. WaitsOf(cop[c]) # {}
      BY <2>1 DEF Enqueuers
    <3>2. ASSUME NEW w \in WaitsOf(cop[c]) PROVE timepoint'[w] = "unarmed"
      <4>1. w \in Waits /\ WaitOp[w] = cop[c] /\ timepoint[w] = "unarmed"
        BY <2>1 DEF Enqueuers, WaitsOf
      <4>2. ASSUME NEW d \in Clients, pc[d] = "arm", WaitOp[w] = cop[d] PROVE FALSE
        BY <2>1, <4>1, <4>2 DEF Enqueuers
      <4> QED  BY <4>1, <4>2, ArmedByEnqueue
    <3>3. cop[c] \notin ToSet(inflight')
      <4>1. cop[c] \notin ToSet(inflight)
        BY <2>1 DEF Enqueuers
      <4>2. ASSUME NEW d \in Clients, EnqueueLink(d) PROVE cop[d] # cop[c]
        BY <1>0, <1>2, <2>1, <4>2 DEF EnqueueLink, Enqueuers, TypeOK, ClientTypeOK
      <4> QED  BY <4>1, <4>2, InflightWriters, InflightList DEF InflightWaits
    <3> QED  BY <2>1, <3>1, <3>2, <3>3
  <2>2. ASSUME NEW o \in Ops, Enqueue(c, o), cop'[c] = o, op_state[o] = "new",
               WaitsOf(o) # {}
        PROVE  /\ WaitsOf(cop'[c]) # {}
               /\ \A w \in WaitsOf(cop'[c]) : timepoint'[w] = "unarmed"
               /\ cop'[c] \notin ToSet(inflight')
    <3>1. UNCHANGED <<timepoint, inflight>>
      BY <2>2 DEF Enqueue
    <3>2. \A w \in WaitsOf(o) : timepoint[w] = "unarmed"
      BY <1>0, <2>2 DEF ArmedIsBorn, Born, WaitsOf
    <3>3. o \notin ToSet(inflight)
      BY <2>2 DEF InflightWaits
    <3> QED  BY <2>2, <3>1, <3>2, <3>3
  <2> QED  BY <1>2, <2>1, <2>2, EnqueuePlace
<1> QED  BY <1>1, <1>2 DEF Enqueuers

\* An op that waits is on the list unless its enqueue has not linked it yet; an
\* op on the list waits, or its splice is to come.
LEMMA InflightWaitsStep ==
  ASSUME IndInv, HandoffInv, [Next]_vars
  PROVE  InflightWaits'
<1>0. /\ TypeOK /\ Owner /\ Destroyer /\ ArmedIsBorn /\ WaitCountIsHeld
      /\ HandedOnIsDone /\ AtWork
      /\ FreedIsDone /\ PushIdle /\ DestroyerIdle /\ InOneHand /\ Enqueuers
      /\ InflightWaits
  BY DEF IndInv, HandoffInv
<1>1. IsInjective(inflight')
  BY <1>0, InflightList DEF InflightWaits
<1>2. ASSUME NEW o \in ToSet(inflight'), o \notin ToSet(inflight)
      PROVE  o \in Ops /\ op_state'[o] = "live" /\ wait_count'[o] > 0
  <2>1. PICK c \in Clients : EnqueueLink(c) /\ o = cop[c]
    BY <1>0, <1>2, InflightWriters, InflightList DEF InflightWaits
  <2>2. /\ pc[c] = "link" /\ UNCHANGED <<op_state, wait_count>>
    BY <2>1 DEF EnqueueLink
  <2>3. PICK w \in WaitsOf(o) : timepoint[w] = "unarmed"
    BY <1>0, <2>1, <2>2 DEF Enqueuers
  <2>4. w \in Waits /\ WaitOp[w] = o /\ Born(o) /\ timepoint[w] \in HeldStates
    BY <1>0, <2>1, <2>2, <2>3 DEF WaitsOf, ArmedIsBorn, HeldStates
  <2> QED  BY <1>0, <2>2, <2>4, HeldIsLive
<1>3. ASSUME NEW o \in ToSet(inflight), o \in ToSet(inflight')
      PROVE  op_state'[o] = "live"
  <2>0. o \in Ops /\ op_state[o] = "live"
    BY <1>0, InList DEF InflightWaits, TypeOK, QueueTypeOK
  <2>1. CASE WRelease
    <3>1. wop \in ToSet(batch) /\ wop \in DoneOps
      BY <1>0, <2>1, HeadTailProperties, TailList
      DEF WRelease, AtWork, HandedOnIsDone, InOneHand, wop, TypeOK, WorkerTypeOK
    <3>2. o # wop
      BY <1>0, <3>1 DEF InflightWaits, DoneOps, InOneHand, PushOps, HandedOnIsDone
    <3> QED  BY <1>0, <2>0, <2>1, <3>2 DEF WRelease, TypeOK, OpTypeOK
  <2>2. ASSUME NEW c \in Clients, NEW p \in Ops, Enqueue(c, p) PROVE op_state'[o] = "live"
    BY <1>0, <2>0, <2>2 DEF Enqueue, TypeOK, OpTypeOK
  <2> QED  BY <2>0, <2>1, <2>2, Writers DEF OpStateWriters
<1>4. ASSUME NEW o \in ToSet(inflight), o \in ToSet(inflight'), wait_count[o] > 0
      PROVE  \/ wait_count'[o] > 0
             \/ \E t \in Threads : push'[t] = "splice" /\ push_op'[t] = o
  <2>0. o \in Ops /\ op_state[o] = "live" /\ wait_count[o] \in Nat
    BY <1>0, InList DEF InflightWaits, TypeOK, QueueTypeOK, OpTypeOK
  <2>1. ASSUME NEW t \in Threads, WaitDec(t)
        PROVE  \/ wait_count'[o] > 0
               \/ \E u \in Threads : push'[u] = "splice" /\ push_op'[u] = o
    <3>1. PICK w \in Waits :
            /\ wait_count' = [wait_count EXCEPT ![WaitOp[w]] = @ - 1]
            /\ IF wait_count[WaitOp[w]] = 1
               THEN /\ push' = [push EXCEPT ![t] = "splice"]
                    /\ push_op' = [push_op EXCEPT ![t] = WaitOp[w]]
               ELSE /\ push' = [push EXCEPT ![t] = "none"]
                    /\ push_op' = [push_op EXCEPT ![t] = Null]
      BY <1>0, <2>1, WaitDecEffect
    <3> QED  BY <1>0, <1>4, <2>0, <3>1 DEF TypeOK, CallTypeOK, OpTypeOK
  <2>2. ASSUME NEW c \in Clients, CancelDec(c) PROVE wait_count'[o] > 0
    <3>1. /\ Head(walk) \in Ops /\ wait_count[Head(walk)] >= Cardinality(won)
          /\ Cardinality(won) \in Nat
      BY <1>0, <2>2, WonIsHeld
    <3>2. o = Head(walk) => wait_count[Head(walk)] # Cardinality(won)
      BY <1>0, <1>4, <2>2, InflightList DEF InflightWaits
    <3> QED  BY <1>0, <1>4, <2>0, <2>2, <3>1, <3>2 DEF CancelDec, Cancelled, TypeOK, OpTypeOK
  <2>3. ASSUME NEW c \in Clients, NEW p \in Ops, Enqueue(c, p) PROVE wait_count'[o] > 0
    BY <1>0, <1>4, <2>0, <2>3 DEF Enqueue, TypeOK, OpTypeOK
  <2> QED  BY <1>4, <2>1, <2>2, <2>3, Writers DEF CountWriters
<1>5. ASSUME NEW o \in ToSet(inflight), o \in ToSet(inflight'), ~ (wait_count[o] > 0)
      PROVE  \E t \in Threads : push'[t] = "splice" /\ push_op'[t] = o
  <2>0. PICK t \in Threads : push[t] = "splice" /\ push_op[t] = o
    BY <1>0, <1>5 DEF InflightWaits
  <2> SUFFICES push'[t] = "splice" /\ push_op'[t] = o
    OBVIOUS
  <2> USE DEF TypeOK, CallTypeOK
  <2>1. ASSUME NEW u \in Threads, WaitDec(u) PROVE push'[t] = "splice" /\ push_op'[t] = o
    <3>1. u # t
      BY <2>0, <2>1 DEF WaitDec
    <3>2. \E w \in Waits : ReturnUnit(u, w)
      BY <1>0, <2>1, WaitDecOwned
    <3> QED  BY <1>0, <2>0, <3>1, <3>2 DEF ReturnUnit
  <2>2. ASSUME NEW u \in Threads, PushSplice(u) PROVE push'[t] = "splice" /\ push_op'[t] = o
    <3>1. u # t
      BY <1>0, <1>5, <2>0, <2>2, InflightList DEF InflightWaits
    <3> QED  BY <1>0, <2>0, <2>2, <3>1 DEF PushSplice
  <2>3. ASSUME NEW u \in Threads, PushReady(u) \/ PushPost(u)
        PROVE  push'[t] = "splice" /\ push_op'[t] = o
    BY <1>0, <2>0, <2>3 DEF PushReady, PushPost
  <2>4. ASSUME NEW c \in Clients, CancelPush(c) \/ DestroyShutdown(c)
        PROVE  push'[t] = "splice" /\ push_op'[t] = o
    <3>1. pc[c] \in {"d_push", "d_shutdown"}
      BY <2>4 DEF CancelPush, DestroyShutdown
    <3>2. c # t
      BY <1>0, <2>0, <3>1 DEF DestroyerIdle, DestroyPCs
    <3> QED  BY <1>0, <2>0, <2>4, <3>2 DEF CancelPush, DestroyShutdown
  <2>5. ASSUME NEW c \in Clients, NEW p \in Ops, Enqueue(c, p)
        PROVE  push'[t] = "splice" /\ push_op'[t] = o
    BY <1>0, <2>0, <2>5 DEF Enqueue, Free
  <2> QED  BY <2>0, <2>1, <2>2, <2>3, <2>4, <2>5, Writers DEF PushWriters
<1>6. ASSUME NEW o \in Ops, op_state'[o] = "live", wait_count'[o] > 0,
             o \notin ToSet(inflight')
      PROVE  \E c \in Clients : pc'[c] = "link" /\ cop'[c] = o
  <2>1. CASE op_state[o] = "live" /\ wait_count[o] > 0
    <3>1. o \notin ToSet(inflight)
      <4> SUFFICES ASSUME o \in ToSet(inflight) PROVE FALSE
        OBVIOUS
      <4>1. ASSUME NEW t \in Threads, PushSplice(t) PROVE FALSE
        <5>1. o = push_op[t]
          BY <1>0, <1>6, <4>1, InflightList DEF InflightWaits
        <5>2. o \in DoneOps
          BY <1>0, <4>1, <5>1 DEF PushSplice, HandedOnIsDone
        <5> QED  BY <2>1, <5>2 DEF DoneOps
      <4>2. ASSUME NEW c \in Clients, CancelDec(c) PROVE FALSE
        <5>1. o = Head(walk) /\ wait_count[o] = Cardinality(won)
          BY <1>0, <1>6, <4>2, InflightList DEF InflightWaits
        <5> QED  BY <1>0, <1>6, <4>2, <5>1 DEF CancelDec, Cancelled, TypeOK, OpTypeOK
      <4> QED  BY <1>0, <1>6, <4>1, <4>2, InflightWriters, InflightList DEF InflightWaits
    <3>2. PICK c \in Clients : pc[c] = "link" /\ cop[c] = o
      BY <1>0, <2>1, <3>1 DEF InflightWaits
    <3>3. ~ EnqueueLink(c)
      BY <1>0, <1>6, <3>2, InflightList DEF InflightWaits
    <3> QED  BY <3>2, <3>3, LinkStays
  <2>2. CASE op_state[o] # "live"
    <3>1. ~ Born(o)
      <4>1. op_state[o] # "freed"
        BY <1>0, <1>6, DoneSticks DEF FreedIsDone, DoneOps, Born
      <4> QED  BY <2>2, <4>1 DEF Born
    <3>2. PICK c \in Clients : Enqueue(c, o)
      BY <1>6, <3>1, BornByEnqueue DEF Born
    <3>3. WaitsOf(o) # {}
      <4>1. wait_count'[o] = Cardinality(WaitsOf(o))
        BY <1>0, <1>6, <3>2 DEF Enqueue, TypeOK, OpTypeOK
      <4> QED  BY <1>6, <4>1, FS_EmptySet
    <3> QED  BY <1>0, <1>6, <3>2, <3>3 DEF Enqueue, TypeOK, OpTypeOK, ClientTypeOK
  <2>3. CASE op_state[o] = "live" /\ ~ (wait_count[o] > 0)
    <3>1. o \in DoneOps
      BY <1>0, <2>3 DEF DoneOps, Born, TypeOK, OpTypeOK
    <3> QED  BY <1>6, <3>1, DoneSticks DEF DoneOps
  <2> QED  BY <2>1, <2>2, <2>3
<1> QED  BY <1>1, <1>2, <1>3, <1>4, <1>5, <1>6 DEF InflightWaits

\* The walk of cancel_inflight stays on the list, which nobody else changes
\* while it holds the mutex.
LEMMA WalkIsInflightStep ==
  ASSUME IndInv, HandoffInv, [Next]_vars
  PROVE  WalkIsInflight'
<1>0. /\ TypeOK /\ Destroyer /\ Enqueuers /\ InflightWaits /\ WalkIsInflight
      /\ walk \in Seq(Ops)
  BY DEF IndInv, HandoffInv, TypeOK, CancelTypeOK
<1> USE DEF WalkIsInflight
<1>1. ASSUME NEW c \in Clients, CancelLock(c) PROVE WalkIsInflight'
  BY <1>0, <1>1
  DEF CancelLock, WalkTo, MutexFree, InflightWaits, TypeOK, ClientTypeOK
<1>2. ASSUME NEW c \in Clients, CancelTimepoint(c) PROVE WalkIsInflight'
  BY <1>0, <1>2 DEF CancelTimepoint, MutexFree
<1>3. ASSUME walk # <<>>
      PROVE  /\ ToSet(Tail(walk)) = ToSet(walk) \ {Head(walk)}
             /\ IsInjective(Tail(walk))
  BY <1>0, <1>3, TailList
<1>4. ASSUME NEW c \in Clients, CancelOp(c) PROVE WalkIsInflight'
  <2>1. /\ walk # <<>> /\ UNCHANGED inflight /\ walk' \in {walk, Tail(walk)}
        /\ pc[c] = "d_walk" /\ pc'[c] \in {"d_walk", "d_dec"}
    BY <1>0, <1>4 DEF CancelOp, WalkTo, TypeOK, ClientTypeOK
  <2> QED  BY <1>0, <1>3, <2>1 DEF MutexFree
<1>5. ASSUME NEW c \in Clients, CancelDec(c) PROVE WalkIsInflight'
  <2>1. walk # <<>> /\ walk' = Tail(walk) /\ pc'[c] = "d_walk"
    BY <1>0, <1>5 DEF CancelDec, WalkTo, Destroyer, TypeOK, ClientTypeOK
  <2>2. ToSet(inflight) \ {Head(walk)} \subseteq ToSet(inflight')
    BY <1>0, <1>5, InflightList DEF InflightWaits
  <2> QED  BY <1>0, <1>3, <1>5, <2>1, <2>2 DEF MutexFree
<1>6. ASSUME ~ WalkWriters PROVE WalkIsInflight'
  <2>1. UNCHANGED walk
    BY <1>6, Writers
  <2>2. CASE walk = <<>>
    BY <1>0, <2>1, <2>2 DEF ToSet, IsInjective
  <2>3. CASE walk # <<>>
    <3>1. PICK c \in Clients : pc[c] \in {"d_walk", "d_dec"}
      BY <1>0, <2>3 DEF MutexFree
    <3>2. pc'[c] = pc[c]
      <4>1. ASSUME NEW b \in Clients,
                   EnqueueLink(b) \/ EnqueueReturn(b) \/ \E o \in Ops : Enqueue(b, o)
            PROVE  pc'[c] = pc[c]
        BY <1>0, <3>1, <4>1 DEF EnqueueLink, EnqueueReturn, Enqueue, TypeOK, ClientTypeOK
      <4>2. ASSUME NEW b \in Clients,
                   CancelUnlock(b) \/ CancelPush(b) \/ AwaitDrain(b) \/ AwaitCommit(b)
            PROVE  pc'[c] = pc[c]
        BY <1>0, <2>3, <3>1, <4>2
        DEF CancelUnlock, CancelPush, AwaitDrain, AwaitCommit, TypeOK, ClientTypeOK
      <4>3. ASSUME NEW b \in Clients, DestroyShutdown(b) \/ DestroyFree(b) \/ Destroy(b)
            PROVE  pc'[c] = pc[c]
        BY <1>0, <3>1, <4>3
        DEF DestroyShutdown, DestroyFree, Destroy, TypeOK, ClientTypeOK
      <4> QED  BY <1>6, <4>1, <4>2, <4>3, Writers DEF ClientWriters, WalkWriters
    <3>3. UNCHANGED inflight
      BY <1>6, <3>1, InflightWriters DEF WalkWriters, PushSplice, EnqueueLink, MutexFree
    <3> QED  BY <1>0, <2>1, <3>1, <3>2, <3>3 DEF MutexFree
  <2> QED  BY <2>2, <2>3
<1> QED  BY <1>1, <1>2, <1>4, <1>5, <1>6 DEF WalkWriters

-----------------------------------------------------------------------------
(***************************************************************************)
(* The theorems.                                                           *)
(***************************************************************************)

\* The invariant of the hand-over holds in every reachable state.
THEOREM HandoffInductive == Spec => []HandoffInv
<1>1. Init => HandoffInv
  <2> SUFFICES ASSUME Init PROVE HandoffInv
    OBVIOUS
  <2> USE DEF Init
  <2>1. FreedIsDone /\ PushIdle /\ DestroyerIdle /\ BatchDone /\ Enqueuers
    BY DEF FreedIsDone, PushIdle, DestroyerIdle, BatchDone, Enqueuers, DestroyPCs
  <2>2. /\ ToSet(ready_head) = {} /\ ToSet(to_push) = {} /\ ToSet(batch) = {}
        /\ ToSet(inflight) = {} /\ ToSet(walk) = {}
        /\ IsInjective(ready_head) /\ IsInjective(to_push) /\ IsInjective(batch)
        /\ IsInjective(inflight) /\ IsInjective(walk)
    BY DEF ToSet, IsInjective
  <2>3. PushOps = {} /\ DoneLive = {}
    BY DEF PushOps, DoneLive
  <2>4. InOneHand
    BY <2>2, <2>3 DEF InOneHand, OnWay
  <2>5. InflightWaits
    BY <2>2 DEF InflightWaits
  <2>6. WalkIsInflight
    BY <2>2 DEF WalkIsInflight
  <2> QED  BY <2>1, <2>4, <2>5, <2>6 DEF HandoffInv
<1>2. IndInv /\ HandoffInv /\ [Next]_vars => HandoffInv'
  BY FreedIsDoneStep, PushIdleStep, DestroyerIdleStep, BatchDoneStep,
     InOneHandStep, EnqueuersStep, InflightWaitsStep, WalkIsInflightStep
  DEF HandoffInv
<1> QED  BY <1>1, <1>2, Inductive, PTL DEF Spec

\* push_ready, the ready stack, cancel_inflight's chain and the worker's batch
\* together hold every op whose waits are settled once, and no other op.
THEOREM OpsPushedOnce == Spec => []PushedOnce
<1>1. IndInv /\ HandoffInv => PushedOnce
  <2> SUFFICES ASSUME IndInv, HandoffInv, NEW o \in Ops
               PROVE  OnItsWay(o) = IF o \in DoneLive THEN 1 ELSE 0
    BY DEF PushedOnce, DoneLive
  <2>0. /\ InOneHand /\ o # Null
        /\ ready_head \in Seq(Ops) /\ to_push \in Seq(Ops) /\ batch \in Seq(Ops)
    BY ConstantsAssumption
    DEF HandoffInv, IndInv, TypeOK, QueueTypeOK, CancelTypeOK, WorkerTypeOK
  <2> DEFINE T == {t \in Threads : push_op[t] = o}
  <2>1. Cardinality(T) = IF o \in PushOps THEN 1 ELSE 0
    <3>1. CASE o \in PushOps
      <4>1. PICK t \in Threads : push_op[t] = o
        BY <3>1 DEF PushOps
      <4>2. T = {t}
        BY <2>0, <4>1 DEF InOneHand
      <4> QED  BY <3>1, <4>2, FS_Singleton
    <3>2. CASE o \notin PushOps
      <4>1. T = {}
        BY <2>0, <3>2 DEF PushOps
      <4> QED  BY <3>2, <4>1, FS_EmptySet
    <3> QED  BY <3>1, <3>2
  <2>2. Cardinality({i \in DOMAIN ready_head : ready_head[i] = o})
          = IF o \in ToSet(ready_head) THEN 1 ELSE 0
    BY <2>0, OnceInList DEF InOneHand
  <2>3. Cardinality({i \in DOMAIN to_push : to_push[i] = o})
          = IF o \in ToSet(to_push) THEN 1 ELSE 0
    BY <2>0, OnceInList DEF InOneHand
  <2>4. Cardinality({i \in DOMAIN batch : batch[i] = o})
          = IF o \in ToSet(batch) THEN 1 ELSE 0
    BY <2>0, OnceInList DEF InOneHand
  <2>5. OnItsWay(o) = (IF o \in PushOps THEN 1 ELSE 0)
                        + (IF o \in ToSet(ready_head) THEN 1 ELSE 0)
                        + (IF o \in ToSet(to_push) THEN 1 ELSE 0)
                        + (IF o \in ToSet(batch) THEN 1 ELSE 0)
    BY <2>1, <2>2, <2>3, <2>4, Zenon DEF OnItsWay
  <2> QED  BY <2>0, <2>5 DEF InOneHand, OnWay
<1> QED  BY <1>1, Inductive, HandoffInductive, PTL

\* cancel_inflight finds every armed timepoint through the inflight list, and
\* nothing there was handed on.
THEOREM ArmedOpsLinked == Spec => []ArmedIsLinked
<1>1. IndInv /\ HandoffInv => ArmedIsLinked
  <2> SUFFICES ASSUME IndInv, HandoffInv PROVE ArmedIsLinked
    OBVIOUS
  <2>0. /\ FreedIsDone /\ InOneHand /\ Enqueuers /\ InflightWaits
        /\ HandedOnIsDone /\ ArmedIsBorn /\ inflight \in Seq(Ops)
    BY DEF HandoffInv, IndInv, TypeOK, QueueTypeOK
  <2>1. ASSUME NEW w \in Waits, timepoint[w] = "armed"
        PROVE  WaitOp[w] \in ToSet(inflight)
    <3>1. /\ WaitOp[w] \in Ops /\ op_state[WaitOp[w]] = "live"
          /\ wait_count[WaitOp[w]] > 0
      BY <2>0, <2>1, HeldIsLive DEF HeldStates, ArmedIsBorn
    <3>2. ASSUME NEW c \in Clients, pc[c] = "link", cop[c] = WaitOp[w] PROVE FALSE
      BY <2>0, <2>1, <3>2 DEF Enqueuers, WaitsOf
    <3> QED  BY <2>0, <3>1, <3>2 DEF InflightWaits
  <2>2. ASSUME NEW o \in ToSet(inflight)
        PROVE  o \notin ToSet(ready_head) \cup ToSet(batch)
    <3>1. CASE wait_count[o] > 0
      BY <2>0, <3>1 DEF InOneHand, OnWay, DoneLive
    <3>2. ASSUME NEW t \in Threads, push[t] = "splice", push_op[t] = o
          PROVE  o \notin ToSet(ready_head) \cup ToSet(batch)
      <4>1. o \in PushOps
        BY <2>0, <3>2 DEF HandedOnIsDone, PushOps
      <4> QED  BY <2>0, <4>1 DEF InOneHand
    <3> QED  BY <2>0, <3>1, <3>2 DEF InflightWaits
  <2> QED  BY <2>1, <2>2 DEF ArmedIsLinked
<1> QED  BY <1>1, Inductive, HandoffInductive, PTL

\* No callback, list, chain or batch leads a thread to an op that the worker has
\* released.
THEOREM NoDanglingOps == Spec => []NoUseAfterFree
<1>1. IndInv /\ HandoffInv => NoUseAfterFree
  <2> SUFFICES ASSUME IndInv, HandoffInv PROVE NoUseAfterFree
    OBVIOUS
  <2>0. /\ FreedIsDone /\ InOneHand /\ Enqueuers /\ InflightWaits /\ WalkIsInflight
        /\ TypeOK /\ Owner /\ ArmedIsBorn /\ HandedOnIsDone
    BY DEF HandoffInv, IndInv
  <2>1. ASSUME NEW w \in Waits, timepoint[w] \in HeldStates, timepoint[w] # "unarmed"
        PROVE  op_state[WaitOp[w]] = "live"
    BY <2>0, <2>1, HeldIsLive DEF ArmedIsBorn
  <2>2. \A o \in OnWay : op_state[o] = "live"
    BY <2>0 DEF InOneHand, DoneLive
  <2>3. \A o \in ToSet(inflight) : op_state[o] = "live"
    BY <2>0 DEF InflightWaits
  <2>4. ASSUME NEW t \in Threads, NEW o \in Uses(t) PROVE op_state[o] = "live"
    <3>1. CASE o \in {WaitOp[w] : w \in todo[t]}
      BY <2>0, <2>1, <3>1 DEF Owner, TypeOK, CallTypeOK, HeldStates
    <3>2. CASE cb[t] # Null /\ o = WaitOp[cb[t]]
      BY <2>0, <2>1, <3>2 DEF Owner, TypeOK, CallTypeOK, HeldStates
    <3>3. CASE o \in {push_op[t]} \ {Null}
      BY <2>2, <3>3 DEF OnWay, PushOps
    <3>4. CASE o \in ToSet(batch) \cup ToSet(to_push)
      BY <2>2, <3>4 DEF OnWay
    <3>5. CASE o \in ToSet(walk)
      BY <2>0, <2>3, <3>5 DEF WalkIsInflight
    <3>6. CASE t \in Clients /\ o = cop[t] /\ (pc[t] = "link" \/ (pc[t] = "arm" /\ Unarmed(t) # {}))
      <4>1. \E w \in WaitsOf(o) : timepoint[w] = "unarmed"
        BY <2>0, <3>6 DEF Enqueuers, Unarmed
      <4>2. Born(o)
        BY <2>0, <3>6 DEF ArmedIsBorn
      <4> QED  BY <2>0, <4>1, <4>2, HeldIsLive DEF WaitsOf, HeldStates
    <3> QED
      BY <2>4, <3>1, <3>2, <3>3, <3>4, <3>5, <3>6, Zenon DEF Uses, Threads
  <2>5. \A w \in Waits : timepoint[w] = "armed" => op_state[WaitOp[w]] = "live"
    BY <2>1 DEF HeldStates
  <2>6. \A o \in ToSet(inflight) \cup ToSet(ready_head) : op_state[o] = "live"
    BY <2>2, <2>3 DEF OnWay
  <2> QED  BY <2>4, <2>5, <2>6 DEF NoUseAfterFree
<1> QED  BY <1>1, Inductive, HandoffInductive, PTL

==============================================================================
