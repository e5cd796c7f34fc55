-------------------------- MODULE AsyncQueueDrain --------------------------
(***************************************************************************)
(* Proofs about the end of the queue's life: inflight_count, the drain     *)
(* that destroy awaits, the shutdown of the worker, and the two            *)
(* notifications.  DrainInv is inductive relative to the invariants of     *)
(* AsyncQueueProofs and AsyncQueueHandoff.                                 *)
(***************************************************************************)
EXTENDS AsyncQueueHandoff

LiveOps == {o \in Ops : op_state[o] = "live"}

\* inflight_count is the number of ops not released, one that is released but
\* not yet uncounted included.
CountIsLive ==
  /\ IsFiniteSet(LiveOps)
  /\ inflight_count = Cardinality(LiveOps) + (IF wpc = "uncount" THEN 1 ELSE 0)

\* A shutdown is requested by a destroyer that found the queue drained, and what
\* the worker has seen of it.
ShutdownIsDrained ==
  /\ shutdown_requested =>
       life = "freed" \/ \E c \in Clients : pc[c] = "d_join"
  /\ \A c \in Clients : pc[c] = "d_shutdown" => inflight_count = 0
  /\ shutdown_requested => inflight_count = 0
  /\ wshutdown => shutdown_requested
  /\ wpc \in {"count", "exited"} => wshutdown
  /\ wpc \in {"prepare", "recheck_head", "recheck_shutdown", "commit"} => ~wshutdown

\* An op has an outcome from the end of its run on, and one.
EndsOnce ==
  \A o \in Ops :
    /\ outcome[o] # "twice"
    /\ outcome[o] # "none" <=>
         \/ op_state[o] = "freed"
         \/ wpc \in {"advance", "release"} /\ o = wop

\* Whoever gives the worker or destroy something to see, posts.
PostComes ==
  /\ /\ wpc \in {"recheck_shutdown", "commit"} /\ ~worker_posted
     /\ ready_head # <<>>
     => \E t \in Threads : push[t] = "post"
  /\ wpc = "commit" /\ ~worker_posted /\ shutdown_requested
     => \E t \in Threads : push[t] = "post"
  /\ \A c \in Clients :
       pc[c] = "d_commit" /\ ~drain_posted /\ inflight_count = 0
         => wpc = "drained"

DrainInv == CountIsLive /\ ShutdownIsDrained /\ EndsOnce /\ PostComes

-----------------------------------------------------------------------------
(***************************************************************************)
(* Every part of DrainInv is kept by every step.                           *)
(***************************************************************************)
USE DEF lifeVars, listVars, noteVars, opVars, semVars, sharedVars, fireVars,
        pushVars, callVars, clientVars, workerVars, cancelVars, history

\* The op at the head of the worker's batch.
LEMMA WorkerOp ==
  ASSUME IndInv, HandoffInv, wpc \in {"run", "signal", "advance", "fail", "release"}
  PROVE  /\ batch # <<>> /\ wop \in Ops /\ wop \in ToSet(batch)
         /\ op_state[wop] = "live"
<1>1. batch # <<>> /\ batch \in Seq(Ops) /\ IsInjective(batch)
  BY DEF IndInv, AtWork, TypeOK, WorkerTypeOK, HandoffInv, InOneHand
<1>2. wop \in ToSet(batch)
  BY <1>1, TailList DEF wop
<1> QED  BY <1>1, <1>2 DEF HandoffInv, InOneHand, OnWay, DoneLive

\* Who changes inflight_count, and the place of the worker.
LEMMA CountWritten ==
  ASSUME [Next]_vars
  PROVE  \/ UNCHANGED inflight_count
         \/ WUncount
         \/ \E c \in Clients, o \in Ops : Enqueue(c, o)
<1>1. CASE \/ \E t \in Threads : PushSplice(t) \/ PushPost(t)
           \/ \E c \in Clients : EnqueueLink(c) \/ CancelDec(c)
  BY <1>1 DEF PushSplice, PushPost, EnqueueLink, CancelDec
<1>2. CASE \/ Create
           \/ \E c \in Clients : \/ AwaitDrain(c) \/ DestroyShutdown(c)
                                 \/ DestroyFree(c) \/ AssignTopology(c)
  BY <1>2 DEF Create, AwaitDrain, DestroyShutdown, DestroyFree, AssignTopology
<1>3. CASE WPrepare \/ WAdvance \/ WDrained
  BY <1>3 DEF WPrepare, WAdvance, WDrained
<1> QED  BY <1>1, <1>2, <1>3, Writers DEF QueueWriters

\* enqueue counts an op and release_op uncounts it, once each.
LEMMA CountIsLiveStep ==
  ASSUME IndInv, HandoffInv, CountIsLive, [Next]_vars
  PROVE  CountIsLive'
<1>0. TypeOK
  BY DEF IndInv
<1> USE DEF TypeOK, OpTypeOK, WorkerTypeOK
<1>1. Cardinality(LiveOps) \in Nat
  BY FS_CardinalityType DEF CountIsLive
<1>2. CASE WRelease
  <2>1. /\ wpc = "release" /\ wpc' = "uncount" /\ UNCHANGED inflight_count
        /\ op_state' = [op_state EXCEPT ![wop] = "freed"]
    BY <1>2 DEF WRelease
  <2>2. wop \in LiveOps
    BY <2>1, WorkerOp DEF LiveOps
  <2>3. LiveOps' = LiveOps \ {wop}
    BY <1>0, <2>1 DEF LiveOps
  <2>4. IsFiniteSet(LiveOps') /\ Cardinality(LiveOps') = Cardinality(LiveOps) - 1
    BY <2>2, <2>3, FS_RemoveElement DEF CountIsLive
  <2> QED  BY <1>1, <2>1, <2>4 DEF CountIsLive
<1>3. CASE WUncount
  <2>1. /\ wpc = "uncount" /\ inflight_count' = inflight_count - 1
        /\ wpc' # "uncount" /\ UNCHANGED op_state
    BY <1>3 DEF WUncount, NextOp
  <2>2. LiveOps' = LiveOps
    BY <2>1 DEF LiveOps
  <2> QED  BY <1>1, <2>1, <2>2 DEF CountIsLive
<1>4. ASSUME NEW c \in Clients, NEW o \in Ops, Enqueue(c, o) PROVE CountIsLive'
  <2>1. op_state[o] = "new" /\ UNCHANGED wpc
    BY <1>4 DEF Enqueue
  <2>2. CASE op_state' = [op_state EXCEPT ![o] = "refused"]
    <3>1. UNCHANGED inflight_count
      BY <1>0, <1>4, <2>2 DEF Enqueue
    <3>2. LiveOps' = LiveOps
      BY <1>0, <2>1, <2>2 DEF LiveOps
    <3> QED  BY <2>1, <3>1, <3>2 DEF CountIsLive
  <2>3. CASE op_state' # [op_state EXCEPT ![o] = "refused"]
    <3>1. /\ op_state' = [op_state EXCEPT ![o] = "live"]
          /\ inflight_count' = inflight_count + 1
      BY <1>4, <2>3 DEF Enqueue
    <3>2. LiveOps' = LiveOps \cup {o} /\ o \notin LiveOps
      BY <1>0, <2>1, <3>1 DEF LiveOps
    <3>3. IsFiniteSet(LiveOps') /\ Cardinality(LiveOps') = Cardinality(LiveOps) + 1
      BY <3>2, FS_AddElement DEF CountIsLive
    <3> QED  BY <1>1, <2>1, <3>1, <3>3 DEF CountIsLive
  <2> QED  BY <2>2, <2>3
<1>5. ASSUME UNCHANGED op_state, ~ WUncount, ~ WRelease PROVE wpc' = "uncount" <=> wpc = "uncount"
  <2>1. CASE WLoad \/ WExchange \/ WCount \/ WPrepare \/ WRecheck \/ WCommit
    BY <2>1 DEF WLoad, WExchange, WCount, WPrepare, WRecheck, WCommit
  <2>2. CASE WRun \/ WSignal \/ WSignaled \/ WAdvance \/ WFail \/ WFailed
    BY <2>2 DEF WRun, WSignal, WSignaled, WAdvance, WFail, WFailed
  <2>3. CASE WDrained
    BY <2>3 DEF WDrained, NextOp
  <2> QED  BY <1>5, <2>1, <2>2, <2>3, Writers DEF WorkerStep
<1>6. ASSUME UNCHANGED op_state, ~ WUncount, ~ WRelease,
             ~ \E c \in Clients, o \in Ops : Enqueue(c, o)
      PROVE  CountIsLive'
  <2>1. UNCHANGED inflight_count /\ LiveOps' = LiveOps
    BY <1>6, CountWritten DEF LiveOps
  <2> QED  BY <1>5, <1>6, <2>1 DEF CountIsLive
<1> QED  BY <1>2, <1>3, <1>4, <1>6, Writers DEF OpStateWriters

\* A queue that was found drained by the destroyer stays drained.
LEMMA DrainedStays ==
  ASSUME IndInv, HandoffInv, DrainInv, [Next]_vars, inflight_count = 0,
         life # "live" \/ Destroying
  PROVE  UNCHANGED inflight_count
<1>1. ASSUME NEW c \in Clients, NEW o \in Ops, Enqueue(c, o) PROVE FALSE
  BY <1>1 DEF Enqueue
<1>2. ASSUME WUncount PROVE FALSE
  <2>1. Cardinality(LiveOps) \in Nat
    BY FS_CardinalityType DEF DrainInv, CountIsLive
  <2> QED  BY <1>2, <2>1 DEF WUncount, DrainInv, CountIsLive
<1> QED  BY <1>1, <1>2, CountWritten

\* How a destroyer gets to the end of destroy, and that it stays there.
LEMMA ShutdownPlace ==
  ASSUME IndInv, [Next]_vars, NEW c \in Clients
  PROVE  /\ pc'[c] = "d_shutdown" => \/ pc[c] = "d_shutdown"
                                     \/ inflight_count = 0 /\ AwaitDrain(c)
         /\ pc[c] = "d_join" => pc'[c] = "d_join" \/ DestroyFree(c)
         /\ pc'[c] = "d_commit" => \/ pc[c] = "d_commit"
                                   \/ inflight_count # 0 /\ AwaitDrain(c)
<1>0. TypeOK
  BY DEF IndInv
<1> DEFINE Goal == /\ pc'[c] = "d_shutdown" => \/ pc[c] = "d_shutdown"
                                               \/ inflight_count = 0 /\ AwaitDrain(c)
                   /\ pc[c] = "d_join" => pc'[c] = "d_join" \/ DestroyFree(c)
                   /\ pc'[c] = "d_commit" => \/ pc[c] = "d_commit"
                                             \/ inflight_count # 0 /\ AwaitDrain(c)
<1> USE DEF TypeOK, ClientTypeOK
<1>1. ASSUME NEW b \in Clients,
             EnqueueLink(b) \/ EnqueueReturn(b) \/ \E o \in Ops : Enqueue(b, o)
      PROVE  Goal
  BY <1>0, <1>1 DEF EnqueueLink, EnqueueReturn, Enqueue
<1>2. ASSUME NEW b \in Clients,
             \/ CancelLock(b) \/ CancelOp(b) \/ CancelDec(b)
             \/ CancelUnlock(b) \/ CancelPush(b)
      PROVE  Goal
  BY <1>0, <1>2 DEF CancelLock, CancelOp, CancelDec, CancelUnlock, CancelPush
<1>3. ASSUME NEW b \in Clients, AwaitDrain(b) PROVE Goal
  <2>1. b # c => pc'[c] = pc[c]
    BY <1>0, <1>3 DEF AwaitDrain
  <2>2. /\ pc'[b] \in {"d_shutdown", "d_commit"} /\ pc[b] = "d_await"
        /\ pc'[b] = "d_shutdown" => inflight_count = 0
        /\ pc'[b] = "d_commit" => inflight_count # 0
    BY <1>0, <1>3 DEF AwaitDrain
  <2> QED  BY <1>3, <2>1, <2>2
<1>4. ASSUME NEW b \in Clients, AwaitCommit(b) \/ DestroyShutdown(b) \/ Destroy(b)
      PROVE  Goal
  BY <1>0, <1>4 DEF AwaitCommit, DestroyShutdown, Destroy
<1>5. ASSUME NEW b \in Clients, DestroyFree(b) PROVE Goal
  <2>1. b # c => pc'[c] = pc[c]
    BY <1>0, <1>5 DEF DestroyFree
  <2>2. pc'[b] = "idle" /\ pc[b] = "d_join"
    BY <1>0, <1>5 DEF DestroyFree
  <2> QED  BY <1>5, <2>1, <2>2
<1> QED  BY <1>1, <1>2, <1>3, <1>4, <1>5, Writers DEF ClientWriters

\* The request is made by destroy, once, and a freed queue stays freed.
LEMMA ShutdownWritten ==
  ASSUME [Next]_vars
  PROVE  /\ \/ UNCHANGED shutdown_requested
            \/ \E c \in Clients : DestroyShutdown(c)
         /\ life = "freed" => life' = "freed"
<1>1. CASE \/ \E t \in Threads : PushSplice(t) \/ PushPost(t)
           \/ \E c \in Clients : EnqueueLink(c) \/ CancelDec(c)
  BY <1>1 DEF PushSplice, PushPost, EnqueueLink, CancelDec
<1>2. CASE Create \/ \E c \in Clients : AwaitDrain(c) \/ AssignTopology(c)
  BY <1>2 DEF Create, AwaitDrain, AssignTopology
<1>3. CASE \E c \in Clients : DestroyShutdown(c) \/ DestroyFree(c)
  BY <1>3 DEF DestroyShutdown, DestroyFree
<1>4. CASE \E c \in Clients, o \in Ops : Enqueue(c, o)
  BY <1>4 DEF Enqueue
<1>5. CASE WPrepare \/ WAdvance \/ WUncount \/ WDrained
  BY <1>5 DEF WPrepare, WAdvance, WUncount, WDrained
<1> QED  BY <1>1, <1>2, <1>3, <1>4, <1>5, Writers DEF QueueWriters

\* Nothing is counted again between the drain and the worker's exit.
LEMMA ShutdownIsDrainedStep ==
  ASSUME IndInv, HandoffInv, DrainInv, [Next]_vars
  PROVE  ShutdownIsDrained'
<1>0. TypeOK /\ ShutdownIsDrained
  BY DEF IndInv, DrainInv
<1>1. ASSUME shutdown_requested'
      PROVE  life' = "freed" \/ \E c \in Clients : pc'[c] = "d_join"
  <2>1. CASE shutdown_requested
    <3>1. CASE life = "freed"
      BY <3>1, ShutdownWritten
    <3>2. ASSUME NEW c \in Clients, pc[c] = "d_join"
          PROVE  life' = "freed" \/ pc'[c] = "d_join"
      <4>1. DestroyFree(c) => life' = "freed"
        BY DEF DestroyFree
      <4> QED  BY <3>2, <4>1, ShutdownPlace
    <3> QED  BY <1>0, <2>1, <3>1, <3>2 DEF ShutdownIsDrained
  <2>2. ASSUME NEW c \in Clients, DestroyShutdown(c) PROVE pc'[c] = "d_join"
    BY <1>0, <2>2 DEF DestroyShutdown, TypeOK, ClientTypeOK
  <2> QED  BY <1>1, <2>1, <2>2, ShutdownWritten
<1>2. ASSUME NEW c \in Clients, pc'[c] = "d_shutdown" PROVE inflight_count' = 0
  <2>1. CASE pc[c] = "d_shutdown"
    <3>1. inflight_count = 0 /\ Destroying
      BY <1>0, <2>1 DEF ShutdownIsDrained, Destroying, DestroyPCs
    <3> QED  BY <3>1, DrainedStays
  <2>2. CASE inflight_count = 0 /\ AwaitDrain(c)
    BY <2>2 DEF AwaitDrain
  <2> QED  BY <1>2, <2>1, <2>2, ShutdownPlace
<1>3. ASSUME shutdown_requested' PROVE inflight_count' = 0
  <2>1. CASE shutdown_requested
    <3>1. inflight_count = 0 /\ (life # "live" \/ Destroying)
      BY <1>0, <2>1 DEF ShutdownIsDrained, Destroying, DestroyPCs
    <3> QED  BY <3>1, DrainedStays
  <2>2. ASSUME NEW c \in Clients, DestroyShutdown(c) PROVE inflight_count' = 0
    BY <1>0, <2>2 DEF DestroyShutdown, ShutdownIsDrained
  <2> QED  BY <1>3, <2>1, <2>2, ShutdownWritten
<1>4. shutdown_requested => shutdown_requested'
  <2>1. ASSUME NEW c \in Clients, DestroyShutdown(c) PROVE shutdown_requested'
    BY <2>1 DEF DestroyShutdown
  <2> QED  BY <2>1, ShutdownWritten
<1> DEFINE Seen == /\ wshutdown => shutdown_requested
                   /\ wpc \in {"count", "exited"} => wshutdown
                   /\ wpc \in {"prepare", "recheck_head", "recheck_shutdown", "commit"}
                        => ~ wshutdown
<1>5. Seen /\ (shutdown_requested => inflight_count = 0)
  BY <1>0 DEF ShutdownIsDrained
<1>6. Seen'
  <2>1. CASE WLoad
    BY <2>1 DEF WLoad
  <2>2. CASE WExchange
    BY <1>5, <2>2 DEF WExchange
  <2>3. CASE WCount
    BY <1>5, <2>3 DEF WCount
  <2>4. CASE WPrepare \/ WRecheck \/ WCommit
    BY <1>5, <2>4 DEF WPrepare, WRecheck, WCommit
  <2>5. CASE WRun \/ WSignal \/ WSignaled
    BY <1>4, <1>5, <2>5 DEF WRun, WSignal, WSignaled
  <2>6. CASE WAdvance \/ WFail \/ WFailed \/ WRelease
    BY <1>4, <1>5, <2>6 DEF WAdvance, WFail, WFailed, WRelease
  <2>7. CASE WUncount \/ WDrained
    BY <1>4, <1>5, <2>7 DEF WUncount, WDrained, NextOp
  <2>8. CASE UNCHANGED workerVars
    BY <1>4, <1>5, <2>8
  <2> QED
    BY <2>1, <2>2, <2>3, <2>4, <2>5, <2>6, <2>7, <2>8, Writers DEF WorkerStep
<1> QED  BY <1>1, <1>2, <1>3, <1>6 DEF ShutdownIsDrained

\* An op ends when its list was signaled or failed, before its release.
LEMMA EndsOnceStep ==
  ASSUME IndInv, HandoffInv, DrainInv, [Next]_vars
  PROVE  EndsOnce'
<1>0. TypeOK /\ EndsOnce
  BY DEF IndInv, DrainInv
<1> USE DEF TypeOK, OpTypeOK, HistoryTypeOK, EndsOnce
<1>1. CASE WSignaled \/ WFailed
  <2>1. wop \in Ops /\ op_state[wop] = "live"
    BY <1>1, WorkerOp DEF WSignaled, WFailed
  <2>2. /\ wpc \in {"signal", "fail"} /\ wpc' \in {"advance", "release"}
        /\ UNCHANGED <<batch, op_state>>
        /\ \E how \in {"signaled", "failed"} : Ends(wop, how)
    BY <1>1 DEF WSignaled, WFailed
  <2>3. wop' = wop
    BY <2>2 DEF wop
  <2>4. outcome[wop] = "none"
    BY <1>0, <2>1, <2>2
  <2>5. \E how \in {"signaled", "failed"} : outcome' = [outcome EXCEPT ![wop] = how]
    BY <1>0, <2>1, <2>2, <2>4 DEF Ends
  <2> QED  BY <1>0, <2>1, <2>2, <2>3, <2>5
<1>2. CASE WRelease
  <2>1. wop \in Ops
    BY <1>2, WorkerOp DEF WRelease
  <2>2. /\ wpc = "release" /\ wpc' = "uncount" /\ UNCHANGED outcome
        /\ op_state' = [op_state EXCEPT ![wop] = "freed"]
    BY <1>2 DEF WRelease
  <2> QED  BY <1>0, <2>1, <2>2
<1>3. ASSUME NEW c \in Clients, NEW o \in Ops, Enqueue(c, o) PROVE EndsOnce'
  <2>1. /\ op_state[o] = "new" /\ UNCHANGED <<outcome, wpc, batch>>
        /\ \E st \in {"live", "refused"} : op_state' = [op_state EXCEPT ![o] = st]
    BY <1>3 DEF Enqueue
  <2>2. wop' = wop
    BY <2>1 DEF wop
  <2> QED  BY <1>0, <2>1, <2>2
<1>4. CASE WAdvance
  <2>1. wop' = wop
    BY <1>4 DEF WAdvance, wop
  <2>2. /\ wpc = "advance" /\ wpc' = "release" /\ UNCHANGED <<outcome, op_state>>
    BY <1>4 DEF WAdvance
  <2> QED  BY <1>0, <2>1, <2>2
<1>5. ASSUME UNCHANGED <<outcome, op_state>>,
             wpc \notin {"advance", "release"}, wpc' \notin {"advance", "release"}
      PROVE  EndsOnce'
  BY <1>0, <1>5
<1>6. CASE WLoad \/ WExchange \/ WCount \/ WPrepare \/ WRecheck \/ WCommit
  BY <1>5, <1>6 DEF WLoad, WExchange, WCount, WPrepare, WRecheck, WCommit
<1>7. CASE WRun \/ WSignal \/ WFail
  BY <1>5, <1>7 DEF WRun, WSignal, WFail
<1>8. CASE WUncount \/ WDrained
  BY <1>5, <1>8 DEF WUncount, WDrained, NextOp
<1>9. ASSUME UNCHANGED workerVars, UNCHANGED <<outcome, op_state>> PROVE EndsOnce'
  <2>1. wop' = wop
    BY <1>9 DEF wop
  <2> QED  BY <1>0, <1>9, <2>1
<1> QED
  BY <1>1, <1>2, <1>3, <1>4, <1>6, <1>7, <1>8, <1>9, Writers
  DEF WorkerStep, OpStateWriters, HistoryWriters

\* Who is about to post, posts.
LEMMA PostStays ==
  ASSUME IndInv, [Next]_vars, NEW t \in Threads, push[t] = "post"
  PROVE  push'[t] = "post" \/ worker_posted'
<1>0. TypeOK
  BY DEF IndInv
<1> USE DEF TypeOK, CallTypeOK, Threads
<1>1. ASSUME NEW u \in Threads, WaitDec(u) PROVE push'[t] = "post"
  BY <1>0, <1>1 DEF WaitDec, ReturnUnit
<1>2. ASSUME NEW u \in Threads, PushSplice(u) \/ PushReady(u)
      PROVE  push'[t] = "post"
  BY <1>0, <1>2 DEF PushSplice, PushReady
<1>3. ASSUME NEW u \in Threads, PushPost(u) PROVE worker_posted'
  BY <1>3 DEF PushPost, Post
<1>4. ASSUME NEW c \in Clients, CancelPush(c) \/ DestroyShutdown(c)
      PROVE  push'[t] = "post"
  BY <1>0, <1>4 DEF CancelPush, DestroyShutdown
<1>5. ASSUME NEW c \in Clients, NEW o \in Ops, Enqueue(c, o) PROVE push'[t] = "post"
  BY <1>0, <1>5 DEF Enqueue, Free
<1> QED  BY <1>1, <1>2, <1>3, <1>4, <1>5, Writers DEF PushWriters

\* The worker's notification is reset by the worker alone, the drain's by the
\* destroyer.
LEMMA NotesWritten ==
  ASSUME [Next]_vars
  PROVE  /\ worker_posted' \/ UNCHANGED worker_posted \/ WPrepare
         /\ drain_posted' \/ UNCHANGED drain_posted \/ \E c \in Clients : AwaitDrain(c)
<1>1. CASE \E t \in Threads : PushSplice(t)
  BY <1>1 DEF PushSplice
<1>2. CASE \E t \in Threads : PushPost(t)
  BY <1>2 DEF PushPost, Post
<1>3. CASE \E c \in Clients : EnqueueLink(c) \/ CancelDec(c)
  BY <1>3 DEF EnqueueLink, CancelDec
<1>4. CASE Create \/ \E c \in Clients : AwaitDrain(c) \/ AssignTopology(c)
  BY <1>4 DEF Create, AwaitDrain, AssignTopology
<1>5. CASE \E c \in Clients : DestroyShutdown(c) \/ DestroyFree(c)
  BY <1>5 DEF DestroyShutdown, DestroyFree
<1>6. CASE \E c \in Clients, o \in Ops : Enqueue(c, o)
  BY <1>6 DEF Enqueue
<1>7. CASE WPrepare \/ WAdvance \/ WUncount
  BY <1>7 DEF WPrepare, WAdvance, WUncount
<1>8. CASE WDrained
  BY <1>8 DEF WDrained
<1> QED
  BY <1>1, <1>2, <1>3, <1>4, <1>5, <1>6, <1>7, <1>8, Writers DEF QueueWriters

\* Something is ready for the worker only after a push, which is followed by a
\* post.
LEMMA ReadyIsPosted ==
  ASSUME IndInv, [Next]_vars
  PROVE  \/ UNCHANGED ready_head
         \/ ready_head' = <<>>
         \/ \E t \in Threads : push'[t] = "post"
<1>0. TypeOK
  BY DEF IndInv
<1> USE DEF TypeOK, CallTypeOK, Threads
<1>1. ASSUME NEW t \in Threads, PushReady(t) PROVE push'[t] = "post"
  BY <1>0, <1>1 DEF PushReady
<1>2. ASSUME NEW c \in Clients, CancelPush(c) PROVE c \in Threads /\ push'[c] = "post"
  BY <1>0, <1>2 DEF CancelPush
<1>3. ASSUME NEW c \in Clients, CancelDec(c) PROVE UNCHANGED ready_head
  BY <1>3 DEF CancelDec
<1>4. CASE WExchange \/ WRelease
  BY <1>4 DEF WExchange, WRelease
<1> QED  BY <1>1, <1>2, <1>3, <1>4, Writers DEF ReadyWriters

\* How the worker gets to the end of its second look, and to its sleep.
LEMMA CommitPlace ==
  ASSUME [Next]_vars
  PROVE  /\ wpc' = "recheck_shutdown" =>
              \/ wpc = "recheck_shutdown"
              \/ ready_head = <<>> /\ UNCHANGED <<ready_head, worker_posted>>
         /\ wpc' = "commit" =>
              \/ wpc = "commit"
              \/ /\ wpc = "recheck_shutdown" /\ shutdown_requested = wshutdown
                 /\ UNCHANGED <<ready_head, worker_posted, shutdown_requested, push>>
<1>1. CASE WLoad \/ WExchange \/ WCount \/ WPrepare \/ WCommit
  BY <1>1 DEF WLoad, WExchange, WCount, WPrepare, WCommit
<1>2. CASE WRecheck
  BY <1>2 DEF WRecheck, NothingReady
<1>3. CASE WRun \/ WSignal \/ WSignaled \/ WAdvance
  BY <1>3 DEF WRun, WSignal, WSignaled, WAdvance
<1>4. CASE WFail \/ WFailed \/ WRelease
  BY <1>4 DEF WFail, WFailed, WRelease
<1>5. CASE WUncount \/ WDrained
  BY <1>5 DEF WUncount, WDrained, NextOp
<1> QED  BY <1>1, <1>2, <1>3, <1>4, <1>5, Writers DEF WorkerStep

\* No post is missed: not by the worker between its look at the stack and its
\* sleep, and not by destroy between its look at the count and its own.
LEMMA PostComesStep ==
  ASSUME IndInv, HandoffInv, DrainInv, [Next]_vars
  PROVE  PostComes'
<1>0. TypeOK /\ Destroyer /\ ShutdownIsDrained /\ PostComes
  BY DEF IndInv, DrainInv
<1>1. ASSUME NEW t \in Threads, push[t] = "post", ~ worker_posted'
      PROVE  \E u \in Threads : push'[u] = "post"
  BY <1>1, PostStays
<1>2. ASSUME wpc \in {"recheck_shutdown", "commit"}, ~ worker_posted'
      PROVE  ~ worker_posted
  <2>1. ~ WPrepare
    BY <1>2 DEF WPrepare
  <2> QED  BY <1>2, <2>1, NotesWritten
<1>3. ASSUME wpc' \in {"recheck_shutdown", "commit"}, ~ worker_posted',
             ready_head' # <<>>
      PROVE  \E t \in Threads : push'[t] = "post"
  <2>1. CASE UNCHANGED ready_head
    <3>1. wpc \in {"recheck_shutdown", "commit"}
      BY <1>3, <2>1, CommitPlace
    <3>2. \E t \in Threads : push[t] = "post"
      BY <1>0, <1>2, <1>3, <2>1, <3>1 DEF PostComes
    <3> QED  BY <1>1, <1>3, <3>2
  <2> QED  BY <1>3, <2>1, ReadyIsPosted
<1>4. ASSUME wpc' = "commit", ~ worker_posted', shutdown_requested'
      PROVE  \E t \in Threads : push'[t] = "post"
  <2>1. ASSUME NEW c \in Clients, DestroyShutdown(c)
        PROVE  c \in Threads /\ push'[c] = "post"
    BY <1>0, <2>1 DEF DestroyShutdown, TypeOK, CallTypeOK, Threads
  <2>2. CASE UNCHANGED shutdown_requested
    <3>1. wpc = "commit"
      <4>1. wpc = "recheck_shutdown" => ~ wshutdown
        BY <1>0 DEF ShutdownIsDrained
      <4> QED  BY <1>4, <2>2, <4>1, CommitPlace
    <3>2. \E t \in Threads : push[t] = "post"
      BY <1>0, <1>2, <1>4, <2>2, <3>1 DEF PostComes
    <3> QED  BY <1>1, <1>4, <3>2
  <2> QED  BY <2>1, <2>2, ShutdownWritten
<1>5. ASSUME NEW c \in Clients, pc'[c] = "d_commit", ~ drain_posted',
             inflight_count' = 0
      PROVE  wpc' = "drained"
  <2>1. pc[c] = "d_commit"
    <3>1. AwaitDrain(c) => UNCHANGED inflight_count
      BY DEF AwaitDrain
    <3> QED  BY <1>5, <3>1, ShutdownPlace
  <2>2. ASSUME NEW b \in Clients, AwaitDrain(b) PROVE FALSE
    <3>1. pc[b] = "d_await"
      BY <2>2 DEF AwaitDrain
    <3> QED  BY <1>0, <2>1, <3>1 DEF Destroyer, DestroyPCs
  <2>3. ~ drain_posted
    BY <1>5, <2>2, NotesWritten
  <2>4. CASE UNCHANGED inflight_count
    <3>1. wpc = "drained"
      BY <1>0, <1>5, <2>1, <2>3, <2>4 DEF PostComes
    <3>2. UNCHANGED wpc
      <4>1. ~ WDrained
        BY <1>5 DEF WDrained
      <4>2. CASE WLoad \/ WExchange \/ WCount \/ WPrepare \/ WRecheck \/ WCommit
        BY <3>1, <4>2 DEF WLoad, WExchange, WCount, WPrepare, WRecheck, WCommit
      <4>3. CASE \/ WRun \/ WSignal \/ WSignaled \/ WAdvance \/ WFail \/ WFailed
                 \/ WRelease \/ WUncount
        BY <3>1, <4>3
        DEF WRun, WSignal, WSignaled, WAdvance, WFail, WFailed, WRelease, WUncount
      <4> QED  BY <4>1, <4>2, <4>3, Writers DEF WorkerStep
    <3> QED  BY <3>1, <3>2
  <2>5. CASE WUncount
    <3>1. inflight_count \in Int /\ inflight_count' = inflight_count - 1
      BY <1>0, <2>5 DEF WUncount, TypeOK, QueueTypeOK
    <3>2. inflight_count = 1
      BY <1>5, <3>1
    <3> QED  BY <2>5, <3>2 DEF WUncount
  <2>6. ASSUME NEW b \in Clients, NEW o \in Ops, Enqueue(b, o) PROVE FALSE
    BY <2>1, <2>6 DEF Enqueue, Destroying, DestroyPCs
  <2> QED  BY <2>4, <2>5, <2>6, CountWritten
<1> QED  BY <1>3, <1>4, <1>5, Zenon DEF PostComes

-----------------------------------------------------------------------------
(***************************************************************************)
(* The theorems.                                                           *)
(***************************************************************************)

\* The invariant of drain and shutdown holds in every reachable state.
THEOREM DrainInductive == Spec => []DrainInv
<1>1. Init => DrainInv
  <2> SUFFICES ASSUME Init PROVE DrainInv
    OBVIOUS
  <2> USE DEF Init
  <2>1. LiveOps = {}
    BY DEF LiveOps
  <2>2. CountIsLive
    BY <2>1, FS_EmptySet DEF CountIsLive
  <2>3. ShutdownIsDrained /\ EndsOnce /\ PostComes
    BY DEF ShutdownIsDrained, EndsOnce, PostComes
  <2> QED  BY <2>2, <2>3 DEF DrainInv
<1>2. IndInv /\ HandoffInv /\ DrainInv /\ [Next]_vars => DrainInv'
  BY CountIsLiveStep, ShutdownIsDrainedStep, EndsOnceStep, PostComesStep DEF DrainInv
<1> QED  BY <1>1, <1>2, Inductive, HandoffInductive, PTL DEF Spec

\* Once the worker has exited, no op is live: all lists are empty, no timepoint
\* is armed and every released op ended.
LEMMA ExitedIsEmpty ==
  ASSUME IndInv, HandoffInv, DrainInv, wpc = "exited"
  PROVE  NothingLeftBehind
<1>0. /\ TypeOK /\ ArmedIsBorn /\ FreedIsDone /\ InOneHand /\ InflightWaits
      /\ CountIsLive /\ ShutdownIsDrained /\ EndsOnce
  BY DEF IndInv, HandoffInv, DrainInv
<1>1. inflight_count = 0
  BY <1>0 DEF ShutdownIsDrained
<1>2. LiveOps = {}
  <2>1. Cardinality(LiveOps) = 0
    BY <1>0, <1>1, FS_CardinalityType DEF CountIsLive
  <2> QED  BY <1>0, <2>1, FS_EmptySet DEF CountIsLive
<1>3. \A o \in Ops : op_state[o] # "live"
  BY <1>2 DEF LiveOps
<1>4. ready_head = <<>>
  <2>1. ToSet(ready_head) = {}
    BY <1>0, <1>3 DEF InOneHand, OnWay, DoneLive
  <2> QED  BY <1>0, <2>1, InList DEF TypeOK, QueueTypeOK
<1>5. inflight = <<>>
  <2>1. inflight \in Seq(Ops) /\ ToSet(inflight) \subseteq Ops
    BY <1>0, InList DEF TypeOK, QueueTypeOK
  <2>2. ToSet(inflight) = {}
    BY <1>0, <1>3, <2>1 DEF InflightWaits
  <2> QED  BY <2>1, <2>2, InList
<1>6. ASSUME NEW w \in Waits, timepoint[w] = "armed" PROVE FALSE
  BY <1>0, <1>3, <1>6, HeldIsLive DEF HeldStates, ArmedIsBorn
<1>7. ASSUME NEW o \in Ops, op_state[o] = "freed" PROVE outcome[o] \in {"signaled", "failed"}
  BY <1>0, <1>7 DEF EndsOnce, TypeOK, HistoryTypeOK
<1> QED  BY <1>3, <1>4, <1>5, <1>6, <1>7 DEF NothingLeftBehind

\* When the worker leaves worker_main every accepted op has ended, once, and was
\* released; no list holds an op and no semaphore a timepoint of the queue.
THEOREM ExitLeavesNothing == Spec => []NothingLeftBehind
<1>1. IndInv /\ HandoffInv /\ DrainInv => NothingLeftBehind
  BY ExitedIsEmpty DEF NothingLeftBehind
<1> QED  BY <1>1, Inductive, HandoffInductive, DrainInductive, PTL

\* The worker does not sleep on a ready op or a shutdown request, nor destroy on
\* a drained queue, without a post to come.
THEOREM WakeupsComplete == Spec => []NoLostWakeup
<1>1. DrainInv => NoLostWakeup
  BY Zenon DEF DrainInv, PostComes, NoLostWakeup
<1> QED  BY <1>1, DrainInductive, PTL

=============================================================================
