----------------------------- MODULE AsyncQueue -----------------------------
(***************************************************************************)
(* The per-device asynchronous work queue of the amdxdna HAL driver:       *)
(* runtime/src/iree-amd-aie/driver/amdxdna/async_queue.cc.                 *)
(*                                                                         *)
(* Client threads enqueue operations, signal and fail semaphores, assign   *)
(* the device topology and finally destroy the queue; one worker thread    *)
(* runs the operations.  A timepoint callback (wait_resolved) runs on the  *)
(* thread whose semaphore call fired it, be it a client or the worker, and *)
(* that thread does nothing else until the callback has returned.          *)
(*                                                                         *)
(* An action is one access to shared memory: an atomic load, exchange or   *)
(* read-modify-write, a critical section of inflight_mutex, or one call of *)
(* an external semaphore or notification function.  The walk of            *)
(* cancel_inflight is several actions with the mutex held.                 *)
(*                                                                         *)
(* External, modelled from the way async_queue.cc uses them:               *)
(*  - semaphores: a monotone timeline with a sticky failure; a timepoint   *)
(*    fires once, unless it is cancelled before;                           *)
(*  - notifications: a wait that was prepared before a post returns.  Each *)
(*    has one waiter here, so its epoch is one bit: posted since           *)
(*    prepare_wait.                                                        *)
(***************************************************************************)
EXTENDS Integers, Sequences, FiniteSets, SequencesExt

CONSTANTS
  Clients,     \* application threads
  Worker,      \* the worker thread
  Ops,         \* the operations the clients may enqueue
  Sems,        \* semaphores
  Waits,       \* wait entries: the timepoints of all operations
  WaitOp,      \* the operation a wait entry belongs to
  WaitSem,     \* the semaphore it waits on (wait_list.semaphores[i])
  WaitVal,     \* the value it waits for (wait_list.payload_values[i])
  SignalList,  \* operation -> (semaphore of its signal list -> payload value)
  HostSems,    \* the semaphores clients signal and fail
  MaxValue,    \* bound on the timeline values clients signal
  Topology,    \* which calls of assign_topology_info the clients make
  Null         \* a null pointer

Threads == Clients \cup {Worker}

WaitsOf(o) == {w \in Waits : WaitOp[w] = o}

ASSUME ConstantsAssumption ==
  /\ Worker \notin Clients
  /\ Null \notin Ops \cup Waits \cup (Sems \X Nat)
  /\ IsFiniteSet(Waits)
  /\ WaitOp \in [Waits -> Ops]
  /\ WaitSem \in [Waits -> Sems]
  /\ WaitVal \in [Waits -> Nat]
  /\ HostSems \subseteq Sems
  /\ MaxValue \in Nat
  /\ \A o \in Ops : /\ DOMAIN SignalList[o] \subseteq Sems
                    /\ SignalList[o] \in [DOMAIN SignalList[o] -> Nat]
  /\ Topology \subseteq {"assign", "clear"}

\* Who caused a failure, in place of the source's iree_status_t.
Status == {"ok", "failed", "cancelled", "rejected", "op_error", "signal_error"}

VARIABLES
  \* iree_hal_amdxdna_async_queue_t
  life,               \* "none", "live", "failed" (create failed), "freed"
  shutdown_requested,
  frontier_tracker,   \* TRUE when non-null
  epoch,
  ready_head,         \* the ready stack, top first
  inflight,           \* the inflight list, head first
  inflight_count,
  worker_posted,      \* worker_notification posted since prepare_wait
  drain_posted,       \* drain_notification posted since prepare_wait
  \* iree_hal_amdxdna_async_op_t
  op_state,           \* "new", "refused" (by enqueue), "live", "freed"
  wait_count,
  error_status,
  timepoint,          \* the state of each wait entry
  \* semaphores
  timeline,           \* timeline_value
  sem_status,         \* failure_status
  \* calls a thread is in
  sig,                \* the semaphore it has advanced and not yet dispatched
  todo,               \* the timepoints whose callback it has to call
  cb,                 \* a callback between its CAS and its fetch_sub
  push,               \* its place in push_ready
  push_op,            \* the op it pushes
  \* client threads: place in enqueue or destroy, and the op
  pc, cop,
  \* the worker's place in worker_main, and its locals
  wpc, wshutdown, batch, wstatus, wsig,
  \* the locals of cancel_inflight
  walk, left, won, to_push,
  \* history: how each op ended, and who submitted which op in which order
  outcome, submitted

lifeVars == <<life, shutdown_requested, frontier_tracker, epoch>>
listVars == <<ready_head, inflight, inflight_count>>
noteVars == <<worker_posted, drain_posted>>
opVars == <<op_state, wait_count, error_status, timepoint>>
semVars == <<timeline, sem_status>>
sharedVars == <<lifeVars, listVars, noteVars, opVars, semVars>>
fireVars == <<sig, todo, cb>>
pushVars == <<push, push_op>>
callVars == <<fireVars, pushVars>>
clientVars == <<pc, cop>>
workerVars == <<wpc, wshutdown, batch, wstatus, wsig>>
cancelVars == <<walk, left, won, to_push>>
history == <<outcome, submitted>>

vars == <<sharedVars, callVars, clientVars, workerVars, cancelVars, history>>

-----------------------------------------------------------------------------
(***************************************************************************)
(* The states of a timepoint.  A wait entry holds one unit of its op's     *)
(* wait_count until the party that settles it has done its fetch_sub.      *)
(***************************************************************************)
HeldStates == {"unarmed", "armed", "firing", "failing", "rejecting",
               "cancelling"}

SettledStates == {"fired", "failed", "rejected", "cancelled"}

Settled(st) ==
  CASE st = "firing"     -> "fired"
    [] st = "failing"    -> "failed"
    [] st = "rejecting"  -> "rejected"
    [] st = "cancelling" -> "cancelled"

\* The waits of o whose unit of wait_count has not been given back.
Held(o) == {w \in WaitsOf(o) : timepoint[w] \in HeldStates}

EnqueuePCs == {"link", "arm", "return"}

DestroyPCs == {"d_lock", "d_walk", "d_dec", "d_push", "d_await", "d_commit",
               "d_shutdown", "d_join"}

WorkerPCs == {"load", "exchange", "count", "prepare", "recheck_head",
              "recheck_shutdown", "commit", "run", "signal", "advance",
              "fail", "release", "uncount", "drained", "exited"}

Init ==
  /\ life = "none"
  /\ shutdown_requested = FALSE
  /\ frontier_tracker = FALSE
  /\ epoch = 0
  /\ ready_head = <<>>
  /\ inflight = <<>>
  /\ inflight_count = 0
  /\ worker_posted = FALSE
  /\ drain_posted = FALSE
  /\ op_state = [o \in Ops |-> "new"]
  /\ wait_count = [o \in Ops |-> 0]
  /\ error_status = [o \in Ops |-> "ok"]
  /\ timepoint = [w \in Waits |-> "unarmed"]
  /\ timeline = [s \in Sems |-> 0]
  /\ sem_status = [s \in Sems |-> "ok"]
  /\ sig = [t \in Threads |-> Null]
  /\ todo = [t \in Threads |-> {}]
  /\ cb = [t \in Threads |-> Null]
  /\ push = [t \in Threads |-> "none"]
  /\ push_op = [t \in Threads |-> Null]
  /\ pc = [c \in Clients |-> "idle"]
  /\ cop = [c \in Clients |-> Null]
  /\ wpc = "load"
  /\ wshutdown = FALSE
  /\ batch = <<>>
  /\ wstatus = "ok"
  /\ wsig = {}
  /\ walk = <<>>
  /\ left = {}
  /\ won = {}
  /\ to_push = <<>>
  /\ outcome = [o \in Ops |-> "none"]
  /\ submitted = <<>>

\* create: everything is released again when the worker cannot be started.
Create ==
  /\ life = "none"
  /\ life' \in {"live", "failed"}
  /\ UNCHANGED <<shutdown_requested, frontier_tracker, epoch, listVars,
                 noteVars, opVars, semVars, callVars, clientVars, workerVars,
                 cancelVars, history>>

\* The thread runs its own code: no call it made is still in progress.
Free(t) ==
  sig[t] = Null /\ todo[t] = {} /\ cb[t] = Null /\ push[t] = "none"

Destroying == \E c \in Clients : pc[c] \in DestroyPCs

\* Nobody holds inflight_mutex across steps.
MutexFree == \A c \in Clients : pc[c] \notin {"d_walk", "d_dec"}

-----------------------------------------------------------------------------
(***************************************************************************)
(* Semaphores (external), called by thread t.                              *)
(***************************************************************************)
Armed(s) == {w \in Waits : timepoint[w] = "armed" /\ WaitSem[w] = s}

\* Unlink the timepoints in hit; thread t will run their callbacks.
Fire(t, hit, st) ==
  /\ timepoint' = [w \in Waits |-> IF w \in hit THEN st ELSE timepoint[w]]
  /\ todo' = [todo EXCEPT ![t] = hit]

\* advance_timeline accepts v: the semaphore has not failed and v is new.
CanAdvance(s, v) == sem_status[s] = "ok" /\ timeline[s] < v

\* iree_hal_amdxdna_semaphore_signal, first half: advance_timeline.
Advance(t, s, v) ==
  /\ timeline' = [timeline EXCEPT ![s] = v]
  /\ sig' = [sig EXCEPT ![t] = <<s, v>>]
  /\ UNCHANGED sem_status

\* iree_hal_amdxdna_semaphore_signal, second half: dispatch_timepoints.
Dispatch(t) ==
  /\ sig[t] # Null
  /\ Fire(t, {w \in Armed(sig[t][1]) : WaitVal[w] <= sig[t][2]}, "firing")
  /\ sig' = [sig EXCEPT ![t] = Null]
  /\ UNCHANGED <<lifeVars, listVars, noteVars, op_state, wait_count,
                 error_status, semVars, cb, pushVars, clientVars, workerVars,
                 cancelVars, history>>

\* iree_async_semaphore_fail: the first failure sticks, and every timepoint
\* of the semaphore fires with it.
FailSem(t, s, st) ==
  /\ sem_status' = [sem_status EXCEPT ![s] = IF @ = "ok" THEN st ELSE @]
  /\ Fire(t, Armed(s), "failing")
  /\ UNCHANGED timeline

-----------------------------------------------------------------------------
(***************************************************************************)
(* wait_resolved and push_ready, on any thread.  A registration that       *)
(* enqueue sees refused takes the same two steps as a failed wait.         *)
(***************************************************************************)

\* Mutant: the error of a failed wait is dropped.
ErrorDropped(o, st) == UNCHANGED error_status

\* The CAS on op->error_status: the first error wins.
FirstError(o, st) ==
  error_status' = [error_status EXCEPT ![o] = IF @ = "ok" THEN st ELSE @]

\* A wait that did not succeed: capture the error.
WaitError(t) ==
  /\ cb[t] = Null /\ push[t] = "none"
  /\ \E w \in todo[t] :
       /\ \/ /\ timepoint[w] = "failing"
             /\ FirstError(WaitOp[w], sem_status[WaitSem[w]])
          \/ /\ timepoint[w] = "rejecting"
             /\ FirstError(WaitOp[w], "rejected")
       /\ cb' = [cb EXCEPT ![t] = w]
       /\ todo' = [todo EXCEPT ![t] = @ \ {w}]
  /\ UNCHANGED <<lifeVars, listVars, noteVars, op_state, wait_count,
                 timepoint, semVars, sig, pushVars, clientVars, workerVars,
                 cancelVars, history>>

\* Mutant: a refused registration does not give its unit back.
RefusedKeepsUnit(w) == IF timepoint[w] = "rejecting" THEN 0 ELSE 1

\* What the party that settles w subtracts from wait_count.
Unit(w) == 1

\* The fetch_sub on wait_count for w; who takes the last unit pushes the op.
ReturnUnit(t, w) ==
  LET o == WaitOp[w]
      last == wait_count[o] = Unit(w)
  IN /\ wait_count' = [wait_count EXCEPT ![o] = @ - Unit(w)]
     /\ timepoint' = [timepoint EXCEPT ![w] = Settled(@)]
     /\ push' = [push EXCEPT ![t] = IF last THEN "splice" ELSE "none"]
     /\ push_op' = [push_op EXCEPT ![t] = IF last THEN o ELSE Null]

WaitDec(t) ==
  /\ push[t] = "none"
  /\ \/ /\ cb[t] # Null
        /\ ReturnUnit(t, cb[t])
        /\ cb' = [cb EXCEPT ![t] = Null]
        /\ UNCHANGED todo
     \/ /\ cb[t] = Null
        /\ \E w \in todo[t] : /\ timepoint[w] = "firing"
                              /\ ReturnUnit(t, w)
                              /\ todo' = [todo EXCEPT ![t] = @ \ {w}]
        /\ UNCHANGED cb
  /\ UNCHANGED <<lifeVars, listVars, noteVars, op_state, error_status, semVars,
                 sig, clientVars, workerVars, cancelVars, history>>

\* Mutant: the op stays on the list.
Unspliced(list, o) == list

\* inflight_remove_locked: the list without o; o may have been spliced before.
Splice(list, o) ==
  IF \E i \in 1..Len(list) : list[i] = o
  THEN RemoveAt(list, CHOOSE i \in 1..Len(list) : list[i] = o)
  ELSE list

\* push_ready, under the mutex.
PushSplice(t) ==
  /\ push[t] = "splice" /\ MutexFree
  /\ inflight' = Splice(inflight, push_op[t])
  /\ push' = [push EXCEPT ![t] = "push"]
  /\ UNCHANGED <<lifeVars, ready_head, inflight_count, noteVars, opVars,
                 semVars, fireVars, push_op, clientVars, workerVars,
                 cancelVars, history>>

\* Mutant: next_ready of the last op is not set to the old head.
ChainOverwrites(ops) == ready_head' = ops

\* The compare-exchange that puts a chain of ops on the ready stack.
PushChain(ops) == ready_head' = ops \o ready_head

\* push_ready: the compare-exchange on ready_head that succeeds.
PushReady(t) ==
  /\ push[t] = "push"
  /\ PushChain(<<push_op[t]>>)
  /\ push' = [push EXCEPT ![t] = "post"]
  /\ push_op' = [push_op EXCEPT ![t] = Null]
  /\ UNCHANGED <<lifeVars, inflight, inflight_count, noteVars, opVars, semVars,
                 fireVars, clientVars, workerVars, cancelVars, history>>

\* Mutant: the post is forgotten.
NoPost == UNCHANGED worker_posted

\* iree_notification_post(worker_notification).
Post == worker_posted' = TRUE

\* The post that ends push_ready, cancel_inflight and the shutdown request.
PushPost(t) ==
  /\ push[t] = "post"
  /\ Post
  /\ push' = [push EXCEPT ![t] = "none"]
  /\ UNCHANGED <<lifeVars, listVars, drain_posted, opVars, semVars, fireVars,
                 push_op, clientVars, workerVars, cancelVars, history>>

-----------------------------------------------------------------------------
(***************************************************************************)
(* enqueue, on client c.                                                   *)
(***************************************************************************)

\* Allocate the op, its wait entries and its cloned lists; on failure the queue
\* owns nothing.  Then count it; an op without waits is pushed at once.
Enqueue(c, o) ==
  /\ life = "live" /\ ~Destroying
  /\ pc[c] = "idle" /\ Free(c)
  /\ op_state[o] = "new"
  /\ \/ /\ op_state' = [op_state EXCEPT ![o] = "refused"]
        /\ UNCHANGED <<wait_count, inflight_count, pushVars, clientVars,
                       submitted>>
     \/ /\ op_state' = [op_state EXCEPT ![o] = "live"]
        /\ wait_count' = [wait_count EXCEPT ![o] = Cardinality(WaitsOf(o))]
        /\ inflight_count' = inflight_count + 1
        /\ IF WaitsOf(o) = {}
           THEN /\ push' = [push EXCEPT ![c] = "splice"]
                /\ push_op' = [push_op EXCEPT ![c] = o]
                /\ pc' = [pc EXCEPT ![c] = "return"]
           ELSE /\ pc' = [pc EXCEPT ![c] = "link"]
                /\ UNCHANGED pushVars
        /\ cop' = [cop EXCEPT ![c] = o]
        /\ submitted' = Append(submitted, <<c, o>>)
  /\ UNCHANGED <<lifeVars, ready_head, inflight, noteVars, error_status,
                 timepoint, semVars, fireVars, workerVars, cancelVars, outcome>>

\* Mutant: the op is not put on the list.
Unlinked(o) == UNCHANGED inflight

\* Link the op at the head of the inflight list.
Link(o) == inflight' = <<o>> \o inflight

\* It is linked before any of its timepoints is armed.
EnqueueLink(c) ==
  /\ pc[c] = "link" /\ MutexFree
  /\ Link(cop[c])
  /\ pc' = [pc EXCEPT ![c] = "arm"]
  /\ UNCHANGED <<lifeVars, ready_head, inflight_count, noteVars, opVars,
                 semVars, callVars, cop, workerVars, cancelVars, history>>

\* What the loop over op->wait_list.count has still to arm, in whatever order
\* the caller's list has.
Unarmed(c) == {w \in WaitsOf(cop[c]) : timepoint[w] = "unarmed"}

\* acquire_timepoint: registered; or fired on this thread because the
\* semaphore already reached the value or failed; or refused.
EnqueueArm(c) ==
  /\ pc[c] = "arm" /\ Free(c)
  /\ \E w \in Unarmed(c) :
       LET s == WaitSem[w]
           Becomes(st) == /\ timepoint' = [timepoint EXCEPT ![w] = st]
                          /\ todo' = [todo EXCEPT ![c] = {w}]
       IN \/ /\ CanAdvance(s, WaitVal[w])
             /\ timepoint' = [timepoint EXCEPT ![w] = "armed"]
             /\ UNCHANGED todo
          \/ timeline[s] >= WaitVal[w] /\ Becomes("firing")
          \/ sem_status[s] # "ok" /\ Becomes("failing")
          \/ Becomes("rejecting")
  /\ UNCHANGED <<lifeVars, listVars, noteVars, op_state, wait_count,
                 error_status, semVars, sig, cb, pushVars, clientVars,
                 workerVars, cancelVars, history>>

\* The loop test reads op->wait_list.count a last time and enqueue returns; the
\* branch for an empty wait list returns without the read.
EnqueueReturn(c) ==
  /\ Free(c)
  /\ pc[c] = "return" \/ (pc[c] = "arm" /\ Unarmed(c) = {})
  /\ pc' = [pc EXCEPT ![c] = "idle"]
  /\ cop' = [cop EXCEPT ![c] = Null]
  /\ UNCHANGED <<sharedVars, callVars, workerVars, cancelVars, history>>

-----------------------------------------------------------------------------
(***************************************************************************)
(* What else a client calls: semaphores, and the topology hook.            *)
(***************************************************************************)
ClientSignal(c) ==
  /\ pc[c] = "idle" /\ Free(c)
  /\ \E s \in HostSems, v \in 1..MaxValue : CanAdvance(s, v) /\ Advance(c, s, v)
  /\ UNCHANGED <<lifeVars, listVars, noteVars, opVars, todo, cb, pushVars,
                 clientVars, workerVars, cancelVars, history>>

ClientFail(c) ==
  /\ pc[c] = "idle" /\ Free(c)
  /\ \E s \in HostSems : sem_status[s] = "ok" /\ FailSem(c, s, "failed")
  /\ UNCHANGED <<lifeVars, listVars, noteVars, op_state, wait_count,
                 error_status, sig, cb, pushVars, clientVars, workerVars,
                 cancelVars, history>>

\* iree_hal_amdxdna_device_assign_topology_info: with a topology it attaches
\* the tracker, refusing to replace one; without, it clears it.
AssignTopology(c) ==
  /\ life = "live" /\ ~Destroying
  /\ pc[c] = "idle" /\ Free(c)
  /\ \/ "assign" \in Topology /\ ~frontier_tracker
     \/ "clear" \in Topology /\ frontier_tracker
  /\ frontier_tracker' = ~frontier_tracker
  /\ UNCHANGED <<life, shutdown_requested, epoch, listVars, noteVars, opVars,
                 semVars, callVars, clientVars, workerVars, cancelVars,
                 history>>

-----------------------------------------------------------------------------
(***************************************************************************)
(* worker_main.  The op being processed is the head of batch.              *)
(***************************************************************************)
wop == Head(batch)

WLoad ==
  /\ life = "live" /\ wpc = "load"
  /\ wshutdown' = shutdown_requested
  /\ wpc' = "exchange"
  /\ UNCHANGED <<sharedVars, callVars, clientVars, batch, wstatus, wsig,
                 cancelVars, history>>

\* Mutant: the stack is processed top first.
TopFirst(stack) == stack

\* The order in which the worker processes the stack it took.
ReceivedOrder(stack) == Reverse(stack)

\* Take the whole ready stack.
WExchange ==
  /\ wpc = "exchange"
  /\ ready_head' = <<>>
  /\ batch' = ReceivedOrder(ready_head)
  /\ wpc' = IF ready_head # <<>> THEN "run"
            ELSE IF wshutdown THEN "count" ELSE "prepare"
  /\ UNCHANGED <<lifeVars, inflight, inflight_count, noteVars, opVars, semVars,
                 callVars, clientVars, wshutdown, wstatus, wsig, cancelVars,
                 history>>

WCount ==
  /\ wpc = "count"
  /\ wpc' = IF inflight_count = 0 THEN "exited" ELSE "prepare"
  /\ UNCHANGED <<sharedVars, callVars, clientVars, wshutdown, batch, wstatus,
                 wsig, cancelVars, history>>

WPrepare ==
  /\ wpc = "prepare"
  /\ worker_posted' = FALSE
  /\ wpc' = "recheck_head"
  /\ UNCHANGED <<lifeVars, listVars, drain_posted, opVars, semVars, callVars,
                 clientVars, wshutdown, batch, wstatus, wsig, cancelVars,
                 history>>

\* Mutant: the stack is not looked at again after prepare_wait.
NotLookedAt == TRUE

NothingReady == ready_head = <<>>

\* The two loads after prepare_wait: cancel_wait if either has changed.
WRecheck ==
  /\ \/ /\ wpc = "recheck_head"
        /\ wpc' = IF NothingReady THEN "recheck_shutdown" ELSE "load"
     \/ /\ wpc = "recheck_shutdown"
        /\ wpc' = IF shutdown_requested = wshutdown THEN "commit" ELSE "load"
  /\ UNCHANGED <<sharedVars, callVars, clientVars, wshutdown, batch, wstatus,
                 wsig, cancelVars, history>>

WCommit ==
  /\ wpc = "commit" /\ worker_posted
  /\ wpc' = "load"
  /\ UNCHANGED <<sharedVars, callVars, clientVars, wshutdown, batch, wstatus,
                 wsig, cancelVars, history>>

\* Mutant: the error the waits left is not looked at.
NoError == "ok"

WaitStatus == error_status[wop]

\* Load error_status; run op_fn, which may fail, if there is no error.
WRun ==
  /\ wpc = "run"
  /\ \/ /\ WaitStatus = "ok"
        /\ \/ wstatus' = "ok" /\ wpc' = "signal"
           \/ wstatus' = "op_error" /\ wpc' = "fail"
     \/ /\ WaitStatus # "ok"
        /\ wstatus' = WaitStatus /\ wpc' = "fail"
  /\ wsig' = DOMAIN SignalList[wop]
  /\ UNCHANGED <<sharedVars, callVars, clientVars, wshutdown, batch, cancelVars,
                 history>>

\* iree_hal_semaphore_list_signal: one semaphore after the other; the first
\* that cannot be advanced ends the loop, and the whole list is failed.
WSignal ==
  /\ wpc = "signal" /\ Free(Worker)
  /\ \E s \in wsig :
       LET v == SignalList[wop][s]
       IN \/ /\ CanAdvance(s, v)
             /\ Advance(Worker, s, v)
             /\ wsig' = wsig \ {s}
             /\ UNCHANGED <<wpc, wstatus>>
          \/ /\ ~CanAdvance(s, v)
             /\ wstatus' = "signal_error"
             /\ wpc' = "fail"
             /\ wsig' = DOMAIN SignalList[wop]
             /\ UNCHANGED <<semVars, sig>>
  /\ UNCHANGED <<lifeVars, listVars, noteVars, opVars, todo, cb, pushVars,
                 clientVars, wshutdown, batch, cancelVars, history>>

\* An op that ends a second time is recorded as such.
Ends(o, how) ==
  outcome' = [outcome EXCEPT ![o] = IF @ = "none" THEN how ELSE "twice"]

\* The list is signaled; the first read of queue->frontier_tracker.
WSignaled ==
  /\ wpc = "signal" /\ Free(Worker) /\ wsig = {}
  /\ Ends(wop, "signaled")
  /\ wpc' = IF frontier_tracker THEN "advance" ELSE "release"
  /\ UNCHANGED <<sharedVars, callVars, clientVars, wshutdown, batch, wstatus,
                 wsig, cancelVars, submitted>>

\* frontier_tracker_advance, with a second read of queue->frontier_tracker.
WAdvance ==
  /\ wpc = "advance"
  /\ epoch' = epoch + 1
  /\ wpc' = "release"
  /\ UNCHANGED <<life, shutdown_requested, frontier_tracker, listVars,
                 noteVars, opVars, semVars, callVars, clientVars, wshutdown,
                 batch, wstatus, wsig, cancelVars, history>>

\* iree_hal_semaphore_list_fail: every semaphore of the list.
WFail ==
  /\ wpc = "fail" /\ Free(Worker)
  /\ \E s \in wsig : FailSem(Worker, s, wstatus) /\ wsig' = wsig \ {s}
  /\ UNCHANGED <<lifeVars, listVars, noteVars, op_state, wait_count,
                 error_status, sig, cb, pushVars, clientVars, wpc, wshutdown,
                 batch, wstatus, cancelVars, history>>

WFailed ==
  /\ wpc = "fail" /\ Free(Worker) /\ wsig = {}
  /\ Ends(wop, "failed")
  /\ wpc' = "release"
  /\ UNCHANGED <<sharedVars, callVars, clientVars, wshutdown, batch, wstatus,
                 wsig, cancelVars, submitted>>

\* release_op: cleanup_fn, the retained resources, the lists and the arena.
WRelease ==
  /\ wpc = "release"
  /\ op_state' = [op_state EXCEPT ![wop] = "freed"]
  /\ batch' = Tail(batch)
  /\ wpc' = "uncount"
  /\ UNCHANGED <<lifeVars, listVars, noteVars, wait_count, error_status,
                 timepoint, semVars, callVars, clientVars, wshutdown, wstatus,
                 wsig, cancelVars, history>>

\* Where the loop over the batch goes after an op.
NextOp == IF batch = <<>> THEN "load" ELSE "run"

\* release_op: the fetch_sub on inflight_count ...
WUncount ==
  /\ wpc = "uncount"
  /\ inflight_count' = inflight_count - 1
  /\ wpc' = IF inflight_count = 1 THEN "drained" ELSE NextOp
  /\ UNCHANGED <<lifeVars, ready_head, inflight, noteVars, opVars, semVars,
                 callVars, clientVars, wshutdown, batch, wstatus, wsig,
                 cancelVars, history>>

\* ... and the post of drain_notification by the last one.
WDrained ==
  /\ wpc = "drained"
  /\ drain_posted' = TRUE
  /\ wpc' = NextOp
  /\ UNCHANGED <<lifeVars, listVars, worker_posted, opVars, semVars, callVars,
                 clientVars, wshutdown, batch, wstatus, wsig, cancelVars,
                 history>>

WorkerStep ==
  \/ WLoad \/ WExchange \/ WCount \/ WPrepare \/ WRecheck \/ WCommit
  \/ WRun \/ WSignal \/ WSignaled \/ WAdvance \/ WFail \/ WFailed
  \/ WRelease \/ WUncount \/ WDrained

-----------------------------------------------------------------------------
(***************************************************************************)
(* destroy and cancel_inflight, on client c.  The caller's contract: no    *)
(* enqueue is running or starts later.                                     *)
(***************************************************************************)
Destroy(c) ==
  /\ life = "live"
  /\ \A d \in Clients : pc[d] = "idle"
  /\ Free(c)
  /\ pc' = [pc EXCEPT ![c] = "d_lock"]
  /\ UNCHANGED <<sharedVars, callVars, cop, workerVars, cancelVars, history>>

\* Mutant: the walk ends before its first op.
WalkNowhere(ops) == walk' = <<>> /\ left' = {} /\ won' = {}

\* Take up the first op of the list that remains to be walked.
WalkTo(ops) ==
  /\ walk' = ops
  /\ left' = IF ops = <<>> THEN {} ELSE WaitsOf(Head(ops))
  /\ won' = {}

CancelLock(c) ==
  /\ pc[c] = "d_lock" /\ MutexFree
  /\ WalkTo(inflight)
  /\ pc' = [pc EXCEPT ![c] = "d_walk"]
  /\ UNCHANGED <<sharedVars, callVars, cop, workerVars, to_push, history>>

\* cancel_timepoint: it succeeds exactly when the timepoint is still armed.
CancelTimepoint(c) ==
  /\ pc[c] = "d_walk"
  /\ \E w \in left :
       /\ left' = left \ {w}
       /\ \/ /\ timepoint[w] = "armed"
             /\ timepoint' = [timepoint EXCEPT ![w] = "cancelling"]
             /\ won' = won \cup {w}
          \/ /\ timepoint[w] # "armed"
             /\ UNCHANGED <<timepoint, won>>
  /\ UNCHANGED <<lifeVars, listVars, noteVars, op_state, wait_count,
                 error_status, semVars, callVars, clientVars, workerVars, walk,
                 to_push, history>>

\* All timepoints of the op were tried: it is left alone if no cancel was won,
\* else CANCELLED is stashed as its error.
CancelOp(c) ==
  /\ pc[c] = "d_walk" /\ walk # <<>> /\ left = {}
  /\ \/ /\ won = {}
        /\ WalkTo(Tail(walk))
        /\ UNCHANGED <<error_status, pc>>
     \/ /\ won # {}
        /\ FirstError(Head(walk), "cancelled")
        /\ pc' = [pc EXCEPT ![c] = "d_dec"]
        /\ UNCHANGED <<walk, left, won>>
  /\ UNCHANGED <<lifeVars, listVars, noteVars, op_state, wait_count, timepoint,
                 semVars, callVars, cop, workerVars, to_push, history>>

\* Mutant: all waits of the op are taken for cancelled.
AllCancelled == Cardinality(WaitsOf(Head(walk)))

\* The local count of the cancels that were won.
Cancelled == Cardinality(won)

\* Give back one unit per cancelled timepoint; if these were the last ones the
\* op leaves the list for the local chain.
CancelDec(c) ==
  /\ pc[c] = "d_dec"
  /\ LET o == Head(walk)
         last == wait_count[o] = Cancelled
     IN /\ wait_count' = [wait_count EXCEPT ![o] = @ - Cancelled]
        /\ inflight' = IF last THEN Splice(inflight, o) ELSE inflight
        /\ to_push' = IF last THEN <<o>> \o to_push ELSE to_push
  /\ timepoint' = [w \in Waits |-> IF w \in won THEN Settled(timepoint[w])
                                                ELSE timepoint[w]]
  /\ WalkTo(Tail(walk))
  /\ pc' = [pc EXCEPT ![c] = "d_walk"]
  /\ UNCHANGED <<lifeVars, ready_head, inflight_count, noteVars, op_state,
                 error_status, semVars, callVars, cop, workerVars, history>>

CancelUnlock(c) ==
  /\ pc[c] = "d_walk" /\ walk = <<>>
  /\ pc' = [pc EXCEPT ![c] = IF to_push = <<>> THEN "d_await" ELSE "d_push"]
  /\ UNCHANGED <<sharedVars, callVars, cop, workerVars, cancelVars, history>>

\* Push the whole chain with one compare-exchange, then post.
CancelPush(c) ==
  /\ pc[c] = "d_push"
  /\ PushChain(to_push)
  /\ to_push' = <<>>
  /\ push' = [push EXCEPT ![c] = "post"]
  /\ pc' = [pc EXCEPT ![c] = "d_await"]
  /\ UNCHANGED <<lifeVars, inflight, inflight_count, noteVars, opVars, semVars,
                 fireVars, push_op, cop, workerVars, walk, left, won, history>>

\* iree_notification_await(drain_notification, is_drained).
AwaitDrain(c) ==
  /\ pc[c] = "d_await" /\ Free(c)
  /\ \/ /\ inflight_count = 0
        /\ pc' = [pc EXCEPT ![c] = "d_shutdown"]
        /\ UNCHANGED drain_posted
     \/ /\ inflight_count # 0
        /\ drain_posted' = FALSE
        /\ pc' = [pc EXCEPT ![c] = "d_commit"]
  /\ UNCHANGED <<lifeVars, listVars, worker_posted, opVars, semVars, callVars,
                 cop, workerVars, cancelVars, history>>

AwaitCommit(c) ==
  /\ pc[c] = "d_commit" /\ drain_posted
  /\ pc' = [pc EXCEPT ![c] = "d_await"]
  /\ UNCHANGED <<sharedVars, callVars, cop, workerVars, cancelVars, history>>

\* Request the shutdown, then post.
DestroyShutdown(c) ==
  /\ pc[c] = "d_shutdown"
  /\ shutdown_requested' = TRUE
  /\ push' = [push EXCEPT ![c] = "post"]
  /\ pc' = [pc EXCEPT ![c] = "d_join"]
  /\ UNCHANGED <<life, frontier_tracker, epoch, listVars, noteVars, opVars,
                 semVars, fireVars, push_op, cop, workerVars, cancelVars,
                 history>>

\* iree_thread_release joins the worker; then the queue is freed.
DestroyFree(c) ==
  /\ pc[c] = "d_join" /\ Free(c)
  /\ wpc = "exited"
  /\ life' = "freed"
  /\ pc' = [pc EXCEPT ![c] = "idle"]
  /\ UNCHANGED <<shutdown_requested, frontier_tracker, epoch, listVars,
                 noteVars, opVars, semVars, callVars, cop, workerVars,
                 cancelVars, history>>

-----------------------------------------------------------------------------

\* The steps any thread takes inside a semaphore call or push_ready.
CallStep(t) ==
  \/ Dispatch(t) \/ WaitError(t) \/ WaitDec(t)
  \/ PushSplice(t) \/ PushReady(t) \/ PushPost(t)

\* The steps of an enqueue or a destroy that client c has called.
ClientStep(c) ==
  \/ EnqueueLink(c) \/ EnqueueArm(c) \/ EnqueueReturn(c)
  \/ CancelLock(c) \/ CancelTimepoint(c) \/ CancelOp(c) \/ CancelDec(c)
  \/ CancelUnlock(c) \/ CancelPush(c) \/ AwaitDrain(c) \/ AwaitCommit(c)
  \/ DestroyShutdown(c) \/ DestroyFree(c)

\* What a client decides to call.
ClientCall(c) ==
  \/ \E o \in Ops : Enqueue(c, o)
  \/ ClientSignal(c) \/ ClientFail(c) \/ AssignTopology(c) \/ Destroy(c)

\* The program may end once the queue is gone and every call has returned.
Finished ==
  /\ life \in {"failed", "freed"}
  /\ \A c \in Clients : pc[c] = "idle" /\ Free(c)
  /\ UNCHANGED vars

Next ==
  \/ Create
  \/ \E t \in Threads : CallStep(t)
  \/ \E c \in Clients : ClientStep(c) \/ ClientCall(c)
  \/ WorkerStep
  \/ Finished

\* Threads are scheduled: a thread inside a call keeps going.  Nothing obliges
\* a client to call anything.
Fairness ==
  /\ \A t \in Threads : WF_vars(CallStep(t))
  /\ \A c \in Clients : WF_vars(ClientStep(c))
  /\ WF_vars(WorkerStep)

Spec == Init /\ [][Next]_vars

FairSpec == Spec /\ Fairness

-----------------------------------------------------------------------------
(***************************************************************************)
(* Invariants.                                                             *)
(***************************************************************************)

\* The types of the queue, the ops and semaphores, the calls threads are in,
\* the clients, the worker, the cancellation and the history.
QueueTypeOK ==
  /\ life \in {"none", "live", "failed", "freed"}
  /\ shutdown_requested \in BOOLEAN
  /\ frontier_tracker \in BOOLEAN /\ epoch \in Nat
  /\ ready_head \in Seq(Ops) /\ inflight \in Seq(Ops)
  /\ inflight_count \in Int
  /\ worker_posted \in BOOLEAN /\ drain_posted \in BOOLEAN

OpTypeOK ==
  /\ op_state \in [Ops -> {"new", "live", "freed", "refused"}]
  /\ wait_count \in [Ops -> Nat]
  /\ error_status \in [Ops -> Status]
  /\ timepoint \in [Waits -> HeldStates \cup SettledStates]
  /\ timeline \in [Sems -> Nat] /\ sem_status \in [Sems -> Status]

CallTypeOK ==
  /\ sig \in [Threads -> (Sems \X Nat) \cup {Null}]
  /\ todo \in [Threads -> SUBSET Waits]
  /\ cb \in [Threads -> Waits \cup {Null}]
  /\ push \in [Threads -> {"none", "splice", "push", "post"}]
  /\ push_op \in [Threads -> Ops \cup {Null}]

ClientTypeOK ==
  /\ pc \in [Clients -> {"idle"} \cup EnqueuePCs \cup DestroyPCs]
  /\ cop \in [Clients -> Ops \cup {Null}]

WorkerTypeOK ==
  /\ wpc \in WorkerPCs /\ wshutdown \in BOOLEAN
  /\ batch \in Seq(Ops) /\ wstatus \in Status /\ wsig \subseteq Sems

CancelTypeOK ==
  /\ walk \in Seq(Ops) /\ left \subseteq Waits /\ won \subseteq Waits
  /\ to_push \in Seq(Ops)

HistoryTypeOK ==
  /\ outcome \in [Ops -> {"none", "signaled", "failed", "twice"}]
  /\ submitted \in Seq(Clients \X Ops)

\* Every variable has its type; in particular no settlement of a timepoint, by
\* a callback, a refused registration or a cancellation, takes wait_count below
\* zero.
TypeOK ==
  /\ QueueTypeOK /\ OpTypeOK /\ CallTypeOK /\ ClientTypeOK
  /\ WorkerTypeOK /\ CancelTypeOK /\ HistoryTypeOK

\* wait_count is the number of timepoints nobody has settled yet, whichever of
\* callbacks, failed registrations and cancel_inflight settle them and in
\* whatever order: exactly one of them sees it reach zero.
WaitCountIsHeld ==
  \A o \in Ops :
    op_state[o] \in {"live", "freed"} => wait_count[o] = Cardinality(Held(o))

\* How many times o is on its way to the worker.
OnItsWay(o) ==
  Cardinality({t \in Threads : push_op[t] = o})
    + Cardinality({i \in DOMAIN ready_head : ready_head[i] = o})
    + Cardinality({i \in DOMAIN to_push : to_push[i] = o})
    + Cardinality({i \in DOMAIN batch : batch[i] = o})

\* An op whose waits are all settled is in exactly one hand on its way through
\* push_ready, the ready stack and the worker's batch, and no other op is:
\* none is lost and none is pushed twice.
PushedOnce ==
  \A o \in Ops :
    OnItsWay(o) = IF op_state[o] = "live" /\ wait_count[o] = 0 THEN 1 ELSE 0

\* The ops thread t will dereference before it has released them, the last
\* loop test of enqueue excepted.
Uses(t) ==
  {WaitOp[w] : w \in todo[t]}
    \cup (IF cb[t] = Null THEN {} ELSE {WaitOp[cb[t]]})
    \cup ({push_op[t]} \ {Null})
    \cup (IF t = Worker THEN ToSet(batch)
          ELSE IF pc[t] = "link" \/ (pc[t] = "arm" /\ Unarmed(t) # {})
               THEN {cop[t]}
          ELSE IF pc[t] \in {"d_walk", "d_dec", "d_push"}
               THEN ToSet(walk) \cup ToSet(to_push) ELSE {})

\* No thread holds a pointer to an op whose arena the worker has released, no
\* timepoint in a semaphore's list lies in one, and the inflight list and the
\* ready stack hold none.
NoUseAfterFree ==
  /\ \A t \in Threads : \A o \in Uses(t) : op_state[o] = "live"
  /\ \A w \in Waits : timepoint[w] = "armed" => op_state[WaitOp[w]] = "live"
  /\ \A o \in ToSet(inflight) \cup ToSet(ready_head) : op_state[o] = "live"

\* cancel_inflight can find every op that still waits: an armed timepoint
\* belongs to a linked op.  Conversely a linked op has not been handed on.
ArmedIsLinked ==
  /\ \A w \in Waits : timepoint[w] = "armed" => WaitOp[w] \in ToSet(inflight)
  /\ \A o \in ToSet(inflight) : o \notin ToSet(ready_head) \cup ToSet(batch)

\* The worker is not asleep with work on the ready stack, or with a shutdown it
\* has not seen, unless a post is about to come; nor is destroy asleep with the
\* queue drained.
NoLostWakeup ==
  /\ /\ wpc = "commit" /\ ~worker_posted
     /\ ready_head # <<>> \/ shutdown_requested
     => \E t \in Threads : push[t] = "post"
  /\ \A c \in Clients :
       pc[c] = "d_commit" /\ ~drain_posted /\ inflight_count = 0
         => wpc = "drained"

\* Once the worker has exited nothing is left behind: no op is live, none is
\* queued, no timepoint is armed, and every op that was accepted ended once.
NothingLeftBehind ==
  wpc = "exited" =>
    /\ \A o \in Ops : op_state[o] # "live"
    /\ ready_head = <<>> /\ inflight = <<>>
    /\ \A w \in Waits : timepoint[w] # "armed"
    /\ \A o \in Ops : op_state[o] = "freed" => outcome[o] \in {"signaled", "failed"}

\* An op body runs, and a signal list is signaled, only when every wait of the
\* op was reached: never after a failed, refused or cancelled wait.
RunsOnlyAfterWaits ==
  \A o \in Ops :
    (\/ outcome[o] = "signaled"
     \/ wpc \in {"signal", "advance"} /\ wop = o)
    => \A w \in WaitsOf(o) : /\ timepoint[w] = "fired"
                             /\ timeline[WaitSem[w]] >= WaitVal[w]

\* Ops without waits that one thread enqueues end in the order it enqueued
\* them: the worker reverses the LIFO stack it takes.
SubmissionOrder ==
  \A i, j \in DOMAIN submitted :
    LET o == submitted[i][2]
        p == submitted[j][2]
    IN /\ i < j /\ submitted[i][1] = submitted[j][1]
       /\ WaitsOf(o) = {} /\ WaitsOf(p) = {}
       /\ outcome[p] # "none"
       => outcome[o] # "none"

(***************************************************************************)
(* What a comment of the repository says and the code does not keep.       *)
(***************************************************************************)

\* "wait_list is only used while timepoints are pending": the loop test that
\* ends enqueue reads op->wait_list.count of an op that still exists.
WaitListUsedWhileLive ==
  \A c \in Clients :
    pc[c] = "arm" /\ Free(c) /\ Unarmed(c) = {} => op_state[cop[c]] = "live"

(***************************************************************************)
(* Liveness, under FairSpec.                                               *)
(***************************************************************************)

\* An op all of whose waits were reached ends and is released.
ReachedOpsEnd ==
  \A o \in Ops :
    (/\ op_state[o] = "live"
     /\ \A w \in WaitsOf(o) : timeline[WaitSem[w]] >= WaitVal[w])
    ~> op_state[o] = "freed"

\* destroy returns, whatever the clients do with the semaphores.
DestroyReturns == Destroying ~> life = "freed"

-----------------------------------------------------------------------------
(***************************************************************************)
(* Refinement of the interface contract.                                   *)
(***************************************************************************)

\* The phase a caller can tell for op o.  An op that ended twice is in none.
Phase(o) ==
  CASE op_state[o] = "freed" -> "released"
    [] op_state[o] = "live"  -> IF outcome[o] = "none" THEN "pending"
                                                      ELSE outcome[o]
    [] OTHER                 -> op_state[o]

Contract == INSTANCE QueueContract WITH
  phase  <- [o \in Ops |-> Phase(o)],
  broken <- {s \in Sems : sem_status[s] # "ok"},
  closed <- (life = "freed")

\* The queue keeps the contract of async_queue.h.
KeepsContract == Contract!ContractSpec

=============================================================================
