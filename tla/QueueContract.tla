---------------------------- MODULE QueueContract ----------------------------
(***************************************************************************)
(* What the asynchronous queue promises its callers, from the interface in *)
(* runtime/src/iree-amd-aie/driver/amdxdna/async_queue.h: an accepted op   *)
(* ends exactly once, it signals its semaphores only after all its waits   *)
(* were reached and fails all of them otherwise, its resources are         *)
(* released after that, and destroy leaves nothing behind.  Threads, lists *)
(* and counters are not visible here.                                      *)
(***************************************************************************)
EXTENDS Integers

CONSTANTS
  Ops, Sems, Waits, WaitOp, WaitSem, WaitVal, SignalList,
  HostSems     \* the semaphores the callers signal and fail themselves

VARIABLES
  phase,       \* of each op
  timeline,    \* of each semaphore
  broken,      \* the semaphores that have failed
  closed       \* destroy has returned

contractVars == <<phase, timeline, broken, closed>>

Phases == {"new", "refused", "pending", "signaled", "failed", "released"}

ContractInit ==
  /\ phase = [o \in Ops |-> "new"]
  /\ timeline = [s \in Sems |-> 0]
  /\ broken = {}
  /\ closed = FALSE

\* Every wait of o was reached.
WaitsReached(o) ==
  \A w \in Waits : WaitOp[w] = o => timeline[WaitSem[w]] >= WaitVal[w]

\* enqueue returns OK, or an error and the queue owns nothing.
Submit(o) ==
  /\ ~closed
  /\ phase[o] = "new"
  /\ \E p \in {"pending", "refused"} : phase' = [phase EXCEPT ![o] = p]
  /\ UNCHANGED <<timeline, broken, closed>>

\* A caller signals or fails a semaphore of its own.
HostSignal(s) ==
  /\ s \in HostSems \ broken
  /\ timeline[s] < timeline'[s]
  /\ timeline' = [timeline EXCEPT ![s] = timeline'[s]]
  /\ UNCHANGED <<phase, broken, closed>>

HostFail(s) ==
  /\ s \in HostSems
  /\ broken' = broken \cup {s}
  /\ UNCHANGED <<phase, timeline, closed>>

\* The queue advances a semaphore of the signal list of an op whose waits were
\* all reached.
OpSignal(o, s) ==
  /\ phase[o] = "pending" /\ WaitsReached(o)
  /\ s \in DOMAIN SignalList[o] \ broken
  /\ timeline[s] < SignalList[o][s]
  /\ timeline' = [timeline EXCEPT ![s] = SignalList[o][s]]
  /\ UNCHANGED <<phase, broken, closed>>

\* The queue fails a semaphore of an op that will not be signaled.
OpFail(o, s) ==
  /\ phase[o] = "pending"
  /\ s \in DOMAIN SignalList[o]
  /\ broken' = broken \cup {s}
  /\ UNCHANGED <<phase, timeline, closed>>

\* The op ends: its whole signal list was advanced, or its whole list failed.
End(o) ==
  /\ phase[o] = "pending"
  /\ \/ /\ WaitsReached(o)
        /\ \A s \in DOMAIN SignalList[o] : timeline[s] >= SignalList[o][s]
        /\ phase' = [phase EXCEPT ![o] = "signaled"]
     \/ /\ DOMAIN SignalList[o] \subseteq broken
        /\ phase' = [phase EXCEPT ![o] = "failed"]
  /\ UNCHANGED <<timeline, broken, closed>>

\* cleanup_fn runs and the retained resources are released, after the op ended.
Release(o) ==
  /\ phase[o] \in {"signaled", "failed"}
  /\ phase' = [phase EXCEPT ![o] = "released"]
  /\ UNCHANGED <<timeline, broken, closed>>

\* destroy returns: nothing is pending.
Close ==
  /\ ~closed
  /\ \A o \in Ops : phase[o] \in {"new", "refused", "released"}
  /\ closed' = TRUE
  /\ UNCHANGED <<phase, timeline, broken>>

ContractNext ==
  \/ \E o \in Ops : Submit(o) \/ End(o) \/ Release(o)
  \/ \E o \in Ops, s \in Sems : OpSignal(o, s) \/ OpFail(o, s)
  \/ \E s \in Sems : HostSignal(s) \/ HostFail(s)
  \/ Close

ContractSpec == ContractInit /\ [][ContractNext]_contractVars
==============================================================================
