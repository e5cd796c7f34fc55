------------------------ MODULE AsyncQueueRefinement ------------------------
(***************************************************************************)
(* The proof that the queue keeps its contract: under the mapping of       *)
(* AsyncQueue, every step of every thread is a step of QueueContract or    *)
(* leaves what callers see alone.                                          *)
(***************************************************************************)
EXTENDS AsyncQueueDrain

\* The part of its signal list that the worker has done: advanced on the way to
\* success, failed on the way to an error.
SignalsDone ==
  /\ wpc = "signal" =>
       \A s \in DOMAIN SignalList[wop] \ wsig : timeline[s] >= SignalList[wop][s]
  /\ wpc = "fail" =>
       \A s \in DOMAIN SignalList[wop] \ wsig : sem_status[s] # "ok"

-----------------------------------------------------------------------------
USE DEF lifeVars, listVars, noteVars, opVars, semVars, sharedVars, fireVars,
        pushVars, callVars, clientVars, workerVars, cancelVars, history

\* The op at work, and its signal list.
LEMMA SignalListOp ==
  ASSUME IndInv, HandoffInv, wpc \in {"signal", "fail"}
  PROVE  /\ wop \in Ops /\ wop \in ToSet(batch) /\ op_state[wop] = "live"
         /\ wsig \subseteq DOMAIN SignalList[wop] /\ DOMAIN SignalList[wop] \subseteq Sems
         /\ \A s \in DOMAIN SignalList[wop] : SignalList[wop][s] \in Nat
<1>1. wop \in Ops /\ wop \in ToSet(batch) /\ op_state[wop] = "live"
  BY WorkerOp
<1>2. wsig \subseteq DOMAIN SignalList[wop]
  BY DEF IndInv, AtWork
<1>3. /\ DOMAIN SignalList[wop] \subseteq Sems
      /\ SignalList[wop] \in [DOMAIN SignalList[wop] -> Nat]
  BY <1>1, ConstantsAssumption
<1>4. \A s \in DOMAIN SignalList[wop] : SignalList[wop][s] \in Nat
  BY <1>3
<1> QED  BY <1>1, <1>2, <1>3, <1>4

\* Timelines only grow, and a failure is never taken back.
LEMMA SemsStick ==
  ASSUME IndInv, HandoffInv, [Next]_vars, NEW s \in Sems
  PROVE  /\ timeline[s] \in Nat /\ timeline'[s] \in Nat /\ timeline'[s] >= timeline[s]
         /\ sem_status[s] # "ok" => sem_status'[s] # "ok"
<1>0. /\ timeline \in [Sems -> Nat] /\ sem_status \in [Sems -> Status]
      /\ ErrorKept /\ timeline[s] \in Nat
  BY DEF IndInv, TypeOK, OpTypeOK
<1> DEFINE Grown == timeline'[s] \in Nat /\ timeline'[s] >= timeline[s]
<1>1. ASSUME NEW t \in Threads, NEW r \in Sems, NEW v \in Nat,
             CanAdvance(r, v), Advance(t, r, v)
      PROVE  Grown
  BY <1>0, <1>1 DEF CanAdvance, Advance
<1>2. ASSUME UNCHANGED timeline PROVE Grown
  BY <1>0, <1>2
<1>3. ASSUME WSignal, ~ UNCHANGED timeline PROVE Grown
  <2>1. PICK r \in wsig : /\ CanAdvance(r, SignalList[wop][r])
                          /\ Advance(Worker, r, SignalList[wop][r])
    BY <1>3 DEF WSignal
  <2>2. r \in Sems /\ SignalList[wop][r] \in Nat /\ Worker \in Threads
    BY <1>3, SignalListOp DEF WSignal, Threads
  <2> QED  BY <1>1, <2>1, <2>2
<1>4. ASSUME NEW c \in Clients, ClientSignal(c) PROVE Grown
  <2>1. PICK r \in HostSems, v \in 1..MaxValue : CanAdvance(r, v) /\ Advance(c, r, v)
    BY <1>4 DEF ClientSignal
  <2>2. r \in Sems /\ v \in Nat /\ c \in Threads
    BY ConstantsAssumption DEF Threads
  <2> QED  BY <1>1, <2>1, <2>2
<1>5. Grown
  BY <1>2, <1>3, <1>4, Writers DEF TimelineWriters
<1>6. ASSUME NEW c \in Clients, ClientFail(c), sem_status[s] # "ok"
      PROVE  sem_status'[s] # "ok"
  BY <1>0, <1>6 DEF ClientFail, FailSem
<1>7. ASSUME WFail, sem_status[s] # "ok" PROVE sem_status'[s] # "ok"
  BY <1>0, <1>7 DEF WFail, FailSem
<1>8. sem_status[s] # "ok" => sem_status'[s] # "ok"
  BY <1>6, <1>7, Writers DEF StatusWriters
<1> QED  BY <1>0, <1>5, <1>8

\* The worker goes through its signal list without losing what it has done, as
\* others signal and fail the same semaphores.
LEMMA SignalsDoneStep ==
  ASSUME IndInv, HandoffInv, SignalsDone, [Next]_vars
  PROVE  SignalsDone'
<1>0. /\ TypeOK /\ ErrorKept /\ sem_status \in [Sems -> Status]
      /\ timeline \in [Sems -> Nat]
  BY DEF IndInv, TypeOK, OpTypeOK
<1>1. ASSUME UNCHANGED <<wpc, batch, wsig>> PROVE SignalsDone'
  <2>1. wop' = wop
    BY <1>1 DEF wop
  <2>2. ASSUME wpc \in {"signal", "fail"}, NEW s \in DOMAIN SignalList[wop]
        PROVE  /\ timeline[s] \in Nat /\ timeline'[s] \in Nat
               /\ timeline'[s] >= timeline[s] /\ SignalList[wop][s] \in Nat
               /\ sem_status[s] # "ok" => sem_status'[s] # "ok"
    BY <2>2, SignalListOp, SemsStick
  <2> QED  BY <1>1, <2>1, <2>2 DEF SignalsDone
<1>2. CASE WRun
  <2>1. wop' = wop /\ wsig' = DOMAIN SignalList[wop]
    BY <1>2 DEF WRun, wop
  <2> QED  BY <2>1 DEF SignalsDone
<1>3. CASE WSignal
  <2>1. wop' = wop /\ wpc = "signal"
    BY <1>3 DEF WSignal, wop
  <2>2. PICK s \in wsig :
          \/ /\ CanAdvance(s, SignalList[wop][s])
             /\ Advance(Worker, s, SignalList[wop][s])
             /\ wsig' = wsig \ {s} /\ UNCHANGED wpc
          \/ wpc' = "fail" /\ wsig' = DOMAIN SignalList[wop]
    BY <1>3 DEF WSignal
  <2>3. CASE wpc' = "fail" /\ wsig' = DOMAIN SignalList[wop]
    BY <2>1, <2>3 DEF SignalsDone
  <2>4. CASE /\ CanAdvance(s, SignalList[wop][s])
             /\ Advance(Worker, s, SignalList[wop][s])
             /\ wsig' = wsig \ {s} /\ UNCHANGED wpc
    <3>1. s \in Sems /\ SignalList[wop][s] \in Nat
      BY <2>1, SignalListOp
    <3>2. ASSUME NEW r \in DOMAIN SignalList[wop] \ wsig'
          PROVE  timeline'[r] >= SignalList[wop][r]
      <4>1. r \in Sems /\ SignalList[wop][r] \in Nat
        BY <2>1, SignalListOp
      <4>2. r # s => timeline[r] >= SignalList[wop][r]
        BY <2>1, <2>4 DEF SignalsDone
      <4> QED  BY <1>0, <2>4, <3>1, <4>1, <4>2 DEF Advance
    <3> QED  BY <2>1, <2>4, <3>2 DEF SignalsDone
  <2> QED  BY <2>2, <2>3, <2>4
<1>4. CASE WFail
  <2>1. wop' = wop /\ wpc = "fail" /\ UNCHANGED wpc
    BY <1>4 DEF WFail, wop
  <2>2. PICK s \in wsig : FailSem(Worker, s, wstatus) /\ wsig' = wsig \ {s}
    BY <1>4 DEF WFail
  <2>3. s \in Sems /\ wstatus # "ok"
    BY <1>0, <2>1, SignalListOp DEF ErrorKept
  <2>4. ASSUME NEW r \in DOMAIN SignalList[wop] \ wsig' PROVE sem_status'[r] # "ok"
    <3>1. r \in Sems
      BY <2>1, SignalListOp
    <3>2. r # s => sem_status[r] # "ok"
      BY <2>1, <2>2 DEF SignalsDone
    <3> QED  BY <1>0, <2>2, <2>3, <3>1, <3>2 DEF FailSem
  <2> QED  BY <2>1, <2>4 DEF SignalsDone
<1>5. CASE WLoad \/ WExchange \/ WCount \/ WPrepare \/ WRecheck \/ WCommit
  BY <1>5 DEF WLoad, WExchange, WCount, WPrepare, WRecheck, WCommit, SignalsDone
<1>6. CASE WSignaled \/ WAdvance \/ WFailed \/ WRelease
  BY <1>6 DEF WSignaled, WAdvance, WFailed, WRelease, SignalsDone
<1>7. CASE WUncount \/ WDrained
  BY <1>7 DEF WUncount, WDrained, NextOp, SignalsDone
<1> QED
  BY <1>1, <1>2, <1>3, <1>4, <1>5, <1>6, <1>7, Writers DEF WorkerStep

-----------------------------------------------------------------------------
(***************************************************************************)
(* The mapping.                                                            *)
(***************************************************************************)

\* What a caller sees of an op, from its state and its outcome.
LEMMA PhaseOf ==
  ASSUME NEW o \in Ops
  PROVE  /\ op_state[o] = "freed" => Phase(o) = "released"
         /\ op_state[o] = "live" /\ outcome[o] = "none" => Phase(o) = "pending"
         /\ op_state[o] = "live" /\ outcome[o] # "none" => Phase(o) = outcome[o]
         /\ op_state[o] \in {"new", "refused"} => Phase(o) = op_state[o]
BY DEF Phase

\* The op at work is pending until it ends.
LEMMA WorkIsPending ==
  ASSUME IndInv, HandoffInv, DrainInv, wpc \in {"signal", "fail"}
  PROVE  Phase(wop) = "pending" /\ outcome[wop] = "none"
<1>1. wop \in Ops /\ op_state[wop] = "live"
  BY SignalListOp
<1>2. outcome[wop] = "none"
  BY <1>1 DEF DrainInv, EndsOnce
<1> QED  BY <1>1, <1>2, PhaseOf

\* An op about to be signaled has reached all its waits.
LEMMA WorkIsReached ==
  ASSUME IndInv, wpc = "signal"
  PROVE  \A w \in Waits : WaitOp[w] = wop => timeline[WaitSem[w]] >= WaitVal[w]
BY DEF IndInv, AtWork, FiredIsReached, WaitsOf

\* A step that leaves the ops, the outcomes, the semaphores and the end of the
\* queue alone is not visible to a caller.
LEMMA Invisible ==
  ASSUME UNCHANGED <<op_state, outcome, timeline, sem_status>>,
         life' = "freed" <=> life = "freed"
  PROVE  UNCHANGED Contract!contractVars
<1>1. [o \in Ops |-> Phase(o)]' = [o \in Ops |-> Phase(o)]
  BY DEF Phase
<1>2. {s \in Sems : sem_status[s] # "ok"}' = {s \in Sems : sem_status[s] # "ok"}
  OBVIOUS
<1>3. (life = "freed")' = (life = "freed")
  OBVIOUS
<1> QED  BY <1>1, <1>2, <1>3 DEF Contract!contractVars

\* The phase of one op changes, and no other.
LEMMA OnePhase ==
  ASSUME NEW o \in Ops, NEW p, Phase(o)' = p,
         \A x \in Ops \ {o} : Phase(x)' = Phase(x)
  PROVE  [x \in Ops |-> Phase(x)]' = [[x \in Ops |-> Phase(x)] EXCEPT ![o] = p]
<1> DEFINE old == [x \in Ops |-> Phase(x)]
           new == [x \in Ops |-> Phase(x)']
<1>1. \A x \in Ops : new[x] = [old EXCEPT ![o] = p][x]
  OBVIOUS
<1>2. new = [old EXCEPT ![o] = p]
  BY <1>1
<1> QED  BY <1>2

\* What the mapping leaves alone when the semaphores or the end of the queue do
\* not change.
LEMMA SamePhases ==
  ASSUME UNCHANGED <<op_state, outcome>>
  PROVE  [o \in Ops |-> Phase(o)]' = [o \in Ops |-> Phase(o)]
BY DEF Phase

LEMMA SameBroken ==
  ASSUME UNCHANGED sem_status
  PROVE  {s \in Sems : sem_status[s] # "ok"}' = {s \in Sems : sem_status[s] # "ok"}
OBVIOUS

LEMMA SameClosed ==
  ASSUME UNCHANGED life
  PROVE  (life = "freed")' = (life = "freed")
OBVIOUS

-----------------------------------------------------------------------------
(***************************************************************************)
(* The visible steps.                                                      *)
(***************************************************************************)

\* enqueue submits the op, or refuses it.
LEMMA EnqueueSubmits ==
  ASSUME IndInv, DrainInv, NEW c \in Clients, NEW o \in Ops, Enqueue(c, o)
  PROVE  Contract!Submit(o)
<1>0. op_state \in [Ops -> {"new", "live", "freed", "refused"}] /\ EndsOnce
  BY DEF IndInv, TypeOK, OpTypeOK, DrainInv
<1>1. /\ life = "live" /\ op_state[o] = "new"
      /\ UNCHANGED <<timeline, sem_status, life, outcome>>
      /\ \E st \in {"live", "refused"} : op_state' = [op_state EXCEPT ![o] = st]
  BY DEF Enqueue
<1>2. outcome[o] = "none"
  <2>1. ASSUME wpc \in {"advance", "release"}, o = wop PROVE FALSE
    BY <1>1, <2>1 DEF IndInv, AtWork, HandedOnIsDone, DoneOps, Born, wop
  <2> QED  BY <1>0, <1>1, <2>1 DEF EndsOnce
<1>3. Phase(o) = "new"
  BY <1>1, PhaseOf
<1>4. \A x \in Ops \ {o} : Phase(x)' = Phase(x)
  BY <1>0, <1>1 DEF Phase
<1>5. Phase(o)' \in {"pending", "refused"}
  <2>1. CASE op_state'[o] = "live"
    BY <1>1, <1>2, <2>1 DEF Phase
  <2>2. CASE op_state'[o] = "refused"
    BY <1>1, <2>2 DEF Phase
  <2> QED  BY <1>0, <1>1, <2>1, <2>2
<1>6. \E p \in {"pending", "refused"} :
        [x \in Ops |-> Phase(x)]' = [[x \in Ops |-> Phase(x)] EXCEPT ![o] = p]
  BY <1>4, <1>5, OnePhase
<1> QED
  BY <1>1, <1>3, <1>6, SameBroken, SameClosed DEF Contract!Submit

\* A client signals a semaphore.
LEMMA ClientSignals ==
  ASSUME IndInv, NEW c \in Clients, ClientSignal(c)
  PROVE  \E s \in Sems : Contract!HostSignal(s)
<1>1. PICK s \in HostSems, v \in 1..MaxValue : CanAdvance(s, v) /\ Advance(c, s, v)
  BY DEF ClientSignal
<1>2. s \in Sems /\ timeline \in [Sems -> Nat] /\ v \in Nat
  BY ConstantsAssumption DEF IndInv, TypeOK, OpTypeOK
<1>3. /\ sem_status[s] = "ok" /\ timeline[s] < v
      /\ timeline' = [timeline EXCEPT ![s] = v]
      /\ UNCHANGED <<sem_status, life, op_state, outcome>>
  BY <1>1 DEF CanAdvance, Advance, ClientSignal
<1>4. timeline'[s] = v
  BY <1>2, <1>3
<1>5. s \in HostSems \ {r \in Sems : sem_status[r] # "ok"}
  BY <1>3
<1>6. Contract!HostSignal(s)
  BY <1>3, <1>4, <1>5, SamePhases, SameBroken, SameClosed DEF Contract!HostSignal
<1> QED  BY <1>2, <1>6

\* What failing a semaphore does to the set of the failed.
LEMMA FailBreaks ==
  ASSUME IndInv, NEW t \in Threads, NEW s \in Sems, NEW st, st # "ok",
         FailSem(t, s, st)
  PROVE  {r \in Sems : sem_status[r] # "ok"}' = {r \in Sems : sem_status[r] # "ok"} \cup {s}
<1>1. sem_status \in [Sems -> Status]
  BY DEF IndInv, TypeOK, OpTypeOK
<1>2. sem_status' = [sem_status EXCEPT ![s] = IF @ = "ok" THEN st ELSE @]
  BY DEF FailSem
<1>3. \A r \in Sems : sem_status'[r] # "ok" <=> (sem_status[r] # "ok" \/ r = s)
  BY <1>1, <1>2
<1> QED  BY <1>3

\* A client fails a semaphore.
LEMMA ClientFails ==
  ASSUME IndInv, NEW c \in Clients, ClientFail(c)
  PROVE  \E s \in Sems : Contract!HostFail(s)
<1>1. PICK s \in HostSems : FailSem(c, s, "failed")
  BY DEF ClientFail
<1>2. s \in Sems /\ c \in Threads
  BY ConstantsAssumption DEF Threads
<1>3. UNCHANGED <<timeline, life, op_state, outcome>>
  BY <1>1 DEF FailSem, ClientFail
<1>4. Contract!HostFail(s)
  BY <1>1, <1>2, <1>3, FailBreaks, SamePhases, SameClosed DEF Contract!HostFail
<1> QED  BY <1>2, <1>4

\* The worker signals a semaphore of the op's list, or finds that it cannot.
LEMMA WorkerSignals ==
  ASSUME IndInv, HandoffInv, DrainInv, WSignal
  PROVE  \/ \E o \in Ops, s \in Sems : Contract!OpSignal(o, s)
         \/ UNCHANGED Contract!contractVars
<1>1. wpc = "signal" /\ UNCHANGED <<life, op_state, outcome, sem_status>>
  BY DEF WSignal, Advance
<1>2. CASE UNCHANGED timeline
  BY <1>1, <1>2, Invisible
<1>3. CASE ~ UNCHANGED timeline
  <2>1. PICK s \in wsig : /\ CanAdvance(s, SignalList[wop][s])
                          /\ Advance(Worker, s, SignalList[wop][s])
    BY <1>3 DEF WSignal
  <2>2. wop \in Ops /\ s \in Sems /\ s \in DOMAIN SignalList[wop]
    BY <1>1, SignalListOp
  <2>3. /\ sem_status[s] = "ok" /\ timeline[s] < SignalList[wop][s]
        /\ timeline' = [timeline EXCEPT ![s] = SignalList[wop][s]]
    BY <2>1 DEF CanAdvance, Advance
  <2>4. s \in DOMAIN SignalList[wop] \ {r \in Sems : sem_status[r] # "ok"}
    BY <2>2, <2>3
  <2>5. [x \in Ops |-> Phase(x)][wop] = "pending"
    BY <1>1, <2>2, WorkIsPending
  <2>6. Contract!OpSignal(wop, s)
    BY <1>1, <2>3, <2>4, <2>5, WorkIsReached, SamePhases, SameBroken, SameClosed
    DEF Contract!OpSignal, Contract!WaitsReached
  <2> QED  BY <2>2, <2>6
<1> QED  BY <1>2, <1>3

\* The worker fails a semaphore of the op's list.
LEMMA WorkerFails ==
  ASSUME IndInv, HandoffInv, DrainInv, WFail
  PROVE  \E o \in Ops, s \in Sems : Contract!OpFail(o, s)
<1>1. wpc = "fail" /\ UNCHANGED <<life, op_state, outcome, timeline>>
  BY DEF WFail, FailSem
<1>2. PICK s \in wsig : FailSem(Worker, s, wstatus)
  BY DEF WFail
<1>3. wop \in Ops /\ s \in Sems /\ s \in DOMAIN SignalList[wop]
  BY <1>1, SignalListOp
<1>4. wstatus # "ok" /\ Worker \in Threads
  BY <1>1 DEF IndInv, ErrorKept, Threads
<1>5. [x \in Ops |-> Phase(x)][wop] = "pending"
  BY <1>1, <1>3, WorkIsPending
<1>6. Contract!OpFail(wop, s)
  BY <1>1, <1>2, <1>3, <1>4, <1>5, FailBreaks, SamePhases, SameClosed
  DEF Contract!OpFail
<1> QED  BY <1>3, <1>6

\* The worker ends the op at work after its whole signal list.
LEMMA WorkerEnds ==
  ASSUME IndInv, HandoffInv, DrainInv, SignalsDone, WSignaled \/ WFailed
  PROVE  \E o \in Ops : Contract!End(o)
<1>1. /\ wpc \in {"signal", "fail"} /\ wsig = {}
      /\ UNCHANGED <<life, op_state, timeline, sem_status>>
  BY DEF WSignaled, WFailed
<1>2. wop \in Ops /\ op_state[wop] = "live" /\ DOMAIN SignalList[wop] \subseteq Sems
  BY <1>1, SignalListOp
<1>3. /\ outcome[wop] = "none" /\ outcome \in [Ops -> {"none", "signaled", "failed", "twice"}]
      /\ [x \in Ops |-> Phase(x)][wop] = "pending"
  BY <1>1, <1>2, WorkIsPending DEF IndInv, TypeOK, HistoryTypeOK
<1>4. ASSUME NEW how \in {"signaled", "failed"}, Ends(wop, how)
      PROVE  [x \in Ops |-> Phase(x)]' = [[x \in Ops |-> Phase(x)] EXCEPT ![wop] = how]
  <2>1. outcome' = [outcome EXCEPT ![wop] = how]
    BY <1>2, <1>3, <1>4 DEF Ends
  <2>2. PICK o \in Ops : o = wop
    BY <1>2
  <2>3. \A x \in Ops \ {o} : Phase(x)' = Phase(x)
    BY <1>1, <1>3, <2>1, <2>2 DEF Phase
  <2>4. op_state'[o] = "live" /\ outcome'[o] = how
    BY <1>1, <1>2, <1>3, <2>1, <2>2
  <2>5. Phase(o)' = how
    BY <2>4 DEF Phase
  <2>6. [x \in Ops |-> Phase(x)]' = [[x \in Ops |-> Phase(x)] EXCEPT ![o] = how]
    BY <2>3, <2>5, OnePhase
  <2> QED  BY <2>2, <2>6
<1>5. CASE WSignaled
  <2>1. wpc = "signal" /\ Ends(wop, "signaled")
    BY <1>5 DEF WSignaled
  <2>2. \A s \in DOMAIN SignalList[wop] : timeline[s] >= SignalList[wop][s]
    BY <1>1, <2>1 DEF SignalsDone
  <2>3. Contract!End(wop)
    BY <1>1, <1>3, <1>4, <2>1, <2>2, WorkIsReached, SameBroken, SameClosed
    DEF Contract!End, Contract!WaitsReached
  <2> QED  BY <1>2, <2>3
<1>6. CASE WFailed
  <2>1. wpc = "fail" /\ Ends(wop, "failed")
    BY <1>6 DEF WFailed
  <2>2. DOMAIN SignalList[wop] \subseteq {s \in Sems : sem_status[s] # "ok"}
    BY <1>1, <1>2, <2>1 DEF SignalsDone
  <2>3. Contract!End(wop)
    BY <1>1, <1>3, <1>4, <2>1, <2>2, SameBroken, SameClosed DEF Contract!End
  <2> QED  BY <1>2, <2>3
<1> QED  BY <1>5, <1>6

\* The worker releases an op that has ended.
LEMMA WorkerReleases ==
  ASSUME IndInv, HandoffInv, DrainInv, WRelease
  PROVE  \E o \in Ops : Contract!Release(o)
<1>1. /\ wpc = "release" /\ op_state' = [op_state EXCEPT ![wop] = "freed"]
      /\ UNCHANGED <<life, outcome, timeline, sem_status>>
  BY DEF WRelease
<1>2. PICK o \in Ops : o = wop
  BY <1>1, WorkerOp
<1>3. op_state[o] = "live"
  BY <1>1, <1>2, WorkerOp
<1>4. outcome[o] \in {"signaled", "failed"}
  BY <1>1, <1>2 DEF DrainInv, EndsOnce, IndInv, TypeOK, HistoryTypeOK
<1>5. [x \in Ops |-> Phase(x)][o] \in {"signaled", "failed"}
  BY <1>3, <1>4, PhaseOf
<1>6. op_state \in [Ops -> {"new", "live", "freed", "refused"}]
  BY DEF IndInv, TypeOK, OpTypeOK
<1>7. \A x \in Ops \ {o} : Phase(x)' = Phase(x)
  BY <1>1, <1>2, <1>6 DEF Phase
<1>8. op_state'[o] = "freed"
  BY <1>1, <1>2, <1>6
<1>9. Phase(o)' = "released"
  BY <1>8 DEF Phase
<1>10. [x \in Ops |-> Phase(x)]' = [[x \in Ops |-> Phase(x)] EXCEPT ![o] = "released"]
  BY <1>7, <1>9, OnePhase
<1>11. Contract!Release(o)
  BY <1>1, <1>5, <1>10, SameBroken, SameClosed DEF Contract!Release
<1> QED  BY <1>11

\* destroy returns with nothing pending.
LEMMA DestroyCloses ==
  ASSUME IndInv, HandoffInv, DrainInv, NEW c \in Clients, DestroyFree(c)
  PROVE  Contract!Close \/ UNCHANGED Contract!contractVars
<1>1. /\ wpc = "exited" /\ life' = "freed"
      /\ UNCHANGED <<op_state, outcome, timeline, sem_status>>
  BY DEF DestroyFree
<1>2. CASE life = "freed"
  BY <1>1, <1>2, Invisible
<1>3. CASE life # "freed"
  <2>1. \A o \in Ops : op_state[o] # "live"
    BY <1>1, ExitedIsEmpty DEF NothingLeftBehind
  <2>2. \A o \in Ops : [x \in Ops |-> Phase(x)][o] \in {"new", "refused", "released"}
    BY <2>1, PhaseOf DEF IndInv, TypeOK, OpTypeOK
  <2>3. ~ (life = "freed") /\ (life = "freed")' = TRUE
    BY <1>1, <1>3
  <2> QED  BY <1>1, <2>2, <2>3, SamePhases, SameBroken DEF Contract!Close
<1> QED  BY <1>2, <1>3

\* Every step is a step of the contract, or invisible.
LEMMA StepSimulates ==
  ASSUME IndInv, HandoffInv, DrainInv, SignalsDone, [Next]_vars
  PROVE  [Contract!ContractNext]_(Contract!contractVars)
<1> DEFINE Goal == [Contract!ContractNext]_(Contract!contractVars)
<1>1. ASSUME NEW c \in Clients, NEW o \in Ops, Enqueue(c, o) PROVE Goal
  BY <1>1, EnqueueSubmits DEF Contract!ContractNext
<1>2. ASSUME NEW c \in Clients, ClientSignal(c) PROVE Goal
  BY <1>2, ClientSignals DEF Contract!ContractNext
<1>3. ASSUME NEW c \in Clients, ClientFail(c) PROVE Goal
  BY <1>3, ClientFails DEF Contract!ContractNext
<1>4. CASE WSignal
  BY <1>4, WorkerSignals DEF Contract!ContractNext
<1>5. CASE WFail
  BY <1>5, WorkerFails DEF Contract!ContractNext
<1>6. CASE WSignaled \/ WFailed
  BY <1>6, WorkerEnds DEF Contract!ContractNext
<1>7. CASE WRelease
  BY <1>7, WorkerReleases DEF Contract!ContractNext
<1>8. ASSUME NEW c \in Clients, DestroyFree(c) PROVE Goal
  BY <1>8, DestroyCloses DEF Contract!ContractNext
<1>9. ASSUME UNCHANGED <<op_state, outcome, timeline, sem_status>>,
             ~ \E c \in Clients : DestroyFree(c),
             ~ \E c \in Clients, o \in Ops : Enqueue(c, o)
      PROVE  life' = "freed" <=> life = "freed"
  <2>1. CASE Create \/ \E c \in Clients : AwaitDrain(c) \/ AssignTopology(c)
    BY <2>1 DEF Create, AwaitDrain, AssignTopology
  <2>2. CASE \/ \E t \in Threads : PushSplice(t) \/ PushPost(t)
             \/ \E c \in Clients : EnqueueLink(c) \/ CancelDec(c) \/ DestroyShutdown(c)
    BY <2>2 DEF PushSplice, PushPost, EnqueueLink, CancelDec, DestroyShutdown
  <2>3. CASE WPrepare \/ WAdvance \/ WUncount \/ WDrained
    BY <2>3 DEF WPrepare, WAdvance, WUncount, WDrained
  <2> QED  BY <1>9, <2>1, <2>2, <2>3, Writers DEF QueueWriters
<1>10. ASSUME UNCHANGED <<op_state, outcome, timeline, sem_status>>,
              ~ \E c \in Clients : DestroyFree(c),
              ~ \E c \in Clients, o \in Ops : Enqueue(c, o)
       PROVE  Goal
  BY <1>9, <1>10, Invisible
<1> QED
  BY <1>1, <1>2, <1>3, <1>4, <1>5, <1>6, <1>7, <1>8, <1>10, Writers
  DEF OpStateWriters, HistoryWriters, TimelineWriters, StatusWriters

-----------------------------------------------------------------------------
(***************************************************************************)
(* The theorems.                                                           *)
(***************************************************************************)

\* The worker has signaled, or failed, what it has taken off the signal list.
THEOREM SignalsInductive == Spec => []SignalsDone
<1>1. Init => SignalsDone
  BY DEF Init, SignalsDone
<1>2. IndInv /\ HandoffInv /\ SignalsDone /\ [Next]_vars => SignalsDone'
  BY SignalsDoneStep
<1> QED  BY <1>1, <1>2, Inductive, HandoffInductive, PTL DEF Spec

\* The queue with its threads, lists and counters implements the contract of
\* async_queue.h: an accepted op ends exactly once, signals its list only after
\* its waits and fails all of it otherwise, is released after that, and none is
\* left when destroy returns.
THEOREM Refinement == Spec => KeepsContract
<1>1. Init => Contract!ContractInit
  <2> SUFFICES ASSUME Init PROVE Contract!ContractInit
    OBVIOUS
  <2>1. [o \in Ops |-> Phase(o)] = [o \in Ops |-> "new"]
    BY PhaseOf DEF Init
  <2>2. {s \in Sems : sem_status[s] # "ok"} = {}
    BY DEF Init
  <2>3. (life = "freed") = FALSE /\ timeline = [s \in Sems |-> 0]
    BY DEF Init
  <2> QED  BY <2>1, <2>2, <2>3 DEF Contract!ContractInit
<1>2. IndInv /\ HandoffInv /\ DrainInv /\ SignalsDone /\ [Next]_vars
        => [Contract!ContractNext]_(Contract!contractVars)
  BY StepSimulates
<1> QED
  BY <1>1, <1>2, Inductive, HandoffInductive, DrainInductive, SignalsInductive, PTL
  DEF Spec, KeepsContract, Contract!ContractSpec

=============================================================================
