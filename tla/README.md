# TLA+ verification of the IREE AMD AIE compiler and runtime

This directory is a verification development for the repository it lives in:
TLA+ models of the asynchronous core of the `amdxdna` HAL driver and of the
compiler passes that produce what it runs, TLC configurations that model-check
them on small instances, and proofs checked by TLAPS for every value of the
constants. Paths below without a directory are in
`runtime/src/iree-amd-aie/driver/amdxdna/`; names of passes are files of
`compiler/plugins/target/AMD-AIE/iree-amd-aie/Transforms/` (`AMDAIE*.cpp`).

## 1. Inventory of the system

The repository has two halves. The compiler plugin
(`compiler/plugins/target/AMD-AIE`) lowers tensor programs to AIE control code;
the runtime (`runtime/src/iree-amd-aie`) has the HAL drivers that load and run
that code, and an AIE hardware library both halves use. The threads and the
failures are in the runtime. The compiler is sequential, but what it produces is
not: control code that races the DMA channels it programs, and cores and DMAs
that meet only in locks. A pass that moves a wait, reuses a descriptor or fixes
a buffer in the text is right or wrong by what those engines then do.

| Component | State | Operations | Hard behaviour | What makes it correct |
|---|---|---|---|---|
| Asynchronous queue (`async_queue.cc`) | ready stack, inflight list, per-op wait count and error, shutdown flag, notifications, frontier epoch | create, enqueue, `wait_resolved` callback, `push_ready`, worker loop, `cancel_inflight`, destroy | lock-free push from any thread, callbacks on the signalling thread, cancellation racing callbacks, teardown | an op ends exactly once, after its waits; nothing is freed in use; no lost wakeup; destroy returns |
| Semaphores (`nop_semaphore.cc`) | timeline value, sticky failure, timepoint list | signal, fail, query, wait | callbacks run inside signal and fail | monotone; a timepoint fires once |
| Direct command buffer (`direct_command_buffer.cc`) | accumulated chain groups, resource set | barrier, update, fill, copy, dispatch, end | deferred chains, chunking, contexts shared, fresh or kept, a failing call in the middle | the list acts as recorded; the host sees results; each slot runs on its own image |
| Device (`device.cc`) | context cache, topology and tracker, queue, block pool, allocator | create, destroy, assign_topology_info, queue_alloca/dealloca/copy/execute, barrier | work is checked at submission and runs later on the worker | an operation fails only for its own reasons; teardown order |
| Buffers, allocator (`buffer.cc`, `allocator.cc`) | native buffer, deallocated flag | map, unmap, invalidate, flush, wrap, import | the two views of a buffer; range arithmetic | ranges stay inside the root allocation |
| Executables (`executable.cc`) | entry points, kept context and CU | load and verify, lookup | untrusted sizes; run-list shapes | a verified executable is safe to replay |
| Native layer (`native_linux_kmq.cc`) | context, queue, command | create context, open CU, submit and wait, prepare chain | limits of an exec buffer | chunks fit |
| KMQ shim (`shim/linux/kmq`) | DRM handles, fence state | ioctls | kernel boundary | - |
| Driver, registration (`driver.cc`) | options | parse, create | - | - |
| XRT driver (`driver/xrt`) | as above, synchronous | HAL entry points | none: one thread, no-op semaphores | - |
| AIE device model (`aie_runtime`) | hardware tables | queries, configuration | - | legality tables |
| AIE resource generators (`aie_runtime/Utils`) | assigned BD ids, channels, locks | assign, release | exhaustion, reuse | no id is assigned twice |
| AIE router, amsel generator (`aie_runtime`) | switchbox connections, arbiters | find paths, solve | iteration to a fixed point | no over-used port or arbiter |
| Control code passes (`AssignNpuDmaBdIds`, `ControlCodeLoopUnroll`, `InsertDmaBdChain`, `FoldDmaWaits`, `ControlCodeLowering`) | the control code; then descriptors, task queues and tokens of the shim | assign ids, unroll, chain, fold waits, lower; then write, push, sync | descriptors are reused while waits are erased and moved, channels run concurrently | the transfers are those of the unrolled code, in order; the end means all done |
| DMA composition (`DmaLoopSubsumption`, `CombineStridedOps`, `CanonicalizeDoublyStridedOp`, `DmaComposition`) | control code with loops and access patterns | five rewrite patterns, moving of waits | any order of rewriting; arithmetic on patterns; limits of the hardware | the same addresses in the same order, no synchronisation lost, rewriting ends |
| Object fifos (`ObjFifoBufferization`, `LowerToAIE`, `AccessToAcquireRelease`, `AcquireReleaseToUseLock`, `InsertInfiniteLoopAroundCoreBlock`) | buffers, two locks per fifo, descriptor rings, core code | acquire, release, transfer | every channel and core at its own speed | every object arrives, whole and in order |
| Other compiler passes, AIE dialect, AIEVec | the IR | tilings and local rewrites | none of their own | the semantics of MLIR dialects |

Interaction. A HAL call such as `queue_execute` wraps its arguments in an op
and calls `enqueue`. The op waits on semaphores through timepoints whose
callbacks run on whichever thread signals. The callback that settles the last
timepoint pushes the op on the ready stack; the worker takes the stack, calls
the op function, which replays the command list through a direct command
buffer, and then signals or fails the op's semaphores, which can fire callbacks
of further ops on the worker itself. Destroy cancels what still waits, waits
until nothing is in flight, stops the worker and frees the queue.

`PROJECT.json` lists all components with their status and, under `hazards`,
every place where this code is hard to test, with the properties that cover it
or the reason why none does yet.

## 2. Modules

| Module | Models | Role |
|---|---|---|
| `AsyncQueue` | `async_queue.cc`, what it uses of semaphores, `assign_topology_info` | detailed model, invariants, liveness |
| `QueueContract` | the interface comments of `async_queue.h` | abstract specification |
| `MCAsyncQueue` | - | instances for TLC |
| `AsyncQueueProofs` | - | proofs: types, wait counting, who runs when |
| `AsyncQueueHandoff` | - | proofs: the way of an op from list to list |
| `AsyncQueueDrain` | - | proofs: counting, shutdown, notifications |
| `AsyncQueueRefinement` | - | proof that the queue implements `QueueContract` |
| `AsyncQueueOrder` | - | proofs: order of wait-free ops |
| `CommandBuffer` | `direct_command_buffer.cc`; the op functions and the context cache of `device.cc`; contexts, chain limits and submission of `native_linux_kmq.cc`; the kept context of an executable | detailed model with a reference semantics of command lists |
| `MCCommandBuffer` | - | instances for TLC |
| `CommandBufferProofs` | - | proofs: types, images, errors, what the host sees |
| `CommandOrder` | - | proof that a list acts as recorded |
| `BdIdGenerator` | `aie_runtime/Utils/ChannelBdIdGenerator` | operators on generators |
| `AssignNpuDmaBdIds` | `AssignNpuDmaBdIds`, `ControlCodeLoopUnroll`, `NpuDmaToHalfDmaCpyNd` | the passes as operators on programs |
| `NpuDmaPasses` | `InsertDmaBdChain`, `FoldDmaWaits`, `ControlCodeLowering` | the passes as operators on programs |
| `NpuControlCode` | their order in `Passes.cpp`, `ControlCodeToTransaction`, the shim (external) | composes the passes with the engines that run the result |
| `DmaUtils` | `Utils/AMDAIEDmaUtils` | access patterns and the helpers on them |
| `DmaComposition` | the composition pass and its five patterns | rewriting as actions, reference semantics of control code |
| `CoreLocks` | the three core passes of object fifos | operators on core code |
| `FifoEngines` | locks and buffers of `ObjFifoBufferization`, the rings of `createDMABlocks` and `connectionToAIE` of `LowerToAIE`; channels, cores and shim at work | the running half, for any compiler whose core code is in step |
| `FifoContract` | the acquire, release and from_buffers operations of `AMDAIEOps.td` | abstract specification: bounded queues |
| `ObjectFifos` | what the passes refuse, which blocks a descriptor moves, the core code | composes `CoreLocks` and `DmaUtils`, then runs `FifoEngines` |
| `FifoProofs` | - | proofs: buffers, queues |
| `MCNpuControlCode`, `MCDmaComposition`, `MCObjectFifos` | - | instances for TLC |

`CommandBuffer` is what one `WRun` step of `AsyncQueue` does, in detail: the
queue model only needs to know that an op function succeeds or fails, and the
command model only needs to know that one worker runs ops one after another.
The two are therefore separate, and neither repeats the other.

### AsyncQueue

Threads are the clients and the worker. An action is one access to shared
memory: an atomic operation, one critical section of `inflight_mutex`, or one
call of a semaphore or notification function. The walk of `cancel_inflight`
holds the mutex over several actions (`MutexFree` guards the others).

| Code | Actions |
|---|---|
| `create` | `Create` (may fail) |
| `enqueue` | `Enqueue` (accepted, or refused on an allocation failure), `EnqueueLink`, `EnqueueArm` (once per timepoint: armed, already reached or failed, refused), `EnqueueReturn` |
| semaphore signal and fail | `ClientSignal`, `ClientFail`, then `Dispatch` of the timepoints hit |
| `wait_resolved` | `WaitError`, `WaitDec` |
| `push_ready` | `PushSplice`, `PushReady`, `PushPost` |
| `worker_main` | `WLoad`, `WExchange`, `WCount`, `WPrepare`, `WRecheck`, `WCommit`, `WRun`, `WSignal`, `WSignaled`, `WAdvance`, `WFail`, `WFailed`, `WRelease`, `WUncount`, `WDrained` |
| `destroy`, `cancel_inflight` | `Destroy`, `CancelLock`, `CancelTimepoint`, `CancelOp`, `CancelDec`, `CancelUnlock`, `CancelPush`, `AwaitDrain`, `AwaitCommit`, `DestroyShutdown`, `DestroyFree` |
| `assign_topology_info` | `AssignTopology` |

The nesting of calls on a thread is kept: while `sig`, `todo`, `cb` or `push`
of a thread is busy, the thread does not proceed in its own `pc` (`Free(t)`).

Memory model. Every shared field of the queue that two threads touch without
the mutex is an atomic accessed with acquire, release or acq_rel order, each on
one location whose value carries the whole decision, so interleaving semantics
loses no outcome that the properties speak of. The frontier tracker is the
exception: a plain field read twice by the worker; both reads are actions.

External parts (marked so in the map): semaphores are a monotone timeline with
a sticky failure whose timepoints fire once; a notification is a bit "posted
since prepare_wait", because each has one waiter.

`refused`, `signal_error` and similar statuses name who caused a failure
instead of carrying an `iree_status_t`.

### CommandBuffer

A behaviour is the replay of a script of operations by the worker. State: the
place in the script and the list, the chain groups, the two copies of each
buffer (`host`, `dev`; only syncs move bytes between them), the contexts with
their image and current configuration, the context cache, the kept contexts.

| Code | Definitions |
|---|---|
| `queue_execute_op_fn`, `create`, `destroy` | `QueueExecute`, `Abort`, `Refuse`, `Fault` |
| `copy_buffer_ranges`, `dealloca_op_fn`, empty op | `QueueCopy`, `QueueDealloca`, `QueueBarrier` |
| `execution_barrier` and events | `Barrier` |
| `update_buffer`, `fill_buffer`, `copy_buffer` | `Write`, `Copy` |
| `dispatch` | `DispatchFresh`, `DispatchCached`, `DispatchKept`, `DispatchFails`, `Proceed` |
| `get_or_create_context` | `GetOrCreate`, `CacheKey` |
| `normal_run`, `reconfigure` | `Calls`, `RunCall` |
| `accumulate_chained` | `Accumulate`, `NewGroup`, `Slots` |
| `end`, `flush_chains`, `submit_chain` | `End`, `ChunkEnd`, `FlushChunk`, `ChainSlot`, `FlushSync` |

Abstractions. Contents of memory are terms that record how they were computed
(which kernel, which run, under which configuration, from what), so two
memories are equal exactly when no reader could tell the orders apart. A
binding list is one source and one target. Contexts are addresses: one is
alive while a `shared_ptr` refers to it (`Alive`), afterwards its address can be
used again; the bare `queue` pointer of a group does not keep it alive. Any
native call may fail, `MaxFaults` times; a call that fails may have had its
effect or not, and a chain that fails has run some prefix. The words of the
control code and their patching are not in this model. `update_buffer` and
`fill_buffer` are one action: they differ in the bytes they write. The scribble
over discarded mappings of debug builds is left out: on success it is
overwritten before anyone reads it.

The reference is `InOrder`: every command takes effect where it was recorded.
It is a recursive function over the list (`Memories`), with one over the runs of
a dispatch inside it (`Executions`), so that proofs can speak about it.

Two assumptions on the constants are named: `ScriptsAssumption` (scripts are
made of well-formed operations on known buffers and executables; what the
driver refuses at run time is not excluded) and `ExecBufferAssumption` (one
entry of a chain fits the exec buffer, which has 4096 bytes in the code).

### NpuControlCode

The first four actions are the passes in the order of
`addAMDAIEObjectFifoLoweringPasses`; each replaces the program. `source` keeps
the unrolled program, where each transfer has its wait, as the reference. Then
the controller executes the lowered operations one by one (`WriteBd`,
`PushToQueue`, `TctSync`) while each channel takes a task from its queue, reads
the descriptor in that moment (`StartTask`) and moves data (`MoveData`), along
the chain of `next_bd`, with a token at the end if the push asked for one.

External: the channels, and the array behind them (`Ready`): an output has data
once the inputs before it arrived, and an input may run ahead by `ArraySlack`
transfers. Without that the shim would only ever see transfers in program
order. A program with more DMAs in flight than descriptors is rejected, as in
the code.

A program is a nest of `dma`, `wait`, `barrier` and `for`; access patterns are
reduced to whether they need a repeat count above one, which is all that
chaining looks at. Scope checks of the passes hold after unrolling and are not
repeated. `reprogramDmas`, which leaves out wait folding, is not modelled.

### DmaComposition

`Subsume`, `Combine`, `FoldUnits`, `FoldLinear` and `Expand` are the patterns,
tried at every operation of every block; the greedy driver is external and may
choose any order. `MoveSyncUsers` is the rest of the pass, once nothing matches.
`Run` executes a control code: loops run, patterns turned into addresses. The
properties compare `Run(program)` with `Run(given)` after every rewriting step.

`DmaUtils` keeps all of the arithmetic (offsets `base + scale * iv`, sizes,
strides, the limits of a side). Division by a zero stride, undefined in
`matchStridesOfUnitDims`, has no value, and the instances keep clear of it.
64-bit overflow is out of the range of any pattern the hardware accepts.

### FifoEngines and ObjectFifos

`Compile` of `ObjectFifos` runs the passes on a design and hands `FifoEngines`
the blocks each channel moves and the code of each core; `CompileFails` is their
refusal. The two halves are separate because the passes are recursions over
programs and the engines are not: `ArraySpec` runs the engines under any
compiler (`Loads`) that gives each channel blocks and keeps the core code in
step with the rings (`CoresInStep`), and `CompilesInStep` checks that the passes
do. From then on each DMA channel goes around its ring of descriptors (`StartDescriptor`
acquires, `SendObject` and `ReceiveObject` move one object and release), each
core around its unrolled text (`AcquireRead`, `AcquireWrite`, `ReleaseRead`,
`ReleaseWrite`), and the shim sends and receives. A stream holds one object per
target; a broadcast moves when all its targets are free. Contents are sequences
of the shim objects they were computed from, so the received objects show what
was lost, repeated or overwritten. A buffer taken for writing is undefined
until it is written, and a core reads until the very moment it releases.

`FifoContract` is what a fifo promises: a queue of at most its depth. The
refinement mapping (`Queue`) reads the queue off the array: the buffers behind
the one the producer is at, as many as the consumer lock and the consumer's own
claim count. It covers the fifos with one connection, broadcast or not, or one
core at each end (`OneToOne`).

`CoreLocks` unrolls as `mlir::loopUnrollByFactor` does (external, with the
canonicalizer before it): a main or epilogue loop of one trip is promoted into
the block around it, so that the walk from the inside out finds its acquires
there and unrolls the outer loop by them.

Lock and channel numbers are names here: the generators hand out the next free
one, and only their limit matters (`LocksPerTile`).

## 3. Runs

| Run | Instance | Checks | States |
|---|---|---|---|
| `queue_join` | 2 clients, 1 op with 2 waits on host semaphores, topology calls | `TypeOK`, `WaitCountIsHeld`, `NoUseAfterFree`, `ArmedIsLinked`, `RunsOnlyAfterWaits`, `NoLostWakeup`, refinement `KeepsContract` | 1.2 million |
| `queue_progress` | 1 client, 2 ops without waits, a third that waits for what the first or the client signals | `PushedOnce`, `NothingLeftBehind`, `SubmissionOrder`, liveness `ReachedOpsEnd`, `DestroyReturns` | 420 thousand |
| `queue_last_read` | 1 op | violation, section 5 | - |
| `commands` | with and without chains: every list of up to 3 of 7 commands, then a second list; and lists with what the driver refuses after an operation that prepares or spoils something; kernels and reconfigurations twice, small chunks, at most 14 bindings, 1 fault | `TypeOK`, `ChainedOrder`, `HostSeesResults`, `RunsOnItsImage`, `OnlyRealErrors`, liveness `AllOperationsEnd` | 1.1 million |
| `commands_reordered` | two commands with a barrier between them, chains | violation, section 5 | - |
| `npu_control_code` | 4 connections, 4 descriptors, queues of 2 tasks. One tile: loops, nests, barriers, with packet flows and repeat counts. Two tiles: loops and barriers of all circuit or all packet flows whose tiles serve equally many connections, and loops that wait for each DMA | `TransfersInOrder`, `EndWaitsForAll`, `QueueWithinLimit`, `PacketOrder`, `BarrierSeparates`, liveness `Completes` | 183 thousand |
| `npu_folded` | 3 connections of one tile, each DMA with its own wait | violation, section 5 | - |
| `npu_uneven_tiles` | 3 trips of 2 inputs and an output, one input on a tile of its own | violation, section 5 | - |
| `dma_composition` | about 400 control codes: the shapes of the passes' tests and all pairs of 19 patterns | `AddressesKept`, `SyncKept`, `WaitsMatch`, liveness `Terminates` | 1,598 |
| `dma_two_offsets` | one loop variable in two offsets | violation, section 5 | - |
| `object_fifos` | one core (depths 1 and 2, repetition, reduction, peeled loop, a loop of 3 trips over 2 buffers), two inputs, two cores with broadcast, joined outputs, refused designs | `DataInOrder`, `BufferExclusive`, `ReadsOldest`, action property `CompilesInStep`, refinement `ActsAsQueue`, liveness `AllDelivered` | 111 thousand |
| `fifo_odd_loop` | a loop of 5 trips over fifos of depth 3 | violation, section 5 | - |

Why the bounds are enough. *Queue*: the races are between the parties that
settle one op's timepoints (two callbacks on two threads, a refused
registration, the canceller) and between the last push and the worker or the
destroyer. Two clients plus the worker give every pair and the triple of
parties on one op with two waits. The three ops of `queue_progress` give a stack
of more than one entry next to a waiting op, and the third waits for what the
first signals, which gives callbacks on the worker and pushes while it is busy.
Two clients with several ops each are left to the theorems of section 4, which
hold for any number of both. Timelines up to `MaxValue` (1 or 2) suffice since a wait only
compares with its own value; 2 in `queue_join` lets a client overtake the op's
own signal. *Commands*: a list of three dispatches can leave a context and come
back to it, a group of three slots or more crosses a chunk boundary, and the
addresses are few enough that dead ones are used again. One fault at any call
reaches every error path; the second operation shows what it left behind.
*Control code*: with four descriptors per tile a loop of five trips reuses every
id, chains close on a duplicate, and queues of two fill up; the loops are long
enough for a second fold after a full queue. What the run claims of several tiles
is limited, because the passes are not right for all placements. Descriptors are
shared out per tile, and chains and queues close when an id comes back on the
same tile. `EvenTiles` are the placements where every tile in use serves equally
many connections of the loop, so that all of them close in the same trip. In
uneven placements `Completes` fails (`npu_uneven_tiles`), with five trips also
`TransfersInOrder` (a batch moves the wait of a chain past the write of a
descriptor inside the chain) and, where nothing is chained, `QueueWithinLimit`
(a batch moves a wait past a further push). Nests, whose outer DMA makes the
tiles uneven, and circuit and packet flows mixed on several tiles can deadlock
in the same way. None of these is in `ControlCodes`. *Composition*: two or three
addressing dimensions and wraps of six make the limits bite on patterns of a
few elements; all pairs of patterns are tried. *Fifos*: two buffers and three
objects let the ring go around once and a half, seven objects with reductions.
A fifo joined from several producers moves one object only, because the code
gives them one common counter, which cannot keep them in step for longer when
their speeds differ; that is listed as a hazard, and not claimed. Of two cores
one sends its output through a memory tile and one straight to the shim, and of
two inputs one comes straight from it, which keeps both kinds of path in the
instance without a product of independent pipelines.

Bounds are named: `MaxValue`, `MaxFaults`, `Contexts`, `Scripts`, `Programs`,
`Designs`, `ArraySlack`; the other constants are limits of the code or the
device made small (`ChainBytes`, `ArgCapacity`, `NumBdIds`, `MaxQueueSize`,
`LocksPerTile`, the dimension limits). Symmetry is used over clients and over
context addresses, never with a liveness property; `KeepsContract`, checked with
symmetric clients, is a safety property in which clients do not occur. Deadlock checking is off
where the system ends (scripts, rewriting, a finite supply of objects); the
queue and the control code keep it on, with `Finished` and `Terminated` as the
only stops.

Fairness. `FairSpec` of the queue assumes weak fairness of each thread inside a
call (`CallStep`, `ClientStep`) and of the worker: threads are scheduled.
Nothing obliges a client to call anything, signal anything or ever destroy the
queue. `Spec` of the commands assumes weak fairness of `Next`: the worker runs
on and a native call returns. The latter is an assumption about the kernel
driver, since `submit_and_wait` waits without a timeout. The control code
assumes that the controller and each channel go on when they can, `DmaComposition`
that the greedy driver applies a pattern as long as one matches (which is what
it does; `Terminates` says it stops), and `ObjectFifos` that some engine moves
as long as one can: since what each engine does is finite, weak fairness of all
of them together is enough.

Every property has a mutant in `PROJECT.json`: a small, plausible change of a
modelled definition under which TLC must find the property violated. The
mutants stand next to the definitions they change.

## 4. Proofs

TLAPS proves the following for every value of the constants: any clients, ops,
semaphores and (finitely many) waits for the queue, any executables, scripts,
run counts, chunk sizes and numbers of faults for the commands, any designs for
the object fifos. The only hypotheses are the named assumptions of the modules
(`ConstantsAssumption`, `ScriptsAssumption`, `ExecBufferAssumption`,
`DesignsAssumption`), and one more for each of `ListsActInOrder` and
`BuffersAreExclusive`, both explained below.

| Module | Theorem | States |
|---|---|---|
| `AsyncQueueProofs` | `Inductive` | `IndInv` holds initially and every step keeps it |
| | `TypeCorrect`, `CountCorrect`, `RunsAfterWaits` | `TypeOK`, `WaitCountIsHeld`, `RunsOnlyAfterWaits` |
| `AsyncQueueHandoff` | `HandoffInductive` | `HandoffInv`, relative to `IndInv` |
| | `OpsPushedOnce`, `ArmedOpsLinked`, `NoDanglingOps` | `PushedOnce`, `ArmedIsLinked`, `NoUseAfterFree` |
| `AsyncQueueDrain` | `DrainInductive` | `DrainInv`, relative to both |
| | `ExitLeavesNothing`, `WakeupsComplete` | `NothingLeftBehind`, `NoLostWakeup` |
| `AsyncQueueRefinement` | `SignalsInductive` | `SignalsDone` |
| | `Refinement` | `KeepsContract`: the queue implements `QueueContract` |
| `AsyncQueueOrder` | `OrderInductive`, `EndsInOrder` | `OrderInv`, `SubmissionOrder` |
| `CommandBufferProofs` | `CommandsInductive` | `IInv` |
| | `CommandTypes`, `SlotsOnTheirImage`, `ErrorsAreReal`, `ResultsReachHost` | `TypeOK`, `RunsOnItsImage`, `OnlyRealErrors`, `HostSeesResults` |
| `CommandOrder` | `OrderInductive`, `ListsActInOrder` | `OrderInv`, `ChainedOrder` |
| `FifoProofs` | `FifosInductive` | `IInv` |
| | `OneToOneExclusive`, `BuffersAreExclusive` | `Exclusive` of every fifo with one user at each end; `BufferExclusive` where all fifos are such |
| | `ConsumersReadOldest` | `ReadsOldest` |
| | `FifosActAsQueues` | `ActsAsQueue`: the fifos implement `FifoContract` |

Every safety property that a run checks of the queue and of the command buffer
is thereby a theorem, and so is what the running half of the object fifos does.

### The queue

`IndInv` adds to the three invariants of `AsyncQueueProofs` what they rest on:

- `Owner`: a timepoint that is being fired, failed or refused is in the hands
  of exactly one thread, and an error is on the op before its unit is returned.
  Without it two threads could both return a unit for one timepoint.
- `Destroyer`: one client at most is in destroy; what it has cancelled belongs
  to the op at the head of its walk, whose error is already set. Without it
  `CancelDec` could subtract units of another op.
- `ArmedIsBorn`: only accepted ops have timepoints that left "unarmed".
- `ErrorKept`: a wait that failed, was refused or cancelled has left an error
  on its op, which is what keeps the worker from running the body.
- `FiredIsReached`: a timepoint that fired was reached, and timelines do not go
  back.
- `HandedOnIsDone`: whatever is on the ready stack, in the worker's batch, in
  the canceller's chain or in a push has wait count zero.
- `AtWork`: the worker signals only for an op whose waits all fired, and the
  history variable says so for ever.

The proof has one step per action, grouped by the variables an action writes
(`Writers`: a variable its writers do not write is left alone), so that each
conjunct is only looked at for the actions that can disturb it. The count is
handled by `HeldFinite`, `WaitDecEffect` and `WonIsHeld`, on the cardinality of
the set of held waits.

`HandoffInv` follows an op through the lists. `InOneHand` says that the pushes,
the chain of `cancel_inflight`, the stack and the batch are free of duplicates
and of each other; without it a second push of an op could not be told from the
first. `InflightWaits` says that the inflight list holds the ops that wait and
that `enqueue` has linked, and otherwise only what a push is about to splice out, and `WalkIsInflight` that the walk of the
canceller stays inside it, which is why the canceller never meets a freed op.
`Enqueuers`, `PushIdle`, `DestroyerIdle` and `BatchDone` say what a thread may
conclude from its own place in the code, and `FreedIsDone` closes the circle:
only what has no wait left is freed, so no timepoint leads to freed memory.

`DrainInv` is about the end. `CountIsLive` equates `inflight_count` with the
number of unreleased ops, `ShutdownIsDrained` gives the destroyer, the flag and
what the worker has seen of it their order, `EndsOnce` ties an op's outcome to
the worker's place, and `PostComes` names, for each sleeper and each condition
it may miss, the thread that will post. `NoLostWakeup` is not inductive without
the last: a push happens before its post.

`Refinement` shows every action to be a step of `QueueContract` or a stutter
under the mapping of `AsyncQueue`. It uses all of the above, and `SignalsDone`:
what the worker has taken off a signal list was advanced, or failed, so the
contract's `End` finds its whole list done.

`OrderInv` of `AsyncQueueOrder` says of two wait-free ops of one client that the
earlier is below the later on the stack, before it in the batch, and pushed
when the later one is on the stack: the two reversals cancel. Ops with waits
and cancelled ops are excluded, as in `SubmissionOrder`.

### The command buffer

`IInv` has five parts besides the types. `Shapes` types the sequences the model
builds. `Places` says what each place of the worker excludes: groups are empty
outside of chain mode, a flush is inside its group. `Images` ties the cache, the
kept contexts and the groups to the PDI and CU their contexts were created
with, and says that a group retains the context its bare queue pointer refers
to; it is what makes address reuse harmless. `Fits` counts the buffers of a group against the commands it stems
from, so that a chunk is refused only if the list itself is too large.
`Visible` says which writes the host has yet to see, and that the calls, slots
or syncs still to come will show them.

`CommandOrder` proves that a list acts as recorded. Its invariant cannot speak
of the memory alone: in chain mode memory lags behind the list, by whole groups
while it is replayed and by single slots while it is flushed. `Leads` therefore
says that the calls still to be made *lead* from the memory there is to the
memory the reference has at this command: there is a trace, a memory per slot
and group, that starts in `dev` and ends in `Reference[at - 1]`. A dispatch
extends the trace at its end, a slot that runs moves along it, and a transfer
acts on all of it at once, because it shares no written buffer with any slot
that waits (`Commute`; this is where lists with `Overtaken` are excluded).
`SlotsInv` adds what makes a slot compute what its dispatch meant: every slot
finds its configuration made by the slot before it in its group (`GroupSlots`,
`ConfigKept`, `RunConfig`), or has a context nobody else is given
(`FreshGroups`).

`ListsActInOrder` has the hypothesis `ReconfigureRuns > 0`. The number is the
option `amdxdna_n_reconfigure_runs`, 1 unless a benchmark sets it; the code
accepts 0 (`executable.cc:107`) and then never sends the configuration a kernel
runs under, so nothing is meant by order of effects there. The other theorems
about the commands hold for 0 too.

Recursive functions without induction theorems. `Memories` and
`Executions` are recursive functions, and the library's theorems about those
take an operator as parameter, which the provers cannot instantiate. `LeastNat` (a
set of numbers has a least one, from the well-foundedness of `<`) takes their
place: the set of indices at which a function of the wanted kind does not exist
has no least member, hence none (`MemoriesSteps`, `ExecutionsSteps`;
`TraceDomain` argues in the same way along a trace).

### The object fifos

The theorems are about `ArraySpec`: any depths, connections, cores and supplies,
any number of blocks per object, any core code in step. The actions of the array
are many, but a fifo sees few of them. `At` and `Busy` say where an end is among
the buffers and whether it has claimed one, be its user a channel somewhere in
its ring or a core somewhere in its text, and `RunMoves` shows that every step
of any engine is, for a given fifo, one of five moves (`Moved`): the producer
claims a buffer, fills and releases it, the consumer claims one, releases it, or
nothing changes. That is where the code is: `DescriptorNext` is the arithmetic
of a ring with several descriptors per buffer, of which only the first acquires
and only the last releases; `TextStep` and `CoreAdvances` count the acquires and
releases of a core's text, across the jump back to its beginning.

The invariant then is about five numbers per fifo. `BufferExclusive` says
nothing of counters and is far from inductive; `IInv` adds

- `Units`: the two locks and the two claims add up to what the producer lock
  was initialised with, so no more than the depth is ever claimed or filled;
- `InTurn`: the producer is ahead of the consumer by the filled buffers, modulo
  the depth;
- `HeldBuffer`: a core holds the buffer its place in the text says, although it
  was fixed at the acquire;
- `Image`, `Engines`: rings and texts have the shape the loader gave them, and
  every channel and core is somewhere in its own.

Two users at the same buffer would make the distance between the ends zero
modulo the depth with at least one filled buffer and one claimed for writing,
which `Units` excludes. `ReadsOldest` is the same distance read from the other
side. For the refinement `MovedQueue` shows what each move does to the sequence
of filled buffers: only `EndsWrite` appends and only `EndsRead` takes the head.

`OneToOne` excludes fifos with several producers or several consumer
connections: their users share one counter, a fast one can draw the units a slow
one needs, and the theorems would be false for them beyond one object. What
links `ArraySpec` to the compiler is `CompilesInStep`: a step `Compile` loads an
image in step and is then a step `Loads`, the other actions are the same. The
loop of `fifo_odd_loop` is a program for which it fails.

### What stays with TLC

- Liveness: `ReachedOpsEnd`, `DestroyReturns`, `AllOperationsEnd`, `Completes`,
  `Terminates`, `AllDelivered`. The prover has no fairness and no ENABLED.
- The compiler passes. `AssignNpuDmaBdIds`, `NpuDmaPasses`, `DmaUtils`,
  `DmaComposition` and `CoreLocks` are recursions over programs with RECURSIVE
  operators, which no module with a theorem can reach, and `NpuControlCode` and
  `ObjectFifos` compose them: all properties of the first and of
  `DmaComposition`, and `CompilesInStep` and `DataInOrder` of the second (whose
  reference, `ObjectOn`, is a recursion over the design as well).

## 5. Where code and comments disagree

| Run | What TLC finds |
|---|---|
| `queue_last_read` | `enqueue` evaluates `i < op->wait_list.count` once more after arming the last timepoint, when the worker may already have released the op. |
| `commands_reordered` | With `cmd_chain` a write or copy recorded after a dispatch and a barrier runs before the dispatch. Lists without such a dependency keep their order (`ChainedOrder`). |
| `npu_folded` | `FoldDmaWaits` forgets which descriptors the waits it has folded protect, per connection instead of per tile: with three connections a wait moves past the rewriting of its descriptor, and the channel moves other data. With one or two connections, or with the DMAs of a body before their waits, `TransfersInOrder` holds on one tile (for several see section 3). |
| `npu_uneven_tiles` | `InsertDmaBdChain` closes the chains of one tile when its descriptors run out, while the chain of an input on another tile stays open: its push is deferred past the wait for an output computed from it, and the control code hangs. Where the tiles serve equally many connections, `Completes` holds. |
| `dma_two_offsets` | A loop variable in two offsets of one pattern becomes two dimensions of the full trip count: n * n transfers instead of n. |
| `fifo_odd_loop` | The buffers fixed in the text of an unrolled core loop get out of step with the DMA's ring when unrolling leaves two or more trips: they stay a loop whose one acquire takes one buffer. One trip left over is promoted into the outer loop, which is then unrolled too, and stays in step (a design of `object_fifos`); so depth 2, the default, is not affected. |

Three more places of the queue are hazards without a property, each with its
reason in `PROJECT.json`: the post of `push_ready` after the op has been handed
on (`async_queue.cc:174`), the order in which cancelled ops end (`:443`) and the
tracker cleared between two reads (`:298`).

## 6. Plan

Done: the queue with its contract, refinement, liveness, and all of its safety
properties proved; the command buffer in both modes, likewise; the control code
from loop nest to DMA channels; the composition of DMA operations; object fifos
with their contract. The running half of the object fifos is a module of its own
(`FifoEngines`), and its safety is proved.

Next: the same split of `NpuControlCode` into passes and shim, which would give
`QueueWithinLimit` as a theorem about any control code that folds its waits
within the limit; and a contract for fifos with several users of one end, which
needs locks of their own in the code first.

After that, by what they add: buffer addresses and localized locks of the AIE
dialect, the amsel generator and the router's iterations, the submission side of
the device's queue calls, the executable verifier against what a dispatch
indexes.

## 7. Not modelled, and why

- The kernel driver, the firmware and the IREE base library: outside the
  repository; assumed as described in section 2.
- Bytes: contents of buffers, control code and flatbuffers are abstract, and so
  are the patching of words and the verification of a flatbuffer.
- The submission side of the device's queue calls, creation and options of the
  driver: they build objects and pass them on.
- Tracing, profiling, error texts, reference counts of HAL resources that only
  go up and down with a scope.
- Most of the compiler by size: tilings, vector lowering (AIEVec, XLLVM), the
  AIE dialect and the local rewrites. Their state is the IR, and their
  correctness is the semantics of MLIR dialects rather than a protocol.
- Code generation targets, the KMQ shim, and the XRT driver: they run tools,
  write files or forward calls to a library, one at a time.
- The router, the amsel generator and buffer addresses: pure algorithms, not
  yet modelled. Tables of the device model appear as constants.
- Tests, build scripts, sample plugins, vendored headers.

## 8. Running

    tlc -config AsyncQueueJoin.cfg MCAsyncQueue
    tlc -config CommandBuffer.cfg MCCommandBuffer
    tlc -config NpuControlCode.cfg MCNpuControlCode
    tlapm AsyncQueueProofs.tla
    tlapm CommandOrder.tla
    tlapm FifoProofs.tla

`tlapm` on a module checks the proofs of that module; each of the eight proof
modules of section 4 is checked by itself. `CommandBufferProofs` and
`CommandOrder` take the longest, some minutes each.

`PROJECT.json` has all runs with their modules, configurations, mutants and the
map from definitions to source lines.
