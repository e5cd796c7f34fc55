---------------------------- MODULE CommandBuffer ----------------------------
(***************************************************************************)
(* What the worker of the amdxdna queue does with one operation after      *)
(* another: it replays a recorded command list through a direct command    *)
(* buffer (direct_command_buffer.cc), copies a range, or marks a buffer    *)
(* deallocated (device.cc).                                                *)
(*                                                                         *)
(* A buffer has two copies, the one the host sees through its mapping and  *)
(* the one the device reads; only a sync moves bytes between them.  The    *)
(* contents are terms that record how they were computed, so two memories  *)
(* are equal exactly when the same operations were applied in an order     *)
(* that shows no difference.                                               *)
(*                                                                         *)
(* A native context is named by its address.  It is alive as long as a     *)
(* shared_ptr refers to it, and its address is free to be handed out again *)
(* afterwards; the bare queue pointer a chain group keeps does not count.  *)
(*                                                                         *)
(* One thread runs all of this, so an action is one native call or one     *)
(* handler that makes none that the others can tell apart.  Any native     *)
(* call may fail, MaxFaults of them in a behaviour.                        *)
(***************************************************************************)
EXTENDS Integers, Sequences, FiniteSets, Functions

CONSTANTS
  Buffers,        \* buffers (binding ranges)
  Executables,    \* executable -> its entry points, records of EntryPoint
  Contexts,       \* addresses of native contexts
  NoContext,      \* a null shared_ptr
  NoPdi,          \* an entry point without a PDI
  CmdChainModes,  \* the values of device->cmd_chain
  KernelRuns,     \* n_kernel_runs
  ReconfigureRuns,\* n_reconfigure_runs
  ChainBytes,     \* bytes of an exec buffer left for the slots of a chain
  ArgCapacity,    \* buffers one submitted command can bind
  Scripts,        \* the sequences of queue operations submitted
  MaxFaults       \* bound on the native calls that fail

\* kernel_params: its PDI or NoPdi, its CU name, how many reconfigurations
\* it makes and whether the host patch table is there.
EntryPoint == [pdi : STRING \cup {NoPdi}, name : STRING, reconfigurations : Nat,
               patched : BOOLEAN]

ASSUME ConstantsAssumption ==
  /\ NoContext \notin Contexts
  /\ \A x \in DOMAIN Executables : \A i \in DOMAIN Executables[x] :
       LET e == Executables[x][i]
       IN  e \in EntryPoint /\ (e.reconfigurations = 0 => e.pdi # NoPdi)
  /\ CmdChainModes \subseteq BOOLEAN
  /\ KernelRuns \in Nat /\ ReconfigureRuns \in Nat
  /\ ChainBytes \in Nat /\ ArgCapacity \in Nat /\ MaxFaults \in Nat

\* The exec buffer of a chain has room for a slot: it has 4096 bytes.
ASSUME ExecBufferAssumption == ChainBytes >= 8

\* A recorded command names buffers and an executable that exist; its entry
\* point may be out of range.
IsCommand(c) ==
  \/ c.do = "barrier" /\ c.host \in BOOLEAN
  \/ c.do = "write" /\ c.to \in Buffers
  \/ c.do = "copy" /\ {c.from, c.to} \subseteq Buffers
  \/ c.do = "dispatch" /\ {c.from, c.to} \subseteq Buffers /\ c.exe \in DOMAIN Executables

\* What is submitted to the queue: at least one operation, in a sequence.
IsOperation(o) ==
  \/ o.kind = "barrier"
  \/ o.kind = "dealloca" /\ o.buffer \in Buffers
  \/ o.kind = "copy" /\ {o.from, o.to} \subseteq Buffers
  \/ /\ o.kind = "execute" /\ o.commands \in Seq(Range(o.commands))
     /\ \A c \in Range(o.commands) : IsCommand(c)

ASSUME ScriptsAssumption ==
  \A s \in Scripts :
    /\ s \in Seq(Range(s)) /\ s # <<>>
    /\ \A o \in Range(s) : IsOperation(o)

VARIABLES
  cmd_chain,    \* device->cmd_chain, an option of the device
  script,       \* the operations, in the order the worker runs them
  item,         \* index of the operation under way
  pc,           \* "start", "replay", "run", "flush", "chain", "ended", "done"
  at,           \* index of the next command of its list
  status,       \* "ok" or "error"
  run,          \* the dispatch under way: its context and the calls left
  groups,       \* chain_accum.groups
  flushing,     \* the group being flushed, the begin of its chunk and the
                \* slots of the group that have run
  max_slots,    \* device->chain_max_slots, 0 before it is probed
  host, dev,    \* the two copies of every buffer
  deallocated,  \* the buffers marked deallocated
  image,        \* what each context was created with: PDI and CU name
  config,       \* what its array is configured as
  cache,        \* device->pdi_context_cache
  exe_context,  \* executable->context
  faults,       \* native calls that failed so far
  before,       \* history: dev when the operation began
  blamed        \* history: a native call failed in this operation

deviceVars  == <<host, dev, deallocated>>
contextVars == <<image, config, cache, exe_context>>
chainVars   == <<groups, flushing, max_slots>>
placeVars   == <<script, item, pc, at, status, run>>
historyVars == <<faults, before, blamed>>
vars == <<cmd_chain, placeVars, chainVars, deviceVars, contextVars, historyVars>>

Idle == [context |-> NoContext, calls |-> <<>>]

Op == script[item]
Command == Op.commands[at]
Entry(c) == Executables[c.exe][c.entry]
Key(e) == <<e.pdi, e.name>>

-----------------------------------------------------------------------------
(***************************************************************************)
(* Contexts                                                                *)
(***************************************************************************)

\* The contexts some shared_ptr refers to.
Alive == ({cache[k] : k \in DOMAIN cache} \cup {exe_context[x] : x \in DOMAIN exe_context}
          \cup {groups[i].context : i \in DOMAIN groups} \cup {run.context})
         \ {NoContext}

\* native_device_create_context at a free address: the PDI is loaded.
NewContext(c, key) ==
  /\ c \in Contexts \ Alive
  /\ image' = [image EXCEPT ![c] = key]
  /\ config' = [config EXCEPT ![c] = key]

-----------------------------------------------------------------------------
(***************************************************************************)
(* The native calls of a dispatch                                          *)
(***************************************************************************)

\* How many calls one run of the control code makes: the reconfiguration is
\* submitted ReconfigureRuns times, the kernel KernelRuns times.
Reconfigures(e) == IF e.reconfigurations = 0 THEN 0 ELSE ReconfigureRuns
RunsOf(e) == IF e.reconfigurations = 0 THEN 1 ELSE e.reconfigurations

\* The slots the dispatch c adds to a chain, in order.
Slots(c) ==
  LET e == Entry(c)
      period == Reconfigures(e) + KernelRuns
  IN  [j \in 1 .. RunsOf(e) * period |->
         [do |-> IF (j - 1) % period < Reconfigures(e) THEN "reconfigure" ELSE "execute",
          nth |-> 1 + (j - 1) \div period,
          cmd |-> c]]

\* The calls of the same dispatch when each is submitted on its own: after
\* the kernel has run KernelRuns times, if it ran at all, its bindings are
\* synced back to the host.
Calls(c) ==
  LET e == Entry(c)
      period == Reconfigures(e) + KernelRuns + (IF KernelRuns = 0 THEN 0 ELSE 1)
  IN  [j \in 1 .. RunsOf(e) * period |->
         [do |-> IF (j - 1) % period < Reconfigures(e) THEN "reconfigure"
                 ELSE IF (j - 1) % period < Reconfigures(e) + KernelRuns THEN "execute"
                 ELSE "sync",
          nth |-> 1 + (j - 1) \div period,
          cmd |-> c]]

\* The configuration the nth reconfiguration of an entry point loads.
Configuration(c, n) == <<c.exe, c.entry, n>>

\* The effect of one submitted call on what device memory holds and on the
\* configuration of the array it runs on.
Submit(s, d) ==
  CASE s.do = "reconfigure" -> [d EXCEPT !.config = Configuration(s.cmd, s.nth)]
    [] s.do = "execute" ->
         [d EXCEPT !.dev[s.cmd.to] = <<s.cmd.exe, s.cmd.entry, s.nth, d.config, d.dev[s.cmd.from]>>]
    [] OTHER -> d

Bindings(c) == {c.from, c.to}

\* Mutant of Invalidated: the mapping keeps what it held.
KeptStale(bs) == host

\* iree_hal_amdxdna_buffer_invalidate_range, for a set of buffers.
Invalidated(bs) == [b \in Buffers |-> IF b \in bs THEN dev[b] ELSE host[b]]

-----------------------------------------------------------------------------
(***************************************************************************)
(* Control                                                                 *)
(***************************************************************************)

\* A handler returned an error: the replay stops there, end is not called,
\* and the command buffer is released with the chain it has accumulated.
Abort ==
  /\ pc' = "ended" /\ status' = "error"
  /\ run' = Idle /\ groups' = <<>>
  /\ UNCHANGED <<script, item, at, flushing, max_slots, before>>

\* The handler refuses what it was asked to do.
Refuse == Abort /\ UNCHANGED <<faults, blamed>>

\* One of its native calls fails.
Fault ==
  /\ faults < MaxFaults
  /\ faults' = faults + 1 /\ blamed' = TRUE
  /\ Abort

Replaying == pc = "replay" /\ at <= Len(Op.commands)

\* The handler of the command returned ok.
NextCommand == at' = at + 1 /\ UNCHANGED <<script, item, pc, status, run>>

\* The operation returned ok.
Succeed ==
  /\ pc' = "ended"
  /\ UNCHANGED <<script, item, at, status, run>>

-----------------------------------------------------------------------------
(***************************************************************************)
(* Operations without a command buffer                                     *)
(***************************************************************************)

\* Every operation starts with its history reset.
Starting(kind) ==
  /\ pc = "start" /\ Op.kind = kind
  /\ before' = dev

\* iree_hal_amdxdna_queue_copy_op_fn: both buffers are looked at again, the
\* source is invalidated, the bytes are copied and the target is flushed.
QueueCopy ==
  /\ Starting("copy")
  /\ pc' = "ended"
  /\ UNCHANGED <<script, item, at, run, chainVars, contextVars, deallocated>>
  /\ LET live   == {Op.from, Op.to} \cap deallocated = {}
         copied == [host EXCEPT ![Op.from] = dev[Op.from], ![Op.to] = dev[Op.from]]
     IN  \/ /\ ~live
            /\ status' = "error" /\ blamed' = FALSE
            /\ UNCHANGED <<host, dev, faults>>
         \/ /\ live
            /\ host' = copied /\ dev' = [dev EXCEPT ![Op.to] = dev[Op.from]]
            /\ blamed' = FALSE
            /\ UNCHANGED <<status, faults>>
         \/ /\ live /\ faults < MaxFaults
            /\ faults' = faults + 1 /\ status' = "error" /\ blamed' = TRUE
            /\ host' \in {host, copied} /\ UNCHANGED dev

\* A queue_execute without a command buffer, or the empty body of a
\* queue_alloca: only the semaphores matter.
QueueBarrier ==
  /\ Starting("barrier") /\ blamed' = FALSE
  /\ Succeed
  /\ UNCHANGED <<chainVars, deviceVars, contextVars, faults>>

\* iree_hal_amdxdna_dealloca_op_fn
QueueDealloca ==
  /\ Starting("dealloca") /\ blamed' = FALSE
  /\ deallocated' = deallocated \cup {Op.buffer}
  /\ Succeed
  /\ UNCHANGED <<chainVars, host, dev, contextVars, faults>>

\* iree_hal_amdxdna_queue_execute_op_fn creates a direct command buffer and
\* replays the recorded list into it.
QueueExecute ==
  /\ Starting("execute")
  /\ UNCHANGED <<script, item, chainVars, deviceVars, contextVars, run>>
  /\ \/ /\ pc' = "replay" /\ at' = 1 /\ blamed' = FALSE
        /\ UNCHANGED <<status, faults>>
     \/ /\ faults < MaxFaults /\ faults' = faults + 1 /\ blamed' = TRUE
        /\ pc' = "ended" /\ status' = "error" /\ at' = 1

\* The worker takes the next operation.
NextOperation ==
  /\ pc = "ended"
  /\ IF item = Len(script) THEN pc' = "done" /\ UNCHANGED <<item, status>>
                           ELSE pc' = "start" /\ item' = item + 1 /\ status' = "ok"
  /\ UNCHANGED <<script, at, run, chainVars, deviceVars, contextVars, historyVars>>

-----------------------------------------------------------------------------
(***************************************************************************)
(* Commands other than a dispatch                                          *)
(***************************************************************************)

\* execution_barrier, signal_event, reset_event and wait_events do nothing,
\* but a barrier that involves the host is not supported.
Barrier ==
  /\ Replaying /\ Command.do = "barrier"
  /\ IF Command.host THEN Refuse
                     ELSE NextCommand /\ UNCHANGED <<chainVars, historyVars>>
  /\ UNCHANGED <<deviceVars, contextVars>>

\* update_buffer and fill_buffer write the mapping and flush the range.
Write ==
  /\ Replaying /\ Command.do = "write"
  /\ LET written == [host EXCEPT ![Command.to] = Command.value]
     IN  \/ /\ host' = written
            /\ dev' = [dev EXCEPT ![Command.to] = Command.value]
            /\ NextCommand /\ UNCHANGED <<chainVars, historyVars>>
         \/ Fault /\ host' \in {host, written} /\ dev' = dev
  /\ UNCHANGED <<deallocated, contextVars>>

\* copy_buffer goes through two scoped mappings: mapping invalidates, and
\* unmapping flushes, the target first and then, whatever came of it, the
\* source.
Copy ==
  /\ Replaying /\ Command.do = "copy"
  /\ LET mapped == Invalidated({Command.from})
         both   == Invalidated({Command.from, Command.to})
         copied == [both EXCEPT ![Command.to] = both[Command.from]]
     IN  \/ /\ host' = copied
            /\ dev' = [dev EXCEPT ![Command.to] = copied[Command.from]]
            /\ NextCommand /\ UNCHANGED <<chainVars, historyVars>>
         \/ Fault /\ host' \in {host, mapped, copied} /\ dev' = dev
  /\ UNCHANGED <<deallocated, contextVars>>

-----------------------------------------------------------------------------
(***************************************************************************)
(* Dispatch                                                                *)
(***************************************************************************)

Dispatching == Replaying /\ Command.do = "dispatch"

\* The entry point is out of range or a binding is deallocated.
Invalid(c) == \/ c.entry \notin DOMAIN Executables[c.exe]
              \/ Bindings(c) \cap deallocated # {}

\* Mutant of NewGroup: the group does not retain its context.
Unretained(x) == [context |-> NoContext, queue |-> x, slots |-> <<>>, sequences |-> 0, bindings |-> <<>>]

\* accumulate_chained: the slots go into the last group, or into a new one
\* when the native queue changes.  A group keeps its context alive.
NewGroup(x) == [context |-> x, queue |-> x, slots |-> <<>>, sequences |-> 0, bindings |-> <<>>]

Accumulate(c, x) ==
  LET open == IF groups = <<>> \/ groups[Len(groups)].queue # x
              THEN Append(groups, NewGroup(x)) ELSE groups
      n    == Len(open)
      g    == open[n]
  IN  /\ groups' = [open EXCEPT ![n] =
                      [g EXCEPT !.slots = g.slots \o Slots(c),
                                !.sequences = g.sequences + Entry(c).reconfigurations,
                                !.bindings = g.bindings \o <<c.from, c.to>>]]
      /\ NextCommand
      /\ UNCHANGED <<flushing, max_slots, deviceVars, historyVars>>

\* The context is there: either the chain grows, unless a slot cannot be
\* built, or the calls are made now.
Proceed(c, x) ==
  IF cmd_chain
  THEN IF Entry(c).patched THEN Accumulate(c, x) \/ (Fault /\ UNCHANGED deviceVars)
                           ELSE Refuse /\ UNCHANGED deviceVars
  ELSE /\ IF Calls(c) = <<>> THEN NextCommand
          ELSE /\ pc' = "run" /\ run' = [context |-> x, calls |-> Calls(c)]
               /\ UNCHANGED <<script, item, at, status>>
       /\ UNCHANGED <<chainVars, deviceVars, historyVars>>

\* native_context_open_cu finds the CU by name.
OpenCu(c, key) == key[2] = Entry(c).name

\* Mutant of CacheKey: the CU name is left out.
PdiOnly(e) == <<e.pdi, "">>

\* The key of iree_hal_amdxdna_device_get_or_create_context.
CacheKey(e) == Key(e)

\* An entry point without reconfigurations gets a context of its own.
DispatchFresh ==
  /\ Dispatching /\ ~Invalid(Command)
  /\ Entry(Command).reconfigurations = 0
  /\ \E x \in Contexts : NewContext(x, Key(Entry(Command))) /\ Proceed(Command, x)
  /\ UNCHANGED <<cache, exe_context>>

\* iree_hal_amdxdna_device_get_or_create_context gives x for the entry point e.
GetOrCreate(e, x) ==
  LET k == CacheKey(e)
  IN  IF cache[k] # NoContext
      THEN x = cache[k] /\ UNCHANGED <<image, config, cache>>
      ELSE NewContext(x, Key(e)) /\ cache' = [cache EXCEPT ![k] = x]

\* A control-packet entry point with a PDI shares the cached context, which
\* the executable then keeps.
DispatchCached ==
  /\ Dispatching /\ ~Invalid(Command)
  /\ Entry(Command).reconfigurations > 0 /\ Entry(Command).pdi # NoPdi
  /\ \E x \in Contexts :
       /\ GetOrCreate(Entry(Command), x)
       /\ IF OpenCu(Command, image'[x])
          THEN /\ exe_context' = [exe_context EXCEPT ![Command.exe] = x]
               /\ Proceed(Command, x)
          ELSE Refuse /\ UNCHANGED <<exe_context, deviceVars>>

\* One without a PDI runs on the context its executable keeps.
DispatchKept ==
  /\ Dispatching /\ ~Invalid(Command)
  /\ Entry(Command).reconfigurations > 0 /\ Entry(Command).pdi = NoPdi
  /\ LET x == exe_context[Command.exe]
     IN  IF x = NoContext THEN Refuse /\ UNCHANGED deviceVars ELSE Proceed(Command, x)
  /\ UNCHANGED contextVars

\* A dispatch that is refused, or fails before it has a context: the
\* executable cannot be retained or the context cannot be created.
DispatchFails ==
  /\ Dispatching
  /\ IF Invalid(Command) THEN Refuse ELSE Fault
  /\ UNCHANGED <<deviceVars, contextVars>>

\* One call of normal_run or reconfigure, submitted and waited for.  When the
\* submission or the wait fails the device may have run the command or not.
RunCall ==
  /\ pc = "run"
  /\ LET s == Head(run.calls)
         x == run.context
         d == Submit(s, [dev |-> dev, config |-> config[x]])
     IN  \/ /\ dev' = d.dev /\ config' = [config EXCEPT ![x] = d.config]
            /\ host' = IF s.do = "sync" THEN Invalidated(Bindings(s.cmd)) ELSE host
            /\ IF Len(run.calls) = 1
               THEN pc' = "replay" /\ at' = at + 1 /\ run' = Idle
               ELSE UNCHANGED <<pc, at>> /\ run' = [run EXCEPT !.calls = Tail(@)]
            /\ UNCHANGED <<script, item, status, chainVars, historyVars>>
         \/ /\ Fault
            /\ \/ dev' = dev /\ config' = config
               \/ dev' = d.dev /\ config' = [config EXCEPT ![x] = d.config]
            /\ host' \in {host, Invalidated({s.cmd.from})}
            /\ (s.do = "sync" \/ host' = host)
  /\ UNCHANGED <<deallocated, image, cache, exe_context>>

-----------------------------------------------------------------------------
(***************************************************************************)
(* End of the command list and the flush of the chains                     *)
(***************************************************************************)

\* Mutant of MaxSlots: a slot is taken for a whole packet of 64 bytes.
PacketSlots == IF ChainBytes > 0 THEN ChainBytes \div 64 ELSE 1

\* iree_hal_amdxdna_native_device_query_chain_max_slots
MaxSlots == IF ChainBytes > 0 THEN ChainBytes \div 8 ELSE 1

\* The place before the first chunk of group g.
FirstOf(g) == [group |-> g, begin |-> 0, slot |-> 0]

\* end: nothing to do without a chain, else flush_chains, which asks for the
\* number of slots the first time.
End ==
  /\ pc = "replay" /\ at > Len(Op.commands)
  /\ \/ /\ groups = <<>>
        /\ Succeed /\ UNCHANGED <<chainVars, historyVars>>
     \/ /\ groups # <<>>
        /\ pc' = "flush" /\ flushing' = FirstOf(1)
        /\ max_slots' = IF max_slots = 0 THEN MaxSlots ELSE max_slots
        /\ UNCHANGED <<script, item, at, status, run, groups, historyVars>>
     \/ /\ groups # <<>> /\ max_slots = 0
        /\ Fault
  /\ UNCHANGED <<deviceVars, contextVars>>

Flushing == groups[flushing.group]

\* Mutant of ChunkEnd: the last slot of a full chunk is left out.
ShortChunk(b) == IF b + max_slots < Len(Flushing.slots) THEN b + max_slots - 1 ELSE Len(Flushing.slots)

\* The end of the chunk of slots that starts after the slot b.
ChunkEnd(b) == IF b + max_slots < Len(Flushing.slots) THEN b + max_slots ELSE Len(Flushing.slots)

\* submit_chain: the chunk has to fit the exec buffer, and with the buffers of
\* the whole group the bindings of one command; then it is submitted.
FlushChunk ==
  /\ pc = "flush" /\ flushing.begin < Len(Flushing.slots)
  /\ LET n    == ChunkEnd(flushing.begin) - flushing.begin
         fits == /\ 8 * n <= ChainBytes
                 /\ n + Flushing.sequences + Len(Flushing.bindings) <= ArgCapacity
     IN  \/ ~fits /\ Refuse
         \/ /\ fits /\ pc' = "chain"
            /\ flushing' = [flushing EXCEPT !.slot = flushing.begin]
            /\ UNCHANGED <<script, item, at, status, run, groups, max_slots, historyVars>>
         \/ Fault
  /\ UNCHANGED <<deviceVars, contextVars>>

\* The device runs the next slot of the chunk (submit_index), and after the last
\* one the wait returns; when it fails, the slots before this one have run, and
\* this one may have.
ChainSlot ==
  /\ pc = "chain"
  /\ LET x    == Flushing.queue
         next == flushing.slot + 1
         d    == Submit(Flushing.slots[next], [dev |-> dev, config |-> config[x]])
         ran  == dev' = d.dev /\ config' = [config EXCEPT ![x] = d.config]
     IN  \/ /\ ran
            /\ IF next < ChunkEnd(flushing.begin)
               THEN flushing' = [flushing EXCEPT !.slot = next] /\ UNCHANGED pc
               ELSE flushing' = [flushing EXCEPT !.begin = @ + max_slots] /\ pc' = "flush"
            /\ UNCHANGED <<script, item, at, status, run, groups, max_slots, historyVars>>
         \/ Fault /\ (ran \/ UNCHANGED <<dev, config>>)
  /\ UNCHANGED <<host, deallocated, image, cache, exe_context>>

\* All slots of the group have run: its bindings are synced to the host, and
\* after the last group the chain is dropped.
FlushSync ==
  /\ pc = "flush" /\ flushing.begin >= Len(Flushing.slots)
  /\ LET bound == {Flushing.bindings[i] : i \in DOMAIN Flushing.bindings}
     IN  \/ /\ host' = Invalidated(bound)
            /\ IF flushing.group = Len(groups)
               THEN /\ Succeed /\ groups' = <<>> /\ UNCHANGED flushing
               ELSE /\ flushing' = FirstOf(flushing.group + 1)
                    /\ UNCHANGED <<placeVars, groups>>
            /\ UNCHANGED <<max_slots, historyVars>>
         \/ /\ Fault
            /\ \E n \in 0 .. Len(Flushing.bindings) - 1 :
                 host' = Invalidated({Flushing.bindings[i] : i \in 1 .. n})
  /\ UNCHANGED <<dev, deallocated, contextVars>>

-----------------------------------------------------------------------------
AllEntries == UNION {{Executables[x][i] : i \in DOMAIN Executables[x]} : x \in DOMAIN Executables}

Init ==
  /\ cmd_chain \in CmdChainModes /\ script \in Scripts
  /\ item = 1 /\ pc = "start" /\ at = 1 /\ status = "ok" /\ run = Idle
  /\ groups = <<>> /\ flushing = FirstOf(1) /\ max_slots = 0
  /\ dev = [b \in Buffers |-> <<b>>] /\ host = dev /\ deallocated = {}
  /\ image = [x \in Contexts |-> <<NoPdi, "">>] /\ config = image
  /\ cache = [k \in {CacheKey(e) : e \in AllEntries} |-> NoContext]
  /\ exe_context = [x \in DOMAIN Executables |-> NoContext]
  /\ faults = 0 /\ before = dev /\ blamed = FALSE

Next ==
  /\ \/ QueueExecute \/ QueueCopy \/ QueueBarrier \/ QueueDealloca
     \/ NextOperation
     \/ Barrier \/ Write \/ Copy
     \/ DispatchFresh \/ DispatchCached \/ DispatchKept \/ DispatchFails
     \/ RunCall \/ End \/ FlushChunk \/ ChainSlot \/ FlushSync
  /\ UNCHANGED cmd_chain

\* The worker keeps running, and a native call returns: submit_and_wait waits
\* without a timeout, and the kernel driver ends every command it was given.
Spec == Init /\ [][Next]_vars /\ WF_vars(Next)

-----------------------------------------------------------------------------
(***************************************************************************)
(* The reference: every command takes effect where it was recorded         *)
(***************************************************************************)

\* The configuration the nth run of a dispatch is meant for.
Intended(c, n) == IF Entry(c).reconfigurations = 0 THEN Key(Entry(c)) ELSE Configuration(c, n)

\* What one execution of the kernel in the nth run of a dispatch computes.
Executes(c, n, m) == [m EXCEPT ![c.to] = <<c.exe, c.entry, n, Intended(c, n), m[c.from]>>]

\* Memory after each execution of a dispatch: each of its runs executes the
\* kernel KernelRuns times.
Executions(c, m) ==
  LET f[j \in 0 .. RunsOf(Entry(c)) * KernelRuns] ==
        IF j = 0 THEN m ELSE Executes(c, 1 + (j - 1) \div KernelRuns, f[j - 1])
  IN  f

Effect(c, m) ==
  CASE c.do = "write"    -> [m EXCEPT ![c.to] = c.value]
    [] c.do = "copy"     -> [m EXCEPT ![c.to] = m[c.from]]
    [] c.do = "dispatch" -> Executions(c, m)[RunsOf(Entry(c)) * KernelRuns]
    [] c.do = "barrier"  -> m

\* Memory after each command of the list.
Memories(commands, m) ==
  LET f[i \in 0 .. Len(commands)] == IF i = 0 THEN m ELSE Effect(commands[i], f[i - 1])
  IN  f

InOrder(commands, m) == Memories(commands, m)[Len(commands)]

\* A later write or copy of the list shares a buffer with an earlier dispatch,
\* and one of the two writes it.
Overtaken(commands) ==
  \E i, j \in DOMAIN commands :
    /\ i < j /\ commands[i].do = "dispatch" /\ commands[j].do \in {"write", "copy"}
    /\ \/ commands[j].to \in Bindings(commands[i])
       \/ commands[j].do = "copy" /\ commands[j].from = commands[i].to

Executed == pc = "ended" /\ Op.kind = "execute"

-----------------------------------------------------------------------------
(***************************************************************************)
(* Properties                                                              *)
(***************************************************************************)

\* The types of the variables.
TypeOK ==
  /\ cmd_chain \in BOOLEAN
  /\ script \in Scripts /\ item \in 1 .. Len(script) /\ at \in Nat
  /\ pc \in {"start", "replay", "run", "flush", "chain", "ended", "done"}
  /\ status \in {"ok", "error"}
  /\ run.context \in Contexts \cup {NoContext}
  /\ \A i \in DOMAIN groups : {groups[i].context, groups[i].queue} \subseteq Contexts
  /\ flushing \in [group : Nat \ {0}, begin : Nat, slot : Nat] /\ max_slots \in Nat
  /\ DOMAIN host = Buffers /\ DOMAIN dev = Buffers /\ deallocated \subseteq Buffers
  /\ DOMAIN image = Contexts /\ DOMAIN config = Contexts
  /\ \A k \in DOMAIN cache : cache[k] \in Contexts \cup {NoContext}
  /\ \A x \in DOMAIN exe_context : exe_context[x] \in Contexts \cup {NoContext}
  /\ faults \in 0 .. MaxFaults /\ blamed \in BOOLEAN

\* A command list that was replayed without an error has left device memory
\* as its commands do one after the other.
RecordedOrder ==
  Executed /\ status = "ok" => dev = InOrder(Op.commands, before)

\* The same, in chain mode only of the lists in which no write or copy follows
\* a dispatch it depends on: dispatches keep their order through repeated
\* runs, groups, chunks and changes of context.
ChainedOrder ==
  Executed /\ status = "ok" /\ (cmd_chain => ~Overtaken(Op.commands))
    => dev = InOrder(Op.commands, before)

\* After a list that succeeded the host sees what the device holds in every
\* buffer the list wrote.
HostSeesResults ==
  Executed /\ status = "ok" =>
    \A i \in DOMAIN Op.commands :
      LET c == Op.commands[i]
      IN  c.do \in {"write", "copy"} \/ (c.do = "dispatch" /\ KernelRuns > 0) => host[c.to] = dev[c.to]

\* Every slot waiting in a chain will run on a context that is alive and that
\* was created with the PDI and the CU of its entry point, although a group
\* keeps a bare pointer to the native queue and compares pointers to find its
\* dispatches, and addresses of dead contexts are used again.
RunsOnItsImage ==
  \A i \in DOMAIN groups :
    /\ groups[i].queue \in Alive
    /\ \A j \in DOMAIN groups[i].slots :
         LET e == Entry(groups[i].slots[j].cmd)
         IN  e.pdi # NoPdi => image[groups[i].queue] = Key(e)

\* What the driver says it does not support: the list cannot be replayed.
Unsupported(c) ==
  \/ c.do = "barrier" /\ c.host
  \/ /\ c.do = "dispatch"
     /\ \/ Invalid(c)
        \/ cmd_chain /\ ~Entry(c).patched
        \/ Entry(c).pdi = NoPdi /\ exe_context[c.exe] = NoContext

\* The buffers a chain binds for the command c: the control code of each of its
\* slots, its reconfiguration sequences and its two bindings.
Weight(c) ==
  IF c.do = "dispatch" THEN Len(Slots(c)) + Entry(c).reconfigurations + 2 ELSE 0

\* As many elements as the first n commands of the list weigh together.
Units(commands, n) == UNION {{i} \X (1 .. Weight(commands[i])) : i \in 1 .. n}

\* A chain of the dispatches of the list would bind more buffers than one
\* command can.
OverCapacity(commands) ==
  cmd_chain /\ Cardinality(Units(commands, Len(commands))) > ArgCapacity

\* An operation fails only when a native call failed in it, or when it asks
\* for something the driver refuses: no failure is left over from an earlier
\* operation, and sharing contexts never makes a dispatch fail.
OnlyRealErrors ==
  pc = "ended" /\ status = "error" =>
    \/ blamed
    \/ Op.kind = "copy" /\ {Op.from, Op.to} \cap deallocated # {}
    \/ /\ Op.kind = "execute"
       /\ \/ \E i \in DOMAIN Op.commands : Unsupported(Op.commands[i])
          \/ OverCapacity(Op.commands)

\* Every operation ends, and so does the worker's work.
AllOperationsEnd == <>(pc = "done")
=============================================================================
